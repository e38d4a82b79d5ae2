---------------------------- MODULE Credentials ----------------------------
(***************************************************************************)
(* The OAuth credentials of the Anthropic provider: the CredentialManager  *)
(* of crates/clankers-provider in every process, the requests that ask it  *)
(* for a credential and come back to it after a 401, the blocking threads  *)
(* that save a refreshed token to auth.json, the file all processes share, *)
(* and the user's login and account switch.                                *)
(*                                                                         *)
(* A token stands for an access token with its refresh token.  The server  *)
(* (what it issues and which requests it rejects) is the environment.  All *)
(* tokens live equally long, so they expire in the order they are issued.  *)
(* A file is written by truncating it and writing it again, and loads as   *)
(* an empty store while it does not parse: a truncated file is one.        *)
(*                                                                         *)
(* A request is cancelled by dropping its future, wherever it waits; what  *)
(* it handed to a blocking thread goes on.                                 *)
(*                                                                         *)
(* The background refresh is one of the tasks: when it wakes it calls      *)
(* get_credential, as the start of a request does.  Left out are API keys, *)
(* which never expire, a second auth file to fall back to, the credential  *)
(* pool of several accounts, and a write that fails half-way.              *)
(***************************************************************************)
EXTENDS Naturals, FiniteSets, Functions

CONSTANTS
    Procs,      \* running processes
    Tasks,      \* tasks that make requests
    Home,       \* the process of each task
    Accounts,   \* account names
    Default,    \* "default", the account of a store that names none
    MaxTokens,  \* bound: tokens the server issues
    NoTask

ASSUME CredentialsAssumption ==
    /\ Home \in [Tasks -> Procs]
    /\ Default \in Accounts
    /\ IsFiniteSet(Accounts)
    /\ MaxTokens \in Nat
    /\ Cardinality(Accounts) <= MaxTokens
    /\ NoTask \notin Tasks

Tokens == 1..MaxTokens
NoToken == 0

VARIABLES
    credential,     \* CredentialManager.credential of each process
    refresh_guard,  \* CredentialManager.refresh_guard of each process: the task that holds it
    req,            \* the request each task makes
    saver,          \* the thread of each task's save_with_file_lock_for_provider
    file,           \* auth.json: the store it loads as
    file_lock,      \* the task whose saver holds the exclusive lock of the file
    user,           \* the user's login or account switch
    touched,        \* the processes the user has logged in or switched in
    issued,         \* tokens issued so far
    expired,        \* the tokens 1..expired are past their recorded expiry
    replaced,       \* history: the token each process got for a refresh token
    lost,           \* history: tokens of refreshes that ended before their step 6
    intact          \* history: every writer so far held the file's lock

server == <<issued, expired>>
vars == <<credential, refresh_guard, req, saver, file, file_lock, user, touched,
          issued, expired, replaced, lost, intact>>

-----------------------------------------------------------------------------
(* AuthStore.                                                              *)

Stores == [active: Accounts, accounts: [Accounts -> Tokens \cup {NoToken}]]

\* AuthStore::load of a missing, empty or damaged file
EmptyStore == [active |-> Default, accounts |-> [a \in Accounts |-> NoToken]]

is_expired(token) == token <= expired

Fresh(token) == token # NoToken /\ ~is_expired(token)

active_credential(store) == store.accounts[store.active]

\* set_credential, with the legacy field it writes beside the account: the next load fills a missing
\* default account from it (migrate_legacy)
set_credential(store, account, token) ==
    [store EXCEPT !.accounts = [a \in Accounts |->
        IF a = account \/ (a = Default /\ @[Default] = NoToken) THEN token ELSE @[a]]]

-----------------------------------------------------------------------------
(* Requests: complete() of the provider, and the manager's part of it.     *)

\* cred is the credential of the request, rt the refresh token do_refresh was called with, store
\* what it read from disk; retried after a 401.
IdleReq == [at |-> "idle", cred |-> NoToken, rt |-> NoToken, retried |-> FALSE, store |-> EmptyStore]

IdleSaver == [at |-> "idle", token |-> NoToken, store |-> EmptyStore]

At(t, where) == req[t].at = where

Goto(t, where) == req' = [req EXCEPT ![t].at = where]

\* The request goes out with a credential; the refresh it made, if any, is over.
SendWith(t, token) ==
    req' = [req EXCEPT ![t] =
              [IdleReq EXCEPT !.at = "send", !.cred = token, !.retried = req[t].retried]]

End(t) == req' = [req EXCEPT ![t] = IdleReq]

\* Mutant: the guard outlives the refresh.
KeepGuard(t) == refresh_guard' = refresh_guard

\* _guard goes out of scope
ReleaseGuard(t) == refresh_guard' = [refresh_guard EXCEPT ![Home[t]] = NoTask]

\* The refresh of t is cut short after the server answered it.
Lose(t) == lost' = lost \cup {req[t].cred}

SetMemory(p, token) == credential' = [credential EXCEPT ![p] = token]

\* get_credential, at the start of a request
get_credential(t) ==
    LET cred == credential[Home[t]]
    IN  /\ At(t, "idle")
        /\ IF ~is_expired(cred)
           THEN SendWith(t, cred)
           ELSE req' = [req EXCEPT ![t].at = "guard", ![t].rt = cred]
        /\ UNCHANGED <<credential, refresh_guard, saver, file, file_lock, user, touched, server,
                       replaced, lost, intact>>

\* The response ends the request: a success, or an error other than the first 401.
Responds(t) ==
    /\ At(t, "send")
    /\ End(t)
    /\ UNCHANGED <<credential, refresh_guard, saver, file, file_lock, user, touched, server,
                   replaced, lost, intact>>

\* force_refresh after the first 401, to send the request once more
force_refresh(t) ==
    /\ At(t, "send")
    /\ ~req[t].retried
    /\ req' = [req EXCEPT ![t] = [IdleReq EXCEPT !.at = "guard", !.rt = credential[Home[t]], !.retried = TRUE]]
    /\ UNCHANGED <<credential, refresh_guard, saver, file, file_lock, user, touched, server,
                   replaced, lost, intact>>

-----------------------------------------------------------------------------
(* do_refresh, by the steps of its comment.                                *)

\* Mutant: nobody waits for the guard.
NoWait(t) == TRUE

GuardFree(t) == refresh_guard[Home[t]] = NoTask

\* 1 and 2: the guard, then the re-check: another task may have refreshed meanwhile
AcquireGuard(t) ==
    /\ At(t, "guard")
    /\ GuardFree(t)
    /\ IF ~is_expired(credential[Home[t]])
       THEN SendWith(t, credential[Home[t]]) /\ UNCHANGED refresh_guard
       ELSE Goto(t, "disk") /\ refresh_guard' = [refresh_guard EXCEPT ![Home[t]] = t]
    /\ UNCHANGED <<credential, saver, file, file_lock, user, touched, server, replaced, lost, intact>>

\* 3: try_disk_refreshed_credential reads the file without its lock
ReadDisk(t) ==
    /\ At(t, "disk")
    /\ req' = [req EXCEPT ![t].at = "check", ![t].store = file]
    /\ UNCHANGED <<credential, refresh_guard, saver, file, file_lock, user, touched, server,
                   replaced, lost, intact>>

\* use_fresh_credential_if_available
CheckDisk(t) ==
    LET found == active_credential(req[t].store)
    IN  /\ At(t, "check")
        /\ IF Fresh(found)
           THEN SetMemory(Home[t], found) /\ SendWith(t, found) /\ ReleaseGuard(t)
           ELSE Goto(t, "exchange") /\ UNCHANGED <<credential, refresh_guard>>
        /\ UNCHANGED <<saver, file, file_lock, user, touched, server, replaced, lost, intact>>

\* 4: the server answers the refresh token with a new token, and a thread is to save it
Exchange(t) ==
    /\ At(t, "exchange")
    /\ saver[t] = IdleSaver   \* bound: one save per task at a time
    /\ issued < MaxTokens
    /\ issued' = issued + 1
    /\ req' = [req EXCEPT ![t].at = "saving", ![t].cred = issued + 1, ![t].store = EmptyStore]
    /\ saver' = [saver EXCEPT ![t].at = "lock", ![t].token = issued + 1]
    /\ replaced' = [replaced EXCEPT ![Home[t]][req[t].rt] = issued + 1]
    /\ UNCHANGED <<credential, refresh_guard, file, file_lock, user, touched, expired,
                   lost, intact>>

\* all_credentials but the active account's
FallbackTokens(store) == {store.accounts[a] : a \in Accounts \ {store.active}}

\* 7: the refresh fails; try_fallback_account in the store read before
ExchangeFails(t) ==
    /\ At(t, "exchange")
    /\ ReleaseGuard(t)
    /\ \/ \E token \in FallbackTokens(req[t].store) :
            /\ Fresh(token)
            /\ SetMemory(Home[t], token)
            /\ SendWith(t, token)
       \/ /\ \A token \in FallbackTokens(req[t].store) : ~Fresh(token)
          /\ End(t)
          /\ UNCHANGED credential
    /\ UNCHANGED <<saver, file, file_lock, user, touched, server, replaced, lost, intact>>

\* 6: the new token in memory
UpdateMemory(t) ==
    /\ At(t, "update")
    /\ SetMemory(Home[t], req[t].cred)
    /\ ReleaseGuard(t)
    /\ SendWith(t, req[t].cred)
    /\ UNCHANGED <<saver, file, file_lock, user, touched, server, replaced, lost, intact>>

\* The turn is cancelled: stream_model_request drops the request and the guard it may hold.  A token
\* the server has issued to it does not reach memory.
Cancel(t) ==
    /\ ~At(t, "idle")
    /\ End(t)
    /\ IF refresh_guard[Home[t]] = t THEN ReleaseGuard(t) ELSE UNCHANGED refresh_guard
    /\ IF At(t, "saving") \/ At(t, "update") THEN Lose(t) ELSE UNCHANGED lost
    /\ UNCHANGED <<credential, saver, file, file_lock, user, touched, server, replaced, intact>>

-----------------------------------------------------------------------------
(* 5: save_with_file_lock_for_provider, on a blocking thread.              *)

Saving(t, where) == saver[t].at = where

\* Mutant: the save goes on as if it had the lock.
IgnoreLock(t) == file_lock' = t

\* try_lock_exclusive returns true
TakeLock(t) == file_lock = NoTask /\ file_lock' = t

\* The lock, or after 30 attempts none; the store is loaded, and the token set for the account
\* that is active in it now.  A writer between the lock and the load comes before both.
LockAndLoad(t) ==
    /\ Saving(t, "lock")
    /\ \/ TakeLock(t) /\ UNCHANGED intact
       \/ file_lock # NoTask /\ UNCHANGED file_lock /\ intact' = FALSE
    /\ saver' = [saver EXCEPT ![t].at = "truncate",
                              ![t].store = set_credential(file, file.active, saver[t].token)]
    /\ UNCHANGED <<credential, refresh_guard, req, file, user, touched, server, replaced, lost>>

\* AuthStore::save: std::fs::write opens and truncates the file, then writes it
TruncateFile(t) ==
    /\ Saving(t, "truncate")
    /\ file' = EmptyStore
    /\ saver' = [saver EXCEPT ![t].at = "write"]
    /\ UNCHANGED <<credential, refresh_guard, req, file_lock, user, touched, server, replaced, lost, intact>>

\* UnlockGuard
Unlock(t) == file_lock' = IF file_lock = t THEN NoTask ELSE file_lock

WriteFile(t) ==
    /\ Saving(t, "write")
    /\ file' = saver[t].store
    /\ Unlock(t)
    /\ saver' = [saver EXCEPT ![t] = IdleSaver]
    /\ IF At(t, "saving") THEN Goto(t, "update") ELSE UNCHANGED req
    /\ UNCHANGED <<credential, refresh_guard, user, touched, server, replaced, lost, intact>>

\* The file cannot be opened for writing.  do_refresh, if it still waits, returns the error before
\* its step 6, and the new token is gone.
SaveFails(t) ==
    /\ Saving(t, "truncate")
    /\ Unlock(t)
    /\ saver' = [saver EXCEPT ![t] = IdleSaver]
    /\ IF At(t, "saving")
       THEN End(t) /\ ReleaseGuard(t) /\ Lose(t)
       ELSE UNCHANGED <<req, refresh_guard, lost>>
    /\ UNCHANGED <<credential, file, user, touched, server, replaced, intact>>

-----------------------------------------------------------------------------
(* The user: handle_login and handle_switch_account, without the lock.     *)

\* handle_login: a token of the account, set and made active in the loaded store
Login(p, account) ==
    /\ user.at = "idle"
    /\ touched = {}   \* bound: one login or switch
    /\ issued < MaxTokens
    /\ issued' = issued + 1
    /\ user' = [at |-> "truncate",
                store |-> [set_credential(file, account, issued + 1) EXCEPT !.active = account]]
    /\ touched' = {p}
    /\ intact' = FALSE
    /\ UNCHANGED <<credential, refresh_guard, req, saver, file, file_lock, expired, replaced, lost>>

\* handle_switch_account: switch_account refuses an account without a credential
Switch(p, account) ==
    /\ user.at = "idle"
    /\ touched = {}
    /\ file.accounts[account] # NoToken
    /\ user' = [at |-> "truncate", store |-> [file EXCEPT !.active = account]]
    /\ touched' = {p}
    /\ intact' = FALSE
    /\ UNCHANGED <<credential, refresh_guard, req, saver, file, file_lock, server, replaced, lost>>

UserTruncates ==
    /\ user.at = "truncate"
    /\ file' = EmptyStore
    /\ user' = [user EXCEPT !.at = "write"]
    /\ UNCHANGED <<credential, refresh_guard, req, saver, file_lock, touched, server, replaced, lost, intact>>

UserWrites ==
    /\ user.at = "write"
    /\ file' = user.store
    /\ user' = [user EXCEPT !.at = "reload", !.store = EmptyStore]
    /\ UNCHANGED <<credential, refresh_guard, req, saver, file_lock, touched, server, replaced, lost, intact>>

\* reload_from_disk in the process of the user
Reload ==
    /\ user.at = "reload"
    /\ credential' = [p \in Procs |-> IF p \in touched /\ Fresh(active_credential(file))
                                       THEN active_credential(file) ELSE credential[p]]
    /\ user' = [user EXCEPT !.at = "idle"]
    /\ UNCHANGED <<refresh_guard, req, saver, file, file_lock, touched, server, replaced, lost, intact>>

-----------------------------------------------------------------------------
\* The clock passes the next expiry.
Expire ==
    /\ expired < issued
    /\ expired' = expired + 1
    /\ UNCHANGED <<credential, refresh_guard, req, saver, file, file_lock, user, touched, issued,
                   replaced, lost, intact>>

-----------------------------------------------------------------------------
(* Every account is logged in, the default one first, and the processes    *)
(* have started with it.                                                   *)

Init ==
    /\ issued = Cardinality(Accounts)
    /\ expired = 0
    /\ \E creds \in Injection(Accounts, 1..issued) :
          /\ creds[Default] = 1
          /\ file = [active |-> Default, accounts |-> creds]
          /\ credential = [p \in Procs |-> creds[Default]]
    /\ refresh_guard = [p \in Procs |-> NoTask]
    /\ req = [t \in Tasks |-> IdleReq]
    /\ saver = [t \in Tasks |-> IdleSaver]
    /\ file_lock = NoTask
    /\ user = [at |-> "idle", store |-> EmptyStore]
    /\ touched = {}
    /\ replaced = [p \in Procs |-> [token \in Tokens |-> NoToken]]
    /\ lost = {}
    /\ intact = TRUE

Refresh(t) ==
    ReadDisk(t) \/ CheckDisk(t) \/ Exchange(t) \/ ExchangeFails(t) \/ UpdateMemory(t)

Save(t) == LockAndLoad(t) \/ TruncateFile(t) \/ WriteFile(t) \/ SaveFails(t)

Next ==
    \/ \E t \in Tasks :
          \/ get_credential(t) \/ Responds(t) \/ force_refresh(t) \/ Cancel(t)
          \/ AcquireGuard(t) \/ Refresh(t) \/ Save(t)
    \/ \E p \in Procs, a \in Accounts : Login(p, a) \/ Switch(p, a)
    \/ UserTruncates \/ UserWrites \/ Reload
    \/ Expire

Spec == Init /\ [][Next]_vars

-----------------------------------------------------------------------------
(* Properties.                                                             *)

ReqPlaces == {"idle", "send", "guard", "disk", "check", "exchange", "saving", "update"}
SaverPlaces == {"idle", "lock", "truncate", "write"}
Requests == [at: ReqPlaces, cred: Tokens \cup {NoToken}, rt: Tokens \cup {NoToken}, retried: BOOLEAN,
             store: Stores]
Savers == [at: SaverPlaces, token: Tokens \cup {NoToken}, store: Stores]

\* The type of the state; a request holds its process's refresh guard exactly from the re-check in
\* do_refresh to its end.
TypeOK ==
    /\ credential \in [Procs -> Tokens]
    /\ req \in [Tasks -> Requests]
    /\ saver \in [Tasks -> Savers]
    /\ file \in Stores
    /\ file_lock \in Tasks \cup {NoTask}
    /\ user \in [at: {"idle", "truncate", "write", "reload"}, store: Stores]
    /\ touched \subseteq Procs
    /\ issued \in 0..MaxTokens
    /\ expired \in 0..issued
    /\ replaced \in [Procs -> [Tokens -> Tokens \cup {NoToken}]]
    /\ lost \subseteq Tokens
    /\ intact \in BOOLEAN
    /\ refresh_guard \in [Procs -> Tasks \cup {NoTask}]
    /\ \A t \in Tasks :
          refresh_guard[Home[t]] = t <=> req[t].at \in {"disk", "check", "exchange", "saving", "update"}

\* do_refresh sends a refresh token that its process has exchanged before, and nobody's login or
\* switch changed the credential under it.
SentAgain(t) ==
    /\ At(t, "exchange")
    /\ Home[t] \notin touched
    /\ replaced[Home[t]][req[t].rt] # NoToken

\* Concurrent refreshes coalesce: do_refresh sends a refresh token again only once the token its
\* process got for it has expired too, or when the refresh that got it was cut short (cancelled, or
\* its save failed) before it put it in memory.
RefreshesCoalesce ==
    \A t \in Tasks : SentAgain(t) =>
       \/ is_expired(replaced[Home[t]][req[t].rt])
       \/ replaced[Home[t]][req[t].rt] \in lost

\* credential_manager.rs: a second task that sees the expired token "waits for the first to finish,
\* then re-checks the credential", "avoiding redundant HTTP calls".  No refresh token is sent
\* again while the token it was exchanged for is fresh.
NoRedundantRefresh ==
    \A t \in Tasks : SentAgain(t) => is_expired(replaced[Home[t]][req[t].rt])

\* No save loses an account of another process's save: as long as every writer held the file's
\* lock, auth.json holds all accounts whenever nobody is in the middle of writing it, with
\* requests cancelled beside their saves and reads without the lock.
LockedSavesKeepAccounts ==
    intact /\ (\A t \in Tasks : ~Saving(t, "write")) =>
       \A a \in Accounts : file.accounts[a] # NoToken

=============================================================================
