------------------------- MODULE CredentialsProofs -------------------------
(***************************************************************************)
(* Proofs about Credentials, for any number of processes, tasks, accounts  *)
(* and tokens.                                                             *)
(*                                                                         *)
(* Refreshes coalesce because whoever is past the re-check of do_refresh   *)
(* holds its process's guard and found the credential in memory expired,   *)
(* and the token that a refresh token was exchanged for is in memory, or a *)
(* later one is, or the holder of the guard is about to put it there,      *)
(* unless the refresh was cut short.  Locked saves keep all accounts because between its load *)
(* and its write a saver with the lock is the only writer, and what it     *)
(* loaded was whole.                                                       *)
(***************************************************************************)
EXTENDS Credentials, FiniteSetTheorems, TLAPS

-----------------------------------------------------------------------------
(* The inductive invariant.                                                *)

Holding == {"disk", "check", "exchange", "saving", "update"}

\* A refresh knows the token it was asked to replace, and once the server has answered, the new one.
TokensKnown ==
    /\ \A t \in Tasks : /\ req[t].at \notin {"idle", "send"} => req[t].rt # NoToken
                        /\ req[t].at \in {"saving", "update"} => req[t].cred # NoToken
                        /\ saver[t].at # "idle" => saver[t].token # NoToken

\* A refresh past its re-check runs against an expired credential, and with a new token that is
\* later than the credential.
RefreshNeeded ==
    \A t \in Tasks : Home[t] \notin touched =>
        /\ req[t].at \in Holding => credential[Home[t]] <= expired
        /\ req[t].at \in {"saving", "update"} => credential[Home[t]] < req[t].cred

\* A refresh of process p has the token from the server, and has not put it in memory yet.
InFlight(p, token) ==
    \E t \in Tasks :
       Home[t] = p /\ req[t].at \in {"saving", "update"} /\ req[t].cred = token

\* A process has in memory no token older than one it refreshed to, except one that is on its way
\* and those of refreshes that were cut short.
MemoryLatest ==
    \A p \in Procs \ touched : \A token \in Tokens :
       \/ replaced[p][token] <= credential[p]
       \/ replaced[p][token] \in lost
       \/ InFlight(p, replaced[p][token])

AllPresent(store) == \A a \in Accounts : store.accounts[a] # NoToken

\* As long as every writer held the lock: the user wrote nothing, a saver between load and write
\* has the lock and a whole store, and the file is whole unless one is writing it.
WholeUnderLock ==
    intact =>
        /\ user.at = "idle"
        /\ \A t \in Tasks : saver[t].at \in {"truncate", "write"} =>
              file_lock = t /\ AllPresent(saver[t].store)
        /\ (\A t \in Tasks : saver[t].at # "write") => AllPresent(file)

IInv == TypeOK /\ TokensKnown /\ RefreshNeeded /\ MemoryLatest /\ WholeUnderLock

\* The stores that are written are stores.
LEMMA StoreFacts ==
    /\ EmptyStore \in Stores
    /\ \A store \in Stores : store.active \in Accounts
    /\ \A store \in Stores, a \in Accounts :
          /\ store.accounts[a] \in Tokens \cup {NoToken}
          /\ [store EXCEPT !.active = a] \in Stores
<1> USE CredentialsAssumption DEF Stores
<1>1. EmptyStore \in Stores
  BY DEF EmptyStore
<1> QED BY <1>1

\* set_credential makes a store, and loses no account.
LEMMA SetCredentialType ==
    ASSUME NEW store \in Stores, NEW a \in Accounts, NEW token \in Tokens
    PROVE  /\ set_credential(store, a, token) \in Stores
           /\ AllPresent(store) => AllPresent(set_credential(store, a, token))
<1> DEFINE accounts == [b \in Accounts |->
        IF b = a \/ (b = Default /\ store.accounts[Default] = NoToken) THEN token ELSE store.accounts[b]]
<1>1. store.accounts \in [Accounts -> Tokens \cup {NoToken}] /\ store.active \in Accounts
  BY DEF Stores
<1>2. accounts \in [Accounts -> Tokens \cup {NoToken}]
  BY <1>1, CredentialsAssumption
<1>3. set_credential(store, a, token) = [store EXCEPT !.accounts = accounts]
  BY DEF set_credential
<1>4. set_credential(store, a, token) \in Stores
  BY <1>2, <1>3 DEF Stores
<1>5. ASSUME AllPresent(store) PROVE AllPresent(set_credential(store, a, token))
  <2>1. set_credential(store, a, token).accounts = accounts
    BY <1>3 DEF Stores
  <2>2. token # NoToken
    BY CredentialsAssumption DEF Tokens, NoToken
  <2> QED BY <1>5, <2>1, <2>2 DEF AllPresent
<1> QED BY <1>4, <1>5

\* A step of task t moves its request from one of the places in from to one of those in to.
Moves(t, from, to) ==
    /\ req[t].at \in from
    /\ req' \in [Tasks -> Requests]
    /\ \A u \in Tasks \ {t} : req'[u] = req[u]
    /\ req'[t].at \in to
    /\ req'[t].at \notin {"idle", "send"} => req'[t].rt # NoToken
    /\ req'[t].at \in {"saving", "update"} => req'[t].cred # NoToken

\* How each action moves the request of its task.
LEMMA Places ==
    ASSUME TypeOK, TokensKnown, NEW t \in Tasks
    PROVE  /\ get_credential(t) => Moves(t, {"idle"}, {"send", "guard"})
           /\ Responds(t) => Moves(t, {"send"}, {"idle"})
           /\ force_refresh(t) => Moves(t, {"send"}, {"guard"})
           /\ Cancel(t) => Moves(t, ReqPlaces, {"idle"})
           /\ AcquireGuard(t) => Moves(t, {"guard"}, {"send", "disk"})
           /\ ReadDisk(t) => Moves(t, {"disk"}, {"check"})
           /\ CheckDisk(t) => Moves(t, {"check"}, {"send", "exchange"})
           /\ Exchange(t) => Moves(t, {"exchange"}, {"saving"}) /\ req'[t].cred = issued + 1
           /\ ExchangeFails(t) => Moves(t, {"exchange"}, {"send", "idle"})
           /\ UpdateMemory(t) => Moves(t, {"update"}, {"send"})
           /\ WriteFile(t) /\ At(t, "saving") =>
                Moves(t, {"saving"}, {"update"}) /\ req'[t].cred = req[t].cred
           /\ SaveFails(t) /\ At(t, "saving") => Moves(t, {"saving"}, {"idle"})
<1>1. /\ req \in [Tasks -> Requests] /\ file \in Stores
      /\ credential[Home[t]] \in Tokens
      /\ EmptyStore \in Stores
  BY CredentialsAssumption, StoreFacts DEF TypeOK
<1>2. req[t].at \notin {"idle", "send"} => req[t].rt # NoToken
  BY DEF TokensKnown
<1>3. req[t].at \in {"saving", "update"} => req[t].cred # NoToken
  BY DEF TokensKnown
<1>5. NoToken \notin Tokens
  BY DEF Tokens, NoToken
<1> USE <1>1, <1>2, <1>3, <1>5 DEF Moves, At, Requests, ReqPlaces
<1>6. ASSUME NEW STATE token, token \in Tokens, SendWith(t, token) PROVE Moves(t, ReqPlaces, {"send"})
  BY <1>6 DEF SendWith, IdleReq
<1>7. ASSUME End(t) PROVE Moves(t, ReqPlaces, {"idle"})
  BY <1>7 DEF End, IdleReq
<1>11. ASSUME get_credential(t) PROVE Moves(t, {"idle"}, {"send", "guard"})
  <2>1. CASE ~is_expired(credential[Home[t]])
    BY <1>11, <2>1, <1>6 DEF get_credential
  <2>2. CASE is_expired(credential[Home[t]])
    BY <1>11, <2>2 DEF get_credential
  <2> QED BY <2>1, <2>2
<1>12. ASSUME Responds(t) PROVE Moves(t, {"send"}, {"idle"})
  BY <1>12 DEF Responds, End, IdleReq
<1>13. ASSUME force_refresh(t) PROVE Moves(t, {"send"}, {"guard"})
  BY <1>13 DEF force_refresh, IdleReq
<1>14. ASSUME Cancel(t) PROVE Moves(t, ReqPlaces, {"idle"})
  BY <1>14 DEF Cancel, End, IdleReq
<1>15. ASSUME AcquireGuard(t) PROVE Moves(t, {"guard"}, {"send", "disk"})
  <2>1. CASE ~is_expired(credential[Home[t]])
    BY <1>15, <2>1, <1>6 DEF AcquireGuard
  <2>2. CASE is_expired(credential[Home[t]])
    BY <1>15, <2>2 DEF AcquireGuard, Goto
  <2> QED BY <2>1, <2>2
<1>16. ASSUME ReadDisk(t) PROVE Moves(t, {"disk"}, {"check"})
  BY ZenonT(40), <1>16 DEF ReadDisk
<1>4. \A a \in Accounts : req[t].store.accounts[a] \in Tokens \cup {NoToken}
  BY StoreFacts
<1>17. ASSUME CheckDisk(t) PROVE Moves(t, {"check"}, {"send", "exchange"})
  <2>1. active_credential(req[t].store) \in Tokens \cup {NoToken}
    BY <1>4, StoreFacts DEF active_credential
  <2>2. CASE Fresh(active_credential(req[t].store))
    BY <1>17, <2>1, <2>2, <1>6 DEF CheckDisk, Fresh
  <2>3. CASE ~Fresh(active_credential(req[t].store))
    BY <1>17, <2>3 DEF CheckDisk, Goto
  <2> QED BY <2>2, <2>3
<1>18. ASSUME Exchange(t) PROVE Moves(t, {"exchange"}, {"saving"}) /\ req'[t].cred = issued + 1
  <2> DEFINE new == issued + 1
  <2>1. new \in Tokens
    BY <1>18, CredentialsAssumption DEF Exchange, TypeOK, Tokens
  <2>2. /\ req[t].at = "exchange"
        /\ req' = [req EXCEPT ![t].at = "saving", ![t].cred = new, ![t].store = EmptyStore]
    BY <1>18 DEF Exchange
  <2> HIDE DEF new
  <2>3. req' \in [Tasks -> Requests]
    <3> DEFINE q == [req[t] EXCEPT !.at = "saving", !.cred = new, !.store = EmptyStore]
    <3>1. q \in Requests
      BY <2>1
    <3>2. req' = [req EXCEPT ![t] = q]
      BY <2>2
    <3> HIDE DEF q
    <3> QED BY <3>1, <3>2
  <2>5. \A u \in Tasks \ {t} : req'[u] = req[u]
    BY <2>2
  <2>4. req'[t].cred = new /\ req'[t].at = "saving" /\ req'[t].rt = req[t].rt
    BY <2>2
  <2> QED BY <2>1, <2>2, <2>3, <2>4, <2>5 DEF new
<1>19. ASSUME ExchangeFails(t) PROVE Moves(t, {"exchange"}, {"send", "idle"})
  <2>1. FallbackTokens(req[t].store) \subseteq Tokens \cup {NoToken}
    BY <1>4, StoreFacts DEF FallbackTokens
  <2>2. ASSUME NEW token \in FallbackTokens(req[t].store), Fresh(token), SendWith(t, token)
        PROVE  Moves(t, {"exchange"}, {"send", "idle"})
    BY <1>19, <2>1, <2>2, <1>6 DEF ExchangeFails, Fresh
  <2>3. CASE End(t)
    BY <1>19, <2>3, <1>7 DEF ExchangeFails
  <2> QED BY <1>19, <2>2, <2>3 DEF ExchangeFails
<1>20. ASSUME UpdateMemory(t) PROVE Moves(t, {"update"}, {"send"})
  BY <1>20 DEF UpdateMemory, SendWith, IdleReq
<1>21. ASSUME WriteFile(t), At(t, "saving")
       PROVE  Moves(t, {"saving"}, {"update"}) /\ req'[t].cred = req[t].cred
  BY <1>21 DEF WriteFile, Goto
<1>22. ASSUME SaveFails(t), At(t, "saving") PROVE Moves(t, {"saving"}, {"idle"})
  BY <1>22, <1>7 DEF SaveFails
<1> QED BY <1>11, <1>12, <1>13, <1>14, <1>15, <1>16, <1>17, <1>18, <1>19, <1>20, <1>21, <1>22

\* A saver's step moves it from one place to another.
SaverMoves(t, from, to) ==
    /\ saver[t].at \in from
    /\ saver' \in [Tasks -> Savers]
    /\ \A u \in Tasks \ {t} : saver'[u] = saver[u]
    /\ saver'[t].at \in to
    /\ saver'[t].at # "idle" => saver'[t].token # NoToken

\* How each action moves the saver of its task; a store that is loaded whole stays whole.
LEMMA SaverPlacesOf ==
    ASSUME TypeOK, TokensKnown, NEW t \in Tasks
    PROVE  /\ Exchange(t) => SaverMoves(t, {"idle"}, {"lock"})
           /\ LockAndLoad(t) =>
                /\ SaverMoves(t, {"lock"}, {"truncate"})
                /\ AllPresent(file) => AllPresent(saver'[t].store)
           /\ TruncateFile(t) =>
                SaverMoves(t, {"truncate"}, {"write"}) /\ saver'[t].store = saver[t].store
           /\ WriteFile(t) => SaverMoves(t, {"write"}, {"idle"})
           /\ SaveFails(t) => SaverMoves(t, {"truncate"}, {"idle"})
<1>1. saver \in [Tasks -> Savers] /\ file \in Stores /\ EmptyStore \in Stores
  BY StoreFacts DEF TypeOK
<1>2. saver[t].at # "idle" => saver[t].token # NoToken
  BY DEF TokensKnown
<1>3. NoToken \notin Tokens
  BY DEF Tokens, NoToken
<1> USE <1>1, <1>2, <1>3 DEF SaverMoves, Saving, Savers, SaverPlaces
<1>4. ASSUME Exchange(t) PROVE SaverMoves(t, {"idle"}, {"lock"})
  <2>1. issued + 1 \in Tokens
    BY <1>4, CredentialsAssumption DEF Exchange, TypeOK, Tokens
  <2> QED BY <1>4, <2>1 DEF Exchange, IdleSaver
<1>5. ASSUME LockAndLoad(t)
      PROVE  /\ SaverMoves(t, {"lock"}, {"truncate"})
             /\ AllPresent(file) => AllPresent(saver'[t].store)
  <2> DEFINE new == set_credential(file, file.active, saver[t].token)
  <2>1. new \in Stores /\ (AllPresent(file) => AllPresent(new))
    <3>1. file.active \in Accounts /\ saver[t].token \in Tokens
      BY <1>5, StoreFacts DEF LockAndLoad
    <3> QED BY <3>1, SetCredentialType
  <2> HIDE DEF new
  <2>2. saver' = [saver EXCEPT ![t].at = "truncate", ![t].store = new] /\ saver[t].at = "lock"
    BY <1>5 DEF LockAndLoad, new
  <2> QED BY <2>1, <2>2
<1>6. ASSUME TruncateFile(t)
      PROVE  SaverMoves(t, {"truncate"}, {"write"}) /\ saver'[t].store = saver[t].store
  BY <1>6 DEF TruncateFile
<1>7. ASSUME WriteFile(t) PROVE SaverMoves(t, {"write"}, {"idle"})
  BY <1>7 DEF WriteFile, IdleSaver
<1>8. ASSUME SaveFails(t) PROVE SaverMoves(t, {"truncate"}, {"idle"})
  BY <1>8 DEF SaveFails, IdleSaver
<1> QED BY <1>4, <1>5, <1>6, <1>7, <1>8

\* The fields of a request and of a saver have their types.
LEMMA Fields ==
    ASSUME TypeOK, NEW t \in Tasks
    PROVE  /\ Home[t] \in Procs /\ t # NoTask
           /\ credential[Home[t]] \in Tokens
           /\ req[t].at \in ReqPlaces /\ req[t].store \in Stores
           /\ req[t].cred \in Tokens \cup {NoToken} /\ req[t].rt \in Tokens \cup {NoToken}
           /\ saver[t].at \in SaverPlaces /\ saver[t].store \in Stores
           /\ saver[t].token \in Tokens \cup {NoToken}
BY CredentialsAssumption DEF TypeOK, Requests, Savers

\* Two refreshes of one process are never both past the re-check.
LEMMA OneHolder ==
    ASSUME TypeOK, NEW t \in Tasks, NEW u \in Tasks, Home[t] = Home[u],
           req[t].at \in Holding, req[u].at \in Holding
    PROVE  t = u
BY DEF TypeOK, Holding

\* The holder of the guard ends its refresh with a token later than the credential it replaces.
LEMMA HolderSetsMemory ==
    ASSUME TypeOK, RefreshNeeded, NEW t \in Tasks, NEW STATE token, token \in Tokens,
           Moves(t, Holding, {"send"}), SetMemory(Home[t], token),
           UNCHANGED <<touched, expired>>
    PROVE  /\ credential' \in [Procs -> Tokens]
           /\ credential'[Home[t]] = token
           /\ \A p \in Procs \ {Home[t]} : credential'[p] = credential[p]
           /\ RefreshNeeded'
<1>1. Home[t] \in Procs /\ credential \in [Procs -> Tokens]
  BY Fields DEF TypeOK
<1>2. /\ credential' \in [Procs -> Tokens] /\ credential'[Home[t]] = token
      /\ \A p \in Procs \ {Home[t]} : credential'[p] = credential[p]
  BY <1>1 DEF SetMemory
<1>3. ASSUME NEW u \in Tasks, Home[u] \notin touched
      PROVE  /\ req'[u].at \in Holding => credential'[Home[u]] <= expired
             /\ req'[u].at \in {"saving", "update"} => credential'[Home[u]] < req'[u].cred
  <2>1. CASE u = t
    BY <2>1 DEF Moves, Holding
  <2>2. CASE u # t
    <3>1. req'[u] = req[u] /\ req[t].at \in Holding
      BY <2>2 DEF Moves
    <3>2. ASSUME req[u].at \in Holding PROVE credential'[Home[u]] = credential[Home[u]]
      <4>1. Home[u] # Home[t] /\ Home[u] \in Procs
        BY <2>2, <3>1, <3>2, OneHolder, Fields
      <4> QED BY <4>1, <1>2
    <3>3. req[u].at \in {"saving", "update"} => req[u].at \in Holding
      BY DEF Holding
    <3> QED BY <1>3, <3>1, <3>2, <3>3 DEF RefreshNeeded
  <2> QED BY <2>1, <2>2
<1>4. RefreshNeeded'
  BY <1>3 DEF RefreshNeeded
<1> QED BY <1>2, <1>4

\* A request that is sent is at "send".
LEMMA SendGoes ==
    ASSUME TypeOK, NEW t \in Tasks, NEW STATE token, SendWith(t, token)
    PROVE  req'[t].at = "send"
<1>1. req \in [Tasks -> Requests]
  BY DEF TypeOK
<1> QED BY <1>1 DEF SendWith, IdleReq

\* A request goes to the place it is sent to.
LEMMA GoesTo ==
    ASSUME TypeOK, NEW t \in Tasks, NEW where, Goto(t, where)
    PROVE  req'[t].at = where
<1>1. req \in [Tasks -> Requests]
  BY DEF TypeOK
<1> QED BY <1>1 DEF Goto, Requests

\* The tokens that a refresh token was exchanged for are numbers.
LEMMA ReplacedNat ==
    ASSUME TypeOK
    PROVE  \A p \in Procs, old \in Tokens : replaced[p][old] \in Nat
<1>1. replaced \in [Procs -> [Tokens -> Tokens \cup {NoToken}]]
  BY DEF TypeOK
<1>2. \A p \in Procs, old \in Tokens : replaced[p][old] \in Tokens \cup {NoToken}
  BY <1>1
<1>3. Tokens \cup {NoToken} \subseteq Nat
  BY DEF Tokens, NoToken
<1> QED BY <1>2, <1>3

\* The task sets the memory of its process, and its request goes out.
SetsMemory(t, token) ==
    /\ SetMemory(Home[t], token)
    /\ Moves(t, Holding, {"send"})
    /\ Home[t] \notin touched => credential[Home[t]] < token

\* A refresh that ends with a credential gives its process a later one, whether it comes from the
\* disk, from another account or from the server.
LEMMA MemoryGrows ==
    ASSUME TypeOK, TokensKnown, RefreshNeeded, NEW t \in Tasks
    PROVE  /\ CheckDisk(t) /\ credential' # credential => \E token \in Tokens : SetsMemory(t, token)
           /\ ExchangeFails(t) /\ credential' # credential => \E token \in Tokens : SetsMemory(t, token)
           /\ UpdateMemory(t) => SetsMemory(t, req[t].cred) /\ req[t].cred \in Tokens
<1>1. /\ credential[Home[t]] \in Tokens /\ req[t].store \in Stores
      /\ req[t].cred \in Tokens \cup {NoToken}
      /\ expired \in Nat /\ Tokens \subseteq Nat /\ NoToken \notin Tokens
  BY Fields, CredentialsAssumption DEF TypeOK, Tokens, NoToken
<1>2. ASSUME NEW token, Fresh(token), token \in Tokens \cup {NoToken},
             req[t].at \in Holding, Home[t] \notin touched
      PROVE  credential[Home[t]] < token
  <2>1. credential[Home[t]] <= expired
    BY <1>2 DEF RefreshNeeded
  <2>2. token \in Tokens /\ ~(token <= expired)
    BY <1>2 DEF Fresh, is_expired
  <2>3. credential[Home[t]] \in Nat /\ token \in Nat /\ expired \in Nat
    BY <1>1, <2>2
  <2> QED BY <2>1, <2>2, <2>3
<1>3. ASSUME NEW token, SendWith(t, token) PROVE req'[t].at = "send"
  BY <1>3, SendGoes
<1>4. ASSUME CheckDisk(t), credential' # credential PROVE \E token \in Tokens : SetsMemory(t, token)
  <2> DEFINE found == active_credential(req[t].store)
  <2>1. found \in Tokens \cup {NoToken}
    BY <1>1, StoreFacts DEF active_credential
  <2> HIDE DEF found
  <2>2. Fresh(found) /\ SetMemory(Home[t], found) /\ SendWith(t, found) /\ req[t].at = "check"
    BY <1>4 DEF CheckDisk, At, found
  <2>3. found \in Tokens
    BY <2>1, <2>2 DEF Fresh
  <2>4. Moves(t, Holding, {"send"})
    BY <1>4, <1>3, <2>2, Places DEF Moves, Holding
  <2> QED BY <1>2, <2>1, <2>2, <2>3, <2>4 DEF SetsMemory, Holding
<1>5. ASSUME ExchangeFails(t), credential' # credential PROVE \E token \in Tokens : SetsMemory(t, token)
  <2>1. FallbackTokens(req[t].store) \subseteq Tokens \cup {NoToken}
    BY <1>1, StoreFacts DEF FallbackTokens
  <2>2. PICK token \in FallbackTokens(req[t].store) :
            Fresh(token) /\ SetMemory(Home[t], token) /\ SendWith(t, token)
    BY <1>5 DEF ExchangeFails
  <2>3. token \in Tokens /\ req[t].at = "exchange"
    BY <1>5, <2>1, <2>2 DEF Fresh, ExchangeFails, At
  <2>4. Moves(t, Holding, {"send"})
    BY <1>5, <1>3, <2>2, Places DEF Moves, Holding
  <2> QED BY <1>2, <2>2, <2>3, <2>4 DEF SetsMemory, Holding
<1>6. ASSUME UpdateMemory(t) PROVE SetsMemory(t, req[t].cred) /\ req[t].cred \in Tokens
  <2>1. req[t].at = "update" /\ SetMemory(Home[t], req[t].cred)
    BY <1>6 DEF UpdateMemory, At
  <2>2. Moves(t, Holding, {"send"})
    BY <1>6, Places DEF Moves, Holding
  <2>3. Home[t] \notin touched => credential[Home[t]] < req[t].cred
    BY <2>1 DEF RefreshNeeded
  <2>4. req[t].cred \in Tokens
    BY <1>1, <2>1 DEF TokensKnown
  <2> QED BY <2>1, <2>2, <2>3, <2>4 DEF SetsMemory
<1> QED BY <1>4, <1>5, <1>6

\* A refresh keeps the token it is to replace and the one it got.
LEMMA KnownStep ==
    ASSUME TypeOK, TokensKnown, Next
    PROVE  TokensKnown'
<1> USE DEF TokensKnown
<1>1. CASE UNCHANGED <<req, saver>>
  BY <1>1
<1>2. ASSUME NEW t \in Tasks, get_credential(t) PROVE TokensKnown'
  <2>1. Moves(t, {"idle"}, {"send", "guard"})
    BY <1>2, Places
  <2> QED BY <1>2, <2>1 DEF get_credential, At, server, Moves, SaverMoves
<1>3. ASSUME NEW t \in Tasks, Responds(t) PROVE TokensKnown'
  <2>1. Moves(t, {"send"}, {"idle"})
    BY <1>3, Places
  <2> QED BY <1>3, <2>1 DEF Responds, At, server, Moves, SaverMoves
<1>4. ASSUME NEW t \in Tasks, force_refresh(t) PROVE TokensKnown'
  <2>1. Moves(t, {"send"}, {"guard"})
    BY <1>4, Places
  <2> QED BY <1>4, <2>1 DEF force_refresh, At, server, Moves, SaverMoves
<1>5. ASSUME NEW t \in Tasks, Cancel(t) PROVE TokensKnown'
  <2>1. Moves(t, ReqPlaces, {"idle"})
    BY <1>5, Places
  <2> QED BY <1>5, <2>1 DEF Cancel, At, ReleaseGuard, server, Moves, SaverMoves
<1>6. ASSUME NEW t \in Tasks, AcquireGuard(t) PROVE TokensKnown'
  <2>1. Moves(t, {"guard"}, {"send", "disk"})
    BY <1>6, Places
  <2> QED BY <1>6, <2>1 DEF AcquireGuard, At, GuardFree, server, Moves, SaverMoves
<1>7. ASSUME NEW t \in Tasks, ReadDisk(t) PROVE TokensKnown'
  <2>1. Moves(t, {"disk"}, {"check"})
    BY <1>7, Places
  <2> QED BY <1>7, <2>1 DEF ReadDisk, At, server, Moves, SaverMoves
<1>8. ASSUME NEW t \in Tasks, CheckDisk(t) PROVE TokensKnown'
  <2>1. Moves(t, {"check"}, {"send", "exchange"})
    BY <1>8, Places
  <2> QED BY <1>8, <2>1
     DEF CheckDisk, At, active_credential, Fresh, SetMemory, ReleaseGuard, server, Moves,
         SaverMoves
<1>9. ASSUME NEW t \in Tasks, Exchange(t) PROVE TokensKnown'
  <2>1. Moves(t, {"exchange"}, {"saving"}) /\ req'[t].cred = issued + 1
    BY <1>9, Places
  <2>2. SaverMoves(t, {"idle"}, {"lock"})
    BY <1>9, SaverPlacesOf
  <2> QED BY <1>9, <2>1, <2>2 DEF Exchange, At, server, Moves, SaverMoves
<1>10. ASSUME NEW t \in Tasks, ExchangeFails(t) PROVE TokensKnown'
  <2>1. Moves(t, {"exchange"}, {"send", "idle"})
    BY <1>10, Places
  <2> QED BY <1>10, <2>1
     DEF ExchangeFails, At, ReleaseGuard, FallbackTokens, Fresh, SetMemory, server, Moves,
         SaverMoves
<1>11. ASSUME NEW t \in Tasks, UpdateMemory(t) PROVE TokensKnown'
  <2>1. Moves(t, {"update"}, {"send"})
    BY <1>11, Places
  <2> QED BY <1>11, <2>1 DEF UpdateMemory, At, SetMemory, ReleaseGuard, server, Moves, SaverMoves
<1>12. ASSUME NEW t \in Tasks, LockAndLoad(t) PROVE TokensKnown'
  <2>1. SaverMoves(t, {"lock"}, {"truncate"}) /\ (AllPresent(file) => AllPresent(saver'[t].store))
    BY <1>12, SaverPlacesOf
  <2> QED BY <1>12, <2>1 DEF LockAndLoad, Saving, TakeLock, server, Moves, SaverMoves
<1>13. ASSUME NEW t \in Tasks, TruncateFile(t) PROVE TokensKnown'
  <2>1. SaverMoves(t, {"truncate"}, {"write"}) /\ saver'[t].store = saver[t].store
    BY <1>13, SaverPlacesOf
  <2> QED BY <1>13, <2>1 DEF TruncateFile, Saving, server, Moves, SaverMoves
<1>14. ASSUME NEW t \in Tasks, WriteFile(t) PROVE TokensKnown'
  <2>1. IF At(t, "saving")
        THEN Moves(t, {"saving"}, {"update"}) /\ req'[t].cred = req[t].cred
        ELSE UNCHANGED req
    BY <1>14, Places DEF WriteFile
  <2>2. SaverMoves(t, {"write"}, {"idle"})
    BY <1>14, SaverPlacesOf
  <2> QED BY <1>14, <2>1, <2>2 DEF WriteFile, Saving, Unlock, At, server, Moves, SaverMoves
<1>15. ASSUME NEW t \in Tasks, SaveFails(t) PROVE TokensKnown'
  <2>1. IF At(t, "saving")
        THEN Moves(t, {"saving"}, {"idle"})
        ELSE UNCHANGED req
    BY <1>15, Places DEF SaveFails
  <2>2. SaverMoves(t, {"truncate"}, {"idle"})
    BY <1>15, SaverPlacesOf
  <2> QED BY <1>15, <2>1, <2>2 DEF SaveFails, Saving, Unlock, At, ReleaseGuard, server, Moves, SaverMoves
<1> QED
  BY <1>1, <1>2, <1>3, <1>4, <1>5, <1>6, <1>7, <1>8, <1>9, <1>10, <1>11, <1>12, <1>13, <1>14,
     <1>15
     DEF Next, Refresh, Save, Login, Switch, UserTruncates, UserWrites, Reload, Expire, server

\* Whoever is past the re-check keeps others from changing the credential it found expired.
LEMMA NeededStep ==
    ASSUME TypeOK, TokensKnown, RefreshNeeded, Next
    PROVE  RefreshNeeded'
<1>1. CASE UNCHANGED <<req, touched, credential, expired>>
  BY <1>1 DEF RefreshNeeded
<1>2. ASSUME NEW t \in Tasks, get_credential(t) PROVE RefreshNeeded'
  <2>1. Moves(t, {"idle"}, {"send", "guard"})
    BY <1>2, Places
  <2> QED BY <1>2, <2>1 DEF get_credential, At, server, Moves, TypeOK, Tokens, Holding, RefreshNeeded
<1>3. ASSUME NEW t \in Tasks, Responds(t) PROVE RefreshNeeded'
  <2>1. Moves(t, {"send"}, {"idle"})
    BY <1>3, Places
  <2> QED BY <1>3, <2>1 DEF Responds, At, server, Moves, TypeOK, Tokens, Holding, RefreshNeeded
<1>4. ASSUME NEW t \in Tasks, force_refresh(t) PROVE RefreshNeeded'
  <2>1. Moves(t, {"send"}, {"guard"})
    BY <1>4, Places
  <2> QED BY <1>4, <2>1 DEF force_refresh, At, server, Moves, TypeOK, Tokens, Holding, RefreshNeeded
<1>5. ASSUME NEW t \in Tasks, Cancel(t) PROVE RefreshNeeded'
  <2>1. Moves(t, ReqPlaces, {"idle"})
    BY <1>5, Places
  <2> QED BY <1>5, <2>1
     DEF Cancel, At, ReleaseGuard, server, Moves, TypeOK, Tokens, Holding, RefreshNeeded
<1>6. ASSUME NEW t \in Tasks, AcquireGuard(t) PROVE RefreshNeeded'
  <2>1. /\ Moves(t, {"guard"}, {"send", "disk"}) /\ UNCHANGED <<touched, credential, expired>>
        /\ req'[t].at = "disk" => credential[Home[t]] <= expired
    <3>1. Moves(t, {"guard"}, {"send", "disk"}) /\ UNCHANGED <<touched, credential, expired>>
      BY <1>6, Places DEF AcquireGuard, server
    <3>2. CASE ~is_expired(credential[Home[t]])
      BY <1>6, <3>1, <3>2, SendGoes DEF AcquireGuard
    <3>3. CASE is_expired(credential[Home[t]])
      BY <3>1, <3>3 DEF is_expired
    <3> QED BY <3>1, <3>2, <3>3
  <2> QED BY <2>1 DEF Moves, Holding, RefreshNeeded
<1>7. ASSUME NEW t \in Tasks, ReadDisk(t) PROVE RefreshNeeded'
  <2>1. Moves(t, {"disk"}, {"check"})
    BY <1>7, Places
  <2> QED BY <1>7, <2>1 DEF ReadDisk, At, server, Moves, TypeOK, Tokens, Holding, RefreshNeeded
<1>8. ASSUME NEW t \in Tasks, CheckDisk(t) PROVE RefreshNeeded'
  <2>1. UNCHANGED <<touched, expired>> /\ Moves(t, {"check"}, {"send", "exchange"})
    BY <1>8, Places DEF CheckDisk, server
  <2>2. CASE credential' = credential
    BY <2>1, <2>2 DEF RefreshNeeded, Moves, Holding
  <2>3. ASSUME NEW token \in Tokens, SetsMemory(t, token) PROVE RefreshNeeded'
    BY <2>1, <2>3, HolderSetsMemory DEF SetsMemory
  <2> QED BY <1>8, <2>2, <2>3, MemoryGrows
<1>9. ASSUME NEW t \in Tasks, Exchange(t) PROVE RefreshNeeded'
  <2>1. Moves(t, {"exchange"}, {"saving"}) /\ req'[t].cred = issued + 1
    BY <1>9, Places
  <2>2. Home[t] \in Procs /\ t # NoTask
    BY Fields
  <2> QED BY <1>9, <2>1, <2>2 DEF Exchange, At, server, Moves, TypeOK, Tokens, Holding, RefreshNeeded
<1>10. ASSUME NEW t \in Tasks, ExchangeFails(t) PROVE RefreshNeeded'
  <2>1. UNCHANGED <<touched, expired>> /\ Moves(t, {"exchange"}, {"send", "idle"})
    BY <1>10, Places DEF ExchangeFails, server
  <2>2. CASE credential' = credential
    BY <2>1, <2>2 DEF RefreshNeeded, Moves, Holding
  <2>3. ASSUME NEW token \in Tokens, SetsMemory(t, token) PROVE RefreshNeeded'
    BY <2>1, <2>3, HolderSetsMemory DEF SetsMemory
  <2> QED BY <1>10, <2>2, <2>3, MemoryGrows
<1>11. ASSUME NEW t \in Tasks, UpdateMemory(t) PROVE RefreshNeeded'
  <2>1. UNCHANGED <<touched, expired>>
    BY <1>11 DEF UpdateMemory, server
  <2> QED BY <1>11, <2>1, MemoryGrows, HolderSetsMemory DEF SetsMemory
<1>12. ASSUME NEW t \in Tasks, WriteFile(t) PROVE RefreshNeeded'
  <2>1. UNCHANGED <<touched, credential, expired>>
    BY <1>12 DEF WriteFile, server
  <2>2. CASE At(t, "saving")
    <3>1. Moves(t, {"saving"}, {"update"}) /\ req'[t].cred = req[t].cred
      BY <1>12, <2>2, Places
    <3> QED BY <2>1, <3>1 DEF Moves, Holding, RefreshNeeded
  <2>3. CASE ~At(t, "saving")
    <3>1. UNCHANGED req
      BY <1>12, <2>3 DEF WriteFile
    <3> QED BY <2>1, <3>1 DEF RefreshNeeded
  <2> QED BY <2>2, <2>3
<1>13. ASSUME NEW t \in Tasks, SaveFails(t) PROVE RefreshNeeded'
  <2>1. UNCHANGED <<touched, credential, expired>>
    BY <1>13 DEF SaveFails, server
  <2>2. CASE At(t, "saving")
    <3>1. Moves(t, {"saving"}, {"idle"})
      BY <1>13, <2>2, Places
    <3> QED BY <2>1, <3>1 DEF Moves, Holding, RefreshNeeded
  <2>3. CASE ~At(t, "saving")
    <3>1. UNCHANGED req
      BY <1>13, <2>3 DEF SaveFails
    <3> QED BY <2>1, <3>1 DEF RefreshNeeded
  <2> QED BY <2>2, <2>3
<1>14. ASSUME NEW p \in Procs, NEW a \in Accounts, Login(p, a) PROVE RefreshNeeded'
  BY <1>14 DEF Login, server, RefreshNeeded
<1>15. ASSUME NEW p \in Procs, NEW a \in Accounts, Switch(p, a) PROVE RefreshNeeded'
  BY <1>15 DEF Switch, server, RefreshNeeded
<1>16. ASSUME Reload PROVE RefreshNeeded'
  <2>1. /\ UNCHANGED <<req, touched, expired>>
        /\ \A p \in Procs \ touched : credential'[p] = credential[p]
    BY <1>16 DEF Reload, server
  <2> QED BY <2>1, Fields DEF RefreshNeeded
<1>17. ASSUME Expire PROVE RefreshNeeded'
  <2>1. /\ UNCHANGED <<req, touched, credential>>
        /\ expired \in Nat /\ expired' = expired + 1
    BY <1>17, CredentialsAssumption DEF Expire, TypeOK
  <2>2. \A t \in Tasks : credential[Home[t]] \in Nat
    BY Fields DEF Tokens
  <2>3. \A t \in Tasks : credential[Home[t]] <= expired => credential[Home[t]] <= expired'
    BY <2>1, <2>2
  <2> QED BY <2>1, <2>3 DEF RefreshNeeded
<1> QED
  BY <1>1, <1>2, <1>3, <1>4, <1>5, <1>6, <1>7, <1>8, <1>9, <1>10, <1>11, <1>12, <1>13, <1>14,
     <1>15, <1>16, <1>17
     DEF Next, Refresh, Save, LockAndLoad, TruncateFile, UserTruncates, UserWrites, server

\* A step that exchanges nothing keeps memory the latest: if it does not go back, and a refresh
\* that had its token on the way has it still, has put it in memory or is cut short.
LEMMA LatestKept ==
    ASSUME TypeOK, MemoryLatest, touched \subseteq touched', lost \subseteq lost', UNCHANGED replaced,
           \A p \in Procs \ touched' : credential[p] <= credential'[p],
           credential' \in [Procs -> Tokens],
           \A u \in Tasks : Home[u] \notin touched' /\ req[u].at \in {"saving", "update"} =>
              \/ req'[u].at \in {"saving", "update"} /\ req'[u].cred = req[u].cred
              \/ req[u].cred \in lost'
              \/ req[u].cred <= credential'[Home[u]]
    PROVE  MemoryLatest'
<1> SUFFICES ASSUME NEW p \in Procs \ touched', NEW token \in Tokens
             PROVE  \/ replaced[p][token] <= credential'[p]
                    \/ replaced[p][token] \in lost'
                    \/ InFlight(p, replaced[p][token])'
  BY DEF MemoryLatest
<1> DEFINE new == replaced[p][token]
<1>1. new \in Nat /\ credential[p] \in Nat /\ credential'[p] \in Nat /\ p \notin touched
  BY ReplacedNat DEF TypeOK, Tokens
<1>2. new <= credential[p] \/ new \in lost \/ InFlight(p, new)
  BY <1>1 DEF MemoryLatest
<1> HIDE DEF new
<1>3. CASE new <= credential[p]
  <2>1. credential[p] <= credential'[p]
    OBVIOUS
  <2>2. new <= credential'[p]
    BY <1>1, <1>3, <2>1
  <2> QED BY <2>2 DEF new
<1>4. CASE new \in lost
  BY <1>4 DEF new
<1>5. CASE InFlight(p, new)
  <2>1. PICK u \in Tasks : Home[u] = p /\ req[u].at \in {"saving", "update"} /\ req[u].cred = new
    BY <1>5 DEF InFlight
  <2>2. CASE req'[u].at \in {"saving", "update"} /\ req'[u].cred = req[u].cred
    <3>1. InFlight(p, new)'
      BY <2>1, <2>2 DEF InFlight, new
    <3> QED BY <3>1 DEF new
  <2>3. CASE req[u].cred \in lost'
    BY <2>1, <2>3 DEF new
  <2>4. CASE req[u].cred <= credential'[Home[u]]
    BY <2>1, <2>4 DEF new
  <2> QED BY <2>1, <2>2, <2>3, <2>4
<1> QED BY <1>2, <1>3, <1>4, <1>5

\* A step of one task that touches neither memory nor history keeps it, unless a refresh is cut
\* short: what other tasks have on the way they keep.
LEMMA LatestMoves ==
    ASSUME TypeOK, MemoryLatest, NEW t \in Tasks, NEW from, NEW to, Moves(t, from, to),
           UNCHANGED <<touched, replaced, credential>>, lost \subseteq lost',
           \/ req[t].at \notin {"saving", "update"}
           \/ req'[t].at \in {"saving", "update"} /\ req'[t].cred = req[t].cred
           \/ req[t].cred \in lost'
    PROVE  MemoryLatest'
<1>1. credential' \in [Procs -> Tokens] /\ \A p \in Procs : credential[p] \in Nat
  BY DEF TypeOK, Tokens
<1>2. \A p \in Procs \ touched' : credential[p] <= credential'[p]
  BY <1>1
<1>3. \A u \in Tasks : req[u].at \in {"saving", "update"} =>
         \/ req'[u].at \in {"saving", "update"} /\ req'[u].cred = req[u].cred
         \/ req[u].cred \in lost'
  BY DEF Moves
<1> QED BY <1>1, <1>2, <1>3, LatestKept

\* A task that puts its token in memory keeps it.
LEMMA LatestSet ==
    ASSUME TypeOK, RefreshNeeded, MemoryLatest, NEW t \in Tasks, NEW STATE token, token \in Tokens,
           SetsMemory(t, token), UNCHANGED <<touched, expired, replaced, lost>>,
           req[t].at \in {"saving", "update"} => req[t].cred = token
    PROVE  MemoryLatest'
<1>1. /\ credential' \in [Procs -> Tokens] /\ credential'[Home[t]] = token
      /\ \A p \in Procs \ {Home[t]} : credential'[p] = credential[p]
  BY HolderSetsMemory DEF SetsMemory
<1>2. /\ \A p \in Procs : credential[p] \in Nat
      /\ token \in Nat /\ Home[t] \in Procs
  BY Fields DEF TypeOK, Tokens
<1>3. \A p \in Procs \ touched' : credential[p] <= credential'[p]
  BY <1>1, <1>2 DEF SetsMemory
<1>4. ASSUME NEW u \in Tasks, req[u].at \in {"saving", "update"}
      PROVE  \/ req'[u].at \in {"saving", "update"} /\ req'[u].cred = req[u].cred
             \/ req[u].cred <= credential'[Home[u]]
  <2>1. CASE u = t
    BY <1>1, <1>2, <1>4, <2>1
  <2>2. CASE u # t
    BY <1>4, <2>2 DEF SetsMemory, Moves
  <2> QED BY <2>1, <2>2
<1> QED BY <1>1, <1>3, <1>4, LatestKept

\* No process has an older token in memory than one it refreshed to and saw through.
LEMMA LatestStep ==
    ASSUME TypeOK, TokensKnown, RefreshNeeded, MemoryLatest, Next
    PROVE  MemoryLatest'
<1>0. /\ credential \in [Procs -> Tokens]
      /\ \A p \in Procs : credential[p] \in Nat /\ credential[p] <= credential[p]
  BY DEF TypeOK, Tokens
<1>1. CASE UNCHANGED <<touched, replaced, credential, lost, req>>
  BY <1>1 DEF MemoryLatest, InFlight
<1>2. ASSUME NEW t \in Tasks, CheckDisk(t) PROVE MemoryLatest'
  <2>1. UNCHANGED <<touched, expired, replaced, lost>> /\ Moves(t, {"check"}, {"send", "exchange"})
    BY <1>2, Places DEF CheckDisk, server
  <2>2. req[t].at \notin {"saving", "update"}
    BY <2>1 DEF Moves
  <2>3. ASSUME NEW token \in Tokens, SetsMemory(t, token) PROVE MemoryLatest'
    BY <2>1, <2>2, <2>3, LatestSet
  <2>4. CASE credential' = credential
    BY <2>1, <2>2, <2>4, LatestMoves
  <2> QED BY <1>2, <2>3, <2>4, MemoryGrows
<1>3. ASSUME NEW t \in Tasks, ExchangeFails(t) PROVE MemoryLatest'
  <2>1. UNCHANGED <<touched, expired, replaced, lost>> /\ Moves(t, {"exchange"}, {"send", "idle"})
    BY <1>3, Places DEF ExchangeFails, server
  <2>2. req[t].at \notin {"saving", "update"}
    BY <2>1 DEF Moves
  <2>3. ASSUME NEW token \in Tokens, SetsMemory(t, token) PROVE MemoryLatest'
    BY <2>1, <2>2, <2>3, LatestSet
  <2>4. CASE credential' = credential
    BY <2>1, <2>2, <2>4, LatestMoves
  <2> QED BY <1>3, <2>3, <2>4, MemoryGrows
<1>4. ASSUME NEW t \in Tasks, UpdateMemory(t) PROVE MemoryLatest'
  <2>1. /\ SetsMemory(t, req[t].cred) /\ req[t].cred \in Tokens
        /\ UNCHANGED <<touched, expired, replaced, lost>>
    BY <1>4, MemoryGrows DEF UpdateMemory, server
  <2> QED BY <2>1, LatestSet
<1>5. ASSUME NEW t \in Tasks, Exchange(t) PROVE MemoryLatest'
  <2> DEFINE new == issued + 1
  <2>1. /\ Moves(t, {"exchange"}, {"saving"}) /\ req'[t].cred = new
        /\ UNCHANGED <<touched, credential, lost>>
        /\ replaced' = [replaced EXCEPT ![Home[t]][req[t].rt] = new]
    BY <1>5, Places DEF Exchange
  <2>2. Home[t] \in Procs /\ replaced \in [Procs -> [Tokens -> Tokens \cup {NoToken}]]
    BY Fields DEF TypeOK
  <2>3. ASSUME NEW p \in Procs, NEW token \in Tokens
        PROVE  \/ replaced'[p][token] = replaced[p][token]
               \/ p = Home[t] /\ replaced'[p][token] = new
    <3> HIDE DEF new
    <3> QED BY <2>1, <2>2
  <2>4. /\ req'[t].at = "saving" /\ req[t].at = "exchange"
        /\ \A u \in Tasks \ {t} : req'[u] = req[u]
    BY <2>1 DEF Moves
  <2> HIDE DEF new
  <2>5. ASSUME NEW p \in Procs \ touched', NEW token \in Tokens
        PROVE  \/ replaced'[p][token] <= credential'[p]
               \/ replaced'[p][token] \in lost'
               \/ \E u \in Tasks : /\ Home[u] = p /\ req'[u].at \in {"saving", "update"}
                                   /\ req'[u].cred = replaced'[p][token]
    <3>1. CASE replaced'[p][token] = replaced[p][token]
      <4>1. \/ replaced[p][token] <= credential[p]
            \/ replaced[p][token] \in lost
            \/ \E u \in Tasks : /\ Home[u] = p /\ req[u].at \in {"saving", "update"}
                                /\ req[u].cred = replaced[p][token]
        BY <2>1, <2>5 DEF MemoryLatest, InFlight
      <4>2. ASSUME NEW u \in Tasks, req[u].at \in {"saving", "update"} PROVE req'[u] = req[u]
        BY <2>4, <4>2
      <4> QED BY <2>1, <3>1, <4>1, <4>2
    <3>2. CASE p = Home[t] /\ replaced'[p][token] = new
      BY <2>1, <2>4, <3>2
    <3> QED BY <2>3, <2>5, <3>1, <3>2
  <2> QED BY <2>5 DEF MemoryLatest, InFlight
<1>6. ASSUME NEW p \in Procs, NEW a \in Accounts, Login(p, a) PROVE MemoryLatest'
  <2>1. touched = {} /\ UNCHANGED <<credential, req, replaced, lost>>
    BY <1>6 DEF Login
  <2> QED BY <1>0, <2>1, LatestKept
<1>7. ASSUME NEW p \in Procs, NEW a \in Accounts, Switch(p, a) PROVE MemoryLatest'
  <2>1. touched = {} /\ UNCHANGED <<credential, req, replaced, lost>>
    BY <1>7 DEF Switch
  <2> QED BY <1>0, <2>1, LatestKept
<1>8. ASSUME Reload PROVE MemoryLatest'
  <2>1. /\ UNCHANGED <<touched, req, replaced, lost>>
        /\ \A p \in Procs \ touched : credential'[p] = credential[p]
    BY <1>8 DEF Reload
  <2> QED BY <2>1 DEF MemoryLatest, InFlight
<1>9. ASSUME NEW t \in Tasks, Cancel(t) PROVE MemoryLatest'
  <2>1. Moves(t, ReqPlaces, {"idle"}) /\ UNCHANGED <<touched, replaced, credential>>
    BY <1>9, Places DEF Cancel
  <2>2. lost \subseteq lost' /\ (req[t].at \in {"saving", "update"} => req[t].cred \in lost')
    BY <1>9 DEF Cancel, Lose, At
  <2> QED BY <2>1, <2>2, LatestMoves
<1>10. ASSUME NEW t \in Tasks, SaveFails(t) PROVE MemoryLatest'
  <2>1. UNCHANGED <<touched, replaced, credential>>
    BY <1>10 DEF SaveFails
  <2>2. CASE At(t, "saving")
    <3>1. Moves(t, {"saving"}, {"idle"}) /\ lost \subseteq lost' /\ req[t].cred \in lost'
      BY <1>10, <2>2, Places DEF SaveFails, Lose
    <3> QED BY <2>1, <3>1, LatestMoves
  <2>3. CASE ~At(t, "saving")
    BY <1>1, <1>10, <2>1, <2>3 DEF SaveFails
  <2> QED BY <2>2, <2>3
<1>11. ASSUME NEW t \in Tasks, WriteFile(t) PROVE MemoryLatest'
  <2>1. UNCHANGED <<touched, replaced, credential, lost>>
    BY <1>11 DEF WriteFile
  <2>2. CASE At(t, "saving")
    <3>1. Moves(t, {"saving"}, {"update"}) /\ req'[t].cred = req[t].cred
      BY <1>11, <2>2, Places
    <3>2. req'[t].at = "update"
      BY <3>1 DEF Moves
    <3> QED BY <2>1, <3>1, <3>2, LatestMoves
  <2>3. CASE ~At(t, "saving")
    BY <1>1, <1>11, <2>1, <2>3 DEF WriteFile
  <2> QED BY <2>2, <2>3
<1>12. ASSUME NEW t \in Tasks,
              \/ get_credential(t) \/ Responds(t) \/ force_refresh(t)
              \/ AcquireGuard(t) \/ ReadDisk(t)
       PROVE  MemoryLatest'
  <2>1. UNCHANGED <<touched, replaced, credential, lost>>
    BY <1>12 DEF get_credential, Responds, force_refresh, AcquireGuard, ReadDisk
  <2>2. \E from \in SUBSET {"idle", "send", "guard", "disk"}, to \in SUBSET ReqPlaces :
           Moves(t, from, to)
    <3>1. /\ {"idle"} \in SUBSET {"idle", "send", "guard", "disk"}
          /\ {"send"} \in SUBSET {"idle", "send", "guard", "disk"}
          /\ {"guard"} \in SUBSET {"idle", "send", "guard", "disk"}
          /\ {"disk"} \in SUBSET {"idle", "send", "guard", "disk"}
          /\ {"send", "guard"} \in SUBSET ReqPlaces /\ {"idle"} \in SUBSET ReqPlaces
          /\ {"guard"} \in SUBSET ReqPlaces /\ {"send", "disk"} \in SUBSET ReqPlaces
          /\ {"check"} \in SUBSET ReqPlaces
      BY DEF ReqPlaces
    <3> QED BY <1>12, <3>1, Places
  <2>3. PICK from \in SUBSET {"idle", "send", "guard", "disk"}, to \in SUBSET ReqPlaces :
           Moves(t, from, to)
    BY <2>2
  <2>4. req[t].at \notin {"saving", "update"}
    BY <2>3 DEF Moves
  <2> QED BY <2>1, <2>3, <2>4, LatestMoves
<1> QED
  BY <1>1, <1>2, <1>3, <1>4, <1>5, <1>6, <1>7, <1>8, <1>9, <1>10, <1>11, <1>12
     DEF Next, Refresh, Save, LockAndLoad, TruncateFile, UserTruncates, UserWrites, Expire, server

-----------------------------------------------------------------------------
(* The types, part by part.                                                *)

RequestsTyped == req \in [Tasks -> Requests] /\ saver \in [Tasks -> Savers]

MemoryTyped ==
    /\ credential \in [Procs -> Tokens]
    /\ replaced \in [Procs -> [Tokens -> Tokens \cup {NoToken}]]
    /\ lost \subseteq Tokens

Users == [at: {"idle", "truncate", "write", "reload"}, store: Stores]

FileTyped ==
    /\ file \in Stores
    /\ file_lock \in Tasks \cup {NoTask}
    /\ user \in Users
    /\ touched \subseteq Procs
    /\ intact \in BOOLEAN

ClockTyped == issued \in 0..MaxTokens /\ expired \in 0..issued

GuardHeld ==
    /\ refresh_guard \in [Procs -> Tasks \cup {NoTask}]
    /\ \A t \in Tasks : refresh_guard[Home[t]] = t <=> req[t].at \in Holding

\* They make up the type invariant.
LEMMA TypeParts ==
    TypeOK <=> RequestsTyped /\ MemoryTyped /\ FileTyped /\ ClockTyped /\ GuardHeld
BY DEF TypeOK, RequestsTyped, MemoryTyped, FileTyped, Users, ClockTyped, GuardHeld, Holding

\* Requests and savers keep their types.
LEMMA RequestsStep ==
    ASSUME TypeOK, TokensKnown, Next
    PROVE  RequestsTyped'
<1> USE DEF RequestsTyped
<1>0. RequestsTyped
  BY TypeParts
<1>1. CASE UNCHANGED <<req, saver>>
  BY <1>0, <1>1
<1>2. ASSUME NEW t \in Tasks, get_credential(t) PROVE RequestsTyped'
  <2>1. Moves(t, {"idle"}, {"send", "guard"})
    BY <1>2, Places
  <2> QED BY <1>2, <2>1, <1>0 DEF get_credential, At, server, Moves, SaverMoves
<1>3. ASSUME NEW t \in Tasks, Responds(t) PROVE RequestsTyped'
  <2>1. Moves(t, {"send"}, {"idle"})
    BY <1>3, Places
  <2> QED BY <1>3, <2>1, <1>0 DEF Responds, At, server, Moves, SaverMoves
<1>4. ASSUME NEW t \in Tasks, force_refresh(t) PROVE RequestsTyped'
  <2>1. Moves(t, {"send"}, {"guard"})
    BY <1>4, Places
  <2> QED BY <1>4, <2>1, <1>0 DEF force_refresh, At, server, Moves, SaverMoves
<1>5. ASSUME NEW t \in Tasks, Cancel(t) PROVE RequestsTyped'
  <2>1. Moves(t, ReqPlaces, {"idle"})
    BY <1>5, Places
  <2> QED BY <1>5, <2>1, <1>0 DEF Cancel, At, ReleaseGuard, server, Moves, SaverMoves
<1>6. ASSUME NEW t \in Tasks, AcquireGuard(t) PROVE RequestsTyped'
  <2>1. Moves(t, {"guard"}, {"send", "disk"})
    BY <1>6, Places
  <2> QED BY <1>6, <2>1, <1>0 DEF AcquireGuard, At, GuardFree, server, Moves, SaverMoves
<1>7. ASSUME NEW t \in Tasks, ReadDisk(t) PROVE RequestsTyped'
  <2>1. Moves(t, {"disk"}, {"check"})
    BY <1>7, Places
  <2> QED BY <1>7, <2>1, <1>0 DEF ReadDisk, At, server, Moves, SaverMoves
<1>8. ASSUME NEW t \in Tasks, CheckDisk(t) PROVE RequestsTyped'
  <2>1. Moves(t, {"check"}, {"send", "exchange"})
    BY <1>8, Places
  <2> QED BY <1>8, <2>1, <1>0
     DEF CheckDisk, At, active_credential, Fresh, SetMemory, ReleaseGuard, server, Moves,
         SaverMoves
<1>9. ASSUME NEW t \in Tasks, Exchange(t) PROVE RequestsTyped'
  <2>1. Moves(t, {"exchange"}, {"saving"}) /\ req'[t].cred = issued + 1
    BY <1>9, Places
  <2>2. SaverMoves(t, {"idle"}, {"lock"})
    BY <1>9, SaverPlacesOf
  <2> QED BY <1>9, <2>1, <2>2, <1>0 DEF Exchange, At, server, Moves, SaverMoves
<1>10. ASSUME NEW t \in Tasks, ExchangeFails(t) PROVE RequestsTyped'
  <2>1. Moves(t, {"exchange"}, {"send", "idle"})
    BY <1>10, Places
  <2> QED BY <1>10, <2>1, <1>0
     DEF ExchangeFails, At, ReleaseGuard, FallbackTokens, Fresh, SetMemory, server, Moves,
         SaverMoves
<1>11. ASSUME NEW t \in Tasks, UpdateMemory(t) PROVE RequestsTyped'
  <2>1. Moves(t, {"update"}, {"send"})
    BY <1>11, Places
  <2> QED BY <1>11, <2>1, <1>0 DEF UpdateMemory, At, SetMemory, ReleaseGuard, server, Moves, SaverMoves
<1>12. ASSUME NEW t \in Tasks, LockAndLoad(t) PROVE RequestsTyped'
  <2>1. SaverMoves(t, {"lock"}, {"truncate"}) /\ (AllPresent(file) => AllPresent(saver'[t].store))
    BY <1>12, SaverPlacesOf
  <2> QED BY <1>12, <2>1, <1>0 DEF LockAndLoad, Saving, TakeLock, server, Moves, SaverMoves
<1>13. ASSUME NEW t \in Tasks, TruncateFile(t) PROVE RequestsTyped'
  <2>1. SaverMoves(t, {"truncate"}, {"write"}) /\ saver'[t].store = saver[t].store
    BY <1>13, SaverPlacesOf
  <2> QED BY <1>13, <2>1, <1>0 DEF TruncateFile, Saving, server, Moves, SaverMoves
<1>14. ASSUME NEW t \in Tasks, WriteFile(t) PROVE RequestsTyped'
  <2>1. IF At(t, "saving")
        THEN Moves(t, {"saving"}, {"update"}) /\ req'[t].cred = req[t].cred
        ELSE UNCHANGED req
    BY <1>14, Places DEF WriteFile
  <2>2. SaverMoves(t, {"write"}, {"idle"})
    BY <1>14, SaverPlacesOf
  <2> QED BY <1>14, <2>1, <2>2, <1>0 DEF WriteFile, Saving, Unlock, At, server, Moves, SaverMoves
<1>15. ASSUME NEW t \in Tasks, SaveFails(t) PROVE RequestsTyped'
  <2>1. IF At(t, "saving")
        THEN Moves(t, {"saving"}, {"idle"})
        ELSE UNCHANGED req
    BY <1>15, Places DEF SaveFails
  <2>2. SaverMoves(t, {"truncate"}, {"idle"})
    BY <1>15, SaverPlacesOf
  <2> QED BY <1>15, <2>1, <2>2, <1>0
     DEF SaveFails, Saving, Unlock, At, ReleaseGuard, server, Moves, SaverMoves
<1> QED
  BY <1>1, <1>2, <1>3, <1>4, <1>5, <1>6, <1>7, <1>8, <1>9, <1>10, <1>11, <1>12, <1>13, <1>14,
     <1>15
     DEF Next, Refresh, Save, Login, Switch, UserTruncates, UserWrites, Reload, Expire, server

\* Memory holds tokens, and the history names tokens.
LEMMA MemoryStep ==
    ASSUME TypeOK, TokensKnown, RefreshNeeded, Next
    PROVE  MemoryTyped'
<1> USE DEF MemoryTyped
<1>0. MemoryTyped
  BY TypeParts
<1>1. CASE UNCHANGED <<credential, replaced, lost>>
  BY <1>0, <1>1
<1>2. ASSUME NEW t \in Tasks, CheckDisk(t) PROVE MemoryTyped'
  <2>1. UNCHANGED <<touched, expired, replaced, lost>>
    BY <1>2 DEF CheckDisk, server
  <2>2. ASSUME NEW token \in Tokens, SetsMemory(t, token) PROVE credential' \in [Procs -> Tokens]
    BY <2>1, <2>2, HolderSetsMemory DEF SetsMemory
  <2> QED BY <1>0, <1>2, <2>1, <2>2, MemoryGrows
<1>3. ASSUME NEW t \in Tasks, ExchangeFails(t) PROVE MemoryTyped'
  <2>1. UNCHANGED <<touched, expired, replaced, lost>>
    BY <1>3 DEF ExchangeFails, server
  <2>2. ASSUME NEW token \in Tokens, SetsMemory(t, token) PROVE credential' \in [Procs -> Tokens]
    BY <2>1, <2>2, HolderSetsMemory DEF SetsMemory
  <2> QED BY <1>0, <1>3, <2>1, <2>2, MemoryGrows
<1>4. ASSUME NEW t \in Tasks, UpdateMemory(t) PROVE MemoryTyped'
  <2>1. /\ SetsMemory(t, req[t].cred) /\ req[t].cred \in Tokens
        /\ UNCHANGED <<touched, expired, replaced, lost>>
    BY <1>4, MemoryGrows DEF UpdateMemory, server
  <2>2. credential' \in [Procs -> Tokens]
    BY <2>1, HolderSetsMemory DEF SetsMemory
  <2> QED BY <1>0, <2>1, <2>2
<1>5. ASSUME NEW t \in Tasks, Exchange(t) PROVE MemoryTyped'
  <2> DEFINE new == issued + 1
             old == req[t].rt
  <2>1. new \in Tokens
    BY <1>5, CredentialsAssumption DEF Exchange, TypeOK, Tokens
  <2>2. replaced' = [replaced EXCEPT ![Home[t]][old] = new] /\ UNCHANGED <<credential, lost>>
    BY <1>5 DEF Exchange
  <2>3. old \in Tokens /\ Home[t] \in Procs
    BY <1>5, Fields DEF Exchange, TokensKnown, At
  <2> HIDE DEF new, old
  <2> QED BY <1>0, <2>1, <2>2, <2>3
<1>6. ASSUME NEW t \in Tasks, Cancel(t) \/ SaveFails(t) PROVE MemoryTyped'
  <2>1. UNCHANGED <<credential, replaced>>
    BY <1>6 DEF Cancel, SaveFails
  <2>2. lost' = lost \/ (req[t].at \in {"saving", "update"} /\ lost' = lost \cup {req[t].cred})
    BY <1>6 DEF Cancel, SaveFails, Lose, At
  <2>3. req[t].at \in {"saving", "update"} => req[t].cred \in Tokens
    BY Fields DEF TokensKnown
  <2> QED BY <1>0, <2>1, <2>2, <2>3
<1>7. ASSUME Reload PROVE MemoryTyped'
  <2> DEFINE found == active_credential(file)
  <2>1. Fresh(found) => found \in Tokens
    <3>1. file \in Stores
      BY DEF TypeOK
    <3>2. found \in Tokens \cup {NoToken}
      BY <3>1, StoreFacts DEF active_credential
    <3> QED BY <3>2 DEF Fresh
  <2>2. /\ credential' = [p \in Procs |-> IF p \in touched /\ Fresh(found) THEN found ELSE credential[p]]
        /\ UNCHANGED <<replaced, lost>>
    BY <1>7 DEF Reload
  <2> HIDE DEF found
  <2> QED BY <1>0, <2>1, <2>2
<1> QED
  BY <1>1, <1>2, <1>3, <1>4, <1>5, <1>6, <1>7
     DEF Next, Refresh, Save, get_credential, Responds, force_refresh, AcquireGuard,
         ReadDisk, LockAndLoad, TruncateFile, WriteFile, Login, Switch,
         UserTruncates, UserWrites, Expire, server

\* The file holds a store, and so does what the user is to write.
LEMMA FileStep ==
    ASSUME TypeOK, Next
    PROVE  FileTyped'
<1> USE DEF FileTyped
<1>0. FileTyped
  BY TypeParts
<1>1. CASE UNCHANGED <<file, file_lock, user, touched, intact>>
  BY <1>0, <1>1
<1>2. ASSUME NEW t \in Tasks, LockAndLoad(t) PROVE FileTyped'
  BY <1>0, <1>2, Fields, StoreFacts DEF LockAndLoad, TakeLock, Unlock
<1>3. ASSUME NEW t \in Tasks, TruncateFile(t) PROVE FileTyped'
  BY <1>0, <1>3, Fields, StoreFacts DEF TruncateFile, TakeLock, Unlock
<1>4. ASSUME NEW t \in Tasks, WriteFile(t) PROVE FileTyped'
  BY <1>0, <1>4, Fields, StoreFacts DEF WriteFile, TakeLock, Unlock
<1>5. ASSUME NEW t \in Tasks, SaveFails(t) PROVE FileTyped'
  BY <1>0, <1>5, Fields, StoreFacts DEF SaveFails, TakeLock, Unlock
<1>6. ASSUME NEW p \in Procs, NEW a \in Accounts, Login(p, a) PROVE FileTyped'
  <2> DEFINE new == set_credential(file, a, issued + 1)
  <2>1. issued + 1 \in Tokens
    BY <1>6, CredentialsAssumption DEF Login, TypeOK, Tokens
  <2>2. [new EXCEPT !.active = a] \in Stores
    BY <1>0, <2>1, SetCredentialType, StoreFacts
  <2>3. /\ user' = [at |-> "truncate", store |-> [new EXCEPT !.active = a]]
        /\ touched' = {p} /\ intact' = FALSE /\ UNCHANGED <<file, file_lock>>
    BY <1>6 DEF Login
  <2> HIDE DEF new
  <2> QED BY <1>0, <2>2, <2>3 DEF Users
<1>7. ASSUME NEW p \in Procs, NEW a \in Accounts, Switch(p, a) PROVE FileTyped'
  <2> DEFINE new == [file EXCEPT !.active = a]
  <2>1. new \in Stores
    BY <1>0, StoreFacts
  <2>2. /\ user' = [at |-> "truncate", store |-> new]
        /\ touched' = {p} /\ intact' = FALSE /\ UNCHANGED <<file, file_lock>>
    BY <1>7 DEF Switch
  <2> HIDE DEF new
  <2> QED BY <1>0, <2>1, <2>2 DEF Users
<1>8. ASSUME UserTruncates PROVE FileTyped'
  BY <1>0, <1>8, StoreFacts DEF UserTruncates, Users
<1>9. ASSUME UserWrites PROVE FileTyped'
  BY <1>0, <1>9, StoreFacts DEF UserWrites, Users
<1>10. ASSUME Reload PROVE FileTyped'
  BY <1>0, <1>10, StoreFacts DEF Reload, Users
<1> QED
  BY <1>1, <1>2, <1>3, <1>4, <1>5, <1>6, <1>7, <1>8, <1>9, <1>10
     DEF Next, Refresh, Save, get_credential, Responds, force_refresh, Cancel, AcquireGuard,
         ReadDisk, CheckDisk, Exchange, ExchangeFails, UpdateMemory, Expire, server

\* Tokens expire after they are issued, and the bound holds.
LEMMA ClockStep ==
    ASSUME TypeOK, Next
    PROVE  ClockTyped'
<1> USE DEF ClockTyped
<1>0. ClockTyped
  BY TypeParts
<1>1. CASE UNCHANGED <<issued, expired>>
  BY <1>0, <1>1
<1>2. ASSUME NEW t \in Tasks, Exchange(t) PROVE ClockTyped'
  BY <1>0, <1>2, CredentialsAssumption DEF Exchange
<1>3. ASSUME NEW p \in Procs, NEW a \in Accounts, Login(p, a) PROVE ClockTyped'
  BY <1>0, <1>3, CredentialsAssumption DEF Login
<1>4. ASSUME Expire PROVE ClockTyped'
  BY <1>0, <1>4, CredentialsAssumption DEF Expire
<1> QED
  BY <1>1, <1>2, <1>3, <1>4
     DEF Next, Refresh, Save, get_credential, Responds, force_refresh, Cancel, AcquireGuard,
         ReadDisk, CheckDisk, ExchangeFails, UpdateMemory, LockAndLoad, TruncateFile, WriteFile,
         SaveFails, Switch, UserTruncates, UserWrites, Reload, server

\* A step that keeps the guard keeps its task on one side of the re-check, one that gives it back
\* ends the refresh.
LEMMA GuardMoves ==
    ASSUME TypeOK, NEW t \in Tasks
    PROVE  /\ Moves(t, ReqPlaces \ Holding, ReqPlaces \ Holding) /\ UNCHANGED refresh_guard => GuardHeld'
           /\ Moves(t, Holding, Holding) /\ UNCHANGED refresh_guard => GuardHeld'
           /\ Moves(t, Holding, ReqPlaces \ Holding) /\ ReleaseGuard(t) => GuardHeld'
           /\ Moves(t, ReqPlaces \ Holding, Holding) /\ GuardFree(t)
                /\ refresh_guard' = [refresh_guard EXCEPT ![Home[t]] = t] => GuardHeld'
<1>1. GuardHeld /\ Home \in [Tasks -> Procs] /\ NoTask \notin Tasks
  BY TypeParts, CredentialsAssumption
<1>2. ASSUME UNCHANGED refresh_guard, \A u \in Tasks : req'[u].at \in Holding <=> req[u].at \in Holding
      PROVE  GuardHeld'
  BY <1>1, <1>2 DEF GuardHeld
<1>3. ASSUME NEW v \in Tasks \cup {NoTask}, refresh_guard' = [refresh_guard EXCEPT ![Home[t]] = v],
             refresh_guard[Home[t]] \in {t, NoTask},
             req'[t].at \in Holding <=> v = t, v \in {t, NoTask},
             \A u \in Tasks \ {t} : req'[u] = req[u]
      PROVE  GuardHeld'
  <2>1. refresh_guard' \in [Procs -> Tasks \cup {NoTask}] /\ refresh_guard'[Home[t]] = v
    BY <1>1, <1>3 DEF GuardHeld
  <2>2. ASSUME NEW u \in Tasks \ {t} PROVE refresh_guard'[Home[u]] = u <=> req'[u].at \in Holding
    <3>1. refresh_guard[Home[u]] = u <=> req'[u].at \in Holding
      BY <1>1, <1>3, <2>2 DEF GuardHeld
    <3>2. CASE Home[u] = Home[t]
      BY <1>1, <1>3, <2>1, <2>2, <3>1, <3>2
    <3>3. CASE Home[u] # Home[t]
      BY <1>1, <1>3, <2>2, <3>1, <3>3 DEF GuardHeld
    <3> QED BY <3>2, <3>3
  <2> QED BY <1>1, <1>3, <2>1, <2>2 DEF GuardHeld
<1>4. ASSUME Moves(t, ReqPlaces \ Holding, ReqPlaces \ Holding), UNCHANGED refresh_guard PROVE GuardHeld'
  BY <1>2, <1>4 DEF Moves
<1>5. ASSUME Moves(t, Holding, Holding), UNCHANGED refresh_guard PROVE GuardHeld'
  BY <1>2, <1>5 DEF Moves
<1>6. ASSUME Moves(t, Holding, ReqPlaces \ Holding), ReleaseGuard(t) PROVE GuardHeld'
  BY <1>1, <1>3, <1>6 DEF Moves, ReleaseGuard, GuardHeld
<1>7. ASSUME Moves(t, ReqPlaces \ Holding, Holding), GuardFree(t),
             refresh_guard' = [refresh_guard EXCEPT ![Home[t]] = t]
      PROVE  GuardHeld'
  BY <1>1, <1>3, <1>7 DEF Moves, GuardFree
<1> QED BY <1>4, <1>5, <1>6, <1>7

\* The guard goes with the place of its holder.
LEMMA GuardStep ==
    ASSUME TypeOK, TokensKnown, Next
    PROVE  GuardHeld'
<1>1. CASE UNCHANGED <<req, refresh_guard>>
  BY <1>1, TypeParts DEF GuardHeld
<1>2. ASSUME NEW t \in Tasks, get_credential(t) PROVE GuardHeld'
  <2>1. Moves(t, ReqPlaces \ Holding, ReqPlaces \ Holding) /\ UNCHANGED refresh_guard
    BY <1>2, Places DEF get_credential, Moves, Holding, ReqPlaces
  <2> QED BY <2>1, GuardMoves
<1>3. ASSUME NEW t \in Tasks, Responds(t) PROVE GuardHeld'
  <2>1. Moves(t, ReqPlaces \ Holding, ReqPlaces \ Holding) /\ UNCHANGED refresh_guard
    BY <1>3, Places DEF Responds, Moves, Holding, ReqPlaces
  <2> QED BY <2>1, GuardMoves
<1>4. ASSUME NEW t \in Tasks, force_refresh(t) PROVE GuardHeld'
  <2>1. Moves(t, ReqPlaces \ Holding, ReqPlaces \ Holding) /\ UNCHANGED refresh_guard
    BY <1>4, Places DEF force_refresh, Moves, Holding, ReqPlaces
  <2> QED BY <2>1, GuardMoves
<1>5. ASSUME NEW t \in Tasks, Cancel(t) PROVE GuardHeld'
  <2>1. /\ Moves(t, ReqPlaces, {"idle"})
        /\ refresh_guard[Home[t]] = t <=> req[t].at \in Holding
    BY <1>5, Places DEF TypeOK, Holding
  <2>2. CASE refresh_guard[Home[t]] = t
    <3>1. Moves(t, Holding, ReqPlaces \ Holding) /\ ReleaseGuard(t)
      BY <1>5, <2>1, <2>2 DEF Cancel, Moves, Holding, ReqPlaces
    <3> QED BY <3>1, GuardMoves
  <2>3. CASE refresh_guard[Home[t]] # t
    <3>1. Moves(t, ReqPlaces \ Holding, ReqPlaces \ Holding) /\ UNCHANGED refresh_guard
      BY <1>5, <2>1, <2>3 DEF Cancel, Moves, Holding, ReqPlaces
    <3> QED BY <3>1, GuardMoves
  <2> QED BY <2>2, <2>3
<1>6. ASSUME NEW t \in Tasks, AcquireGuard(t) PROVE GuardHeld'
  <2>1. Moves(t, {"guard"}, {"send", "disk"}) /\ GuardFree(t)
    BY <1>6, Places DEF AcquireGuard
  <2>2. CASE ~is_expired(credential[Home[t]])
    <3>1. req'[t].at = "send" /\ UNCHANGED refresh_guard
      BY <1>6, <2>2, SendGoes DEF AcquireGuard
    <3>2. Moves(t, ReqPlaces \ Holding, ReqPlaces \ Holding)
      BY <2>1, <3>1 DEF Moves, Holding, ReqPlaces
    <3> QED BY <3>1, <3>2, GuardMoves
  <2>3. CASE is_expired(credential[Home[t]])
    <3>1. Goto(t, "disk") /\ refresh_guard' = [refresh_guard EXCEPT ![Home[t]] = t]
      BY <1>6, <2>3 DEF AcquireGuard
    <3>2. req'[t].at = "disk"
      BY <3>1, GoesTo
    <3>3. Moves(t, ReqPlaces \ Holding, Holding)
      BY <2>1, <3>2 DEF Moves, Holding, ReqPlaces
    <3> QED BY <2>1, <3>1, <3>3, GuardMoves
  <2> QED BY <2>2, <2>3
<1>7. ASSUME NEW t \in Tasks, ReadDisk(t) PROVE GuardHeld'
  <2>1. Moves(t, Holding, Holding) /\ UNCHANGED refresh_guard
    BY <1>7, Places DEF ReadDisk, Moves, Holding, ReqPlaces
  <2> QED BY <2>1, GuardMoves
<1>8. ASSUME NEW t \in Tasks, CheckDisk(t) PROVE GuardHeld'
  <2>1. Moves(t, {"check"}, {"send", "exchange"})
    BY <1>8, Places
  <2>2. CASE Fresh(active_credential(req[t].store))
    <3>1. req'[t].at = "send" /\ ReleaseGuard(t)
      BY <1>8, <2>2, SendGoes DEF CheckDisk
    <3>2. Moves(t, Holding, ReqPlaces \ Holding)
      BY <2>1, <3>1 DEF Moves, Holding, ReqPlaces
    <3> QED BY <3>1, <3>2, GuardMoves
  <2>3. CASE ~Fresh(active_credential(req[t].store))
    <3>1. Goto(t, "exchange") /\ UNCHANGED refresh_guard
      BY <1>8, <2>3 DEF CheckDisk
    <3>2. req'[t].at = "exchange"
      BY <3>1, GoesTo
    <3>3. Moves(t, Holding, Holding)
      BY <2>1, <3>2 DEF Moves, Holding, ReqPlaces
    <3> QED BY <3>1, <3>3, GuardMoves
  <2> QED BY <2>2, <2>3
<1>9. ASSUME NEW t \in Tasks, Exchange(t) PROVE GuardHeld'
  <2>1. Moves(t, Holding, Holding) /\ UNCHANGED refresh_guard
    BY <1>9, Places DEF Exchange, Moves, Holding, ReqPlaces
  <2> QED BY <2>1, GuardMoves
<1>10. ASSUME NEW t \in Tasks, ExchangeFails(t) PROVE GuardHeld'
  <2>1. Moves(t, Holding, ReqPlaces \ Holding) /\ ReleaseGuard(t)
    BY <1>10, Places DEF ExchangeFails, Moves, Holding, ReqPlaces
  <2> QED BY <2>1, GuardMoves
<1>11. ASSUME NEW t \in Tasks, UpdateMemory(t) PROVE GuardHeld'
  <2>1. Moves(t, Holding, ReqPlaces \ Holding) /\ ReleaseGuard(t)
    BY <1>11, Places DEF UpdateMemory, Moves, Holding, ReqPlaces
  <2> QED BY <2>1, GuardMoves
<1>12. ASSUME NEW t \in Tasks, WriteFile(t) PROVE GuardHeld'
  <2>1. CASE At(t, "saving")
    <3>1. Moves(t, Holding, Holding) /\ UNCHANGED refresh_guard
      BY <1>12, <2>1, Places DEF WriteFile, Moves, Holding
    <3> QED BY <3>1, GuardMoves
  <2>2. CASE ~At(t, "saving")
    BY <1>12, <2>2, TypeParts DEF WriteFile, GuardHeld
  <2> QED BY <2>1, <2>2
<1>13. ASSUME NEW t \in Tasks, SaveFails(t) PROVE GuardHeld'
  <2>1. CASE At(t, "saving")
    <3>1. Moves(t, Holding, ReqPlaces \ Holding) /\ ReleaseGuard(t)
      BY <1>13, <2>1, Places DEF SaveFails, Moves, Holding, ReqPlaces
    <3> QED BY <3>1, GuardMoves
  <2>2. CASE ~At(t, "saving")
    BY <1>13, <2>2, TypeParts DEF SaveFails, GuardHeld
  <2> QED BY <2>1, <2>2
<1> QED
  BY <1>1, <1>2, <1>3, <1>4, <1>5, <1>6, <1>7, <1>8, <1>9, <1>10, <1>11, <1>12, <1>13
     DEF Next, Refresh, Save, LockAndLoad, TruncateFile, Login, Switch, UserTruncates,
         UserWrites, Reload, Expire, server

\* A saver with the lock is the only writer from its load to its write.
LEMMA WholeStep ==
    ASSUME TypeOK, TokensKnown, WholeUnderLock, Next
    PROVE  WholeUnderLock'
<1> USE DEF WholeUnderLock
<1>1. CASE UNCHANGED <<intact, user, saver, file_lock, file>>
  BY <1>1
<1>2. ASSUME NEW t \in Tasks, Exchange(t) PROVE WholeUnderLock'
  <2>1. SaverMoves(t, {"idle"}, {"lock"})
    BY <1>2, SaverPlacesOf
  <2>2. Home[t] \in Procs /\ t # NoTask
    BY Fields
  <2> QED BY <1>2, <2>1, <2>2 DEF Exchange, At, server, SaverMoves
<1>3. ASSUME NEW t \in Tasks, LockAndLoad(t) PROVE WholeUnderLock'
  <2>1. SaverMoves(t, {"lock"}, {"truncate"}) /\ (AllPresent(file) => AllPresent(saver'[t].store))
    BY <1>3, SaverPlacesOf
  <2>2. UNCHANGED <<file, user>>
    BY <1>3 DEF LockAndLoad
  <2>3. CASE TakeLock(t) /\ UNCHANGED intact
    <3>1. file_lock = NoTask /\ file_lock' = t /\ \A u \in Tasks : u # NoTask
      BY <2>3, Fields DEF TakeLock
    <3>2. intact => \A u \in Tasks : saver[u].at \notin {"truncate", "write"}
      BY <3>1
    <3>3. intact => \A u \in Tasks \ {t} : saver'[u].at \notin {"truncate", "write"}
      BY <2>1, <3>2 DEF SaverMoves
    <3>4. intact => AllPresent(file)
      BY <3>2
    <3> QED BY <2>1, <2>2, <2>3, <3>1, <3>3, <3>4 DEF SaverMoves
  <2>4. CASE intact' = FALSE
    BY <2>4
  <2> QED BY <1>3, <2>3, <2>4 DEF LockAndLoad
<1>4. ASSUME NEW t \in Tasks, TruncateFile(t) PROVE WholeUnderLock'
  <2>1. SaverMoves(t, {"truncate"}, {"write"}) /\ saver'[t].store = saver[t].store
    BY <1>4, SaverPlacesOf
  <2>2. Home[t] \in Procs /\ t # NoTask
    BY Fields
  <2> QED BY <1>4, <2>1, <2>2 DEF TruncateFile, Saving, server, SaverMoves
<1>5. ASSUME NEW t \in Tasks, WriteFile(t) PROVE WholeUnderLock'
  <2>1. SaverMoves(t, {"write"}, {"idle"})
    BY <1>5, SaverPlacesOf
  <2>2. Home[t] \in Procs /\ t # NoTask
    BY Fields
  <2> QED BY <1>5, <2>1, <2>2 DEF WriteFile, Saving, Unlock, At, server, SaverMoves
<1>6. ASSUME NEW t \in Tasks, SaveFails(t) PROVE WholeUnderLock'
  <2>1. SaverMoves(t, {"truncate"}, {"idle"})
    BY <1>6, SaverPlacesOf
  <2>2. Home[t] \in Procs /\ t # NoTask
    BY Fields
  <2> QED BY <1>6, <2>1, <2>2 DEF SaveFails, Saving, Unlock, At, ReleaseGuard, server, SaverMoves
<1>7. ASSUME NEW p \in Procs, NEW a \in Accounts, Login(p, a) PROVE WholeUnderLock'
  BY <1>7 DEF Login, server
<1>8. ASSUME NEW p \in Procs, NEW a \in Accounts, Switch(p, a) PROVE WholeUnderLock'
  BY <1>8 DEF Switch, server
<1>9. ASSUME UserTruncates PROVE WholeUnderLock'
  BY <1>9 DEF UserTruncates, server
<1>10. ASSUME UserWrites PROVE WholeUnderLock'
  BY <1>10 DEF UserWrites, server
<1>11. ASSUME Reload PROVE WholeUnderLock'
  BY <1>11 DEF Reload, active_credential, Fresh, server
<1> QED
  BY <1>1, <1>2, <1>3, <1>4, <1>5, <1>6, <1>7, <1>8, <1>9, <1>10, <1>11
     DEF Next, Refresh, Save, get_credential, Responds, force_refresh, Cancel, AcquireGuard,
         ReadDisk, CheckDisk, ExchangeFails, UpdateMemory, Expire, server

-----------------------------------------------------------------------------
(* The theorems.                                                           *)

\* Every initial state satisfies the invariant.
LEMMA InitHolds == Init => IInv
<1> SUFFICES ASSUME Init PROVE IInv
  OBVIOUS
<1>1. PICK creds \in Injection(Accounts, 1..issued) :
          /\ creds[Default] = 1
          /\ file = [active |-> Default, accounts |-> creds]
          /\ credential = [p \in Procs |-> creds[Default]]
  BY DEF Init
<1>2. issued \in Nat /\ issued <= MaxTokens /\ MaxTokens \in Nat /\ expired = 0
  BY CredentialsAssumption, FS_CardinalityType DEF Init
<1>3. creds \in [Accounts -> 1..issued]
  BY <1>1 DEF Injection
<1>4. 1..issued \subseteq Tokens /\ 1 \in 1..issued /\ NoToken \notin Tokens /\ 1 \in Tokens
  BY <1>1, <1>2, <1>3, CredentialsAssumption DEF Tokens, NoToken
<1>5. creds \in [Accounts -> Tokens]
  BY <1>3, <1>4
<1>6. file \in Stores /\ AllPresent(file)
  BY <1>1, <1>4, <1>5, CredentialsAssumption DEF Stores, AllPresent
<1>7. FileTyped
  BY <1>6, StoreFacts DEF Init, FileTyped, Users
<1>8. MemoryTyped
  BY <1>1, <1>4 DEF Init, MemoryTyped
<1>9. ClockTyped
  BY <1>2 DEF ClockTyped
<1>10. RequestsTyped
  BY StoreFacts DEF Init, RequestsTyped, IdleReq, IdleSaver, Requests, Savers, ReqPlaces, SaverPlaces
<1>11. GuardHeld
  BY CredentialsAssumption DEF Init, GuardHeld, IdleReq, Holding
<1>12. TypeOK
  BY <1>7, <1>8, <1>9, <1>10, <1>11, TypeParts
<1>13. TokensKnown /\ RefreshNeeded
  BY DEF Init, TokensKnown, RefreshNeeded, IdleReq, IdleSaver, Holding
<1>14. MemoryLatest
  BY <1>1 DEF Init, MemoryLatest, NoToken
<1>15. WholeUnderLock
  BY <1>6 DEF Init, WholeUnderLock, IdleSaver
<1> QED BY <1>12, <1>13, <1>14, <1>15 DEF IInv

\* Every step keeps it.
LEMMA StepHolds == IInv /\ [Next]_vars => IInv'
<1>1. ASSUME IInv, Next PROVE IInv'
  <2>1. TypeOK /\ TokensKnown /\ RefreshNeeded /\ MemoryLatest /\ WholeUnderLock
    BY <1>1 DEF IInv
  <2>2. RequestsTyped' /\ MemoryTyped' /\ FileTyped' /\ ClockTyped' /\ GuardHeld'
    BY <1>1, <2>1, RequestsStep, MemoryStep, FileStep, ClockStep, GuardStep
  <2>3. TypeOK'
    BY <2>2 DEF TypeOK, RequestsTyped, MemoryTyped, FileTyped, Users, ClockTyped, GuardHeld, Holding
  <2>4. TokensKnown' /\ RefreshNeeded' /\ MemoryLatest' /\ WholeUnderLock'
    BY <1>1, <2>1, KnownStep, NeededStep, LatestStep, WholeStep
  <2> QED BY <2>3, <2>4 DEF IInv
<1>2. ASSUME IInv, UNCHANGED vars PROVE IInv'
  BY <1>2
     DEF vars, IInv, TypeOK, TokensKnown, RefreshNeeded, MemoryLatest, InFlight, WholeUnderLock,
         AllPresent
<1> QED BY <1>1, <1>2

\* The invariant is inductive.
THEOREM Invariant == Spec => []IInv
BY InitHolds, StepHolds, PTL DEF Spec

\* The types hold, and a request holds its process's refresh guard exactly while do_refresh is past
\* its re-check, whichever step ends it: a fresh token on disk, a fallback, a failed save, a cancel.
THEOREM TypeCorrect == Spec => []TypeOK
<1>1. IInv => TypeOK
  BY DEF IInv
<1> QED BY <1>1, Invariant, PTL

\* Concurrent refreshes of a process coalesce, with any number of tasks: do_refresh sends a refresh
\* token again only when the token its process got for it has expired, or never reached memory since
\* its refresh was cancelled or its save failed.
THEOREM CoalesceCorrect == Spec => []RefreshesCoalesce
<1>1. IInv => RefreshesCoalesce
  <2> SUFFICES ASSUME IInv, NEW t \in Tasks, At(t, "exchange"), Home[t] \notin touched
               PROVE  \/ is_expired(replaced[Home[t]][req[t].rt])
                      \/ replaced[Home[t]][req[t].rt] \in lost
    BY DEF RefreshesCoalesce, SentAgain
  <2> DEFINE new == replaced[Home[t]][req[t].rt]
  <2>1. TypeOK /\ req[t].rt \in Tokens /\ Home[t] \in Procs
    BY Fields DEF IInv, TokensKnown, At
  <2>2. credential[Home[t]] <= expired
    BY DEF IInv, RefreshNeeded, Holding, At
  <2>3. new <= credential[Home[t]] \/ new \in lost \/ InFlight(Home[t], new)
    BY <2>1 DEF IInv, MemoryLatest
  <2>4. new \in Nat /\ credential[Home[t]] \in Nat /\ expired \in Nat
    BY <2>1, ReplacedNat, Fields, CredentialsAssumption DEF TypeOK, Tokens
  <2> HIDE DEF new
  <2>5. ~InFlight(Home[t], new)
    <3> SUFFICES ASSUME NEW u \in Tasks, Home[u] = Home[t], req[u].at \in {"saving", "update"}
                 PROVE  FALSE
      BY DEF InFlight
    <3>1. req[t].at \in Holding /\ req[u].at \in Holding
      BY DEF At, Holding
    <3>2. u = t
      BY <2>1, <3>1, OneHolder
    <3> QED BY <3>2 DEF At
  <2>6. new <= credential[Home[t]] => new <= expired
    BY <2>2, <2>4
  <2> QED BY <2>3, <2>5, <2>6 DEF is_expired, new
<1> QED BY <1>1, Invariant, PTL

\* As long as every writer held the lock of auth.json, no save loses an account.
THEOREM SavesCorrect == Spec => []LockedSavesKeepAccounts
<1>1. IInv => LockedSavesKeepAccounts
  BY DEF IInv, WholeUnderLock, LockedSavesKeepAccounts, Saving, AllPresent
<1> QED BY <1>1, Invariant, PTL

=============================================================================
