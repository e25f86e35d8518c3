----------------------------- MODULE LdapSearch -----------------------------
(***************************************************************************)
(* LdapService.searchCollection with _getClient, _connect and disconnect   *)
(* (src/services/ldap/index.js) for one LDAP configuration, composed with  *)
(* the LockingQueue of its url: a search is the request it makes there.    *)
(* The searches of one synchronisation run interleaved (Promise.all over   *)
(* the schools), and so do those of different callers.                     *)
(***************************************************************************)
EXTENDS LockingQueue

CONSTANTS
    Connections,        \* LDAP clients that may be created (ldap.createClient)
    NoClient

ASSUME SearchAssumption == NoClient \notin Connections

VARIABLES
    current,            \* this.clients[config.url]
    conn,               \* state of each LDAP client
    client,             \* the client a search got from _getClient
    phase               \* where each search is

searchVars == <<vars, current, conn, client, phase>>

SearchEnded == {"resolved", "rejected"}
ConnStates == {"unused", "connecting", "failed", "open", "lost", "destroyed"}

Enter(s, p) == phase' = [phase EXCEPT ![s] = p]
SetConn(k, c) == conn' = [conn EXCEPT ![k] = c]

SearchInit ==
    /\ Init
    /\ current = NoClient
    /\ conn = [k \in Connections |-> "unused"]
    /\ client = [s \in Requests |-> NoClient]
    /\ phase = [s \in Requests |-> "idle"]

Connected == current # NoClient /\ conn[current] = "open"

(* _getClient finds a connected client; getLock is called with it.         *)
ReuseClient(s) ==
    /\ phase[s] = "idle"
    /\ Connected
    /\ client' = [client EXCEPT ![s] = current]
    /\ GetLock(s)
    /\ Enter(s, "locking")
    /\ UNCHANGED <<current, conn>>

(* _getClient finds none, or one that has lost its connection.             *)
Connect(s) ==
    /\ phase[s] = "idle"
    /\ ~Connected
    /\ \E k \in Connections :
          /\ conn[k] = "unused"
          /\ SetConn(k, "connecting")
          /\ client' = [client EXCEPT ![s] = k]
    /\ Enter(s, "connecting")
    /\ UNCHANGED <<vars, current>>

(* Bind succeeds: _addClient replaces the client of the url, whatever was  *)
(* added while this one was connecting.                                    *)
AddClient(s) ==
    /\ phase[s] = "connecting"
    /\ SetConn(client[s], "open")
    /\ current' = client[s]
    /\ GetLock(s)
    /\ Enter(s, "locking")
    /\ UNCHANGED client

ConnectFails(s) ==
    /\ phase[s] = "connecting"
    /\ SetConn(client[s], "failed")
    /\ Enter(s, "rejected")
    /\ UNCHANGED <<vars, current, client>>

(* The lock is granted; the search is sent on the client chosen before.    *)
Search(s) ==
    /\ phase[s] = "locking" /\ status[s] = "granted"
    /\ conn[client[s]] = "open"
    /\ Enter(s, "searching")
    /\ UNCHANGED <<vars, current, conn, client>>

(* Mutant of HandleError: the lock is not released.                        *)
RejectOnly(s) ==
    /\ Enter(s, "rejected")
    /\ UNCHANGED vars

HandleError(s) ==
    /\ Enter(s, "rejected")
    /\ Release(s)

(* The search cannot be sent, on a client that another caller destroyed or *)
(* that lost its connection.                                               *)
SearchThrows(s) ==
    /\ phase[s] = "locking" /\ status[s] = "granted"
    /\ conn[client[s]] # "open"
    /\ HandleError(s)
    /\ UNCHANGED <<current, conn, client>>

(* The server answers with the last entry and status 0.                    *)
End(s) ==
    /\ phase[s] = "searching"
    /\ conn[client[s]] = "open"
    /\ Enter(s, "resolved")
    /\ Release(s)
    /\ UNCHANGED <<current, conn, client>>

(* An 'error' event, also caused by a destroyed client, or an 'end' with   *)
(* another status, where handleError is followed by a second release.      *)
SearchFails(s) ==
    /\ phase[s] = "searching"
    /\ HandleError(s)
    /\ UNCHANGED <<current, conn, client>>

(* An 'end' event after the search was rejected.                           *)
LateEnd(s) ==
    /\ phase[s] = "rejected" /\ status[s] = "released"
    /\ Release(s)
    /\ UNCHANGED <<current, conn, client, phase>>

(* Some caller (a finished synchronisation, a verified configuration)      *)
(* disconnects: the client of the url is destroyed and stays there.        *)
Disconnect ==
    /\ current # NoClient
    /\ conn[current] # "destroyed"
    /\ SetConn(current, "destroyed")
    /\ UNCHANGED <<vars, current, client, phase>>

ConnectionLost(k) ==
    /\ conn[k] = "open"
    /\ SetConn(k, "lost")
    /\ UNCHANGED <<vars, current, client, phase>>

(* The client reconnects by itself, at most failAfter times in a row.      *)
Reconnect(k) ==
    /\ conn[k] = "lost"
    /\ SetConn(k, "open")
    /\ UNCHANGED <<vars, current, client, phase>>

Step(s) ==
    \/ AddClient(s) \/ ConnectFails(s) \/ Search(s) \/ SearchThrows(s)
    \/ End(s) \/ SearchFails(s)

SearchNext ==
    \/ \E s \in Requests : ReuseClient(s) \/ Connect(s) \/ Step(s) \/ LateEnd(s)
    \/ Disconnect
    \/ \E k \in Connections : ConnectionLost(k) \/ Reconnect(k)

SearchSpec == SearchInit /\ [][SearchNext]_searchVars

(* The LDAP server answers or the client reports an error (its connection  *)
(* attempts are limited by failAfter), and callbacks are run.              *)
FairSearchSpec == SearchSpec /\ \A s \in Requests : WF_searchVars(Step(s))
-----------------------------------------------------------------------------
(* One search at a time is sent to the server of a url, whichever client   *)
(* it uses, and the search that is being answered has the lock.            *)
OneSearchAtATime ==
    \A s1, s2 \in Requests :
        /\ phase[s1] = "searching" => status[s1] = "granted"
        /\ phase[s1] = "searching" /\ phase[s2] = "searching" => s1 = s2

(* Every search that was started is answered or rejected, also when the    *)
(* searches in front of it fail or lose their connection.                  *)
EverySearchEnds ==
    \A s \in Requests : phase[s] # "idle" ~> phase[s] \in SearchEnded
=============================================================================
