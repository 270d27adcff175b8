------------------------------ MODULE Sessions ------------------------------
(***************************************************************************)
(* The TCP side of the server: SocketServer._handle_client and its ordered *)
(* per-client worker (src/python/socket_server.py), and the SessionManager *)
(* that binds a connection to an MT account when its hello arrives         *)
(* (src/python/session_manager.py).                                        *)
(*                                                                         *)
(* Everything runs on one asyncio loop, so a step of this module is the    *)
(* code between two awaits that really suspend.  The awaits kept are the   *)
(* ones another task can get in between: reader.read, other.close() in the *)
(* eviction loop, the configuration load and notifications at the end of   *)
(* bind, `await worker` and client.close() in the teardown.                *)
(*                                                                         *)
(* Connections are numbered 1, 2, ... in the order the server accepts      *)
(* them, which is the order of SocketServer._clients; an EA that           *)
(* reconnects is a new connection.  Of the messages only hello matters     *)
(* here: it is the one that changes this state.                            *)
(***************************************************************************)
EXTENDS Naturals, FiniteSets

CONSTANTS
  MaxClients,  \* bound: how many connections are accepted in a behaviour
  Accounts,    \* MT account ids
  NoAccount    \* Client.account_id before the hello

ASSUME SessionsAssumption ==
  /\ MaxClients \in Nat \ {0}
  /\ NoAccount \notin Accounts

Clients == 1 .. MaxClients

VARIABLES
  clients,    \* SocketServer._clients: its order is the order of the numbers
  transport,  \* what the server's end of the connection is
  reader,     \* control point of _handle_client
  worker,     \* control point of the connection's _client_worker
  hello,      \* account of the hello in the worker's queue, or NoAccount
  greeted,    \* connections whose EA has sent its hello: one per connection
  bind,       \* the call of bind the worker is in: account, rest, waitFor
  accountId,  \* Client.account_id
  connected,  \* AccountSession.connected
  raced       \* history: pairs whose binds to one account overlapped

sessionsVars == <<clients, transport, reader, worker, hello, greeted, bind, accountId,
          connected, raced>>

-----------------------------------------------------------------------------
\* "eof": the peer has sent its FIN, the server can still write;
\* "closing": the server has called close(); "lost": connection_lost was called.
TransportStates == {"none", "open", "eof", "closing", "lost"}
ReaderStates == {"none", "reading", "joining", "closing", "done"}
WorkerStates == {"none", "idle", "evicting", "loading", "cancelling", "dead"}

\* account: what bind was called for; rest: what the eviction loop has still to
\* visit of its copy of clients(); waitFor: the one whose close it awaits, or 0.
BindCalls == [account : Accounts \cup {NoAccount}, rest : SUBSET Clients,
              waitFor : 0 .. MaxClients]
NoBind == [account |-> NoAccount, rest |-> {}, waitFor |-> 0]

\* The server has not closed its end and has not lost it.
Open(c) == transport[c] \in {"open", "eof"}

\* A connection in use: nothing of its teardown has started.
Live(c) == transport[c] = "open" /\ reader[c] = "reading"

Bound(c, a) == accountId[c] = a

SessionsInit ==
  /\ clients = {}
  /\ transport = [c \in Clients |-> "none"]
  /\ reader = [c \in Clients |-> "none"]
  /\ worker = [c \in Clients |-> "none"]
  /\ hello = [c \in Clients |-> NoAccount]
  /\ greeted = {}
  /\ bind = [c \in Clients |-> NoBind]
  /\ accountId = [c \in Clients |-> NoAccount]
  /\ connected = [a \in Accounts |-> FALSE]
  /\ raced = {}

\* asyncio accepts the next connection: _handle_client appends the Client to
\* _clients, starts the worker task and awaits the first chunk.
Accept(c) ==
  /\ transport[c] = "none"
  /\ \A d \in Clients : d < c => transport[d] # "none"
  /\ clients' = clients \cup {c}
  /\ transport' = [transport EXCEPT ![c] = "open"]
  /\ reader' = [reader EXCEPT ![c] = "reading"]
  /\ worker' = [worker EXCEPT ![c] = "idle"]
  /\ UNCHANGED <<hello, greeted, bind, accountId, connected, raced>>

\* The EA's hello arrives; hello has no immediate handler, so the read loop
\* puts it in the worker's queue.  An EA says hello once per connection.
ReadHello(c, a) ==
  /\ Live(c)
  /\ c \notin greeted
  /\ greeted' = greeted \cup {c}
  /\ hello' = [hello EXCEPT ![c] = a]
  /\ UNCHANGED <<clients, transport, reader, worker, bind, accountId, connected, raced>>

-----------------------------------------------------------------------------
(* SessionManager.bind *)

\* mutant: the loop skips the connections accepted before this one.
StaleNewerOnly(c, a, visit) ==
  {d \in visit : d > c /\ Bound(d, a) /\ transport[d] # "lost"}

\* What the eviction loop closes, of the clients it has still to visit.
\* close() of a connection that is already lost returns without suspending.
Stale(c, a, visit) ==
  {d \in visit : d # c /\ Bound(d, a) /\ transport[d] # "lost"}

\* The first stale connection: writer.close(), then wait for connection_lost.
EvictFirst(c, a, visit) ==
  \E d \in Stale(c, a, visit) :
    /\ \A e \in Stale(c, a, visit) : d <= e
    /\ transport' = [transport EXCEPT ![d] = "closing"]
    /\ worker' = [worker EXCEPT ![c] = "evicting"]
    /\ bind' = [bind EXCEPT ![c] = [account |-> a, rest |-> {e \in visit : e > d},
                                    waitFor |-> d]]
    /\ UNCHANGED <<accountId, connected, raced>>

\* mutant: bind leaves the flag of the session as it was.
OnlineKeeps(a) == connected

\* session.connected = True
Online(a) == [connected EXCEPT ![a] = TRUE]

\* Nobody left to evict: client.account_id and session.connected are set, up to
\* the next await.
Claim(c, a, visit) ==
  /\ Stale(c, a, visit) = {}
  /\ accountId' = [accountId EXCEPT ![c] = a]
  /\ connected' = Online(a)
  /\ worker' = [worker EXCEPT ![c] = "loading"]
  /\ bind' = [bind EXCEPT ![c] = NoBind]
  /\ raced' = raced \cup {{c, d} : d \in {e \in Clients : bind[e].account = a}}
  /\ UNCHANGED transport

\* The worker takes the hello from its queue and runs bind to its first await.
HandleHello(c) ==
  /\ worker[c] = "idle"
  /\ hello[c] # NoAccount
  /\ hello' = [hello EXCEPT ![c] = NoAccount]
  /\ \/ EvictFirst(c, hello[c], clients)
     \/ Claim(c, hello[c], clients)
  /\ UNCHANGED <<clients, reader, greeted>>

\* `await other.close()` returns when the evicted connection is lost: the
\* loop goes on, over the copy of clients() taken at its start.
ResumeEvict(c) ==
  /\ worker[c] = "evicting"
  /\ transport[bind[c].waitFor] = "lost"
  /\ \/ EvictFirst(c, bind[c].account, bind[c].rest)
     \/ Claim(c, bind[c].account, bind[c].rest)
  /\ UNCHANGED <<clients, reader, hello, greeted>>

\* The configuration is loaded and the notifications are sent: bind returns.
FinishBind(c) ==
  /\ worker[c] = "loading"
  /\ worker' = [worker EXCEPT ![c] = "idle"]
  /\ UNCHANGED <<clients, transport, reader, hello, greeted, bind, accountId,
                 connected, raced>>

-----------------------------------------------------------------------------
(* The end of a connection *)

\* The EA closes its socket: read() returns b"" but the server can still write.
PeerFin(c) ==
  /\ transport[c] = "open"
  /\ transport' = [transport EXCEPT ![c] = "eof"]
  /\ UNCHANGED <<clients, reader, worker, hello, greeted, bind, accountId, connected, raced>>

\* The connection is reset, or TCP gives up on a peer that vanished.
PeerLost(c) ==
  /\ Open(c)
  /\ transport' = [transport EXCEPT ![c] = "lost"]
  /\ UNCHANGED <<clients, reader, worker, hello, greeted, bind, accountId, connected, raced>>

\* connection_lost after the server's own close().
ConnectionLost(c) ==
  /\ transport[c] = "closing"
  /\ transport' = [transport EXCEPT ![c] = "lost"]
  /\ UNCHANGED <<clients, reader, worker, hello, greeted, bind, accountId, connected, raced>>

\* The read loop ends; the finally block cancels the worker and awaits it.
StopReading(c) ==
  /\ reader[c] = "reading"
  /\ reader' = [reader EXCEPT ![c] = "joining"]
  /\ worker' = [worker EXCEPT ![c] = "cancelling"]
  /\ UNCHANGED <<clients, transport, hello, greeted, bind, accountId, connected, raced>>

\* read() returns b"" or raises ConnectionResetError.
EndRead(c) == transport[c] \in {"eof", "lost"} /\ StopReading(c)

\* A line that is not JSON: decode_lines raises out of the read loop, and the
\* server itself takes a connection down that is in use.
BadLine(c) == transport[c] = "open" /\ StopReading(c)

\* CancelledError reaches the worker at its await.  _dispatch catches Exception
\* only, so it ends whatever handler it was in, in the middle of bind too.
WorkerCancelled(c) ==
  /\ worker[c] = "cancelling"
  /\ worker' = [worker EXCEPT ![c] = "dead"]
  /\ hello' = [hello EXCEPT ![c] = NoAccount]
  /\ bind' = [bind EXCEPT ![c] = NoBind]
  /\ UNCHANGED <<clients, transport, reader, greeted, accountId, connected, raced>>

\* SessionManager.on_client_disconnect: the session of the client's account goes
\* offline, whichever connection holds that account by now.
Offline(c) ==
  IF accountId[c] \in Accounts
    THEN [connected EXCEPT ![accountId[c]] = FALSE] ELSE connected

\* The worker has ended: the client leaves _clients and is closed.  Closing a
\* lost connection does not suspend, so the disconnect callbacks follow.
ForgetClient(c) ==
  /\ reader[c] = "joining"
  /\ worker[c] = "dead"
  /\ clients' = clients \ {c}
  /\ IF transport[c] = "lost"
       THEN /\ reader' = [reader EXCEPT ![c] = "done"]
            /\ connected' = Offline(c)
            /\ UNCHANGED transport
       ELSE /\ reader' = [reader EXCEPT ![c] = "closing"]
            /\ transport' = [transport EXCEPT ![c] = "closing"]
            /\ UNCHANGED connected
  /\ UNCHANGED <<worker, hello, greeted, bind, accountId, raced>>

\* `await client.close()` returns: the disconnect callbacks run.
Disconnected(c) ==
  /\ reader[c] = "closing"
  /\ transport[c] = "lost"
  /\ reader' = [reader EXCEPT ![c] = "done"]
  /\ connected' = Offline(c)
  /\ UNCHANGED <<clients, transport, worker, hello, greeted, bind, accountId, raced>>

-----------------------------------------------------------------------------
\* mutant: a read loop that is closing waits for nothing more.
StepsNoCancel(c) ==
  \/ HandleHello(c) \/ ResumeEvict(c) \/ FinishBind(c) \/ ConnectionLost(c)
  \/ EndRead(c) \/ ForgetClient(c) \/ Disconnected(c)

\* The server's own steps for one connection.
SessionsSteps(c) ==
  \/ HandleHello(c) \/ ResumeEvict(c) \/ FinishBind(c) \/ ConnectionLost(c)
  \/ EndRead(c) \/ WorkerCancelled(c) \/ ForgetClient(c) \/ Disconnected(c)

SessionsNext ==
  \E c \in Clients :
    \/ Accept(c)
    \/ \E a \in Accounts : ReadHello(c, a)
    \/ PeerFin(c)
    \/ PeerLost(c)
    \/ BadLine(c)
    \/ SessionsSteps(c)

\* The event loop runs every task that is ready, and TCP reports the end of a
\* connection the server has closed.  Nothing makes an EA connect or leave.
SessionsFairness == \A c \in Clients : WF_sessionsVars(SessionsSteps(c))

SessionsSpec == SessionsInit /\ [][SessionsNext]_sessionsVars /\ SessionsFairness

-----------------------------------------------------------------------------
SessionsTypeOK ==
  /\ clients \subseteq Clients
  /\ transport \in [Clients -> TransportStates]
  /\ reader \in [Clients -> ReaderStates]
  /\ worker \in [Clients -> WorkerStates]
  /\ hello \in [Clients -> Accounts \cup {NoAccount}]
  /\ greeted \subseteq Clients
  /\ bind \in [Clients -> BindCalls]
  /\ accountId \in [Clients -> Accounts \cup {NoAccount}]
  /\ connected \in [Accounts -> BOOLEAN]
  /\ raced \subseteq SUBSET Clients
  /\ \A c \in Clients : /\ (transport[c] = "none") <=> (reader[c] = "none")
                        /\ (worker[c] = "none") <=> (reader[c] = "none")

\* A session that claims to be connected has a connection bound to its account
\* whose disconnect callback has still to run: no account stays online after its
\* last connection went (bind against the teardown of the same connection).
OnlineHasClient ==
  \A a \in Accounts : connected[a] =>
    \E c \in Clients : Bound(c, a) /\ reader[c] # "done"

\* Two connections of one account that are both open bound it in overlapping
\* calls of bind; without such an overlap the later hello closed the earlier
\* connection before it took the account.
OneOpenClientUnlessRaced ==
  \A c, d \in Clients : \A a \in Accounts :
    c # d /\ Bound(c, a) /\ Bound(d, a) /\ Open(c) /\ Open(d) => {c, d} \in raced

\* A session with a live connection is offline only because another connection
\* of the same account has run its disconnect callback.
OfflineOnlyByTeardown ==
  \A c \in Clients : \A a \in Accounts :
    Live(c) /\ Bound(c, a) /\ ~connected[a] =>
      \E d \in Clients \ {c} : Bound(d, a) /\ reader[d] = "done"

\* Every connection that ends is eventually out of _clients with its callbacks
\* run, whatever handler its worker was in: TradeGateway picks its target from
\* that list, so a dead entry would swallow the account's commands.  (Both sides
\* are stable and connections are finitely many, so this is the same as leads-to.)
GoneIsForgotten ==
  <>[] (\A c \in Clients : transport[c] \in {"eof", "closing", "lost"} =>
          c \notin clients /\ reader[c] = "done")

\* No hello waits for ever behind the eviction of another connection: in the end
\* every connection whose hello was read is bound or torn down.
HelloIsAnswered ==
  <>[] (\A c \in greeted : accountId[c] # NoAccount \/ reader[c] = "done")

\* Nobody is left behind: what the server has to get done for every connection.
EveryoneIsServed == GoneIsForgotten /\ HelloIsAnswered

\* README.md: the green dot means "EA online".  A connection in use whose bind
\* has returned shows its account online.  It does not hold: the teardown of an
\* evicted connection marks the session of its successor offline.
LiveIsOnline ==
  \A c \in Clients : \A a \in Accounts :
    Live(c) /\ Bound(c, a) /\ worker[c] = "idle" => connected[a]
=============================================================================
