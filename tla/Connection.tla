------------------------------ MODULE Connection ------------------------------
(***************************************************************************)
(* RealtimeWebSocketClient: the socket shared by all watches, the chains   *)
(* of attempts that open it, and what they do to the watches.              *)
(*                                                                         *)
(* A chain is one call of initWebSocketConnection with the calls it makes  *)
(* of itself after a failure.  While it makes an attempt, _wsInitPromise   *)
(* is set; while it sleeps before the next one it is not, so that another  *)
(* chain may start.  A watch is reduced to what the connection does to it. *)
(***************************************************************************)
EXTENDS Integers, FiniteSets

CONSTANTS
  Client,        \* the watches the user may open
  MaxReconnect,  \* _maxReconnect
  MaxSockets,    \* bound: sockets created
  MaxFailures,   \* bound: for each kind of failure, how often it happens
  Connected0     \* the watches that listen at the start; the others are yet to be opened

\* "sign": no ticket to log in with.  "open": the socket does not open.
\* "close": an open socket is lost.  "error": so is it, with an error event.
\* "silent": it is lost without an event.  "late": the closing handshake fails.
Failure == {"sign", "open", "close", "error", "silent", "late"}

ASSUME ParameterAssumption ==
  /\ IsFiniteSet(Client)
  /\ MaxReconnect \in Nat \ {0}
  /\ MaxSockets \in Nat \ {0}
  /\ MaxFailures \in [Failure -> Nat]
  /\ Connected0 \subseteq Client

SocketId == 1..MaxSockets

\* "open" and "silent" have readyState OPEN.  "aborted": closed before it
\* opened, its events to come.  A code: closing with this code.
CloseCode == {"reconnect", "nobody", "ping"}

SocketState ==
  {"unused", "connecting", "open", "silent", "aborted", "closed"} \cup CloseCode

Chain == [reconnect: BOOLEAN, retries: 0..MaxReconnect]

\* "establishing" includes logging in; "paused" is PAUSED, by the connection or
\* by the watch itself.
ClientState == {"none", "establishing", "listening", "paused", "ended"}

\* ws and login are 0 when undefined.  attempt is the chain that makes an
\* attempt and awaits, by step, a ticket or the socket created last.
State == [ws: 0..MaxSockets, socket: [SocketId -> SocketState], created: 0..MaxSockets,
          step: {"none", "sign", "open"}, attempt: Chain, sleeping: [Chain -> Nat],
          reconnecting: BOOLEAN, login: 0..MaxSockets, heartbeat: BOOLEAN,
          clients: [Client -> ClientState], on: [Client -> 0..MaxSockets]]

VARIABLES
  conn,     \* the RealtimeWebSocketClient
  failures, \* how often each kind of failure may still happen
  unaided   \* history: a watch was opened while nobody restored the connection

core == <<conn, failures>>
vars == <<conn, failures, unaided>>

TypeOK == conn \in State /\ failures \in [Failure -> Nat] /\ unaided \in BOOLEAN

NoChain == [reconnect |-> FALSE, retries |-> 0]

Init ==
  LET up == IF Connected0 = {} THEN 0 ELSE 1 IN
    /\ conn = [ws |-> up, created |-> up, login |-> up, heartbeat |-> up = 1,
               socket |-> [s \in SocketId |-> IF s = up THEN "open" ELSE "unused"],
               step |-> "none", attempt |-> NoChain, sleeping |-> [h \in Chain |-> 0],
               reconnecting |-> FALSE,
               clients |-> [c \in Client |-> IF c \in Connected0 THEN "listening" ELSE "none"],
               on |-> [c \in Client |-> IF c \in Connected0 THEN up ELSE 0]]
    /\ failures = MaxFailures
    /\ unaided = FALSE

Fails(f) == failures[f] > 0 /\ failures' = [failures EXCEPT ![f] = @ - 1]

-----------------------------------------------------------------------------
(* The methods, from state to state. *)

\* _virtualWSClient
Present(k) == {c \in Client : k.clients[c] \in {"establishing", "listening", "paused"}}

IsWSConnected(k) == k.ws # 0 /\ k.socket[k.ws] \in {"open", "silent"}

\* A socket that is closed before it opens fires error and close.
AfterClose(state, code) ==
  CASE state = "connecting"             -> "aborted"
    [] state \in {"open", "silent"}     -> code
    [] state \notin {"connecting", "open", "silent"} -> state

\* Mutant: the handlers are taken off a socket that is closed before it opens.
CloseDetached(k, code) ==
  IF k.ws = 0
    THEN [k EXCEPT !.heartbeat = FALSE]
    ELSE [k EXCEPT !.heartbeat = FALSE, !.ws = 0,
                   !.socket[k.ws] = IF @ = "connecting" THEN "closed" ELSE AfterClose(@, code)]

\* close
Close(k, code) ==
  IF k.ws = 0
    THEN [k EXCEPT !.heartbeat = FALSE]
    ELSE [k EXCEPT !.heartbeat = FALSE, !.ws = 0, !.socket[k.ws] = AfterClose(@, code)]

\* onWatchClose for some watches: without any left, the socket is released.
OnWatchClose(k, gone) ==
  LET r == [k EXCEPT !.clients = [c \in Client |-> IF c \in gone THEN "ended" ELSE @[c]]]
  IN IF gone # {} /\ Present(r) = {} THEN Close(r, "nobody") ELSE r

CloseAllClients(k) == OnWatchClose(k, Present(k))

PauseClients(k) ==
  [k EXCEPT !.clients = [c \in Client |-> IF c \in Present(k) THEN "paused" ELSE @[c]]]

ResumeClients(k) ==
  [k EXCEPT !.clients = [c \in Client |-> IF c \in Present(k) THEN "establishing" ELSE @[c]]]

\* Mutant: the old socket is left as it is.
InitWithoutClose(k, reconnect, retries) ==
  LET r == [k EXCEPT !.reconnecting = @ \/ reconnect]
      p == IF reconnect THEN PauseClients(r) ELSE r
  IN IF reconnect /\ k.reconnecting THEN k
     ELSE IF k.step # "none" THEN r
     ELSE [p EXCEPT !.step = "sign", !.attempt = [reconnect |-> reconnect, retries |-> retries]]

\* initWebSocketConnection up to its first await.
InitWebSocketConnection(k, reconnect, retries) ==
  LET r == [k EXCEPT !.reconnecting = @ \/ reconnect]
      p == IF reconnect THEN PauseClients(r) ELSE r
  IN IF reconnect /\ k.reconnecting THEN k
     ELSE IF k.step # "none" THEN r
     ELSE [Close(p, "reconnect") EXCEPT
             !.step = "sign", !.attempt = [reconnect |-> reconnect, retries |-> retries]]

\* Mutant: the watches are not resumed.
SucceedsUnnoticed(k) ==
  [k EXCEPT !.step = "none", !.attempt = NoChain,
            !.reconnecting = @ /\ ~k.attempt.reconnect]

\* The attempt succeeds: only a reconnection resumes the watches.
AttemptSucceeds(k) ==
  LET r == [k EXCEPT !.step = "none", !.attempt = NoChain]
  IN IF k.attempt.reconnect THEN [ResumeClients(r) EXCEPT !.reconnecting = FALSE] ELSE r

\* Mutant: one retry too many.
FailsOffByOne(k) ==
  LET r == [k EXCEPT !.step = "none", !.attempt = NoChain]
  IN IF k.attempt.retries >= 0 THEN [r EXCEPT !.sleeping[k.attempt] = @ + 1]
     ELSE IF k.attempt.reconnect THEN CloseAllClients(r)
     ELSE r

\* The attempt fails: sleep, or give up.
AttemptFails(k) ==
  LET r == [k EXCEPT !.step = "none", !.attempt = NoChain]
  IN IF k.attempt.retries > 0 THEN [r EXCEPT !.sleeping[k.attempt] = @ + 1]
     ELSE IF k.attempt.reconnect THEN CloseAllClients(r)
     ELSE r

\* onclose with a code that calls for a reconnection, or another.
OnClose(k, code) ==
  LET r == [k EXCEPT !.login = 0, !.heartbeat = FALSE]
  IN CASE code \in {"reconnect", "nobody"}  -> r
       [] code = "auth"                     -> CloseAllClients(r)
       [] code \in {"ping", "abnormal"}     -> InitWebSocketConnection(r, TRUE, MaxReconnect)

-----------------------------------------------------------------------------
(* Attempts. *)

\* getWsSign returns a ticket: create the socket and set its handlers.
SignOk ==
  /\ conn.step = "sign"
  /\ conn.created < MaxSockets
  /\ conn' = [conn EXCEPT !.created = @ + 1, !.ws = conn.created + 1,
                          !.socket[conn.created + 1] = "connecting",
                          !.step = "open", !.heartbeat = TRUE]
  /\ UNCHANGED failures

SignFails ==
  /\ conn.step = "sign"
  /\ Fails("sign")
  /\ conn' = AttemptFails(conn)

\* onopen
SocketOpens(s) ==
  /\ conn.socket[s] = "connecting"
  /\ conn' = AttemptSucceeds([conn EXCEPT !.socket[s] = "open"])
  /\ UNCHANGED failures

\* onerror before the socket has opened, which rejects the attempt, and then
\* onclose with 1006, both in one task.
SocketFails(s) ==
  /\ \/ conn.socket[s] = "connecting" /\ Fails("open")
     \/ conn.socket[s] = "aborted" /\ UNCHANGED failures
  /\ conn' = OnClose(AttemptFails([conn EXCEPT !.socket[s] = "closed"]), "abnormal")

\* Mutant: the next attempt forgets that it is a reconnection.
EndSleepForgetful(h) ==
  /\ conn.sleeping[h] > 0
  /\ conn' = LET k == [conn EXCEPT !.sleeping[h] = @ - 1,
                                   !.reconnecting = @ /\ ~h.reconnect]
             IN InitWebSocketConnection(k, FALSE, h.retries - 1)
  /\ UNCHANGED failures

\* The sleep of a chain is over: it makes its next attempt, unless another
\* chain makes one; it then ends with that.
EndSleep(h) ==
  /\ conn.sleeping[h] > 0
  /\ conn' = LET k == [conn EXCEPT !.sleeping[h] = @ - 1,
                                   !.reconnecting = @ /\ ~h.reconnect]
             IN InitWebSocketConnection(k, h.reconnect, h.retries - 1)
  /\ UNCHANGED failures

-----------------------------------------------------------------------------
(* Events of a socket that has opened, and the heartbeat. *)

\* The close event of a socket that close() was called on.
ClosedByClient(s) ==
  /\ conn.socket[s] \in CloseCode
  /\ LET k == [conn EXCEPT !.socket[s] = "closed"] IN
       \/ conn' = OnClose(k, conn.socket[s]) /\ UNCHANGED failures
       \/ conn' = OnClose(k, "abnormal") /\ Fails("late")

\* Closed by the server, which may refuse the login, or by the network.
ClosedByPeer(s, code) ==
  /\ conn.socket[s] \in {"open", "silent"}
  /\ Fails("close")
  /\ conn' = OnClose([conn EXCEPT !.socket[s] = "closed"], code)

\* onerror of an open socket, and onclose with 1006.
SocketError(s) ==
  /\ conn.socket[s] \in {"open", "silent"}
  /\ Fails("error")
  /\ conn' = OnClose(CloseAllClients([conn EXCEPT !.socket[s] = "closed"]), "abnormal")

GoesSilent(s) ==
  /\ conn.socket[s] = "open"
  /\ Fails("silent")
  /\ conn' = [conn EXCEPT !.socket[s] = "silent"]

\* The timers of heartbeat fire: without an open socket they are not set again;
\* if too many pongs are missed, or pings fail, the connection is renewed.
HeartbeatFires ==
  /\ conn.heartbeat
  /\ LET k == [conn EXCEPT !.heartbeat = FALSE] IN
       \/ ~IsWSConnected(conn) /\ conn' = k
       \/ /\ IsWSConnected(conn) /\ conn.socket[conn.ws] = "silent"
          /\ \/ conn' = InitWebSocketConnection(k, TRUE, MaxReconnect)
             \/ conn' = Close(k, "ping")
  /\ UNCHANGED failures

-----------------------------------------------------------------------------
(* The watches, as far as the connection sees them. *)

Alive == conn.ws # 0 /\ conn.socket[conn.ws] = "open"

\* A message arrives: heartbeat() restarts the timers.
Receive ==
  /\ Alive
  /\ \E c \in Present(conn) : conn.on[c] = conn.ws
  /\ conn' = [conn EXCEPT !.heartbeat = TRUE]
  /\ UNCHANGED failures

Reconnecting(k) ==
  \/ k.step # "none" /\ k.attempt.reconnect
  \/ \E h \in Chain : h.reconnect /\ k.sleeping[h] > 0

\* The connection is up, or a reconnection or the close event that starts one is to
\* bring it back.
InHand(k) ==
  \/ Reconnecting(k)
  \/ ~k.reconnecting /\ (IsWSConnected(k) \/ \E s \in SocketId : k.socket[s] = "ping")

\* watch: between two attempts of a reconnection, too, it starts a chain of its own,
\* which the reconnection joins when it wakes up and which resumes nobody.
Watch(c) ==
  /\ conn.clients[c] = "none"
  /\ LET k == [conn EXCEPT !.clients[c] = "establishing"] IN
       conn' = IF conn.ws = 0 /\ conn.step = "none"
                 THEN InitWebSocketConnection(k, FALSE, MaxReconnect)
                 ELSE k
  /\ unaided' = (unaided \/ ~InHand(conn) \/ (conn.ws = 0 /\ conn.step = "none"))
  /\ UNCHANGED failures

\* webLogin by a watch that finds no login, or whose login the server refuses.
Login(c) ==
  /\ conn.clients[c] = "establishing"
  /\ Alive
  /\ conn.login # conn.ws
  /\ conn' = [conn EXCEPT !.login = conn.ws, !.heartbeat = TRUE]
  /\ UNCHANGED failures

\* INIT_WATCH or REBUILD_WATCH succeeds.
Established(c) ==
  /\ conn.clients[c] = "establishing"
  /\ Alive
  /\ conn.login = conn.ws
  /\ conn' = [conn EXCEPT !.clients[c] = "listening", !.on[c] = conn.ws, !.heartbeat = TRUE]
  /\ UNCHANGED failures

\* Without a connection or an attempt, send fails at once: an establishment
\* pauses the watch, which waits to be connected; acknowledgements end it.
SendFails(c) ==
  /\ ~IsWSConnected(conn)
  /\ conn.step = "none"
  /\ \/ /\ conn.clients[c] = "establishing"
        /\ conn' = [conn EXCEPT !.clients[c] = "paused"]
     \/ /\ conn.clients[c] = "listening"
        /\ conn' = OnWatchClose(conn, {c})
  /\ UNCHANGED failures

\* The retries of an establishment time out on a silent socket.
TimesOut(c) ==
  /\ conn.clients[c] = "establishing"
  /\ IsWSConnected(conn) /\ ~Alive
  /\ conn' = OnWatchClose(conn, {c})
  /\ UNCHANGED failures

\* The user closes the watch.
CloseWatch(c) ==
  /\ c \in Present(conn)
  /\ conn' = OnWatchClose(conn, {c})
  /\ UNCHANGED failures

-----------------------------------------------------------------------------

AttemptStep ==
  \/ SignOk
  \/ SignFails
  \/ \E s \in SocketId : SocketOpens(s) \/ SocketFails(s)
  \/ \E h \in Chain : EndSleep(h)

SocketStep ==
  \/ \E s \in SocketId :
       \/ ClosedByClient(s)
       \/ \E code \in {"abnormal", "auth"} : ClosedByPeer(s, code)
       \/ SocketError(s)
       \/ GoesSilent(s)
  \/ HeartbeatFires

ClientStep ==
  \/ Receive
  \/ \E c \in Client :
       \/ Login(c)
       \/ Established(c)
       \/ SendFails(c)
       \/ TimesOut(c)
       \/ CloseWatch(c)

Next ==
  \/ (AttemptStep \/ SocketStep \/ ClientStep) /\ UNCHANGED unaided
  \/ \E c \in Client : Watch(c)

Spec == Init /\ [][Next]_vars

\* Requests settle, sockets open or fail, a socket that is closed tells so, timers
\* fire and messages arrive.  Nothing is assumed of the user or of failures.
Fairness ==
  /\ WF_core(SignOk)
  /\ \A s \in SocketId : /\ WF_core(SocketOpens(s) \/ SocketFails(s))
                         /\ WF_core(ClosedByClient(s))
  /\ \A h \in Chain : WF_core(EndSleep(h))
  /\ WF_core(HeartbeatFires)
  /\ WF_core(Receive)
  /\ \A c \in Client :
       /\ WF_core(Login(c))
       /\ WF_core(Established(c))
       /\ WF_core(SendFails(c))
       /\ WF_core(TimesOut(c))

FairSpec == Spec /\ Fairness

-----------------------------------------------------------------------------

\* There is one connection: a socket that is open or opening is _ws, whatever
\* chains of attempts sleep, wake up and overlap with late close events.
OneSocket ==
  \A s \in SocketId : conn.socket[s] \in {"connecting", "open", "silent"} => s = conn.ws

\* An attempt that awaits a socket will be told how it ends, even if the last
\* watch has closed the socket meanwhile; else every send would wait for it.
AttemptCanEnd ==
  conn.step = "open" => conn.socket[conn.created] \in {"connecting", "aborted"}

\* The inductive invariant behind the theorems about the two properties above:
\* _ws is the last socket created, one that has not opened is awaited by the
\* attempt, and only a chain with retries left sleeps.
LastSocket(k) ==
  /\ k.ws \in {0, k.created}
  /\ k.step = "sign" => k.ws = 0
  /\ \A s \in SocketId :
       /\ s > k.created => k.socket[s] = "unused"
       /\ k.socket[s] \in {"connecting", "open", "silent"} => s = k.ws
       /\ k.socket[s] \in {"connecting", "aborted"} => k.step = "open" /\ s = k.created

Awaited(k) ==
  k.step = "open" => k.created # 0 /\ k.socket[k.created] \in {"connecting", "aborted"}

Sleepers(k) == \A h \in Chain : k.sleeping[h] > 0 => h.retries > 0

IInv == TypeOK /\ LastSocket(conn) /\ Awaited(conn) /\ Sleepers(conn)

\* A watch that is paused is in the hands of a reconnection, which resumes or
\* closes it, or of a close event that starts one: unless a watch was opened while
\* nobody restored the connection, whose own chain of attempts a reconnection joins
\* without its resuming anybody (or whose failing pauses that watch for good).
PausedInGoodHands ==
  (\E c \in Client : conn.clients[c] = "paused") =>
    Reconnecting(conn) \/ (\E s \in SocketId : conn.socket[s] = "ping") \/ unaided

\* The inductive invariant behind it: unless it is so, all chains are
\* reconnections, and while the connection is down one is under way.
Restored(k) ==
  /\ k.step # "none" => k.attempt.reconnect
  /\ \A h \in Chain : k.sleeping[h] > 0 => h.reconnect
  /\ k.reconnecting => Reconnecting(k) \/ Present(k) = {}
  /\ Present(k) # {} =>
       Reconnecting(k) \/ IsWSConnected(k) \/ \E s \in SocketId : k.socket[s] = "ping"
  /\ (\E c \in Client : k.clients[c] = "paused") =>
       Reconnecting(k) \/ \E s \in SocketId : k.socket[s] = "ping"

InGoodHands == ~unaided => Restored(conn)

\* Losing an established connection ends well for every watch: it listens on
\* the live socket again, or has been closed, whatever watches are opened and
\* closed meanwhile; with the exception of PausedInGoodHands.
Served ==
  \A c \in Client :
    <>[](\/ conn.clients[c] \in {"none", "ended"}
         \/ conn.clients[c] = "listening" /\ Alive /\ conn.on[c] = conn.ws
         \/ unaided)

=============================================================================
