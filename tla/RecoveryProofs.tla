---------------------------- MODULE RecoveryProofs ----------------------------
(***************************************************************************)
(* A theorem about Connection: a watch is never left paused, whatever      *)
(* fails and however often, as long as nobody opens another watch while    *)
(* the connection is down and no attempt is made to restore it.            *)
(* The lemmas of ConnectionProofs give the type of every step's outcome.   *)
(***************************************************************************)
EXTENDS ConnectionProofs

\* All chains of attempts are reconnections.
OnlyReconnects(k) ==
  /\ k \in State
  /\ k.step # "none" => k.attempt.reconnect
  /\ \A h \in Chain : k.sleeping[h] > 0 => h.reconnect

\* _reconnectState is not a leftover, as long as there is a watch.
StateHonest(k) == k.reconnecting => Reconnecting(k) \/ Present(k) = {}

\* A reconnection is under way, or there is no watch to reconnect for.
Renewed(k) == OnlyReconnects(k) /\ (Reconnecting(k) \/ Present(k) = {})

LEMMA RenewedRestored ==
  ASSUME NEW k, Renewed(k)
  PROVE  Restored(k) /\ OnlyReconnects(k) /\ StateHonest(k)
  BY DEF Renewed, OnlyReconnects, Restored, StateHonest, Present

LEMMA RestoredHonest ==
  ASSUME NEW k \in State, Restored(k)
  PROVE  OnlyReconnects(k) /\ StateHonest(k)
  BY DEF Restored, OnlyReconnects, StateHonest

\* What neither touches the chains nor the watches.
LEMMA ChainsFrame ==
  ASSUME NEW k, NEW r \in State, OnlyReconnects(k),
         r.step = k.step, r.attempt = k.attempt, r.sleeping = k.sleeping,
         r.clients = k.clients
  PROVE  /\ OnlyReconnects(r)
         /\ Reconnecting(r) <=> Reconnecting(k)
         /\ Present(r) = Present(k)
         /\ r.reconnecting = k.reconnecting /\ StateHonest(k) => StateHonest(r)
<1>1. Present(r) = Present(k)
  BY DEF Present
<1>2. Reconnecting(r) <=> Reconnecting(k)
  BY DEF Reconnecting
<1> QED
  BY <1>1, <1>2 DEF OnlyReconnects, StateHonest

-----------------------------------------------------------------------------
(* The methods. *)

\* What close does beside closing the socket.
LEMMA CloseSpares ==
  ASSUME NEW k \in State, NEW code \in CloseCode
  PROVE  LET r == Close(k, code) IN
           /\ r \in State
           /\ r.step = k.step /\ r.attempt = k.attempt /\ r.sleeping = k.sleeping
           /\ r.clients = k.clients /\ r.reconnecting = k.reconnecting
<1>1. CASE k.ws = 0
  BY <1>1 DEF Close, State
<1>2. CASE k.ws # 0
  <2> DEFINE st == AfterClose(k.socket[k.ws], code)
             sock == [k.socket EXCEPT ![k.ws] = st]
  <2>1. k.ws \in SocketId /\ st \in SocketState
    BY <1>2, CurrentSocket, AfterCloseType
  <2>2. sock \in [SocketId -> SocketState]
    BY <2>1 DEF State
  <2>3. Close(k, code) = [k EXCEPT !.heartbeat = FALSE, !.ws = 0, !.socket = sock]
    BY <1>2 DEF Close, State
  <2>4. 0 \in 0..MaxSockets
    BY ParameterAssumption
  <2> HIDE DEF sock
  <2> QED
    BY <2>2, <2>3, <2>4 DEF State
<1> QED
  BY <1>1, <1>2

\* A reconnection is begun, or is under way.
LEMMA InitRenews ==
  ASSUME NEW k, NEW retries \in 0..MaxReconnect, OnlyReconnects(k), StateHonest(k)
  PROVE  Renewed(InitWebSocketConnection(k, TRUE, retries))
<1> DEFINE r == [k EXCEPT !.reconnecting = k.reconnecting \/ TRUE]
           cl == [c \in Client |-> IF c \in Present(r) THEN "paused" ELSE r.clients[c]]
           p == [r EXCEPT !.clients = cl]
           h == [reconnect |-> TRUE, retries |-> retries]
           c == Close(p, "reconnect")
           q == [c EXCEPT !.step = "sign", !.attempt = h]
<1>1. InitWebSocketConnection(k, TRUE, retries) =
        IF k.reconnecting THEN k ELSE IF k.step # "none" THEN r ELSE q
  BY DEF InitWebSocketConnection, PauseClients
<1>2. /\ r \in State /\ r.step = k.step /\ r.attempt = k.attempt /\ r.sleeping = k.sleeping
      /\ r.clients = k.clients
  BY DEF OnlyReconnects, State
<1> HIDE DEF r
<1>3. cl \in [Client -> ClientState]
  BY <1>2 DEF State, ClientState
<1> HIDE DEF cl
<1>4. /\ p \in State /\ p.step = k.step /\ p.attempt = k.attempt /\ p.sleeping = k.sleeping
      /\ p.clients = cl
  BY <1>2, <1>3 DEF State
<1> HIDE DEF p
<1>5. c \in State /\ c.sleeping = k.sleeping /\ c.clients = cl
  BY <1>4, CloseSpares DEF CloseCode
<1>6. h \in Chain /\ h.reconnect
  BY DEF Chain
<1> HIDE DEF c, h
<1>7. /\ q \in State /\ q.step = "sign" /\ q.attempt = h /\ q.sleeping = k.sleeping
      /\ q.clients = cl
  BY <1>5, <1>6 DEF State
<1> HIDE DEF q
<1>8. CASE k.reconnecting
  BY <1>1, <1>8 DEF Renewed, StateHonest
<1>9. CASE ~k.reconnecting /\ k.step # "none"
  BY <1>1, <1>2, <1>9, ChainsFrame DEF Renewed, OnlyReconnects, Reconnecting
<1>10. CASE ~k.reconnecting /\ k.step = "none"
  BY <1>1, <1>3, <1>6, <1>7, <1>10 DEF Renewed, OnlyReconnects, Reconnecting
<1> QED
  BY <1>8, <1>9, <1>10

\* Watches that go leave the others as well served as they were.
LEMMA OnWatchCloseRestores ==
  ASSUME NEW k, NEW gone, OnlyReconnects(k), gone \subseteq Present(k)
  PROVE  LET r == OnWatchClose(k, gone) IN
           /\ OnlyReconnects(r)
           /\ Restored(k) => Restored(r)
           /\ gone = Present(k) => Renewed(r)
<1> DEFINE cl == [c \in Client |-> IF c \in gone THEN "ended" ELSE k.clients[c]]
           q == [k EXCEPT !.clients = cl]
           r == OnWatchClose(k, gone)
<1>1. cl \in [Client -> ClientState]
  BY DEF OnlyReconnects, State, ClientState
<1>2. r = IF gone # {} /\ Present(q) = {} THEN Close(q, "nobody") ELSE q
  BY DEF OnWatchClose
<1>3. \A c \in Client : cl[c] = IF c \in gone THEN "ended" ELSE k.clients[c]
  OBVIOUS
<1> HIDE DEF cl, r
<1>4. /\ q \in State /\ q.step = k.step /\ q.attempt = k.attempt /\ q.sleeping = k.sleeping
      /\ q.clients = cl /\ q.reconnecting = k.reconnecting
      /\ q.ws = k.ws /\ q.socket = k.socket
  BY <1>1 DEF OnlyReconnects, State
<1> HIDE DEF q
<1>5. OnlyReconnects(q)
  BY <1>1, <1>4 DEF OnlyReconnects
<1>6. Present(q) = Present(k) \ gone
  BY <1>3, <1>4 DEF Present
<1>7. Restored(k) => Restored(q)
  <2>1. Reconnecting(q) <=> Reconnecting(k)
    BY <1>4 DEF Reconnecting
  <2>2. IsWSConnected(q) <=> IsWSConnected(k)
    BY <1>4 DEF IsWSConnected
  <2>3. \A c \in Client : q.clients[c] = "paused" => k.clients[c] = "paused"
    BY <1>3, <1>4
  <2> QED
    BY <1>4, <1>5, <1>6, <2>1, <2>2, <2>3 DEF Restored, OnlyReconnects
<1>8. CASE gone # {} /\ Present(q) = {}
  <2>1. Renewed(Close(q, "nobody"))
    BY <1>4, <1>5, <1>8, CloseSpares, ChainsFrame DEF CloseCode, Renewed
  <2> QED
    BY <1>2, <1>8, <2>1, RenewedRestored DEF r
<1>9. CASE ~(gone # {} /\ Present(q) = {})
  BY <1>2, <1>5, <1>6, <1>7, <1>9 DEF Renewed, r
<1> QED
  BY <1>8, <1>9

LEMMA CloseAllRenews ==
  ASSUME NEW k, OnlyReconnects(k)
  PROVE  Renewed(CloseAllClients(k))
  BY OnWatchCloseRestores DEF CloseAllClients

\* An attempt that fails is repeated, or the watches are closed.
LEMMA FailureRenews ==
  ASSUME NEW k, OnlyReconnects(k), k.step # "none"
  PROVE  Renewed(AttemptFails(k))
<1> DEFINE r == [k EXCEPT !.step = "none", !.attempt = NoChain]
           sl == [r.sleeping EXCEPT ![k.attempt] = r.sleeping[k.attempt] + 1]
           q == [r EXCEPT !.sleeping = sl]
<1>1. k.attempt \in Chain /\ k.attempt.reconnect /\ k \in State
  BY DEF OnlyReconnects, State
<1>2. AttemptFails(k) = IF k.attempt.retries > 0 THEN q ELSE CloseAllClients(r)
  BY <1>1 DEF AttemptFails
<1>3. /\ r \in State /\ r.step = "none" /\ r.sleeping = k.sleeping /\ r.clients = k.clients
  <2>1. NoChain \in Chain
    BY ParameterAssumption DEF NoChain, Chain
  <2> QED
    BY <1>1, <2>1 DEF State
<1> HIDE DEF r
<1>4. OnlyReconnects(r)
  BY <1>3 DEF OnlyReconnects
<1>5. /\ sl \in [Chain -> Nat] /\ sl[k.attempt] > 0
      /\ \A h \in Chain : h # k.attempt => sl[h] = k.sleeping[h]
  <2>1. k.sleeping \in [Chain -> Nat]
    BY <1>1 DEF State
  <2> QED
    BY <1>1, <1>3, <2>1
<1> HIDE DEF sl
<1>6. q \in State /\ q.step = "none" /\ q.sleeping = sl /\ q.clients = k.clients
  BY <1>3, <1>5 DEF State
<1> HIDE DEF q
<1>7. Renewed(q)
  BY <1>1, <1>5, <1>6 DEF Renewed, OnlyReconnects, Reconnecting
<1> QED
  BY <1>2, <1>4, <1>7, CloseAllRenews

\* A close event that does not come from a call of close for another attempt or
\* for want of watches starts a reconnection or closes the watches.
LEMMA OnCloseRenews ==
  ASSUME NEW k, OnlyReconnects(k), StateHonest(k), NEW code \in {"ping", "abnormal", "auth"}
  PROVE  Renewed(OnClose(k, code))
<1> DEFINE r == [k EXCEPT !.login = 0, !.heartbeat = FALSE]
<1>1. /\ r \in State /\ r.step = k.step /\ r.attempt = k.attempt /\ r.sleeping = k.sleeping
      /\ r.clients = k.clients /\ r.reconnecting = k.reconnecting
  <2>1. 0 \in 0..MaxSockets
    BY ParameterAssumption
  <2> QED
    BY <2>1 DEF OnlyReconnects, State
<1>2. \/ OnClose(k, code) = CloseAllClients(r)
      \/ OnClose(k, code) = InitWebSocketConnection(r, TRUE, MaxReconnect)
  BY DEF OnClose
<1> HIDE DEF r
<1>3. OnlyReconnects(r) /\ StateHonest(r) /\ MaxReconnect \in 0..MaxReconnect
  BY <1>1, ChainsFrame, ParameterAssumption
<1> QED
  BY <1>2, <1>3, CloseAllRenews, InitRenews
-----------------------------------------------------------------------------
(* The steps. *)

\* A socket changes its state.
LEMMA SocketMoved ==
  ASSUME NEW k \in State, NEW s \in SocketId, NEW st \in SocketState, Restored(k)
  PROVE  LET r == [k EXCEPT !.socket[s] = st] IN
           /\ OnlyReconnects(r) /\ StateHonest(r)
           /\ r.step = k.step /\ r.attempt = k.attempt
           /\ k.socket[s] # "ping" /\ (s = k.ws => st \in {"open", "silent"}) => Restored(r)
           /\ k.socket[s] \notin {"ping", "open", "silent"} => Restored(r)
<1> DEFINE sock == [k.socket EXCEPT ![s] = st]
           r == [k EXCEPT !.socket[s] = st]
<1>1. /\ sock \in [SocketId -> SocketState]
      /\ \A t \in SocketId : sock[t] = IF t = s THEN st ELSE k.socket[t]
  BY DEF State
<1>2. r = [k EXCEPT !.socket = sock]
  OBVIOUS
<1> HIDE DEF sock, r
<1>3. /\ r \in State /\ r.step = k.step /\ r.attempt = k.attempt /\ r.sleeping = k.sleeping
      /\ r.clients = k.clients /\ r.reconnecting = k.reconnecting
      /\ r.ws = k.ws /\ r.socket = sock
  BY <1>1, <1>2 DEF State
<1>4. OnlyReconnects(k) /\ StateHonest(k)
  BY RestoredHonest
<1>5. OnlyReconnects(r) /\ StateHonest(r) /\ Present(r) = Present(k) /\ (Reconnecting(r) <=> Reconnecting(k))
  BY <1>3, <1>4, ChainsFrame
<1>6. ASSUME k.socket[s] # "ping"
      PROVE  (\E t \in SocketId : k.socket[t] = "ping") => \E t \in SocketId : r.socket[t] = "ping"
  BY <1>1, <1>3, <1>6
<1>7. k.ws # 0 => k.ws \in SocketId
  BY CurrentSocket
<1>8. ASSUME \/ s = k.ws => st \in {"open", "silent"}
             \/ k.socket[s] \notin {"open", "silent"}
      PROVE  IsWSConnected(k) => IsWSConnected(r)
  BY <1>1, <1>3, <1>7, <1>8 DEF IsWSConnected
<1> QED
  BY <1>3, <1>5, <1>6, <1>8 DEF Restored, OnlyReconnects, StateHonest, r

LEMMA AttemptStepRestores ==
  ASSUME IInv, conn' \in State, Restored(conn), AttemptStep
  PROVE  Restored(conn')
<1> USE DEF SocketState
<1>1. Good(conn) /\ conn \in State /\ OnlyReconnects(conn) /\ StateHonest(conn)
  BY IInvIsGood, RestoredHonest DEF Good, Ending
<1>2. ASSUME SignOk PROVE Restored(conn')
  <2>1. /\ conn'.step = "open" /\ conn'.attempt = conn.attempt /\ conn'.sleeping = conn.sleeping
        /\ conn'.clients = conn.clients /\ conn.step = "sign"
    BY <1>1, <1>2 DEF SignOk, State
  <2>2. Renewed(conn')
    BY <1>1, <2>1 DEF Renewed, OnlyReconnects, Reconnecting
  <2> QED
    BY <2>2, RenewedRestored
<1>3. ASSUME SignFails PROVE Restored(conn')
  BY <1>1, <1>3, FailureRenews, RenewedRestored DEF SignFails
<1>4. ASSUME NEW s \in SocketId, SocketOpens(s) PROVE Restored(conn')
  <2> DEFINE k == [conn EXCEPT !.socket[s] = "open"]
             r == [k EXCEPT !.step = "none", !.attempt = NoChain]
             cl == [c \in Client |-> IF c \in Present(r) THEN "establishing" ELSE r.clients[c]]
             q == [r EXCEPT !.clients = cl]
             p == [q EXCEPT !.reconnecting = FALSE]
  <2>1. s = conn.ws /\ conn.step # "none"
    BY <1>1, <1>4 DEF Good, Ending, LastSocket, SocketOpens
  <2>2. /\ OnlyReconnects(k) /\ k.step = conn.step /\ k.attempt = conn.attempt
    BY <1>1, SocketMoved
  <2>3. k.ws = s /\ k.socket[s] = "open"
    BY <1>1, <2>1 DEF State
  <2>4. k.attempt.reconnect
    BY <2>1, <2>2 DEF OnlyReconnects
  <2>5. conn' = p
    BY <1>4, <2>4 DEF SocketOpens, AttemptSucceeds, ResumeClients
  <2> HIDE DEF k
  <2>6. NoChain \in Chain
    BY ParameterAssumption DEF NoChain, Chain
  <2>7. /\ r \in State /\ r.step = "none" /\ r.sleeping = k.sleeping /\ r.clients = k.clients
        /\ r.ws = k.ws /\ r.socket = k.socket
    BY <2>2, <2>6 DEF OnlyReconnects, State
  <2> HIDE DEF r
  <2>8. /\ cl \in [Client -> ClientState]
        /\ \A c \in Client : cl[c] # "paused"
    BY <2>2, <2>7 DEF OnlyReconnects, State, ClientState, Present
  <2> HIDE DEF cl
  <2>9. /\ p.step = "none" /\ p.sleeping = k.sleeping /\ p.clients = cl /\ ~p.reconnecting
        /\ p.ws = k.ws /\ p.socket = k.socket
    BY <2>7, <2>8 DEF State
  <2> HIDE DEF p
  <2>10. IsWSConnected(p)
    <3>1. s # 0
      BY DEF SocketId
    <3> QED
      BY <2>3, <2>9, <3>1 DEF IsWSConnected
  <2> QED
    BY <2>2, <2>5, <2>8, <2>9, <2>10 DEF Restored, OnlyReconnects
<1>5. ASSUME NEW s \in SocketId, SocketFails(s) PROVE Restored(conn')
  <2> DEFINE k == [conn EXCEPT !.socket[s] = "closed"]
  <2>1. conn.step # "none"
    BY <1>1, <1>5 DEF Good, Ending, LastSocket, SocketFails
  <2>2. OnlyReconnects(k) /\ k.step = conn.step
    BY <1>1, SocketMoved
  <2>3. conn' = OnClose(AttemptFails(k), "abnormal")
    BY <1>5 DEF SocketFails
  <2> HIDE DEF k
  <2>4. Renewed(AttemptFails(k))
    BY <2>1, <2>2, FailureRenews
  <2> QED
    BY <2>3, <2>4, RenewedRestored, OnCloseRenews
<1>6. ASSUME NEW h \in Chain, EndSleep(h) PROVE Restored(conn')
  <2> DEFINE sl == [conn.sleeping EXCEPT ![h] = conn.sleeping[h] - 1]
             k == [conn EXCEPT !.sleeping = sl,
                               !.reconnecting = conn.reconnecting /\ ~h.reconnect]
  <2>1. conn.sleeping \in [Chain -> Nat] /\ conn.sleeping[h] > 0 /\ h.reconnect
    BY <1>1, <1>6 DEF State, EndSleep, OnlyReconnects
  <2>2. sl \in [Chain -> Nat] /\ \A g \in Chain : sl[g] > 0 => conn.sleeping[g] > 0
    BY <2>1
  <2>3. conn' = InitWebSocketConnection(k, TRUE, h.retries - 1)
    BY <1>6, <2>1 DEF EndSleep, Chain
  <2> HIDE DEF sl
  <2>4. /\ k \in State /\ k.step = conn.step /\ k.attempt = conn.attempt
        /\ k.sleeping = sl /\ k.clients = conn.clients /\ ~k.reconnecting
    BY <1>1, <2>1, <2>2 DEF State
  <2> HIDE DEF k
  <2>5. OnlyReconnects(k) /\ StateHonest(k)
    BY <1>1, <2>2, <2>4 DEF OnlyReconnects, StateHonest
  <2>6. h.retries - 1 \in 0..MaxReconnect
    BY <1>1, <2>1, ParameterAssumption DEF Good, Ending, Sleepers, Chain
  <2> QED
    BY <2>3, <2>5, <2>6, InitRenews, RenewedRestored
<1> QED
  BY <1>2, <1>3, <1>4, <1>5, <1>6 DEF AttemptStep

LEMMA SocketStepRestores ==
  ASSUME IInv, conn' \in State, Restored(conn), SocketStep
  PROVE  Restored(conn')
<1> USE DEF SocketState, CloseCode
<1>1. Good(conn) /\ conn \in State /\ OnlyReconnects(conn) /\ StateHonest(conn)
  BY IInvIsGood, RestoredHonest DEF Good, Ending
<1>2. ASSUME NEW s \in SocketId, ClosedByClient(s) PROVE Restored(conn')
  <2> DEFINE k == [conn EXCEPT !.socket[s] = "closed"]
             r == [k EXCEPT !.login = 0, !.heartbeat = FALSE]
  <2>1. /\ OnlyReconnects(k) /\ StateHonest(k)
        /\ conn.socket[s] # "ping" => Restored(k)
    BY <1>1, <1>2, SocketMoved DEF ClosedByClient
  <2>2. conn' = OnClose(k, conn.socket[s]) \/ conn' = OnClose(k, "abnormal")
    BY <1>2 DEF ClosedByClient
  <2> HIDE DEF k
  <2>3. CASE conn' = OnClose(k, "abnormal") \/ conn.socket[s] = "ping"
    BY <2>1, <2>2, <2>3, OnCloseRenews, RenewedRestored
  <2>4. CASE conn' = OnClose(k, conn.socket[s]) /\ conn.socket[s] # "ping"
    <3>1. conn' = r
      BY <1>2, <2>4 DEF ClosedByClient, OnClose
    <3>2. /\ r.step = k.step /\ r.attempt = k.attempt /\ r.sleeping = k.sleeping
          /\ r.clients = k.clients /\ r.reconnecting = k.reconnecting
          /\ r.ws = k.ws /\ r.socket = k.socket
      BY <2>1 DEF OnlyReconnects, State
    <3> QED
      BY <2>1, <2>4, <3>1, <3>2 DEF Restored, Reconnecting, Present, IsWSConnected
  <2> QED
    BY <2>2, <2>3, <2>4
<1>3. ASSUME NEW s \in SocketId, NEW code \in {"abnormal", "auth"}, ClosedByPeer(s, code)
      PROVE  Restored(conn')
  BY <1>1, <1>3, SocketMoved, OnCloseRenews, RenewedRestored DEF ClosedByPeer
<1>4. ASSUME NEW s \in SocketId, SocketError(s) PROVE Restored(conn')
  <2> DEFINE k == [conn EXCEPT !.socket[s] = "closed"]
  <2>1. Renewed(CloseAllClients(k))
    BY <1>1, SocketMoved, CloseAllRenews
  <2> QED
    BY <1>4, <2>1, OnCloseRenews, RenewedRestored DEF SocketError
<1>5. ASSUME NEW s \in SocketId, GoesSilent(s) PROVE Restored(conn')
  BY <1>1, <1>5, SocketMoved DEF GoesSilent
<1>6. ASSUME HeartbeatFires PROVE Restored(conn')
  <2> DEFINE k == [conn EXCEPT !.heartbeat = FALSE]
  <2>1. /\ k \in State /\ k.ws = conn.ws /\ k.socket = conn.socket
        /\ k.step = conn.step /\ k.attempt = conn.attempt /\ k.sleeping = conn.sleeping
        /\ k.clients = conn.clients /\ k.reconnecting = conn.reconnecting
    BY <1>1 DEF State
  <2>2. \/ conn' = k
        \/ conn' = InitWebSocketConnection(k, TRUE, MaxReconnect)
        \/ /\ conn.ws # 0 /\ conn.socket[conn.ws] = "silent" /\ conn' = Close(k, "ping")
    BY <1>6 DEF HeartbeatFires, IsWSConnected
  <2> HIDE DEF k
  <2>3. OnlyReconnects(k) /\ StateHonest(k)
    BY <1>1, <2>1, ChainsFrame
  <2>4. CASE conn' = k
    BY <2>1, <2>4 DEF Restored, Reconnecting, Present, IsWSConnected
  <2>5. CASE conn' = InitWebSocketConnection(k, TRUE, MaxReconnect)
    <3>1. MaxReconnect \in 0..MaxReconnect
      BY ParameterAssumption
    <3>2. Renewed(InitWebSocketConnection(k, TRUE, MaxReconnect))
      BY <2>3, <3>1, InitRenews
    <3>3. Renewed(conn')
      BY <2>5, <3>2
    <3> QED
      BY <3>3, RenewedRestored
  <2>6. CASE conn.ws # 0 /\ conn.socket[conn.ws] = "silent" /\ conn' = Close(k, "ping")
    <3>1. k.ws \in SocketId
      BY <2>1, <2>6, CurrentSocket
    <3>2. conn'.socket[k.ws] = "ping"
      BY <2>1, <2>6, <3>1 DEF Close, AfterClose, State
    <3>3. /\ conn'.step = k.step /\ conn'.attempt = k.attempt /\ conn'.sleeping = k.sleeping
          /\ conn'.clients = k.clients /\ conn'.reconnecting = k.reconnecting
      BY <2>1, <2>6, CloseSpares
    <3>4. OnlyReconnects(conn') /\ StateHonest(conn')
      BY <2>3, <3>3, ChainsFrame
    <3> QED
      BY <3>1, <3>2, <3>4 DEF Restored, OnlyReconnects, StateHonest
  <2> QED
    BY <2>2, <2>4, <2>5, <2>6
<1> QED
  BY <1>2, <1>3, <1>4, <1>5, <1>6 DEF SocketStep

\* A watch that moves on, as long as another reconnection is seen to if it pauses.
LEMMA ClientMoves ==
  ASSUME conn \in State, conn' \in State, Restored(conn), NEW c \in Client,
         NEW st \in {"establishing", "listening", "paused"}, c \in Present(conn),
         conn'.clients = [conn.clients EXCEPT ![c] = st],
         st = "paused" => ~IsWSConnected(conn),
         conn'.step = conn.step, conn'.attempt = conn.attempt, conn'.sleeping = conn.sleeping,
         conn'.reconnecting = conn.reconnecting, conn'.ws = conn.ws, conn'.socket = conn.socket
  PROVE  Restored(conn')
<1>1. \A d \in Client : conn'.clients[d] = IF d = c THEN st ELSE conn.clients[d]
  BY DEF State
<1>2. Present(conn') = Present(conn)
  BY <1>1 DEF Present
<1>3. /\ Reconnecting(conn') <=> Reconnecting(conn)
      /\ IsWSConnected(conn') <=> IsWSConnected(conn)
  BY DEF Reconnecting, IsWSConnected
<1>4. (\E d \in Client : conn'.clients[d] = "paused") =>
        Reconnecting(conn) \/ \E s \in SocketId : conn.socket[s] = "ping"
  BY <1>1 DEF Restored
<1> QED
  BY <1>1, <1>2, <1>3, <1>4 DEF Restored

LEMMA ClientStepRestores ==
  ASSUME IInv, conn' \in State, Restored(conn), ClientStep
  PROVE  Restored(conn')
<1>1. conn \in State /\ OnlyReconnects(conn)
  BY RestoredHonest DEF IInv, TypeOK
<1>2. ASSUME Receive \/ \E c \in Client : Login(c) PROVE Restored(conn')
  <2>1. /\ conn'.step = conn.step /\ conn'.attempt = conn.attempt /\ conn'.sleeping = conn.sleeping
        /\ conn'.clients = conn.clients /\ conn'.reconnecting = conn.reconnecting
        /\ conn'.ws = conn.ws /\ conn'.socket = conn.socket
    BY <1>1, <1>2 DEF Receive, Login, State
  <2> QED
    BY <2>1 DEF Restored, Reconnecting, Present, IsWSConnected
<1>3. ASSUME NEW c \in Client, Established(c) PROVE Restored(conn')
  <2>1. c \in Present(conn)
    BY <1>3 DEF Established, Present
  <2>2. /\ conn'.clients = [conn.clients EXCEPT ![c] = "listening"]
        /\ conn'.step = conn.step /\ conn'.attempt = conn.attempt /\ conn'.sleeping = conn.sleeping
        /\ conn'.reconnecting = conn.reconnecting /\ conn'.ws = conn.ws /\ conn'.socket = conn.socket
    BY <1>1, <1>3 DEF Established, State
  <2> QED
    BY <1>1, <2>1, <2>2, ClientMoves
<1>4. ASSUME NEW c \in Client, SendFails(c) PROVE Restored(conn')
  <2>1. c \in Present(conn) /\ ~IsWSConnected(conn)
    BY <1>4 DEF SendFails, Present
  <2>2. CASE conn' = [conn EXCEPT !.clients[c] = "paused"]
    <3>1. /\ conn'.clients = [conn.clients EXCEPT ![c] = "paused"]
          /\ conn'.step = conn.step /\ conn'.attempt = conn.attempt /\ conn'.sleeping = conn.sleeping
          /\ conn'.reconnecting = conn.reconnecting /\ conn'.ws = conn.ws /\ conn'.socket = conn.socket
      BY <1>1, <2>2 DEF State
    <3> QED
      BY <1>1, <2>1, <3>1, ClientMoves
  <2>3. CASE conn' = OnWatchClose(conn, {c})
    BY <1>1, <2>1, <2>3, OnWatchCloseRestores
  <2> QED
    BY <1>4, <2>2, <2>3 DEF SendFails
<1>5. ASSUME NEW c \in Client, TimesOut(c) \/ CloseWatch(c) PROVE Restored(conn')
  <2>1. c \in Present(conn) /\ conn' = OnWatchClose(conn, {c})
    BY <1>5 DEF TimesOut, CloseWatch, Present
  <2> QED
    BY <1>1, <2>1, OnWatchCloseRestores
<1> QED
  BY <1>2, <1>3, <1>4, <1>5 DEF ClientStep

\* A watch that is opened while the connection is up or is to be brought back.
LEMMA WatchRestores ==
  ASSUME IInv, conn' \in State, Restored(conn), NEW c \in Client, Watch(c), ~unaided'
  PROVE  Restored(conn')
<1>1. InHand(conn) /\ ~(conn.ws = 0 /\ conn.step = "none")
  BY DEF Watch
<1>2. conn \in State /\ conn' = [conn EXCEPT !.clients[c] = "establishing"]
  BY <1>1 DEF Watch, IInv, TypeOK
<1>3. /\ conn'.step = conn.step /\ conn'.attempt = conn.attempt /\ conn'.sleeping = conn.sleeping
      /\ conn'.reconnecting = conn.reconnecting /\ conn'.ws = conn.ws /\ conn'.socket = conn.socket
      /\ \A d \in Client : conn'.clients[d] = "paused" => conn.clients[d] = "paused"
  BY <1>2 DEF State
<1>4. /\ Reconnecting(conn') <=> Reconnecting(conn)
      /\ IsWSConnected(conn') <=> IsWSConnected(conn)
  BY <1>3 DEF Reconnecting, IsWSConnected
<1> QED
  BY <1>1, <1>3, <1>4 DEF Restored, InHand

\* A watch that is paused is in the hands of a reconnection, or of the close event
\* that starts one, whatever fails, late close events and overlapping chains included
\* (pauseClients, resumeClients and closeAllClients in initWebSocketConnection); or a
\* watch was opened while nobody restored the connection, as when a reconnection
\* sleeps between two attempts (watch).
THEOREM GoodHands == Spec => []PausedInGoodHands
<1>1. Init => InGoodHands
  <2> SUFFICES ASSUME Init PROVE Restored(conn)
    BY DEF InGoodHands
  <2> DEFINE up == IF Connected0 = {} THEN 0 ELSE 1
  <2>1. /\ conn.ws = up /\ conn.step = "none" /\ conn.reconnecting = FALSE
        /\ conn.socket = [s \in SocketId |-> IF s = up THEN "open" ELSE "unused"]
        /\ conn.sleeping = [h \in Chain |-> 0]
        /\ conn.clients = [c \in Client |-> IF c \in Connected0 THEN "listening" ELSE "none"]
    BY DEF Init
  <2>2. 1 \in SocketId
    BY ParameterAssumption DEF SocketId
  <2>3. ~\E c \in Client : conn.clients[c] = "paused"
    BY <2>1
  <2>4. CASE Connected0 = {}
    <3>1. Present(conn) = {}
      BY <2>1, <2>4 DEF Present
    <3> QED
      BY <2>1, <2>3, <3>1 DEF Restored
  <2>5. CASE Connected0 # {}
    <3>1. IsWSConnected(conn)
      BY <2>1, <2>2, <2>5 DEF IsWSConnected
    <3> QED
      BY <2>1, <2>3, <3>1 DEF Restored
  <2> QED
    BY <2>4, <2>5
<1>2. IInv /\ IInv' /\ InGoodHands /\ [Next]_vars => InGoodHands'
  <2> SUFFICES ASSUME IInv, IInv', InGoodHands, [Next]_vars, ~unaided'
               PROVE  Restored(conn')
    BY DEF InGoodHands
  <2>1. conn' \in State
    BY DEF IInv, TypeOK
  <2>2. ~unaided
    BY DEF Next, vars, Watch
  <2>3. Restored(conn)
    BY <2>2 DEF InGoodHands
  <2> QED
    BY <2>1, <2>3, AttemptStepRestores, SocketStepRestores, ClientStepRestores, WatchRestores
       DEF Next, vars
<1>3. InGoodHands => PausedInGoodHands
  BY DEF InGoodHands, Restored, PausedInGoodHands
<1> QED
  BY <1>1, <1>2, <1>3, Invariance, PTL DEF Spec

=============================================================================
