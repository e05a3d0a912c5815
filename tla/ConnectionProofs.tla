--------------------------- MODULE ConnectionProofs ---------------------------
(***************************************************************************)
(* Theorems about Connection, for every set of watches, every number of    *)
(* retries, sockets and failures.                                          *)
(***************************************************************************)
EXTENDS Connection, TLAPS

\* The invariant of a state, and what of it holds while an attempt is ending.
Ending(k) == k \in State /\ LastSocket(k) /\ Sleepers(k)

Good(k) == Ending(k) /\ Awaited(k)

\* Changing only what the invariant does not speak of keeps it.
LEMMA Frame ==
  ASSUME NEW k, NEW r, r \in State,
         r.ws = k.ws, r.socket = k.socket, r.created = k.created,
         r.step = k.step, r.sleeping = k.sleeping
  PROVE  /\ Ending(k) => Ending(r)
         /\ Good(k) => Good(r)
  BY DEF Good, Ending, LastSocket, Sleepers, Awaited

\* What close leaves of a socket.
LEMMA AfterCloseType ==
  ASSUME NEW state \in SocketState, NEW code \in CloseCode
  PROVE  /\ AfterClose(state, code) \in SocketState
         /\ AfterClose(state, code) \notin {"connecting", "open", "silent"}
         /\ AfterClose(state, code) = "aborted" <=> state \in {"connecting", "aborted"}
         /\ state = "unused" => AfterClose(state, code) = "unused"
  BY DEF AfterClose, SocketState, CloseCode

\* The socket _ws refers to.
LEMMA CurrentSocket ==
  ASSUME NEW k \in State, k.ws # 0
  PROVE  k.ws \in SocketId /\ k.socket[k.ws] \in SocketState
<1>1. k.ws \in 0..MaxSockets /\ k.socket \in [SocketId -> SocketState]
  BY DEF State
<1>2. k.ws \in SocketId
  BY <1>1 DEF SocketId
<1> QED
  BY <1>1, <1>2

\* close keeps the invariant and leaves no socket.
LEMMA CloseKeeps ==
  ASSUME NEW k, NEW code \in CloseCode, Ending(k)
  PROVE  /\ Ending(Close(k, code))
         /\ Good(k) => Good(Close(k, code))
         /\ Close(k, code).ws = 0 /\ Close(k, code).step = k.step
<1> DEFINE r == Close(k, code)
<1> k \in State
  BY DEF Ending
<1>1. CASE k.ws = 0
  <2>1. r = [k EXCEPT !.heartbeat = FALSE]
    BY <1>1 DEF Close
  <2> HIDE DEF r
  <2>2. /\ r \in State
        /\ r.ws = k.ws /\ r.socket = k.socket /\ r.created = k.created
        /\ r.step = k.step /\ r.sleeping = k.sleeping
    BY <2>1 DEF State
  <2>3. (Ending(k) => Ending(r)) /\ (Good(k) => Good(r))
    BY <2>2, Frame
  <2> QED
    BY <1>1, <2>2, <2>3 DEF r
<1>2. CASE k.ws # 0
  <2> DEFINE st == AfterClose(k.socket[k.ws], code)
             sock == [k.socket EXCEPT ![k.ws] = st]
  <2>1. k.ws \in SocketId /\ k.socket[k.ws] \in SocketState
    BY <1>2, CurrentSocket
  <2>2. st \in SocketState
    BY <2>1, AfterCloseType
  <2>3. r = [k EXCEPT !.heartbeat = FALSE, !.ws = 0, !.socket = sock]
    BY <1>2 DEF Close, State
  <2>4. sock \in [SocketId -> SocketState]
    BY <2>1, <2>2 DEF State
  <2>5. \A s \in SocketId : sock[s] = IF s = k.ws THEN st ELSE k.socket[s]
    BY <2>1 DEF State
  <2> HIDE DEF r, st, sock
  <2>6. /\ r \in State
        /\ r.ws = 0 /\ r.socket = sock /\ r.created = k.created
        /\ r.step = k.step /\ r.sleeping = k.sleeping
    <3>1. 0 \in 0..MaxSockets
      BY ParameterAssumption
    <3> QED
      BY <2>3, <2>4, <3>1 DEF State
  <2>7. /\ st \notin {"connecting", "open", "silent"}
        /\ st = "aborted" <=> k.socket[k.ws] \in {"connecting", "aborted"}
        /\ k.socket[k.ws] = "unused" => st = "unused"
    BY <2>1, AfterCloseType DEF st
  <2>8. LastSocket(r)
    BY <2>1, <2>5, <2>6, <2>7 DEF LastSocket, Ending
  <2>9. Sleepers(r)
    BY <2>6 DEF Sleepers, Ending
  <2>10. ASSUME Good(k) PROVE Awaited(r)
    <3> SUFFICES ASSUME k.step = "open"
                 PROVE  k.created # 0 /\ sock[k.created] \in {"connecting", "aborted"}
      BY <2>6 DEF Awaited
    <3>1. k.created # 0 /\ k.socket[k.created] \in {"connecting", "aborted"}
      BY <2>10 DEF Good, Awaited
    <3>2. k.created \in SocketId
      BY <3>1 DEF State, SocketId
    <3> QED
      BY <3>1, <3>2, <2>5, <2>7
  <2> QED
    BY <2>6, <2>8, <2>9, <2>10 DEF Good, Ending, r
<1> QED
  BY <1>1, <1>2

\* The watches, the login, the heartbeat and _reconnectState do not matter.
LEMMA ClientsKeep ==
  ASSUME NEW k \in State, NEW f, NEW g, NEW S,
         f \in ClientState, g \in ClientState
  PROVE  [c \in Client |-> IF c \in S THEN f ELSE k.clients[c]] \in [Client -> ClientState]
  BY DEF State

LEMMA PauseKeeps ==
  ASSUME NEW k, Ending(k)
  PROVE  LET r == PauseClients(k) IN
           /\ Ending(r)
           /\ Good(k) => Good(r)
           /\ r.ws = k.ws /\ r.step = k.step /\ r.reconnecting = k.reconnecting
<1> DEFINE cl == [c \in Client |-> IF c \in Present(k) THEN "paused" ELSE k.clients[c]]
           r == PauseClients(k)
<1>1. cl \in [Client -> ClientState]
  BY DEF Ending, State, ClientState
<1>2. r = [k EXCEPT !.clients = cl]
  BY DEF PauseClients
<1> HIDE DEF cl, r
<1>3. /\ r \in State
      /\ r.ws = k.ws /\ r.socket = k.socket /\ r.created = k.created
      /\ r.step = k.step /\ r.sleeping = k.sleeping /\ r.reconnecting = k.reconnecting
  BY <1>1, <1>2 DEF Ending, State
<1> QED
  BY <1>3, Frame DEF r

LEMMA ResumeKeeps ==
  ASSUME NEW k, Ending(k)
  PROVE  LET r == ResumeClients(k) IN
           /\ Ending(r)
           /\ Good(k) => Good(r)
           /\ r.step = k.step
<1> DEFINE cl == [c \in Client |-> IF c \in Present(k) THEN "establishing" ELSE k.clients[c]]
           r == ResumeClients(k)
<1>1. cl \in [Client -> ClientState]
  BY DEF Ending, State, ClientState
<1>2. r = [k EXCEPT !.clients = cl]
  BY DEF ResumeClients
<1> HIDE DEF cl, r
<1>3. /\ r \in State
      /\ r.ws = k.ws /\ r.socket = k.socket /\ r.created = k.created
      /\ r.step = k.step /\ r.sleeping = k.sleeping
  BY <1>1, <1>2 DEF Ending, State
<1> QED
  BY <1>3, Frame DEF r

\* onWatchClose keeps the invariant, whether it releases the socket or not.
LEMMA OnWatchCloseKeeps ==
  ASSUME NEW k, NEW gone, Ending(k)
  PROVE  LET r == OnWatchClose(k, gone) IN
           /\ Ending(r)
           /\ Good(k) => Good(r)
           /\ r.step = k.step
<1> DEFINE cl == [c \in Client |-> IF c \in gone THEN "ended" ELSE k.clients[c]]
           q == [k EXCEPT !.clients = cl]
           r == OnWatchClose(k, gone)
<1>1. cl \in [Client -> ClientState]
  BY DEF Ending, State, ClientState
<1>2. r = IF gone # {} /\ Present(q) = {} THEN Close(q, "nobody") ELSE q
  BY DEF OnWatchClose
<1> HIDE DEF cl, r
<1>3. /\ q \in State
      /\ q.ws = k.ws /\ q.socket = k.socket /\ q.created = k.created
      /\ q.step = k.step /\ q.sleeping = k.sleeping
  BY <1>1 DEF Ending, State
<1> HIDE DEF q
<1>4. Ending(q) /\ (Good(k) => Good(q))
  BY <1>3, Frame
<1>5. "nobody" \in CloseCode
  BY DEF CloseCode
<1>6. /\ Ending(Close(q, "nobody"))
      /\ Good(q) => Good(Close(q, "nobody"))
      /\ Close(q, "nobody").step = q.step
  BY <1>4, <1>5, CloseKeeps
<1> QED
  BY <1>2, <1>3, <1>4, <1>6 DEF r

\* initWebSocketConnection keeps the invariant: it closes the old socket before
\* it asks for the ticket of the next one.
LEMMA InitKeeps ==
  ASSUME NEW k, NEW reconnect \in BOOLEAN, NEW retries \in 0..MaxReconnect, Good(k)
  PROVE  Good(InitWebSocketConnection(k, reconnect, retries))
<1> DEFINE r == [k EXCEPT !.reconnecting = k.reconnecting \/ reconnect]
           p == IF reconnect THEN PauseClients(r) ELSE r
           h == [reconnect |-> reconnect, retries |-> retries]
           c == Close(p, "reconnect")
           q == [c EXCEPT !.step = "sign", !.attempt = h]
<1>1. /\ r \in State
      /\ r.ws = k.ws /\ r.socket = k.socket /\ r.created = k.created
      /\ r.step = k.step /\ r.sleeping = k.sleeping
  BY DEF Good, Ending, State
<1>2. InitWebSocketConnection(k, reconnect, retries) =
        IF reconnect /\ k.reconnecting THEN k ELSE IF k.step # "none" THEN r ELSE q
  BY DEF InitWebSocketConnection
<1> HIDE DEF r
<1>3. Good(r)
  BY <1>1, Frame
<1>4. Good(p)
  BY <1>3, PauseKeeps DEF Good
<1> HIDE DEF p
<1>5. "reconnect" \in CloseCode
  BY DEF CloseCode
<1>6. Good(c) /\ c.ws = 0
  BY <1>4, <1>5, CloseKeeps DEF Good
<1> HIDE DEF c
<1>7. ASSUME k.step = "none" PROVE Good(q)
  <2>1. h \in Chain
    BY DEF Chain
  <2>2. c.step = "none"
    BY <1>7, <1>1, <1>3, <1>4, <1>5, CloseKeeps, PauseKeeps DEF Good, p, c
  <2> HIDE DEF h
  <2>3. /\ q \in State
        /\ q.ws = 0 /\ q.socket = c.socket /\ q.created = c.created
        /\ q.step = "sign" /\ q.sleeping = c.sleeping
    BY <1>6, <2>1 DEF Good, Ending, State
  <2> HIDE DEF q
  <2>4. LastSocket(q)
    BY <1>6, <2>2, <2>3 DEF LastSocket, Good, Ending
  <2> QED
    BY <1>6, <2>3, <2>4 DEF Good, Ending, Sleepers, Awaited
<1> QED
  BY <1>2, <1>3, <1>7

-----------------------------------------------------------------------------
(* How attempts end. *)

NoneWaits(k) == \A s \in SocketId : k.socket[s] \notin {"connecting", "aborted"}

LEMMA AttemptEnds ==
  ASSUME NEW k, Ending(k), NoneWaits(k)
  PROVE  LET r == [k EXCEPT !.step = "none", !.attempt = NoChain] IN
           Good(r) /\ r.step = "none"
<1> DEFINE r == [k EXCEPT !.step = "none", !.attempt = NoChain]
<1>1. NoChain \in Chain
  BY ParameterAssumption DEF NoChain, Chain
<1>2. /\ r \in State
      /\ r.ws = k.ws /\ r.socket = k.socket /\ r.created = k.created
      /\ r.step = "none" /\ r.sleeping = k.sleeping
  BY <1>1 DEF Ending, State
<1> HIDE DEF r
<1>3. LastSocket(r) /\ Sleepers(r) /\ Awaited(r)
  BY <1>2 DEF LastSocket, Sleepers, Awaited, Ending, NoneWaits
<1> QED
  BY <1>2, <1>3 DEF Good, Ending, r

LEMMA SuccessKeeps ==
  ASSUME NEW k, Ending(k), NoneWaits(k)
  PROVE  Good(AttemptSucceeds(k))
<1> DEFINE r == [k EXCEPT !.step = "none", !.attempt = NoChain]
           q == ResumeClients(r)
           p == [q EXCEPT !.reconnecting = FALSE]
<1>1. Good(r)
  BY AttemptEnds
<1>2. AttemptSucceeds(k) = IF k.attempt.reconnect THEN p ELSE r
  BY DEF AttemptSucceeds
<1> HIDE DEF r
<1>3. Good(q)
  BY <1>1, ResumeKeeps DEF Good
<1> HIDE DEF q
<1>4. /\ p \in State
      /\ p.ws = q.ws /\ p.socket = q.socket /\ p.created = q.created
      /\ p.step = q.step /\ p.sleeping = q.sleeping
  BY <1>3 DEF Good, Ending, State
<1>5. Good(p)
  BY <1>3, <1>4, Frame
<1> QED
  BY <1>1, <1>2, <1>5

\* A failed attempt sleeps only if it has retries left.
LEMMA FailureKeeps ==
  ASSUME NEW k, Ending(k), NoneWaits(k)
  PROVE  Good(AttemptFails(k))
<1> DEFINE r == [k EXCEPT !.step = "none", !.attempt = NoChain]
           sl == [r.sleeping EXCEPT ![k.attempt] = r.sleeping[k.attempt] + 1]
           q == [r EXCEPT !.sleeping = sl]
<1>1. Good(r)
  BY AttemptEnds
<1>2. AttemptFails(k) = IF k.attempt.retries > 0 THEN q
                        ELSE IF k.attempt.reconnect THEN CloseAllClients(r)
                        ELSE r
  BY DEF AttemptFails
<1>3. k.attempt \in Chain
  BY DEF Ending, State
<1> HIDE DEF r
<1>4. Good(CloseAllClients(r))
  BY <1>1, OnWatchCloseKeeps DEF CloseAllClients, Good
<1>5. ASSUME k.attempt.retries > 0 PROVE Good(q)
  <2>1. r.sleeping \in [Chain -> Nat]
    BY <1>1 DEF Good, Ending, State
  <2>2. sl \in [Chain -> Nat]
    BY <1>3, <2>1
  <2>3. \A h \in Chain : h # k.attempt => sl[h] = r.sleeping[h]
    BY <1>3, <2>1
  <2> HIDE DEF sl
  <2>4. /\ q \in State
        /\ q.ws = r.ws /\ q.socket = r.socket /\ q.created = r.created
        /\ q.step = r.step /\ q.sleeping = sl
    BY <1>1, <2>2 DEF Good, Ending, State
  <2> HIDE DEF q
  <2>5. Sleepers(q)
    BY <1>1, <1>5, <2>3, <2>4 DEF Good, Ending, Sleepers
  <2>6. LastSocket(q) /\ Awaited(q)
    BY <1>1, <2>4 DEF Good, Ending, LastSocket, Awaited
  <2> QED
    BY <2>4, <2>5, <2>6 DEF Good, Ending
<1> QED
  BY <1>1, <1>2, <1>4, <1>5

LEMMA OnCloseKeeps ==
  ASSUME NEW k, Good(k), NEW code \in CloseCode \cup {"abnormal", "auth"}
  PROVE  Good(OnClose(k, code))
<1> DEFINE r == [k EXCEPT !.login = 0, !.heartbeat = FALSE]
<1>1. 0 \in 0..MaxSockets
  BY ParameterAssumption
<1>2. /\ r \in State
      /\ r.ws = k.ws /\ r.socket = k.socket /\ r.created = k.created
      /\ r.step = k.step /\ r.sleeping = k.sleeping
  BY <1>1 DEF Good, Ending, State
<1>3. /\ code \in {"reconnect", "nobody"} => OnClose(k, code) = r
      /\ code = "auth" => OnClose(k, code) = CloseAllClients(r)
      /\ code \in {"ping", "abnormal"} =>
           OnClose(k, code) = InitWebSocketConnection(r, TRUE, MaxReconnect)
  BY DEF OnClose
<1> HIDE DEF r
<1>4. Good(r)
  BY <1>2, Frame
<1>5. Good(CloseAllClients(r))
  BY <1>4, OnWatchCloseKeeps DEF CloseAllClients, Good
<1>6. Good(InitWebSocketConnection(r, TRUE, MaxReconnect))
  <2>1. MaxReconnect \in 0..MaxReconnect /\ TRUE \in BOOLEAN
    BY ParameterAssumption
  <2> QED
    BY <1>4, <2>1, InitKeeps
<1> QED
  BY <1>3, <1>4, <1>5, <1>6 DEF CloseCode

-----------------------------------------------------------------------------
(* Sockets. *)

\* An awaited socket that opens or closes leaves none to be awaited, and its
\* new state is allowed.
LEMMA SocketMoves ==
  ASSUME NEW k, Good(k), NEW s \in SocketId, NEW st \in SocketState,
         st \notin {"unused", "connecting", "aborted"},
         st \in {"open", "silent"} => s = k.ws,
         k.socket[s] # "unused"
  PROVE  LET r == [k EXCEPT !.socket[s] = st] IN
           /\ Ending(r)
           /\ k.socket[s] \in {"connecting", "aborted"} => NoneWaits(r)
           /\ k.socket[s] \notin {"connecting", "aborted"} => Good(r)
<1> DEFINE sock == [k.socket EXCEPT ![s] = st]
           r == [k EXCEPT !.socket[s] = st]
<1>1. k \in State /\ k.socket \in [SocketId -> SocketState]
  BY DEF Good, Ending, State
<1>2. /\ sock \in [SocketId -> SocketState]
      /\ \A t \in SocketId : sock[t] = IF t = s THEN st ELSE k.socket[t]
  BY <1>1
<1>3. r = [k EXCEPT !.socket = sock]
  OBVIOUS
<1> HIDE DEF r, sock
<1>4. /\ r \in State
      /\ r.ws = k.ws /\ r.socket = sock /\ r.created = k.created
      /\ r.step = k.step /\ r.sleeping = k.sleeping
  BY <1>1, <1>2, <1>3 DEF State
<1>5. LastSocket(r)
  BY <1>2, <1>4 DEF Good, Ending, LastSocket
<1>6. Sleepers(r)
  BY <1>4 DEF Good, Ending, Sleepers
<1>7. ASSUME k.socket[s] \in {"connecting", "aborted"} PROVE NoneWaits(r)
  BY <1>2, <1>4, <1>7 DEF Good, Ending, LastSocket, NoneWaits
<1>8. ASSUME k.socket[s] \notin {"connecting", "aborted"} PROVE Awaited(r)
  <2> SUFFICES ASSUME k.step = "open"
               PROVE  k.created # 0 /\ sock[k.created] \in {"connecting", "aborted"}
    BY <1>4 DEF Awaited
  <2>1. k.created # 0 /\ k.socket[k.created] \in {"connecting", "aborted"}
    BY DEF Good, Awaited
  <2>2. k.created \in SocketId
    BY <1>1, <2>1 DEF State, SocketId
  <2> QED
    BY <1>2, <1>8, <2>1, <2>2
<1> QED
  BY <1>4, <1>5, <1>6, <1>7, <1>8 DEF Good, Ending, r

-----------------------------------------------------------------------------
(* The steps of Connection. *)

LEMMA IInvIsGood ==
  IInv <=> Good(conn) /\ failures \in [Failure -> Nat] /\ unaided \in BOOLEAN
  BY DEF IInv, Good, Ending, TypeOK

LEMMA FailsType ==
  ASSUME IInv, NEW f \in Failure, Fails(f) \/ UNCHANGED failures
  PROVE  failures' \in [Failure -> Nat]
  BY DEF IInv, TypeOK, Fails

LEMMA InitKeepsIInv == Init => IInv
<1> SUFFICES ASSUME Init PROVE IInv
  OBVIOUS
<1> DEFINE up == IF Connected0 = {} THEN 0 ELSE 1
           sock == [s \in SocketId |-> IF s = up THEN "open" ELSE "unused"]
           cl == [c \in Client |-> IF c \in Connected0 THEN "listening" ELSE "none"]
           on == [c \in Client |-> IF c \in Connected0 THEN up ELSE 0]
<1>1. /\ 0 \in 0..MaxSockets /\ up \in 0..MaxSockets
      /\ NoChain \in Chain
      /\ \A s \in SocketId : s # 0
      /\ up # 0 => up \in SocketId
  BY ParameterAssumption DEF SocketId, NoChain, Chain
<1>2. /\ conn \in State
      /\ conn.ws = up /\ conn.created = up
      /\ conn.step = "none" /\ conn.socket = sock
      /\ conn.sleeping = [h \in Chain |-> 0]
  <2>1. sock \in [SocketId -> SocketState] /\ cl \in [Client -> ClientState]
    BY DEF SocketState, ClientState
  <2>2. on \in [Client -> 0..MaxSockets]
    BY <1>1
  <2>3. conn = [ws |-> up, created |-> up, login |-> up, heartbeat |-> up = 1,
                socket |-> sock, step |-> "none", attempt |-> NoChain,
                sleeping |-> [h \in Chain |-> 0], reconnecting |-> FALSE,
                clients |-> cl, on |-> on]
    BY DEF Init
  <2>4. (up = 1) \in BOOLEAN
    OBVIOUS
  <2> HIDE DEF up, sock, cl, on
  <2> QED
    BY <1>1, <2>1, <2>2, <2>3, <2>4 DEF State
<1>3. LastSocket(conn) /\ Awaited(conn)
  BY <1>2 DEF LastSocket, Awaited, SocketId
<1>4. Sleepers(conn)
  BY <1>2 DEF Sleepers
<1>5. failures \in [Failure -> Nat] /\ unaided \in BOOLEAN
  BY ParameterAssumption DEF Init
<1> QED
  BY <1>2, <1>3, <1>4, <1>5 DEF IInv, TypeOK

LEMMA SignOkKeeps ==
  ASSUME IInv, SignOk
  PROVE  Good(conn')
<1> DEFINE n == conn.created + 1
           sock == [conn.socket EXCEPT ![n] = "connecting"]
<1>1. Good(conn) /\ conn \in State
  BY IInvIsGood DEF Good, Ending
<1>2. n \in SocketId /\ n \in 0..MaxSockets
  BY <1>1, ParameterAssumption DEF SignOk, SocketId, State
<1>3. /\ sock \in [SocketId -> SocketState]
      /\ \A t \in SocketId : sock[t] = IF t = n THEN "connecting" ELSE conn.socket[t]
  BY <1>1, <1>2 DEF State, SocketState
<1>4. conn' = [conn EXCEPT !.created = n, !.ws = n, !.socket = sock,
                            !.step = "open", !.heartbeat = TRUE]
  BY DEF SignOk
<1> HIDE DEF sock
<1>5. /\ conn' \in State
      /\ conn'.ws = n /\ conn'.socket = sock /\ conn'.created = n
      /\ conn'.step = "open" /\ conn'.sleeping = conn.sleeping
  <2> HIDE DEF n
  <2> QED
    BY <1>1, <1>2, <1>3, <1>4 DEF State
<1>6. LastSocket(conn')
  <2>1. /\ conn.ws = 0
        /\ conn.created \in Nat
    BY <1>1, ParameterAssumption DEF Good, Ending, LastSocket, SignOk, State
  <2>2. \A t \in SocketId : t \in Nat /\ t # 0
    BY DEF SocketId
  <2> QED
    BY <1>1, <1>3, <1>5, <2>1, <2>2 DEF Good, Ending, LastSocket, SignOk
<1>7. Awaited(conn') /\ Sleepers(conn')
  BY <1>1, <1>2, <1>3, <1>5 DEF Good, Ending, Awaited, Sleepers, SocketId
<1> QED
  BY <1>5, <1>6, <1>7 DEF Good, Ending

LEMMA SignFailsKeeps ==
  ASSUME IInv, SignFails
  PROVE  Good(conn')
<1>1. Good(conn)
  BY IInvIsGood
<1>2. NoneWaits(conn)
  BY <1>1 DEF NoneWaits, Good, Ending, LastSocket, SignFails
<1> QED
  BY <1>1, <1>2, FailureKeeps DEF Good, SignFails

LEMMA SocketOpensKeeps ==
  ASSUME IInv, NEW s \in SocketId, SocketOpens(s)
  PROVE  Good(conn')
<1> DEFINE r == [conn EXCEPT !.socket[s] = "open"]
<1>1. Good(conn)
  BY IInvIsGood
<1>2. s = conn.ws
  BY <1>1 DEF Good, Ending, LastSocket, SocketOpens
<1>3. Ending(r) /\ NoneWaits(r)
  BY <1>1, <1>2, SocketMoves DEF SocketState, SocketOpens
<1> QED
  BY <1>3, SuccessKeeps DEF SocketOpens

LEMMA SocketFailsKeeps ==
  ASSUME IInv, NEW s \in SocketId, SocketFails(s)
  PROVE  Good(conn')
<1> DEFINE r == [conn EXCEPT !.socket[s] = "closed"]
<1>1. Good(conn)
  BY IInvIsGood
<1>2. Ending(r) /\ NoneWaits(r)
  BY <1>1, SocketMoves DEF SocketState, SocketFails
<1>3. Good(AttemptFails(r))
  BY <1>2, FailureKeeps
<1> QED
  BY <1>3, OnCloseKeeps DEF SocketFails

LEMMA EndSleepKeeps ==
  ASSUME IInv, NEW h \in Chain, EndSleep(h)
  PROVE  Good(conn')
<1> DEFINE sl == [conn.sleeping EXCEPT ![h] = conn.sleeping[h] - 1]
           k == [conn EXCEPT !.sleeping = sl,
                             !.reconnecting = conn.reconnecting /\ ~h.reconnect]
<1>1. Good(conn) /\ conn \in State
  BY IInvIsGood DEF Good, Ending
<1>2. conn.sleeping \in [Chain -> Nat] /\ conn.sleeping[h] > 0
  BY <1>1 DEF State, EndSleep
<1>3. sl \in [Chain -> Nat] /\ \A g \in Chain : sl[g] > 0 => conn.sleeping[g] > 0
  BY <1>2
<1>4. conn' = InitWebSocketConnection(k, h.reconnect, h.retries - 1)
  BY DEF EndSleep
<1> HIDE DEF sl
<1>5. /\ k \in State
      /\ k.ws = conn.ws /\ k.socket = conn.socket /\ k.created = conn.created
      /\ k.step = conn.step /\ k.sleeping = sl
  BY <1>1, <1>3 DEF State
<1> HIDE DEF k
<1>6. Good(k)
  BY <1>1, <1>3, <1>5 DEF Good, Ending, LastSocket, Awaited, Sleepers
<1>7. h.reconnect \in BOOLEAN /\ h.retries - 1 \in 0..MaxReconnect
  BY <1>1, <1>2, ParameterAssumption DEF Good, Ending, Sleepers, Chain
<1> QED
  BY <1>4, <1>6, <1>7, InitKeeps

LEMMA SocketStepKeeps ==
  ASSUME IInv, SocketStep
  PROVE  Good(conn')
<1>1. Good(conn) /\ conn \in State
  BY IInvIsGood DEF Good, Ending
<1> USE DEF SocketState, CloseCode
<1>2. ASSUME NEW s \in SocketId, ClosedByClient(s) PROVE Good(conn')
  <2> DEFINE k == [conn EXCEPT !.socket[s] = "closed"]
  <2>1. Good(k)
    BY <1>1, <1>2, SocketMoves DEF ClosedByClient
  <2> HIDE DEF k
  <2>2. conn' = OnClose(k, conn.socket[s]) \/ conn' = OnClose(k, "abnormal")
    BY <1>2 DEF ClosedByClient, k
  <2> QED
    BY <1>2, <2>1, <2>2, OnCloseKeeps DEF ClosedByClient
<1>3. ASSUME NEW s \in SocketId, NEW code \in {"abnormal", "auth"}, ClosedByPeer(s, code)
      PROVE  Good(conn')
  <2>1. Good([conn EXCEPT !.socket[s] = "closed"])
    BY <1>1, <1>3, SocketMoves DEF ClosedByPeer
  <2> QED
    BY <1>3, <2>1, OnCloseKeeps DEF ClosedByPeer
<1>4. ASSUME NEW s \in SocketId, SocketError(s) PROVE Good(conn')
  <2> DEFINE k == [conn EXCEPT !.socket[s] = "closed"]
  <2>1. Good(k)
    BY <1>1, <1>4, SocketMoves DEF SocketError
  <2> HIDE DEF k
  <2>2. Good(CloseAllClients(k))
    BY <2>1, OnWatchCloseKeeps DEF CloseAllClients, Good
  <2> QED
    BY <1>4, <2>2, OnCloseKeeps DEF SocketError, k
<1>5. ASSUME NEW s \in SocketId, GoesSilent(s) PROVE Good(conn')
  <2>1. s = conn.ws
    BY <1>1, <1>5 DEF GoesSilent, Good, Ending, LastSocket
  <2> QED
    BY <1>1, <1>5, <2>1, SocketMoves DEF GoesSilent
<1>6. ASSUME HeartbeatFires PROVE Good(conn')
  <2> DEFINE k == [conn EXCEPT !.heartbeat = FALSE]
  <2>1. /\ k \in State
        /\ k.ws = conn.ws /\ k.socket = conn.socket /\ k.created = conn.created
        /\ k.step = conn.step /\ k.sleeping = conn.sleeping
    BY <1>1 DEF State
  <2>2. \/ conn' = k
        \/ conn' = InitWebSocketConnection(k, TRUE, MaxReconnect)
        \/ conn' = Close(k, "ping")
    BY <1>6 DEF HeartbeatFires
  <2> HIDE DEF k
  <2>3. Good(k)
    BY <1>1, <2>1, Frame
  <2>4. MaxReconnect \in 0..MaxReconnect
    BY ParameterAssumption
  <2> QED
    BY <2>2, <2>3, <2>4, InitKeeps, CloseKeeps DEF Good
<1> QED
  BY <1>2, <1>3, <1>4, <1>5, <1>6 DEF SocketStep

LEMMA ClientStepKeeps ==
  ASSUME IInv, ClientStep \/ \E c \in Client : Watch(c)
  PROVE  Good(conn')
<1>1. Good(conn) /\ conn \in State
  BY IInvIsGood DEF Good, Ending
<1>2. ASSUME Receive PROVE Good(conn')
  <2>1. /\ conn' \in State
        /\ conn'.ws = conn.ws /\ conn'.socket = conn.socket /\ conn'.created = conn.created
        /\ conn'.step = conn.step /\ conn'.sleeping = conn.sleeping
    BY <1>1, <1>2 DEF Receive, State
  <2> QED
    BY <1>1, <2>1, Frame
<1>3. ASSUME NEW c \in Client, Watch(c) PROVE Good(conn')
  <2> DEFINE cl == [conn.clients EXCEPT ![c] = "establishing"]
             k == [conn EXCEPT !.clients = cl]
  <2>1. cl \in [Client -> ClientState]
    BY <1>1 DEF State, ClientState
  <2>2. conn' = IF conn.ws = 0 /\ conn.step = "none"
                  THEN InitWebSocketConnection(k, FALSE, MaxReconnect) ELSE k
    BY <1>3 DEF Watch
  <2> HIDE DEF cl
  <2>3. /\ k \in State
        /\ k.ws = conn.ws /\ k.socket = conn.socket /\ k.created = conn.created
        /\ k.step = conn.step /\ k.sleeping = conn.sleeping
    BY <1>1, <2>1 DEF State
  <2> HIDE DEF k
  <2>4. Good(k)
    BY <1>1, <2>3, Frame
  <2>5. MaxReconnect \in 0..MaxReconnect /\ FALSE \in BOOLEAN
    BY ParameterAssumption
  <2> QED
    BY <2>2, <2>4, <2>5, InitKeeps
<1>4. ASSUME NEW c \in Client, Login(c) PROVE Good(conn')
  <2>1. /\ conn' \in State
        /\ conn'.ws = conn.ws /\ conn'.socket = conn.socket /\ conn'.created = conn.created
        /\ conn'.step = conn.step /\ conn'.sleeping = conn.sleeping
    BY <1>1, <1>4 DEF Login, State
  <2> QED
    BY <1>1, <2>1, Frame
<1>5. ASSUME NEW c \in Client, Established(c) PROVE Good(conn')
  <2> DEFINE cl == [conn.clients EXCEPT ![c] = "listening"]
             on == [conn.on EXCEPT ![c] = conn.ws]
  <2>1. cl \in [Client -> ClientState] /\ on \in [Client -> 0..MaxSockets]
    BY <1>1 DEF State, ClientState
  <2>2. conn' = [conn EXCEPT !.clients = cl, !.on = on, !.heartbeat = TRUE]
    BY <1>5 DEF Established
  <2> HIDE DEF cl, on
  <2>3. /\ conn' \in State
        /\ conn'.ws = conn.ws /\ conn'.socket = conn.socket /\ conn'.created = conn.created
        /\ conn'.step = conn.step /\ conn'.sleeping = conn.sleeping
    BY <1>1, <2>1, <2>2 DEF State
  <2> QED
    BY <1>1, <2>3, Frame
<1>6. ASSUME NEW c \in Client, SendFails(c) PROVE Good(conn')
  <2>1. CASE conn' = [conn EXCEPT !.clients[c] = "paused"]
    <3> DEFINE cl == [conn.clients EXCEPT ![c] = "paused"]
    <3>1. cl \in [Client -> ClientState]
      BY <1>1 DEF State, ClientState
    <3>2. conn' = [conn EXCEPT !.clients = cl]
      BY <2>1
    <3> HIDE DEF cl
    <3>3. /\ conn' \in State
          /\ conn'.ws = conn.ws /\ conn'.socket = conn.socket
          /\ conn'.created = conn.created
          /\ conn'.step = conn.step /\ conn'.sleeping = conn.sleeping
      BY <1>1, <3>1, <3>2 DEF State
    <3> QED
      BY <1>1, <3>3, Frame
  <2>2. CASE conn' = OnWatchClose(conn, {c})
    BY <1>1, <2>2, OnWatchCloseKeeps DEF Good
  <2> QED
    BY <1>6, <2>1, <2>2 DEF SendFails
<1>7. ASSUME NEW c \in Client, TimesOut(c) \/ CloseWatch(c) PROVE Good(conn')
  BY <1>1, <1>7, OnWatchCloseKeeps DEF TimesOut, CloseWatch, Good
<1> QED
  BY <1>2, <1>3, <1>4, <1>5, <1>6, <1>7 DEF ClientStep

LEMMA NextKeeps ==
  ASSUME IInv, [Next]_vars
  PROVE  IInv'
<1>1. CASE AttemptStep /\ UNCHANGED unaided
  <2>1. Good(conn')
    BY <1>1, SignOkKeeps, SignFailsKeeps, SocketOpensKeeps, SocketFailsKeeps, EndSleepKeeps
       DEF AttemptStep
  <2>2. UNCHANGED failures \/ \E f \in Failure : Fails(f)
    BY <1>1 DEF AttemptStep, SignOk, SignFails, SocketOpens, SocketFails, EndSleep, Failure
  <2> QED
    BY <1>1, <2>1, <2>2, FailsType DEF IInv, TypeOK, Good, Ending
<1>2. CASE SocketStep /\ UNCHANGED unaided
  <2>1. Good(conn')
    BY <1>2, SocketStepKeeps
  <2>2. UNCHANGED failures \/ \E f \in Failure : Fails(f)
    BY <1>2 DEF SocketStep, ClosedByClient, ClosedByPeer, SocketError, GoesSilent,
                HeartbeatFires, Failure
  <2> QED
    BY <1>2, <2>1, <2>2, FailsType DEF IInv, TypeOK, Good, Ending
<1>3. CASE ClientStep /\ UNCHANGED unaided
  <2>1. Good(conn')
    BY <1>3, ClientStepKeeps
  <2>2. UNCHANGED failures
    BY <1>3 DEF ClientStep, Receive, Login, Established, SendFails, TimesOut, CloseWatch
  <2> QED
    BY <1>3, <2>1, <2>2 DEF IInv, TypeOK, Good, Ending
<1>4. CASE \E c \in Client : Watch(c)
  <2>1. Good(conn')
    BY <1>4, ClientStepKeeps
  <2>2. UNCHANGED failures /\ unaided' \in BOOLEAN
    BY <1>4 DEF Watch
  <2> QED
    BY <2>1, <2>2 DEF IInv, TypeOK, Good, Ending
<1>5. CASE UNCHANGED vars
  BY <1>5 DEF vars, IInv, TypeOK, LastSocket, Awaited, Sleepers
<1> QED
  BY <1>1, <1>2, <1>3, <1>4, <1>5 DEF Next

-----------------------------------------------------------------------------

\* The inductive invariant: _ws is the last socket created, a socket that has
\* not opened is awaited by the attempt, and only a chain with retries left
\* sleeps.
THEOREM Invariance == Spec => []IInv
  BY InitKeepsIInv, NextKeeps, PTL DEF Spec

\* The connection never leaves its type; no chain makes more attempts than
\* MaxReconnect allows.
THEOREM TypeCorrect == Spec => []TypeOK
<1>1. IInv => TypeOK
  BY DEF IInv
<1> QED
  BY <1>1, Invariance, PTL

\* There is one connection: initWebSocketConnection closes the old socket, and
\* no two attempts create sockets at a time.
THEOREM SingleSocket == Spec => []OneSocket
<1>1. IInv => OneSocket
  BY DEF IInv, LastSocket, OneSocket
<1> QED
  BY <1>1, Invariance, PTL

\* An attempt awaits a socket that will tell how it ends.
THEOREM AttemptEnding == Spec => []AttemptCanEnd
<1>1. IInv => AttemptCanEnd
  BY DEF IInv, Awaited, AttemptCanEnd
<1> QED
  BY <1>1, Invariance, PTL

=============================================================================
