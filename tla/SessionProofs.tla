----------------------------- MODULE SessionProofs -----------------------------
(***************************************************************************)
(* Theorems about Session, for every number of logins, sockets, pings and  *)
(* failures and for every tolerance.                                       *)
(***************************************************************************)
EXTENDS Session, TLAPS

\* The invariant of what the connection keeps of its sockets, of a state n and
\* the ghost h.
Opened(n) == n.state \in {"open", "silent"}

NetGood(n, h) ==
  /\ n \in Net
  /\ n.ws = 0 <=> n.state = "none"
  /\ n.ws # 0 => n.ws = n.created /\ n.event[n.ws] = "none"
  /\ \A s \in SocketId : s > n.created => n.event[s] = "none"
  /\ n.state = "connecting" => n.step = "socket" /\ ~h
  /\ Opened(n) => n.step = "none"

\* The close of no socket becomes known.
NoneOver(n, m) == \A s \in SocketId : n.event[s] # "over" => m.event[s] # "over"

LEMMA NetGoodIs == NetGood(net, heard) <=> net \in Net /\ SocketInUse
  BY DEF NetGood, SocketInUse, IsOpen, Opened

\* close() leaves no socket.
LEMMA CloseKeeps ==
  ASSUME NEW n, NEW h \in BOOLEAN, NetGood(n, h), NEW code \in {"reconnect", "ping"}
  PROVE  /\ NetGood(Close(n, code), h)
         /\ Close(n, code).ws = 0 /\ Close(n, code).state = "none"
         /\ Close(n, code).step = n.step
         /\ NoneOver(n, Close(n, code))
<1>1. CASE n.ws = 0
  BY <1>1 DEF Close, NetGood, NoneOver
<1>2. CASE n.ws # 0
  <2> DEFINE ev == [n.event EXCEPT ![n.ws] = code]
             r == [n EXCEPT !.ws = 0, !.state = "none", !.event = ev]
  <2>1. n \in Net /\ n.ws \in SocketId /\ n.created \in SocketId
    BY <1>2 DEF NetGood, Net, SocketId
  <2>2. Close(n, code) = r
    BY <1>2, <2>1 DEF Close, Net
  <2>3. ev \in [SocketId -> {"none", "reconnect", "ping", "over"}]
    BY <2>1 DEF Net
  <2>4. \A s \in SocketId : ev[s] = IF s = n.ws THEN code ELSE n.event[s]
    BY <2>1 DEF Net
  <2> HIDE DEF ev
  <2>5. r \in Net
    <3>1. 0 \in 0..MaxSockets
      BY SessionAssumption
    <3> QED
      BY <2>1, <2>3, <3>1 DEF Net
  <2>6. r.ws = 0 /\ r.state = "none" /\ r.event = ev /\ r.step = n.step /\ r.created = n.created
    BY <2>1 DEF Net
  <2>7. \A s \in SocketId : s > n.created => s # n.ws
    BY <1>2, <2>1 DEF NetGood, SocketId
  <2> HIDE DEF r
  <2>8. \A s \in SocketId : s > r.created => r.event[s] = "none"
    BY <2>4, <2>6, <2>7 DEF NetGood
  <2>9. NetGood(r, h)
    BY <2>5, <2>6, <2>8 DEF NetGood, Opened
  <2>10. NoneOver(n, r)
    BY <2>4, <2>6 DEF NoneOver
  <2> QED
    BY <2>2, <2>6, <2>9, <2>10
<1> QED
  BY <1>1, <1>2

\* A reconnection leaves no socket, unless an attempt is under way.
LEMMA ReconnectKeeps ==
  ASSUME NEW n, NEW h \in BOOLEAN, NetGood(n, h)
  PROVE  /\ NetGood(Reconnect(n), h)
         /\ NoneOver(n, Reconnect(n))
         /\ n.step # "none" => Reconnect(n) = n
         /\ ~Opened(Reconnect(n))
<1>1. CASE n.step # "none"
  BY <1>1 DEF Reconnect, NoneOver, NetGood
<1>2. CASE n.step = "none"
  <2> DEFINE c == Close(n, "reconnect")
             r == [c EXCEPT !.step = "sign"]
  <2>1. NetGood(c, h) /\ c.ws = 0 /\ c.state = "none" /\ NoneOver(n, c)
    BY CloseKeeps
  <2>2. Reconnect(n) = r
    BY <1>2 DEF Reconnect
  <2> HIDE DEF c
  <2>3. /\ r \in Net /\ r.ws = 0 /\ r.state = "none" /\ r.event = c.event
        /\ r.created = c.created
    BY <2>1 DEF Net, NetGood
  <2> HIDE DEF r
  <2> QED
    BY <1>2, <2>1, <2>2, <2>3 DEF NetGood, NoneOver, Opened
<1> QED
  BY <1>1, <1>2

-----------------------------------------------------------------------------
(* What the steps of the heartbeat and of the sockets leave of the table. *)

Table ==
  /\ current \in 0..MaxLogins
  /\ entries \in [LoginId -> Entry]
  /\ logins \in [LoginId -> Login]
  /\ now \in LoginId
  /\ upset \subseteq LoginId
  /\ Started /\ PromiseOfEntry /\ ResultOfLogin /\ TableKnows /\ Sent
  /\ LoginShared /\ AcceptedIsReturned

Rest ==
  /\ NetGood(net, heard)
  /\ heart \in Heart
  /\ faults \in 0..MaxFaults
  /\ heard \in BOOLEAN
  /\ HeartbeatAlive

LEMMA Parts == IInv <=> Table /\ Rest /\ LoginOutlived
  BY NetGoodIs DEF IInv, TypeOK, Table, Rest

LEMMA PartsNext ==
  ASSUME Table', LoginOutlived', NetGood(net', heard'), heart' \in Heart,
         faults' \in 0..MaxFaults, heard' \in BOOLEAN, HeartbeatAlive'
  PROVE  IInv'
<1>1. net' \in Net /\ SocketInUse'
  BY DEF NetGood, SocketInUse, IsOpen, Opened
<1> QED
  BY <1>1 DEF IInv, TypeOK, Table

LEMMA TableFrame ==
  ASSUME Table, UNCHANGED tableVars
  PROVE  Table'
  BY DEF Table, tableVars, Started, PromiseOfEntry, ResultOfLogin, TableKnows, Sent,
         LoginShared, AcceptedIsReturned, InFlight

LEMMA OutlivedFrame ==
  ASSUME Table, LoginOutlived, UNCHANGED tableVars, NoneOver(net, net')
  PROVE  LoginOutlived'
<1> SUFFICES ASSUME current # 0, entries[current].loggedIn
             PROVE  net'.event[logins[entries[current].result].on] # "over"
  BY DEF LoginOutlived, tableVars
<1>1. logins[entries[current].result].on \in SocketId
  BY DEF Table, ResultOfLogin
<1>2. net.event[logins[entries[current].result].on] # "over"
  BY DEF LoginOutlived
<1> QED
  BY <1>1, <1>2 DEF NoneOver

\* The table is reset: every login under way knows it.
LEMMA ResetKeeps ==
  ASSUME Table, ResetTable, UNCHANGED logins
  PROVE  Table' /\ LoginOutlived'
<1>1. current' = 0 /\ upset' = upset \cup InFlight /\ entries' = entries /\ now' = now
  BY DEF ResetTable
<1>2. InFlight' = InFlight /\ InFlight \subseteq LoginId
  BY DEF InFlight
<1>3. /\ current' \in 0..MaxLogins /\ entries' \in [LoginId -> Entry]
      /\ logins' \in [LoginId -> Login] /\ now' \in LoginId /\ upset' \subseteq LoginId
  BY <1>1, <1>2, SessionAssumption DEF Table
<1>4. Started' /\ Sent'
  BY <1>2 DEF Table, Started, Sent
<1>5. PromiseOfEntry' /\ ResultOfLogin' /\ LoginOutlived'
  BY <1>1 DEF PromiseOfEntry, ResultOfLogin, LoginOutlived
<1>6. TableKnows'
  BY <1>1, <1>2 DEF TableKnows
<1>7. LoginShared' /\ AcceptedIsReturned'
  BY <1>1, <1>2 DEF Table, LoginShared, AcceptedIsReturned
<1> QED
  BY <1>3, <1>4, <1>5, <1>6, <1>7 DEF Table
-----------------------------------------------------------------------------
(* The heartbeat. *)

LEMMA HeartFacts ==
  ASSUME NEW h \in Heart
  PROVE  /\ h.ping \in BOOLEAN /\ h.pong \in BOOLEAN
         /\ h.sending \in Nat /\ h.sending <= MaxPings
         /\ h.stray \in Nat /\ h.stray <= MaxPings
         /\ h.missed \in Nat /\ h.missed <= PongMissTolerance
         /\ h.failed \in Nat /\ h.failed <= PingFailTolerance
         /\ {MaxPings, PongMissTolerance, PingFailTolerance} \subseteq Nat
  BY SessionAssumption DEF Heart

LEMMA BeatKeeps ==
  ASSUME NEW h \in Heart
  PROVE  /\ Beat(h) \in Heart /\ Beat(h).ping
         /\ ClearHeartbeat(h) \in Heart
  BY DEF Beat, ClearHeartbeat, Heart

LEMMA PingTimerFiresPreserves == ASSUME IInv, PingTimerFires PROVE IInv'
<1> USE Parts, PartsNext
<1>1. net' = net /\ heard' = heard /\ faults' = faults /\ UNCHANGED tableVars
  BY DEF PingTimerFires
<1>2. Table' /\ LoginOutlived'
  BY <1>1, TableFrame, OutlivedFrame DEF NoneOver
<1>3. heart' \in Heart
  <2>1. CASE IsOpen
    <3>1. heart.sending + 1 \in 0..MaxPings
      BY <2>1, HeartFacts, SessionAssumption DEF PingTimerFires, Rest
    <3> QED
      BY <2>1, <3>1 DEF PingTimerFires, Rest, Heart
  <2>2. CASE ~IsOpen
    BY <2>2 DEF PingTimerFires, Rest, Heart
  <2> QED
    BY <2>1, <2>2
<1>4. HeartbeatAlive'
  <2>1. heart \in Heart /\ heart.sending \in Nat
    BY HeartFacts DEF Rest
  <2>2. IsOpen => heart'.sending = heart.sending + 1
    BY <2>1 DEF PingTimerFires, Heart
  <2> QED
    BY <1>1, <2>1, <2>2 DEF HeartbeatAlive, IsOpen
<1> QED
  BY <1>1, <1>2, <1>3, <1>4 DEF Rest

LEMMA PingSentPreserves == ASSUME IInv, PingSent PROVE IInv'
<1> USE Parts, PartsNext
<1>1. net' = net /\ heard' = heard /\ faults' = faults /\ UNCHANGED tableVars
  BY DEF PingSent
<1>2. Table' /\ LoginOutlived'
  BY <1>1, TableFrame, OutlivedFrame DEF NoneOver
<1>3. heart' \in Heart /\ heart'.pong
  <2>1. heart.sending - 1 \in 0..MaxPings
    BY HeartFacts DEF PingSent, Rest
  <2>2. (IF heart.pong THEN heart.stray + 1 ELSE heart.stray) \in 0..MaxPings
    BY HeartFacts, SessionAssumption DEF PingSent, Rest
  <2>3. 0 \in 0..PingFailTolerance
    BY SessionAssumption
  <2> QED
    BY <2>1, <2>2, <2>3 DEF PingSent, Rest, Heart
<1> QED
  BY <1>1, <1>2, <1>3 DEF Rest, HeartbeatAlive

LEMMA PingFailsPreserves == ASSUME IInv, PingFails PROVE IInv'
<1> DEFINE h == [heart EXCEPT !.sending = heart.sending - 1]
<1> USE Parts, PartsNext
<1>1. heard' = heard /\ faults' \in 0..MaxFaults /\ UNCHANGED tableVars
  BY SessionAssumption DEF PingFails, Fault, Rest
<1>2. h \in Heart
  <2>1. heart.sending - 1 \in 0..MaxPings
    BY HeartFacts DEF PingFails, Rest
  <2> QED
    BY <2>1 DEF Rest, Heart
<1>3. CASE h.failed < PingFailTolerance
  <2> HIDE DEF h
  <2>1. h.failed + 1 \in 0..PingFailTolerance
    BY <1>2, <1>3, HeartFacts
  <2>2. [h EXCEPT !.failed = h.failed + 1] \in Heart
    BY <1>2, <2>1 DEF Heart
  <2>3. heart' = Beat([h EXCEPT !.failed = h.failed + 1]) /\ net' = net
    BY <1>3 DEF PingFails, h
  <2>4. heart' \in Heart /\ heart'.ping
    BY <2>2, <2>3, BeatKeeps
  <2>5. Table' /\ LoginOutlived'
    BY <1>1, <2>3, TableFrame, OutlivedFrame DEF NoneOver
  <2> QED
    BY <1>1, <2>3, <2>4, <2>5 DEF Rest, HeartbeatAlive
<1>4. CASE ~(h.failed < PingFailTolerance)
  <2>1. heart' = ClearHeartbeat(h) /\ net' = Close(net, "ping")
    BY <1>4 DEF PingFails
  <2>2. NetGood(net', heard') /\ net'.state = "none" /\ NoneOver(net, net')
    BY <1>1, <2>1, CloseKeeps DEF Rest
  <2>3. Table' /\ LoginOutlived'
    BY <1>1, <2>2, TableFrame, OutlivedFrame
  <2> QED
    BY <1>1, <1>2, <2>1, <2>2, <2>3, BeatKeeps DEF Rest, HeartbeatAlive, IsOpen
<1> QED
  BY <1>3, <1>4

\* A pong timer, kept or stray, that finds the connection open beats or leaves it.
LEMMA PongTimerFiresPreserves == ASSUME IInv, PongTimerFires PROVE IInv'
<1> USE Parts, PartsNext
<1>1. heard' = heard /\ faults' = faults /\ UNCHANGED tableVars
  BY DEF PongTimerFires
<1>2. PICK h \in Heart : PongTimedOut(h)
  <2>1. CASE heart.pong /\ PongTimedOut([heart EXCEPT !.pong = FALSE])
    BY <2>1 DEF Rest, Heart
  <2>2. CASE heart.stray > 0 /\ PongTimedOut([heart EXCEPT !.stray = heart.stray - 1])
    <3>1. heart.stray - 1 \in 0..MaxPings
      BY <2>2, HeartFacts DEF Rest
    <3>2. [heart EXCEPT !.stray = heart.stray - 1] \in Heart
      BY <3>1 DEF Rest, Heart
    <3> QED
      BY <2>2, <3>2
  <2> QED
    BY <2>1, <2>2 DEF PongTimerFires
<1>3. CASE h.missed < PongMissTolerance
  <2>1. h.missed + 1 \in 0..PongMissTolerance
    BY <1>3, HeartFacts, SessionAssumption
  <2>2. [h EXCEPT !.missed = h.missed + 1] \in Heart
    BY <2>1 DEF Heart
  <2>3. heart' = Beat([h EXCEPT !.missed = h.missed + 1]) /\ net' = net
    BY <1>2, <1>3 DEF PongTimedOut
  <2>4. heart' \in Heart /\ heart'.ping
    BY <2>2, <2>3, BeatKeeps
  <2>5. Table' /\ LoginOutlived'
    BY <1>1, <2>3, TableFrame, OutlivedFrame DEF NoneOver
  <2> QED
    BY <1>1, <2>3, <2>4, <2>5 DEF Rest, HeartbeatAlive
<1>4. CASE ~(h.missed < PongMissTolerance)
  <2>1. net' = Reconnect(net) /\ heart' = IF net' = net THEN h ELSE ClearHeartbeat(h)
    BY <1>2, <1>4 DEF PongTimedOut
  <2>2. NetGood(net', heard') /\ NoneOver(net, net') /\ ~Opened(net')
    BY <1>1, <2>1, ReconnectKeeps DEF Rest
  <2>3. Table' /\ LoginOutlived'
    BY <1>1, <2>2, TableFrame, OutlivedFrame
  <2> QED
    BY <1>1, <2>1, <2>2, <2>3, BeatKeeps DEF Rest, HeartbeatAlive, IsOpen, Opened
<1> QED
  BY <1>3, <1>4

LEMMA MessagePreserves == ASSUME IInv, Message PROVE IInv'
<1> USE Parts, PartsNext
<1>1. net' = net /\ heard' = TRUE /\ faults' = faults /\ UNCHANGED tableVars
      /\ net.state = "open" /\ heart' = Beat(heart)
  BY DEF Message
<1>2. Table' /\ LoginOutlived'
  BY <1>1, TableFrame, OutlivedFrame DEF NoneOver
<1>3. NetGood(net', heard')
  BY <1>1 DEF Rest, NetGood
<1>4. heart' \in Heart /\ heart'.ping
  BY <1>1, BeatKeeps DEF Rest
<1> QED
  BY <1>1, <1>2, <1>3, <1>4 DEF Rest, HeartbeatAlive

-----------------------------------------------------------------------------
(* Sockets. *)

LEMMA GoesSilentPreserves == ASSUME IInv, GoesSilent PROVE IInv'
<1> USE Parts, PartsNext
<1>1. /\ net' = [net EXCEPT !.state = "silent"] /\ net.state = "open"
      /\ heard' = heard /\ heart' = heart /\ UNCHANGED tableVars
      /\ faults' \in 0..MaxFaults
  BY SessionAssumption DEF GoesSilent, Fault, Rest
<1>2. NetGood(net', heard') /\ NoneOver(net, net')
  BY <1>1 DEF Rest, NetGood, Net, NoneOver, Opened
<1>3. Table' /\ LoginOutlived'
  BY <1>1, <1>2, TableFrame, OutlivedFrame
<1> QED
  BY <1>1, <1>2, <1>3 DEF Rest, HeartbeatAlive, IsOpen

LEMMA EndSleepPreserves == ASSUME IInv, EndSleep PROVE IInv'
<1> USE Parts, PartsNext
<1>1. /\ net' = [net EXCEPT !.step = "sign"] /\ net.step = "sleep"
      /\ UNCHANGED <<heart, tableVars, faults, heard>>
  BY DEF EndSleep
<1>2. NetGood(net', heard') /\ NoneOver(net, net') /\ net'.state = net.state
  BY <1>1 DEF Rest, NetGood, Net, NoneOver, Opened
<1>3. Table' /\ LoginOutlived'
  BY <1>1, <1>2, TableFrame, OutlivedFrame
<1> QED
  BY <1>1, <1>2, <1>3 DEF Rest, HeartbeatAlive, IsOpen

LEMMA SocketCreatedPreserves == ASSUME IInv, SocketCreated PROVE IInv'
<1> USE Parts, PartsNext
<1>1. /\ net.step = "sign" /\ net.created < MaxSockets
      /\ net' = [net EXCEPT !.step = "socket", !.created = net.created + 1,
                            !.ws = net.created + 1, !.state = "connecting"]
      /\ heart' = Beat(heart) /\ heard' = FALSE /\ UNCHANGED <<tableVars, faults>>
  BY DEF SocketCreated
<1>2. net \in Net /\ net.created \in Nat /\ net.created > 0 /\ MaxSockets \in Nat
  BY SessionAssumption DEF Rest, NetGood, Net, SocketId
<1>3. net.created + 1 \in SocketId /\ net.created + 1 \in 0..MaxSockets
  BY <1>1, <1>2 DEF SocketId
<1>4. /\ net' \in Net /\ net'.ws = net.created + 1 /\ net'.created = net.created + 1
      /\ net'.state = "connecting" /\ net'.step = "socket" /\ net'.event = net.event
  BY <1>1, <1>2, <1>3 DEF Net
<1>5. net.event[net.created + 1] = "none"
  BY <1>2, <1>3 DEF Rest, NetGood
<1>6. \A s \in SocketId : s > net.created + 1 => net.event[s] = "none"
  BY <1>2 DEF Rest, NetGood, SocketId
<1>7. NetGood(net', heard') /\ NoneOver(net, net')
  BY <1>1, <1>2, <1>4, <1>5, <1>6 DEF NetGood, NoneOver, Opened
<1>8. Table' /\ LoginOutlived'
  BY <1>1, <1>7, TableFrame, OutlivedFrame
<1> QED
  BY <1>1, <1>7, <1>8, BeatKeeps DEF Rest, HeartbeatAlive

\* Of a socket in use that ends, the close becomes known and the table is reset.
LEMMA SocketEnds ==
  ASSUME NEW n, NEW h, NEW step \in {"none", "sign", "socket", "sleep"}, NetGood(n, h)
  PROVE  NetGood([n EXCEPT !.ws = 0, !.state = "none", !.event[n.ws] = "over", !.step = step], FALSE)
<1> DEFINE ev == [n.event EXCEPT ![n.ws] = "over"]
           r == [n EXCEPT !.ws = 0, !.state = "none", !.event = ev, !.step = step]
<1>1. [n EXCEPT !.ws = 0, !.state = "none", !.event[n.ws] = "over", !.step = step] = r
  BY DEF NetGood, Net
<1>2. ev \in [SocketId -> {"none", "reconnect", "ping", "over"}]
  BY DEF NetGood, Net
<1>3. \A s \in SocketId : s > n.created => ev[s] = "none"
  BY DEF NetGood, Net, SocketId
<1> HIDE DEF ev
<1>4. 0 \in 0..MaxSockets
  BY SessionAssumption
<1>5. r \in Net /\ r.ws = 0 /\ r.state = "none" /\ r.event = ev /\ r.created = n.created
  BY <1>2, <1>4 DEF NetGood, Net
<1> HIDE DEF r
<1> QED
  BY <1>1, <1>3, <1>5 DEF NetGood, Opened

LEMMA ResetPreserves ==
  ASSUME Table, Rest, NetGood(net', FALSE), heart' \in Heart, heard' = FALSE, ResetTable,
         UNCHANGED logins, faults' \in 0..MaxFaults
  PROVE  IInv'
<1>1. Table' /\ LoginOutlived'
  BY ResetKeeps
<1>2. HeartbeatAlive'
  BY DEF HeartbeatAlive
<1> QED
  BY <1>1, <1>2, PartsNext

LEMMA FaultKeeps == ASSUME Rest, Fault PROVE faults' \in 0..MaxFaults
  BY SessionAssumption DEF Rest, Fault

LEMMA ClosedByPeerPreserves == ASSUME IInv, ClosedByPeer PROVE IInv'
<1> DEFINE n == [net EXCEPT !.ws = 0, !.state = "none", !.event[net.ws] = "over"]
<1>1. /\ Table /\ Rest /\ net' = Reconnect(n) /\ heart' = ClearHeartbeat(heart)
      /\ heard' = FALSE /\ ResetTable /\ UNCHANGED logins
  BY Parts DEF ClosedByPeer
<1>2. NetGood(n, FALSE)
  <2>1. net.step \in {"none", "sign", "socket", "sleep"} /\ NetGood(net, heard)
    BY <1>1 DEF Rest, NetGood, Net
  <2>2. n = [net EXCEPT !.ws = 0, !.state = "none", !.event[net.ws] = "over", !.step = net.step]
    BY <2>1 DEF NetGood, Net
  <2> QED
    BY <2>1, <2>2, SocketEnds
<1>3. NetGood(net', FALSE)
  BY <1>1, <1>2, ReconnectKeeps
<1>4. heart' \in Heart /\ faults' \in 0..MaxFaults
  BY <1>1, BeatKeeps, FaultKeeps DEF Rest, ClosedByPeer
<1> QED
  BY <1>1, <1>3, <1>4, ResetPreserves

\* A close event that is late is not that of the socket in use.
LEMMA ClosedKeeps ==
  ASSUME NetGood(net, heard), NEW s \in SocketId, net.event[s] \in {"reconnect", "ping"}
  PROVE  NetGood(Closed(s), FALSE)
<1> DEFINE ev == [net.event EXCEPT ![s] = "over"]
           n == [net EXCEPT !.event = ev]
           m == [n EXCEPT !.step = "sleep"]
<1>1. net \in Net
  BY DEF NetGood
<1>2. ev \in [SocketId -> {"none", "reconnect", "ping", "over"}]
  BY <1>1 DEF Net
<1>3. \A x \in SocketId : ev[x] = IF x = s THEN "over" ELSE net.event[x]
  BY <1>1 DEF Net
<1>4. s # net.ws /\ ~(s > net.created)
  <2>1. s # 0
    BY DEF SocketId
  <2> QED
    BY <2>1 DEF NetGood
<1>5. n = [net EXCEPT !.event[s] = "over"]
  BY <1>1 DEF Net
<1> HIDE DEF ev
<1>6. /\ n \in Net /\ n.ws = net.ws /\ n.state = net.state /\ n.event = ev /\ n.step = net.step
      /\ n.created = net.created
  BY <1>1, <1>2 DEF Net
<1> HIDE DEF n
<1>7. n.ws # 0 => n.event[n.ws] = "none"
  <2>1. n.ws # 0 => n.ws \in SocketId
    BY <1>6 DEF Net, SocketId
  <2> QED
    BY <1>3, <1>4, <1>6, <2>1 DEF NetGood
<1>8. \A x \in SocketId : x > n.created => n.event[x] = "none"
  BY <1>3, <1>4, <1>6 DEF NetGood
<1>9. NetGood(n, FALSE)
  BY <1>6, <1>7, <1>8 DEF NetGood, Opened
<1>10. CASE net.step = "socket" /\ net.ws = 0 /\ s = net.created
  <2>1. /\ m \in Net /\ m.ws = n.ws /\ m.state = n.state /\ m.event = n.event
        /\ m.step = "sleep" /\ m.created = n.created
    BY <1>6 DEF Net
  <2>2. Closed(s) = m
    BY <1>5, <1>10 DEF Closed
  <2> HIDE DEF m
  <2>3. m.state = "none"
    BY <1>6, <1>10, <2>1 DEF NetGood
  <2> QED
    BY <1>9, <2>1, <2>2, <2>3 DEF NetGood, Opened
<1>11. CASE ~(net.step = "socket" /\ net.ws = 0 /\ s = net.created)
  <2>1. Closed(s) \in {Reconnect(n), n}
    BY <1>5, <1>11 DEF Closed
  <2> QED
    BY <1>9, <2>1, ReconnectKeeps
<1> QED
  BY <1>10, <1>11

LEMMA LateClosePreserves == ASSUME IInv, NEW s \in SocketId, LateClose(s) PROVE IInv'
<1>1. /\ Table /\ Rest /\ net' = Closed(s) /\ heart' = ClearHeartbeat(heart)
      /\ heard' = FALSE /\ ResetTable /\ UNCHANGED <<logins, faults>>
  BY Parts DEF LateClose
<1>2. NetGood(net', FALSE)
  BY <1>1, ClosedKeeps DEF Rest, LateClose
<1>3. heart' \in Heart /\ faults' \in 0..MaxFaults
  BY <1>1, BeatKeeps DEF Rest
<1> QED
  BY <1>1, <1>2, <1>3, ResetPreserves

LEMMA AttemptFailsPreserves == ASSUME IInv, AttemptFails PROVE IInv'
<1> USE Parts, PartsNext
<1>1. faults' \in 0..MaxFaults
  BY FaultKeeps DEF AttemptFails
<1>2. CASE net.step = "sign"
  <2>1. net' = [net EXCEPT !.step = "sleep"] /\ UNCHANGED <<heart, tableVars, heard>>
    BY <1>2 DEF AttemptFails
  <2>2. NetGood(net', heard') /\ NoneOver(net, net') /\ net'.state = net.state
    BY <1>2, <2>1 DEF Rest, NetGood, Net, NoneOver, Opened
  <2>3. Table' /\ LoginOutlived'
    BY <2>1, <2>2, TableFrame, OutlivedFrame
  <2> QED
    BY <1>1, <2>1, <2>2, <2>3 DEF Rest, HeartbeatAlive, IsOpen
<1>3. CASE net.step # "sign"
  <2>1. /\ net' = [net EXCEPT !.step = "sleep", !.ws = 0, !.state = "none", !.event[net.ws] = "over"]
        /\ heart' = ClearHeartbeat(heart) /\ heard' = FALSE /\ ResetTable /\ UNCHANGED logins
    BY <1>3 DEF AttemptFails
  <2>2. NetGood(net', FALSE)
    <3>1. net' = [net EXCEPT !.ws = 0, !.state = "none", !.event[net.ws] = "over", !.step = "sleep"]
      BY <2>1 DEF Rest, NetGood, Net
    <3> QED
      BY <3>1, SocketEnds DEF Rest
  <2>3. heart' \in Heart
    BY <2>1, BeatKeeps DEF Rest
  <2> QED
    BY <1>1, <2>1, <2>2, <2>3, ResetPreserves
<1> QED
  BY <1>2, <1>3
-----------------------------------------------------------------------------
(* Logins. *)

LEMMA Undefined == 0 \in 0..MaxLogins /\ 0 \in 0..MaxSockets
  BY SessionAssumption

LEMMA InFlightIs ==
  ASSUME NEW l \in InFlight
  PROVE  l \in LoginId /\ l # 0 /\ logins[l].step \in {"sign", "await", "sent"}
  BY DEF InFlight, LoginId

\* Calls of webLogin that go on change nothing in the table.
LEMMA GoingOnKeeps ==
  ASSUME Table, LoginOutlived, UNCHANGED <<current, entries, now, upset>>,
         NoneOver(net, net'), logins' \in [LoginId -> Login],
         \A k \in LoginId \ InFlight : logins'[k] = logins[k],
         \A k \in InFlight :
           /\ logins'[k].step \in {"sign", "await", "sent"}
           /\ logins'[k].entry = logins[k].entry
           /\ logins'[k].startTS = logins[k].startTS
           /\ logins'[k].refresh = logins[k].refresh
           /\ logins'[k].step = "sent" => logins'[k].on \in SocketId
  PROVE  Table' /\ LoginOutlived'
<1>1. InFlight' = InFlight
  BY DEF InFlight
<1>2. \A k \in LoginId : /\ logins'[k].step = "none" <=> logins[k].step = "none"
                         /\ logins'[k].step = "thrown" => logins[k].step = "thrown"
                         /\ logins[k].step = "returned" => logins'[k] = logins[k]
  BY DEF InFlight
<1>3. Started' /\ AcceptedIsReturned'
  BY <1>2 DEF Table, Started, AcceptedIsReturned
<1>4. PromiseOfEntry' /\ TableKnows' /\ Sent' /\ LoginShared'
  BY <1>1 DEF Table, PromiseOfEntry, TableKnows, Sent, LoginShared
<1>5. ResultOfLogin'
  BY <1>2 DEF Table, ResultOfLogin
<1>6. LoginOutlived'
  BY <1>2 DEF Table, LoginOutlived, ResultOfLogin, NoneOver
<1> QED
  BY <1>3, <1>4, <1>5, <1>6 DEF Table

LEMMA SettleKeeps ==
  ASSUME Table, NEW l \in InFlight, NEW outcome \in {"returned", "thrown", "failed"},
         Settle(l, outcome)
  PROVE  /\ logins' \in [LoginId -> Login]
         /\ logins'[l].step = outcome /\ logins'[l].on = logins[l].on
         /\ \A k \in LoginId \ {l} : logins'[k] = logins[k]
         /\ InFlight' = InFlight \ {l}
         /\ Started'
<1> DEFINE r == [NoLogin EXCEPT !.step = outcome, !.on = logins[l].on]
<1>1. l \in LoginId /\ logins[l] \in Login /\ logins[l].step # "none"
  BY InFlightIs DEF Table
<1>2. r \in Login /\ r.step = outcome /\ r.on = logins[l].on
  BY <1>1, Undefined DEF NoLogin, Login
<1>3. logins' = [logins EXCEPT ![l] = r]
  BY DEF Settle
<1> HIDE DEF r
<1>4. logins' \in [LoginId -> Login] /\ logins'[l] = r /\ \A k \in LoginId \ {l} : logins'[k] = logins[k]
  BY <1>1, <1>2, <1>3 DEF Table
<1>5. InFlight' = InFlight \ {l}
  BY <1>2, <1>4 DEF InFlight
<1>6. Started'
  BY <1>1, <1>2, <1>4 DEF Table, Started
<1> QED
  BY <1>2, <1>4, <1>5, <1>6

LEMMA ForgetKeeps ==
  ASSUME NEW e \in Entry
  PROVE  Forget(e) \in Entry /\ Forget(e).promise = 0 /\ ~Forget(e).loggedIn
  BY Undefined DEF Forget, Entry

\* A login that fails, whatever else has happened, takes only its own entry's promise.
LEMMA FailsKeeps ==
  ASSUME Table, LoginOutlived, NEW l \in InFlight, Fails(l), NoneOver(net, net')
  PROVE  Table' /\ LoginOutlived'
<1> DEFINE e == logins[l].entry
<1>1. /\ current' = current /\ now' = now /\ upset' = upset \cup (InFlight \ {l})
      /\ entries' = [entries EXCEPT ![e] = Forget(entries[e])]
  BY DEF Fails
<1>2. /\ logins' \in [LoginId -> Login]
      /\ logins'[l].step = "failed" /\ logins'[l].on = logins[l].on
      /\ \A k \in LoginId \ {l} : logins'[k] = logins[k]
      /\ InFlight' = InFlight \ {l}
      /\ Started'
  BY SettleKeeps DEF Fails
<1>3. e \in LoginId /\ l \in LoginId /\ InFlight \subseteq LoginId
  BY InFlightIs DEF Table, Sent
<1> HIDE DEF e
<1>4. /\ entries' \in [LoginId -> Entry]
      /\ ~entries'[e].loggedIn /\ entries'[e].promise = 0
      /\ \A x \in LoginId \ {e} : entries'[x] = entries[x]
  BY <1>1, <1>3, ForgetKeeps DEF Table
<1>5. PromiseOfEntry'
  <2> SUFFICES ASSUME current # 0, entries'[current].promise # 0
               PROVE  LET p == entries'[current].promise
                      IN /\ p \in InFlight'
                         /\ logins'[p].entry = current
                         /\ logins'[p].startTS = entries'[current].startTS
    BY <1>1 DEF PromiseOfEntry
  <2>1. current \in LoginId /\ current # e
    BY <1>4 DEF Table, LoginId
  <2>2. entries'[current] = entries[current]
    BY <1>4, <2>1
  <2>3. entries[current].promise # l
    BY <2>1, <2>2 DEF Table, PromiseOfEntry, e
  <2> QED
    BY <1>2, <1>3, <2>2, <2>3 DEF Table, PromiseOfEntry
<1>6. ResultOfLogin' /\ LoginOutlived'
  <2> SUFFICES ASSUME current # 0, entries'[current].loggedIn
               PROVE  LET k == entries'[current].result
                      IN /\ k \in LoginId /\ logins'[k].step = "returned" /\ logins'[k].on \in SocketId
                         /\ net'.event[logins'[k].on] # "over"
    BY <1>1 DEF ResultOfLogin, LoginOutlived
  <2>1. current \in LoginId /\ current # e
    BY <1>4 DEF Table, LoginId
  <2>2. entries'[current] = entries[current]
    BY <1>4, <2>1
  <2>3. entries[current].result # l
    BY <2>2, InFlightIs DEF Table, ResultOfLogin
  <2> QED
    BY <1>2, <2>2, <2>3 DEF Table, ResultOfLogin, LoginOutlived, NoneOver
<1>7. TableKnows' /\ LoginShared'
  BY <1>1, <1>2 DEF TableKnows, LoginShared
<1>8. Sent' /\ AcceptedIsReturned'
  BY <1>1, <1>2, <1>3 DEF Table, Sent, AcceptedIsReturned
<1> QED
  BY <1>1, <1>2, <1>3, <1>4, <1>5, <1>6, <1>7, <1>8 DEF Table
\* What is recorded of a login that has succeeded.
LEMMA LoggedInKeeps ==
  ASSUME NEW l \in LoginId
  PROVE  /\ LoggedIn(l) \in Entry
         /\ LoggedIn(l).promise = 0 /\ LoggedIn(l).loggedIn /\ LoggedIn(l).result = l
  BY Undefined, SessionAssumption DEF LoggedIn, Entry, LoginId

\* A login that succeeds is recorded, or joins the outcome of the one the table
\* has, or throws; it throws only if something has disturbed it.
LEMMA SucceedsKeeps ==
  ASSUME Table, LoginOutlived, NEW l \in InFlight, Succeeds(l), net' = net,
         logins[l].on \in SocketId, net.event[logins[l].on] # "over"
  PROVE  Table' /\ LoginOutlived'
<1> DEFINE f == logins[l].entry
           known == Recorded(l) \/ (/\ current # 0 /\ ~Recorded(l)
                                    /\ entries[current].loggedIn \/ entries[current].promise # 0)
           outcome == IF known THEN "returned" ELSE "thrown"
<1>1. /\ current' = current /\ now' = now /\ upset' = upset
      /\ Settle(l, outcome)
      /\ entries' = IF Recorded(l) THEN [entries EXCEPT ![current] = LoggedIn(l)]
                    ELSE IF known THEN entries
                    ELSE [entries EXCEPT ![f] = Forget(entries[f])]
  BY DEF Succeeds
<1>2. /\ logins' \in [LoginId -> Login]
      /\ logins'[l].step = outcome /\ logins'[l].on = logins[l].on
      /\ \A k \in LoginId \ {l} : logins'[k] = logins[k]
      /\ InFlight' = InFlight \ {l}
      /\ Started'
  BY <1>1, SettleKeeps
<1>3. /\ f \in LoginId /\ l \in LoginId /\ InFlight \subseteq LoginId
      /\ current # 0 => current \in LoginId
  BY InFlightIs DEF Table, Sent, InFlight, LoginId
<1>4. Sent' /\ LoginShared'
  BY <1>1, <1>2, <1>3 DEF Table, Sent, LoginShared
<1>5. CASE Recorded(l)
  <2>1. /\ current \in LoginId /\ f = current
        /\ entries' = [entries EXCEPT ![current] = LoggedIn(l)]
    BY <1>1, <1>3, <1>5 DEF Recorded
  <2>2. /\ entries' \in [LoginId -> Entry]
        /\ entries'[current].promise = 0 /\ entries'[current].loggedIn
        /\ entries'[current].result = l
    BY <1>3, <2>1, LoggedInKeeps DEF Table
  <2>3. logins'[l].step = "returned"
    BY <1>2, <1>5
  <2>4. PromiseOfEntry' /\ ResultOfLogin' /\ LoginOutlived'
    BY <1>1, <1>2, <1>3, <2>2, <2>3 DEF PromiseOfEntry, ResultOfLogin, LoginOutlived
  <2>5. TableKnows'
    BY <1>1, <1>2, <1>3, <2>2 DEF Table, TableKnows
  <2>6. AcceptedIsReturned'
    BY <1>1, <1>2, <1>3, <2>3 DEF Table, AcceptedIsReturned
  <2> QED
    BY <1>1, <1>2, <1>4, <2>2, <2>4, <2>5, <2>6 DEF Table
<1>6. CASE ~Recorded(l) /\ known
  <2>1. entries' = entries /\ logins'[l].step = "returned"
    BY <1>1, <1>2, <1>6
  <2>2. entries[current].promise # l
    BY <1>6, InFlightIs DEF Table, PromiseOfEntry, Recorded
  <2>3. current # 0 /\ entries[current].loggedIn => entries[current].result # l
    BY InFlightIs DEF Table, ResultOfLogin
  <2>4. PromiseOfEntry'
    BY <1>1, <1>2, <1>3, <2>1, <2>2 DEF Table, PromiseOfEntry
  <2>5. ResultOfLogin' /\ LoginOutlived'
    BY <1>1, <1>2, <2>1, <2>3 DEF Table, ResultOfLogin, LoginOutlived
  <2>6. TableKnows'
    BY <1>1, <1>2, <1>3, <2>1 DEF Table, TableKnows
  <2>7. AcceptedIsReturned'
    BY <1>1, <1>2, <1>3, <2>1 DEF Table, AcceptedIsReturned
  <2> QED
    BY <1>1, <1>2, <1>4, <2>1, <2>4, <2>5, <2>6, <2>7 DEF Table
<1>7. CASE ~known
  <2>1. /\ entries' = [entries EXCEPT ![f] = Forget(entries[f])]
        /\ logins'[l].step = "thrown"
        /\ current # 0 => ~entries[current].loggedIn /\ entries[current].promise = 0
    BY <1>1, <1>2, <1>7
  <2>2. /\ entries' \in [LoginId -> Entry]
        /\ ~entries'[f].loggedIn /\ entries'[f].promise = 0
        /\ \A x \in LoginId \ {f} : entries'[x] = entries[x]
    BY <1>3, <2>1, ForgetKeeps DEF Table
  <2>3. current # 0 => ~entries'[current].loggedIn /\ entries'[current].promise = 0
    BY <1>3, <2>1, <2>2
  <2>4. InFlight \subseteq upset
    BY <2>1 DEF Table, TableKnows
  <2>5. PromiseOfEntry' /\ ResultOfLogin' /\ LoginOutlived'
    BY <1>1, <2>3 DEF PromiseOfEntry, ResultOfLogin, LoginOutlived
  <2>6. TableKnows' /\ AcceptedIsReturned'
    BY <1>1, <1>2, <1>3, <2>4 DEF Table, TableKnows, AcceptedIsReturned
  <2> QED
    BY <1>1, <1>2, <1>4, <2>2, <2>5, <2>6 DEF Table
<1> QED
  BY <1>5, <1>6, <1>7
\* A login is started only if none is known, and so joined by those that follow.
LEMMA StartsLoginPreserves ==
  ASSUME IInv, NEW l \in LoginId, NEW refresh \in BOOLEAN, StartsLogin(l, refresh)
  PROVE  IInv'
<1> DEFINE e == IF current = 0 THEN l ELSE current
<1>1. Table /\ Rest /\ UNCHANGED <<net, heart, faults, heard, upset>>
  BY Parts DEF StartsLogin
<1>2. PICK ts \in LoginId :
        /\ now' = ts /\ current' = e
        /\ logins' = [logins EXCEPT ![l] = [step |-> "sign", refresh |-> refresh,
                                            entry |-> e, startTS |-> ts, on |-> 0]]
        /\ entries' = [entries EXCEPT ![e].loggedIn = FALSE, ![e].promise = l, ![e].startTS = ts]
  BY DEF StartsLogin
<1>3. e \in LoginId /\ e \in 0..MaxLogins /\ e # 0 /\ l # 0 /\ l \in 0..MaxLogins /\ ts \in 0..MaxLogins
  BY <1>1 DEF Table, LoginId
<1> HIDE DEF e
<1>4. /\ logins' \in [LoginId -> Login]
      /\ logins'[l].step = "sign" /\ logins'[l].entry = e /\ logins'[l].startTS = ts
      /\ logins'[l].refresh = refresh
      /\ \A k \in LoginId \ {l} : logins'[k] = logins[k]
  BY <1>1, <1>2, <1>3, Undefined DEF Table, Login
<1>5. /\ entries' \in [LoginId -> Entry]
      /\ ~entries'[e].loggedIn /\ entries'[e].promise = l /\ entries'[e].startTS = ts
  BY <1>1, <1>2, <1>3 DEF Table, Entry
<1>6. logins[l].step = "none" /\ (\A k \in LoginId : k < l => logins[k].step # "none")
      /\ (refresh \/ NoneKnown)
  BY DEF StartsLogin
<1>7. InFlight' = InFlight \cup {l} /\ l \notin InFlight /\ InFlight \subseteq LoginId
  BY <1>4, <1>6 DEF InFlight
<1>8. Started'
  BY <1>1, <1>4, <1>6 DEF Table, Started, LoginId
<1>9. PromiseOfEntry' /\ ResultOfLogin' /\ LoginOutlived'
  BY <1>2, <1>3, <1>4, <1>5, <1>7 DEF PromiseOfEntry, ResultOfLogin, LoginOutlived
<1>10. TableKnows'
  <2>1. \A k \in InFlight \ upset : logins[k].entry = e
    BY <1>1 DEF Table, TableKnows, e
  <2> QED
    BY <1>1, <1>2, <1>3, <1>4, <1>5, <1>7, <2>1 DEF TableKnows
<1>11. Sent' /\ AcceptedIsReturned'
  BY <1>1, <1>3, <1>4, <1>7 DEF Table, Sent, AcceptedIsReturned
<1>12. LoginShared'
  <2> SUFFICES ASSUME NEW k \in InFlight', NEW m \in InFlight', k < m,
                      ~logins'[k].refresh, ~logins'[m].refresh
               PROVE  k \in upset
    BY <1>1 DEF LoginShared
  <2>1. CASE m = l
    <3>1. NoneKnown /\ k \in InFlight
      BY <1>4, <1>6, <1>7, <2>1 DEF LoginId
    <3> QED
      BY <1>1, <3>1 DEF Table, TableKnows, NoneKnown
  <2>2. CASE m # l
    <3>1. m \in InFlight /\ m \in LoginId /\ logins[m].step # "none"
      BY <1>7, <2>2, InFlightIs
    <3>2. k # l /\ k \in InFlight
      BY <1>1, <1>6, <1>7, <3>1 DEF Table, Started
    <3> QED
      BY <1>1, <1>4, <1>7, <2>2, <3>1, <3>2 DEF Table, LoginShared
  <2> QED
    BY <2>1, <2>2
<1>13. Table'
  BY <1>1, <1>2, <1>3, <1>4, <1>5, <1>8, <1>9, <1>10, <1>11, <1>12 DEF Table
<1> QED
  BY <1>1, <1>9, <1>13, PartsNext DEF Rest, HeartbeatAlive, IsOpen

LEMMA TicketArrivesPreserves == ASSUME IInv, NEW l \in LoginId, TicketArrives(l) PROVE IInv'
<1>1. /\ Table /\ Rest /\ LoginOutlived /\ l \in InFlight /\ logins[l].step = "sign"
      /\ UNCHANGED <<net, heart, faults, heard>> /\ NoneOver(net, net')
  BY Parts DEF TicketArrives, InFlight, NoneOver
<1>2. Table' /\ LoginOutlived'
  <2>1. CASE Fails(l)
    BY <1>1, <2>1, FailsKeeps
  <2>2. CASE logins' = [logins EXCEPT ![l].step = "await"] /\ UNCHANGED <<current, entries, now, upset>>
    <3>1. /\ logins' \in [LoginId -> Login]
          /\ logins'[l] = [logins[l] EXCEPT !.step = "await"] /\ logins[l] \in Login
          /\ \A k \in LoginId \ {l} : logins'[k] = logins[k]
      BY <1>1, <2>2 DEF Table, Login
    <3>2. /\ logins'[l].step = "await" /\ logins'[l].entry = logins[l].entry
          /\ logins'[l].startTS = logins[l].startTS /\ logins'[l].refresh = logins[l].refresh
      BY <3>1 DEF Login
    <3>3. \A k \in InFlight : logins[k].step = "sent" => logins[k].on \in SocketId
      BY <1>1 DEF Table, Sent
    <3> QED
      BY <1>1, <2>2, <3>1, <3>2, <3>3, InFlightIs, GoingOnKeeps
  <2>3. CASE /\ IsOpen /\ logins' = [logins EXCEPT ![l].step = "sent", ![l].on = net.ws]
             /\ UNCHANGED <<current, entries, now, upset>>
    <3>1. net.ws \in SocketId /\ net.ws \in 0..MaxSockets
      BY <1>1, <2>3 DEF Rest, NetGood, Net, IsOpen, SocketId
    <3>2. /\ logins' \in [LoginId -> Login]
          /\ logins'[l] = [logins[l] EXCEPT !.step = "sent", !.on = net.ws] /\ logins[l] \in Login
          /\ \A k \in LoginId \ {l} : logins'[k] = logins[k]
      BY <1>1, <2>3, <3>1 DEF Table, Login
    <3>3. /\ logins'[l].step = "sent" /\ logins'[l].entry = logins[l].entry /\ logins'[l].on = net.ws
          /\ logins'[l].startTS = logins[l].startTS /\ logins'[l].refresh = logins[l].refresh
      BY <3>2 DEF Login
    <3>4. \A k \in InFlight : logins[k].step = "sent" => logins[k].on \in SocketId
      BY <1>1 DEF Table, Sent
    <3> QED
      BY <1>1, <2>3, <3>1, <3>2, <3>3, <3>4, InFlightIs, GoingOnKeeps
  <2> QED
    BY <2>1, <2>2, <2>3 DEF TicketArrives
<1> QED
  BY <1>1, <1>2, PartsNext DEF Rest, HeartbeatAlive, IsOpen

\* onopen: the logins that wait for the connection are sent.
LEMMA SocketOpensPreserves == ASSUME IInv, SocketOpens PROVE IInv'
<1>1. /\ Table /\ Rest /\ LoginOutlived /\ net.state = "connecting"
      /\ net' = [net EXCEPT !.step = "none", !.state = "open"]
      /\ logins' = [l \in LoginId |->
                      IF logins[l].step = "await"
                        THEN [logins[l] EXCEPT !.step = "sent", !.on = net.ws] ELSE logins[l]]
      /\ UNCHANGED <<heart, current, entries, now, faults, heard, upset>>
  BY Parts DEF SocketOpens
<1>2. NetGood(net', heard') /\ NoneOver(net, net')
  BY <1>1 DEF Rest, NetGood, Net, NoneOver, Opened
<1>3. net.ws \in SocketId /\ net.ws \in 0..MaxSockets /\ ~heard
  BY <1>1 DEF Rest, NetGood, Net, SocketId
<1>4. \A k \in LoginId : logins[k] \in Login
  BY <1>1 DEF Table
<1>5. logins' \in [LoginId -> Login]
  <2> SUFFICES ASSUME NEW k \in LoginId
               PROVE  (IF logins[k].step = "await"
                         THEN [logins[k] EXCEPT !.step = "sent", !.on = net.ws] ELSE logins[k]) \in Login
    BY <1>1
  <2> QED
    BY <1>3, <1>4 DEF Login
<1>6. \A k \in LoginId \ InFlight : logins'[k] = logins[k]
  BY <1>1 DEF InFlight
<1>7. ASSUME NEW k \in InFlight
      PROVE  /\ logins'[k].step \in {"sign", "await", "sent"}
             /\ logins'[k].entry = logins[k].entry
             /\ logins'[k].startTS = logins[k].startTS
             /\ logins'[k].refresh = logins[k].refresh
             /\ logins'[k].step = "sent" => logins'[k].on \in SocketId
  <2>1. k \in LoginId /\ logins[k] \in Login /\ logins[k].step \in {"sign", "await", "sent"}
    BY <1>4, InFlightIs
  <2>2. CASE logins[k].step = "await"
    <3>1. logins'[k] = [logins[k] EXCEPT !.step = "sent", !.on = net.ws]
      BY <1>1, <2>1, <2>2
    <3> QED
      BY <1>3, <2>1, <3>1 DEF Login
  <2>3. CASE logins[k].step # "await"
    <3>1. logins'[k] = logins[k]
      BY <1>1, <2>1, <2>3
    <3> QED
      BY <1>1, <2>1, <3>1 DEF Table, Sent
  <2> QED
    BY <2>2, <2>3
<1>8. Table' /\ LoginOutlived'
  BY <1>1, <1>2, <1>5, <1>6, <1>7, GoingOnKeeps
<1> QED
  BY <1>1, <1>2, <1>3, <1>8, PartsNext DEF Rest, HeartbeatAlive
LEMMA LoginEndsPreserves ==
  ASSUME IInv, NEW l \in LoginId, TicketFails(l) \/ LoginTimesOut(l)
  PROVE  IInv'
<1>1. /\ Table /\ Rest /\ LoginOutlived /\ l \in InFlight /\ Fails(l)
      /\ UNCHANGED <<net, heart, heard>> /\ NoneOver(net, net')
  BY Parts DEF TicketFails, LoginTimesOut, InFlight, NoneOver
<1>2. faults' \in 0..MaxFaults
  BY <1>1, FaultKeeps DEF TicketFails, LoginTimesOut, Rest
<1>3. Table' /\ LoginOutlived'
  BY <1>1, FailsKeeps
<1> QED
  BY <1>1, <1>2, <1>3, PartsNext DEF Rest, HeartbeatAlive, IsOpen

LEMMA LoginAnsweredPreserves == ASSUME IInv, NEW l \in LoginId, LoginAnswered(l) PROVE IInv'
<1>1. /\ Table /\ Rest /\ LoginOutlived /\ l \in InFlight /\ logins[l].step = "sent"
      /\ net.state = "open" /\ net.ws = logins[l].on
      /\ heart' = Beat(heart) /\ heard' = TRUE /\ net' = net /\ NoneOver(net, net')
  BY Parts DEF LoginAnswered, InFlight, NoneOver
<1>2. faults' \in 0..MaxFaults
  BY <1>1, FaultKeeps DEF LoginAnswered, Rest
<1>3. Table' /\ LoginOutlived'
  <2>1. CASE Fails(l)
    BY <1>1, <2>1, FailsKeeps
  <2>2. CASE Succeeds(l)
    <3>1. logins[l].on \in SocketId /\ logins[l].on # 0
      BY <1>1 DEF Table, Sent, SocketId
    <3>2. net.event[logins[l].on] # "over"
      BY <1>1, <3>1 DEF Rest, NetGood
    <3> QED
      BY <1>1, <2>2, <3>1, <3>2, SucceedsKeeps
  <2> QED
    BY <2>1, <2>2 DEF LoginAnswered
<1>4. NetGood(net', heard')
  BY <1>1 DEF Rest, NetGood
<1>5. heart' \in Heart /\ heart'.ping
  BY <1>1, BeatKeeps DEF Rest
<1> QED
  BY <1>1, <1>2, <1>3, <1>4, <1>5, PartsNext DEF HeartbeatAlive

-----------------------------------------------------------------------------
(* The invariant. *)

LEMMA InitEstablishes == Init => IInv
<1> SUFFICES ASSUME Init PROVE IInv
  OBVIOUS
<1> USE SessionAssumption
<1>1. 1 \in SocketId /\ 1 \in LoginId /\ MaxSockets \in Nat
  BY DEF SocketId, LoginId
<1>2. NetGood(net, heard) /\ heard = FALSE
  BY <1>1 DEF Init, NetGood, Net, Opened, SocketId
<1>3. heart \in Heart
  BY DEF Init, Heart
<1>4. NoEntry \in Entry /\ NoLogin \in Login
  BY Undefined DEF NoEntry, Entry, NoLogin, Login
<1>5. InFlight = {} /\ \A l \in LoginId : logins[l].step = "none"
  BY DEF Init, InFlight, NoLogin
<1>6. Table
  <2>1. Started /\ Sent /\ TableKnows /\ LoginShared /\ AcceptedIsReturned
    BY <1>5 DEF Started, Sent, TableKnows, LoginShared, AcceptedIsReturned
  <2>2. PromiseOfEntry /\ ResultOfLogin
    BY DEF Init, PromiseOfEntry, ResultOfLogin
  <2> QED
    BY <1>1, <1>4, <2>1, <2>2, Undefined DEF Init, Table
<1> QED
  <2> HIDE SessionAssumption
  <2>0. MaxFaults \in Nat
    BY SessionAssumption
  <2>1. faults = MaxFaults /\ heard = FALSE /\ current = 0
    BY DEF Init
  <2>2. HeartbeatAlive /\ LoginOutlived
    BY <1>2, <2>1 DEF HeartbeatAlive, LoginOutlived
  <2>3. Rest
    <3>1. faults \in 0..MaxFaults
      BY <2>0, <2>1
    <3>2. heard \in BOOLEAN
      BY <1>2
    <3> QED
      BY <1>2, <1>3, <2>2, <3>1, <3>2 DEF Rest
  <2> QED
    BY <1>6, <2>2, <2>3, Parts

LEMMA NextPreserves == IInv /\ [Next]_vars => IInv'
<1> SUFFICES ASSUME IInv, [Next]_vars PROVE IInv'
  OBVIOUS
<1>1. CASE UNCHANGED vars
  <2>1. UNCHANGED <<net, heart, faults, heard, tableVars>>
    BY <1>1 DEF vars, tableVars
  <2>2. Table' /\ LoginOutlived'
    BY <2>1, Parts, TableFrame, OutlivedFrame DEF NoneOver
  <2> QED
    BY <2>1, <2>2, Parts, PartsNext DEF Rest, HeartbeatAlive, IsOpen
<1>2. CASE HeartbeatStep
  BY <1>2, PingTimerFiresPreserves, PingSentPreserves, PingFailsPreserves, PongTimerFiresPreserves,
     MessagePreserves DEF HeartbeatStep
<1>3. CASE LoginStep
  BY <1>3, StartsLoginPreserves, TicketArrivesPreserves, LoginEndsPreserves, LoginAnsweredPreserves
     DEF LoginStep
<1>4. CASE SocketStep
  BY <1>4, ClosedByPeerPreserves, GoesSilentPreserves, SocketCreatedPreserves, SocketOpensPreserves,
     AttemptFailsPreserves, EndSleepPreserves, LateClosePreserves DEF SocketStep
<1> QED
  BY <1>1, <1>2, <1>3, <1>4 DEF Next

\* The inductive invariant of the socket, the table of logins and the heartbeat.
THEOREM Invariance == Spec => []IInv
  BY InitEstablishes, NextPreserves, PTL DEF Spec

\* Every variable keeps its type: no counter passes its tolerance.
THEOREM TypeCorrect == Spec => []TypeOK
<1>1. IInv => TypeOK
  BY DEF IInv
<1> QED
  BY <1>1, Invariance, PTL

\* A watch that joins a login joins one that is under way (webLogin returns the
\* loginPromise of the table).
THEOREM JoinsInFlight == Spec => []JoinInFlight
<1>1. IInv => JoinInFlight
  BY DEF IInv, PromiseOfEntry, JoinInFlight
<1> QED
  BY <1>1, Invariance, PTL

\* Two logins that nobody asked to refresh are under way at once only if the
\* table was reset or a login failed meanwhile.
THEOREM SharedLogin == Spec => []LoginShared
<1>1. IInv => LoginShared
  BY DEF IInv
<1> QED
  BY <1>1, Invariance, PTL

\* However logins overlap, a watch whose LOGIN the server has accepted is told so,
\* unless the table was reset or another login failed meanwhile.
THEOREM AcceptedReturned == Spec => []AcceptedIsReturned
<1>1. IInv => AcceptedIsReturned
  BY DEF IInv
<1> QED
  BY <1>1, Invariance, PTL

\* No login is recorded that was made on a socket whose close event has come.
THEOREM OutlivesNoSocket == Spec => []LoginOutlived
<1>1. IInv => LoginOutlived
  BY DEF IInv
<1> QED
  BY <1>1, Invariance, PTL

\* The heartbeat of a socket that a message has come on goes on, whatever late
\* answers, failures and stray timers come in between.
THEOREM BeatsOn == Spec => []HeartbeatAlive
<1>1. IInv => HeartbeatAlive
  BY DEF IInv
<1> QED
  BY <1>1, Invariance, PTL

-----------------------------------------------------------------------------
\* A silent socket

\* The timers and the pings of the heartbeat, which are what Pending counts.
LEMMA HeartIs ==
  ASSUME NEW h \in Heart
  PROVE  /\ h.ping \in BOOLEAN /\ h.pong \in BOOLEAN
         /\ h.sending \in Nat /\ h.stray \in Nat /\ h.missed \in Nat
         /\ Pending(h) \in Nat
  BY SessionAssumption DEF Heart, Pending

\* Timers are cleared: nothing else changes, and no more is to come.
LEMMA ClearedIs ==
  ASSUME NEW h \in Heart
  PROVE  /\ ClearHeartbeat(h).missed = h.missed
         /\ ClearHeartbeat(h) = h \/ Pending(ClearHeartbeat(h)) < Pending(h)
<1> DEFINE r == ClearHeartbeat(h)
<1>1. r \in Heart /\ ~r.ping /\ ~r.pong /\ r.sending = h.sending /\ r.stray = h.stray
      /\ r.missed = h.missed /\ (~h.ping /\ ~h.pong => r = h)
  BY DEF Heart, ClearHeartbeat
<1> HIDE DEF r
<1>2. h.ping \/ h.pong => Pending(r) < Pending(h)
  BY <1>1, HeartIs DEF Pending
<1> QED
  BY <1>1, <1>2 DEF r

\* Closer to the end of the socket, or to the next timer.
Nearer ==
  \/ faults' < faults
  \/ faults' = faults /\ heart'.missed > heart.missed
  \/ faults' = faults /\ heart'.missed = heart.missed /\ Pending(heart') < Pending(heart)

LEMMA FaultIsNearer == ASSUME IInv, Fault PROVE Nearer
  BY SessionAssumption DEF IInv, TypeOK, Fault, Nearer

LEMMA PingTimerWindsDown ==
  ASSUME IInv, IInv', PingTimerFires, net.state = "silent"
  PROVE  Nearer
<1>1. heart \in Heart /\ heart' \in Heart
  BY DEF IInv, TypeOK
<1>2. /\ heart.ping /\ heart' = [heart EXCEPT !.ping = FALSE, !.sending = @ + 1]
      /\ faults' = faults
  BY DEF PingTimerFires, IsOpen
<1>3. /\ ~heart'.ping /\ heart'.sending = heart.sending + 1 /\ heart'.pong = heart.pong
      /\ heart'.stray = heart.stray /\ heart'.missed = heart.missed
  BY <1>1, <1>2 DEF Heart
<1> QED
  BY <1>1, <1>2, <1>3, HeartIs DEF Nearer, Pending

LEMMA PingSentWindsDown ==
  ASSUME IInv, IInv', PingSent
  PROVE  Nearer
<1>1. heart \in Heart /\ heart' \in Heart
  BY DEF IInv, TypeOK
<1>2. /\ heart' = [heart EXCEPT !.sending = @ - 1, !.failed = 0, !.pong = TRUE,
                                 !.stray = IF heart.pong THEN @ + 1 ELSE @]
      /\ faults' = faults
  BY DEF PingSent
<1>3. /\ heart'.ping = heart.ping /\ heart'.sending = heart.sending - 1 /\ heart'.pong
      /\ heart'.stray = IF heart.pong THEN heart.stray + 1 ELSE heart.stray
      /\ heart'.missed = heart.missed
  BY <1>1, <1>2 DEF Heart
<1>4. CASE heart.pong
  BY <1>1, <1>2, <1>3, <1>4, HeartIs DEF Nearer, Pending
<1>5. CASE ~heart.pong
  BY <1>1, <1>2, <1>3, <1>5, HeartIs DEF Nearer, Pending
<1> QED
  BY <1>4, <1>5

\* Too many pongs missed: the socket is left, for no other one is being opened.
LEMMA PongTimerWindsDown ==
  ASSUME IInv, PongTimerFires, net.state = "silent", net'.state = "silent"
  PROVE  Nearer
<1>1. heart \in Heart /\ net \in Net /\ net.ws # 0 /\ net.step = "none" /\ faults' = faults
  BY DEF IInv, TypeOK, SocketInUse, IsOpen, PongTimerFires
<1>2. PICK h \in {[heart EXCEPT !.pong = FALSE], [heart EXCEPT !.stray = @ - 1]} : PongTimedOut(h)
  BY DEF PongTimerFires
<1>3. h.missed = heart.missed /\ h = [ping |-> h.ping, pong |-> h.pong, sending |-> h.sending,
                                     stray |-> h.stray, missed |-> h.missed, failed |-> h.failed]
  BY <1>1 DEF Heart
<1>4. CASE h.missed < PongMissTolerance
  <2>1. heart' = Beat([h EXCEPT !.missed = @ + 1])
    BY <1>2, <1>4 DEF PongTimedOut
  <2>2. heart'.missed = h.missed + 1
    BY <1>3, <2>1 DEF Beat, ClearHeartbeat
  <2> QED
    BY <1>1, <1>3, <2>2, HeartIs DEF Nearer
<1>5. CASE ~(h.missed < PongMissTolerance)
  <2>1. net' = [Close(net, "reconnect") EXCEPT !.step = "sign"]
    BY <1>1, <1>2, <1>5 DEF PongTimedOut, Reconnect
  <2>2. net'.state = "none"
    BY <1>1, <2>1 DEF Close, Net
  <2> QED
    BY <2>2
<1> QED
  BY <1>4, <1>5

\* Every step that changes the heartbeat of a silent socket which is not left.
LEMMA StepWindsDown ==
  ASSUME IInv, IInv', Next,
         net.state = "silent", net'.state = "silent", heart' # heart
  PROVE  Nearer
<1>1. IsOpen /\ net.step = "none"
  BY DEF IsOpen, IInv, SocketInUse
<1>2. CASE HeartbeatStep
  <2>1. ~Message
    BY DEF Message
  <2>2. ASSUME PingFails PROVE Nearer
    BY <2>2, FaultIsNearer DEF PingFails
  <2> QED
    BY <1>2, <2>1, <2>2, PingTimerWindsDown, PingSentWindsDown, PongTimerWindsDown DEF HeartbeatStep
<1>3. CASE LoginStep
  <2>1. PICK l \in LoginId :
          \/ \E refresh \in BOOLEAN : StartsLogin(l, refresh)
          \/ TicketArrives(l) \/ TicketFails(l) \/ LoginAnswered(l) \/ LoginTimesOut(l)
    BY <1>3 DEF LoginStep
  <2>2. ~LoginAnswered(l)
    BY DEF LoginAnswered
  <2>3. heart' = heart
    BY <2>1, <2>2 DEF StartsLogin, TicketArrives, TicketFails, LoginTimesOut
  <2> QED
    BY <2>3
<1>4. CASE SocketStep
  <2>1. ASSUME ClosedByPeer \/ AttemptFails PROVE Nearer
    BY <2>1, FaultIsNearer DEF ClosedByPeer, AttemptFails
  <2>2. ASSUME GoesSilent \/ SocketCreated \/ SocketOpens \/ EndSleep PROVE FALSE
    BY <1>1, <2>2 DEF GoesSilent, SocketCreated, SocketOpens, EndSleep
  <2>3. ASSUME NEW s \in SocketId, LateClose(s) PROVE Nearer
    <3>1. heart' = ClearHeartbeat(heart) /\ faults' = faults /\ heart \in Heart
      BY <2>3 DEF LateClose, IInv, TypeOK
    <3> QED
      BY <3>1, ClearedIs DEF Nearer
  <2> QED
    BY <1>4, <2>1, <2>2, <2>3 DEF SocketStep
<1> QED
  BY <1>2, <1>3, <1>4 DEF Next

\* The heartbeat of a socket that has gone silent winds down to its end: with the
\* bounds of the type, only so many of its steps can leave the socket in use.
THEOREM SilentWindsDown == Spec => WindsDown
<1>1. IInv /\ IInv' /\ [Next]_vars =>
        [net.state = "silent" /\ net'.state = "silent" /\ heart' # heart =>
           \/ faults' < faults
           \/ faults' = faults /\ heart'.missed > heart.missed
           \/ faults' = faults /\ heart'.missed = heart.missed /\ Pending(heart') < Pending(heart)]_vars
  BY StepWindsDown DEF Nearer
<1> QED
  BY <1>1, Invariance, PTL DEF Spec, WindsDown

=============================================================================
