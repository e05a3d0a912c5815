------------------------------- MODULE Session -------------------------------
(***************************************************************************)
(* RealtimeWebSocketClient: what it keeps beside its socket, the table of  *)
(* logins that the watches share and the heartbeat that finds a connection *)
(* dead.  Both are reset by the close events of sockets, which may be late. *)
(*                                                                         *)
(* Connection has the attempts to connect in full; here they are a step.   *)
(***************************************************************************)
EXTENDS Integers

CONSTANTS
  MaxLogins,          \* bound: logins started
  MaxSockets,         \* bound: sockets created
  MaxPings,           \* bound: pings being sent, and pong timers out of reach
  MaxFaults,          \* bound: failures, losses and refusals
  PongMissTolerance,  \* DEFAULT_PONG_MISS_TOLERANCE
  PingFailTolerance   \* DEFAULT_PING_FAIL_TOLERANCE

ASSUME SessionAssumption ==
  /\ {MaxLogins, MaxSockets, MaxPings} \subseteq Nat \ {0}
  /\ {MaxFaults, PongMissTolerance, PingFailTolerance} \subseteq Nat

LoginId == 1..MaxLogins
SocketId == 1..MaxSockets

\* ws is 0 when _ws is undefined or closed.  While step is "sign" or "socket",
\* _wsInitPromise is set; in "sleep" a reconnection waits before its next attempt.
\* event: how close() was called on a socket whose close event is to come.
Net == [ws: 0..MaxSockets, state: {"none", "connecting", "open", "silent"},
        step: {"none", "sign", "socket", "sleep"}, created: SocketId,
        event: [SocketId -> {"none", "reconnect", "ping", "over"}]]

\* The two timers whose ids are kept, the pings whose send has not settled, the
\* pong timers whose ids have been overwritten, and the counters.
Heart == [ping: BOOLEAN, pong: BOOLEAN, sending: 0..MaxPings, stray: 0..MaxPings,
          missed: 0..PongMissTolerance, failed: 0..PingFailTolerance]

\* ILoginInfo; a promise and a result are named by the login, 0 is undefined.
Entry == [loggedIn: BOOLEAN, promise: 0..MaxLogins, startTS: 0..MaxLogins, result: 0..MaxLogins]

\* A call of webLogin that sends LOGIN: the entry it has captured (named by the
\* login that made it), loginStartTS, and the socket LOGIN was sent on.  "thrown":
\* LOGIN succeeded, but the call throws.
Login == [step: {"none", "sign", "await", "sent", "returned", "thrown", "failed"}, refresh: BOOLEAN,
          entry: 0..MaxLogins, startTS: 0..MaxLogins, on: 0..MaxSockets]

VARIABLES
  net,     \* the socket
  heart,   \* the heartbeat
  current, \* the entry _logins has for the environment, 0 if none
  entries, \* all entries made, those of earlier tables included
  logins,  \* the calls of webLogin that send LOGIN
  now,     \* Date.now, which may be the same for calls that follow closely
  faults,  \* how many failures may still happen
  heard,   \* ghost: a message has come on the socket since a close event cleared the heartbeat
  upset    \* ghost: logins during which the table was reset or another login failed

vars == <<net, heart, current, entries, logins, now, faults, heard, upset>>
tableVars == <<current, entries, logins, now, upset>>

TypeOK ==
  /\ net \in Net
  /\ heart \in Heart
  /\ current \in 0..MaxLogins
  /\ entries \in [LoginId -> Entry]
  /\ logins \in [LoginId -> Login]
  /\ now \in LoginId
  /\ faults \in 0..MaxFaults
  /\ heard \in BOOLEAN
  /\ upset \subseteq LoginId

NoEntry == [loggedIn |-> FALSE, promise |-> 0, startTS |-> 0, result |-> 0]
NoLogin == [step |-> "none", refresh |-> FALSE, entry |-> 0, startTS |-> 0, on |-> 0]

\* The first socket is open, nobody has logged in.
Init ==
  /\ net = [ws |-> 1, state |-> "open", step |-> "none", created |-> 1,
            event |-> [s \in SocketId |-> "none"]]
  /\ heart = [ping |-> TRUE, pong |-> FALSE, sending |-> 0, stray |-> 0, missed |-> 0, failed |-> 0]
  /\ current = 0
  /\ entries = [l \in LoginId |-> NoEntry]
  /\ logins = [l \in LoginId |-> NoLogin]
  /\ now = 1
  /\ faults = MaxFaults
  /\ heard = FALSE
  /\ upset = {}

Fault == faults > 0 /\ faults' = faults - 1

IsOpen == net.state \in {"open", "silent"}

InFlight == {l \in LoginId : logins[l].step \in {"sign", "await", "sent"}}

-----------------------------------------------------------------------------
(* heartbeat *)

\* clearHeartbeat
ClearHeartbeat(h) == [h EXCEPT !.ping = FALSE, !.pong = FALSE]

\* heartbeat; how soon the timer fires is left open.
Beat(h) == [ClearHeartbeat(h) EXCEPT !.ping = TRUE]

\* close and initWebSocketConnection(true), unless one is under way.
Close(n, code) ==
  IF n.ws = 0 THEN n
  ELSE [n EXCEPT !.ws = 0, !.state = "none", !.event[n.ws] = code]

Reconnect(n) ==
  IF n.step # "none" THEN n ELSE [Close(n, "reconnect") EXCEPT !.step = "sign"]

PingTimerFires ==
  /\ heart.ping
  /\ IF IsOpen
       THEN /\ heart.sending < MaxPings
            /\ heart' = [heart EXCEPT !.ping = FALSE, !.sending = @ + 1]
       ELSE heart' = [heart EXCEPT !.ping = FALSE]
  /\ UNCHANGED <<net, tableVars, faults, heard>>

\* Mutant: the pong is not waited for.
PingSentUnanswered ==
  /\ heart.sending > 0
  /\ heart' = [heart EXCEPT !.sending = @ - 1, !.failed = 0]
  /\ UNCHANGED <<net, tableVars, faults, heard>>

\* The send of a ping settles: wait for the pong.  A timer set by another ping
\* in the meantime can no longer be cleared.
PingSent ==
  /\ heart.sending > 0
  /\ heart.pong => heart.stray < MaxPings
  /\ heart' = [heart EXCEPT !.sending = @ - 1, !.failed = 0, !.pong = TRUE,
                            !.stray = IF heart.pong THEN @ + 1 ELSE @]
  /\ UNCHANGED <<net, tableVars, faults, heard>>

\* Mutant: one failure too many.
PingFailsOffByOne ==
  /\ heart.sending > 0
  /\ Fault
  /\ heart' = Beat([heart EXCEPT !.sending = @ - 1, !.failed = @ + 1])
  /\ UNCHANGED <<net, tableVars, heard>>

PingFails ==
  /\ heart.sending > 0
  /\ Fault
  /\ LET h == [heart EXCEPT !.sending = @ - 1] IN
       IF h.failed < PingFailTolerance
         THEN heart' = Beat([h EXCEPT !.failed = @ + 1]) /\ UNCHANGED net
         ELSE heart' = ClearHeartbeat(h) /\ net' = Close(net, "ping")
  /\ UNCHANGED <<tableVars, heard>>

\* Mutant: pongs missed are not counted.
PongTimedOutUncounted(h) == heart' = Beat(h) /\ UNCHANGED net

\* No pong in time.
PongTimedOut(h) ==
  IF h.missed < PongMissTolerance
    THEN heart' = Beat([h EXCEPT !.missed = @ + 1]) /\ UNCHANGED net
    ELSE /\ net' = Reconnect(net)
         /\ heart' = IF net' = net THEN h ELSE ClearHeartbeat(h)

PongTimerFires ==
  /\ \/ heart.pong /\ PongTimedOut([heart EXCEPT !.pong = FALSE])
     \/ heart.stray > 0 /\ PongTimedOut([heart EXCEPT !.stray = @ - 1])
  /\ UNCHANGED <<tableVars, faults, heard>>

\* onmessage, of a PONG or another message.
Message ==
  /\ net.state = "open"
  /\ heart' = Beat(heart)
  /\ heard' = TRUE
  /\ UNCHANGED <<net, tableVars, faults>>

-----------------------------------------------------------------------------
(* webLogin *)

Recorded(l) == current # 0 /\ current = logins[l].entry /\ entries[current].startTS = logins[l].startTS

\* Mutant: the promise of a login that has failed is kept.
ForgetAllButPromise(e) == [e EXCEPT !.loggedIn = FALSE, !.startTS = 0, !.result = 0]

\* The catch branch.
Forget(e) == [e EXCEPT !.loggedIn = FALSE, !.promise = 0, !.startTS = 0, !.result = 0]

LoggedIn(l) == [loggedIn |-> TRUE, promise |-> 0, startTS |-> 0, result |-> l]

\* The call that started l returns or throws; what it has captured is gone.
Settle(l, outcome) == logins' = [logins EXCEPT ![l] = [NoLogin EXCEPT !.step = outcome, !.on = logins[l].on]]

\* LOGIN has failed.
Fails(l) ==
  /\ Settle(l, "failed")
  /\ entries' = [entries EXCEPT ![logins[l].entry] = Forget(@)]
  /\ upset' = upset \cup (InFlight \ {l})
  /\ UNCHANGED <<current, now>>

\* Mutant: a login that another one has overtaken does not look at its promise.
SucceedsAlone(l) ==
  LET known == Recorded(l) \/ (current # 0 /\ entries[current].loggedIn)
  IN /\ Settle(l, IF known THEN "returned" ELSE "thrown")
     /\ entries' = IF Recorded(l) THEN [entries EXCEPT ![current] = LoggedIn(l)]
                   ELSE IF known THEN entries
                   ELSE [entries EXCEPT ![logins[l].entry] = Forget(@)]
     /\ UNCHANGED <<current, now, upset>>

\* LOGIN has succeeded.  It is recorded only in the entry it was started for and
\* if no other login was started for it; else the call answers what the table
\* says now, or throws.
Succeeds(l) ==
  LET e == entries[current]
      other == current # 0 /\ ~Recorded(l)
      known == Recorded(l) \/ (other /\ (e.loggedIn \/ e.promise # 0))
  IN /\ Settle(l, IF known THEN "returned" ELSE "thrown")
     /\ entries' = IF Recorded(l) THEN [entries EXCEPT ![current] = LoggedIn(l)]
                   ELSE IF known THEN entries
                   ELSE [entries EXCEPT ![logins[l].entry] = Forget(@)]
     /\ UNCHANGED <<current, now, upset>>

\* Mutant: the promise of a login under way is not looked at.
NoneRecorded == current = 0 \/ (current # 0 /\ ~entries[current].loggedIn)

\* The environment is not logged in and no login is under way.
NoneKnown ==
  current = 0 \/ (current # 0 /\ ~entries[current].loggedIn /\ entries[current].promise = 0)

\* A watch calls webLogin and starts a login, with refresh or because none is
\* known: getWsSign is called, then the entry is overwritten or made.  (A watch
\* that finds a result or a promise returns it and changes nothing.)
StartsLogin(l, refresh) ==
  /\ logins[l].step = "none"
  /\ \A k \in LoginId : k < l => logins[k].step # "none"
  /\ refresh \/ NoneKnown
  /\ \E ts \in {now, now + 1} \cap LoginId :
       LET e == IF current = 0 THEN l ELSE current
       IN /\ now' = ts
          /\ current' = e
          /\ logins' = [logins EXCEPT ![l] = [step |-> "sign", refresh |-> refresh,
                                              entry |-> e, startTS |-> ts, on |-> 0]]
          /\ entries' = [entries EXCEPT ![e].loggedIn = FALSE, ![e].promise = l, ![e].startTS = ts]
  /\ UNCHANGED <<net, heart, faults, heard, upset>>

\* getWsSign returns: send waits for the connection, sends LOGIN, or finds none.
TicketArrives(l) ==
  /\ logins[l].step = "sign"
  /\ \/ /\ net.step \in {"sign", "socket"}
        /\ logins' = [logins EXCEPT ![l].step = "await"]
        /\ UNCHANGED <<current, entries, now, upset>>
     \/ /\ net.step \notin {"sign", "socket"} /\ IsOpen
        /\ logins' = [logins EXCEPT ![l].step = "sent", ![l].on = net.ws]
        /\ UNCHANGED <<current, entries, now, upset>>
     \/ net.step \notin {"sign", "socket"} /\ ~IsOpen /\ Fails(l)
  /\ UNCHANGED <<net, heart, faults, heard>>

\* getWsSign fails.
TicketFails(l) ==
  /\ logins[l].step = "sign"
  /\ Fault
  /\ Fails(l)
  /\ UNCHANGED <<net, heart, heard>>

\* The response to LOGIN; like any message it restarts the heartbeat.
LoginAnswered(l) ==
  /\ logins[l].step = "sent"
  /\ net.state = "open" /\ net.ws = logins[l].on
  /\ \/ Succeeds(l) /\ UNCHANGED faults
     \/ Fails(l) /\ Fault
  /\ heart' = Beat(heart)
  /\ heard' = TRUE
  /\ UNCHANGED net

\* The timer of send fires, which is set before the connection is awaited.
LoginTimesOut(l) ==
  /\ logins[l].step \in {"await", "sent"}
  /\ IF net.state = "open" /\ net.ws = logins[l].on THEN Fault ELSE UNCHANGED faults
  /\ Fails(l)
  /\ UNCHANGED <<net, heart, heard>>

-----------------------------------------------------------------------------
(* Sockets *)

\* onclose and onerror: all logins are forgotten, the heartbeat is cleared.
ResetTable ==
  /\ current' = 0
  /\ upset' = upset \cup InFlight
  /\ UNCHANGED <<entries, now>>

\* The connection is closed by the server or the network.
ClosedByPeer ==
  /\ IsOpen
  /\ Fault
  /\ net' = Reconnect([net EXCEPT !.ws = 0, !.state = "none", !.event[net.ws] = "over"])
  /\ heart' = ClearHeartbeat(heart)
  /\ heard' = FALSE
  /\ ResetTable
  /\ UNCHANGED logins

\* What the close event of s does to the connection: one that close() was called
\* on before it opened fails the attempt, one closed for its pings is replaced.
Closed(s) ==
  LET n == [net EXCEPT !.event[s] = "over"]
  IN IF net.step = "socket" /\ net.ws = 0 /\ s = net.created THEN [n EXCEPT !.step = "sleep"]
     ELSE IF net.event[s] = "ping" THEN Reconnect(n)
     ELSE n

\* Mutant: the close event of a socket that was replaced is ignored altogether.
LateCloseIgnored(s) ==
  /\ net.event[s] \in {"reconnect", "ping"}
  /\ net' = Closed(s)
  /\ UNCHANGED <<heart, tableVars, faults, heard>>

\* The close event of a socket that close() was called on, maybe after another
\* one has opened.
LateClose(s) ==
  /\ net.event[s] \in {"reconnect", "ping"}
  /\ net' = Closed(s)
  /\ heart' = ClearHeartbeat(heart)
  /\ heard' = FALSE
  /\ ResetTable
  /\ UNCHANGED <<logins, faults>>

GoesSilent ==
  /\ net.state = "open"
  /\ Fault
  /\ net' = [net EXCEPT !.state = "silent"]
  /\ UNCHANGED <<heart, tableVars, heard>>

\* The ticket of an attempt: create the socket; its handlers start the heartbeat.
SocketCreated ==
  /\ net.step = "sign"
  /\ net.created < MaxSockets
  /\ net' = [net EXCEPT !.step = "socket", !.created = @ + 1, !.ws = net.created + 1,
                        !.state = "connecting"]
  /\ heart' = Beat(heart)
  /\ heard' = FALSE
  /\ UNCHANGED <<tableVars, faults>>

\* onopen: the requests that await the connection are sent.
SocketOpens ==
  /\ net.state = "connecting"
  /\ net' = [net EXCEPT !.step = "none", !.state = "open"]
  /\ logins' = [l \in LoginId |->
                  IF logins[l].step = "await"
                    THEN [logins[l] EXCEPT !.step = "sent", !.on = net.ws] ELSE logins[l]]
  /\ UNCHANGED <<heart, current, entries, now, faults, heard, upset>>

\* The attempt fails; there are retries left.
AttemptFails ==
  /\ net.step \in {"sign", "socket"}
  /\ Fault
  /\ IF net.step = "sign"
       THEN net' = [net EXCEPT !.step = "sleep"] /\ UNCHANGED <<heart, tableVars, heard>>
       ELSE /\ net' = [net EXCEPT !.step = "sleep", !.ws = 0, !.state = "none",
                                  !.event[net.ws] = "over"]
            /\ heart' = ClearHeartbeat(heart)
            /\ heard' = FALSE
            /\ ResetTable
            /\ UNCHANGED logins

EndSleep ==
  /\ net.step = "sleep"
  /\ net' = [net EXCEPT !.step = "sign"]
  /\ UNCHANGED <<heart, tableVars, faults, heard>>

-----------------------------------------------------------------------------

HeartbeatStep == PingTimerFires \/ PingSent \/ PingFails \/ PongTimerFires \/ Message

LoginStep ==
  \E l \in LoginId :
    \/ \E refresh \in BOOLEAN : StartsLogin(l, refresh)
    \/ TicketArrives(l) \/ TicketFails(l) \/ LoginAnswered(l) \/ LoginTimesOut(l)

SocketStep ==
  \/ ClosedByPeer \/ GoesSilent \/ SocketCreated \/ SocketOpens \/ AttemptFails \/ EndSleep
  \/ \E s \in SocketId : LateClose(s)

Next == HeartbeatStep \/ LoginStep \/ SocketStep

Spec == Init /\ [][Next]_vars

\* Timers fire and the send of a ping settles.
Fairness == WF_vars(PingTimerFires) /\ WF_vars(PingSent) /\ WF_vars(PongTimerFires)

FairSpec == Spec /\ Fairness

-----------------------------------------------------------------------------

\* A watch that joins a login joins one that is under way: it is never given the
\* outcome of an earlier one, and is told when this one ends.
JoinInFlight ==
  current # 0 /\ entries[current].promise # 0 => entries[current].promise \in InFlight

\* Watches that log in together share one login: two that nobody asked to refresh
\* are under way at once only if the table was reset or a login failed meanwhile.
LoginShared ==
  \A k, l \in InFlight :
    k < l /\ ~logins[k].refresh /\ ~logins[l].refresh => k \in upset

\* A watch whose login the server has accepted is told so, whatever logins overlap
\* with it, unless the table was reset or another login failed meanwhile.
AcceptedIsReturned == \A l \in LoginId : logins[l].step = "thrown" => l \in upset

\* A login that is recorded was not made on a socket that has told of its end.
LoginOutlived ==
  current # 0 /\ entries[current].loggedIn =>
    net.event[logins[entries[current].result].on] # "over"

\* Once a message has come on a socket, its heartbeat goes on: a timer is set or
\* a ping is being sent, until the socket is left or a close event clears it.
HeartbeatAlive ==
  IsOpen /\ heard => heart.ping \/ heart.pong \/ heart.sending > 0 \/ heart.stray > 0

\* How far the heartbeat is from what it does next.
Pending(h) ==
  (IF h.ping THEN 3 ELSE 0) + 2 * h.sending + (IF h.pong THEN 1 ELSE 0) + h.stray

\* On a socket that has gone silent the heartbeat winds down, whatever pings overlap
\* and fail: each of its steps is nearer to a timer that counts a missed pong, and
\* nothing takes back what has been counted; so it soon leaves the socket.
WindsDown ==
  [][net.state = "silent" /\ net'.state = "silent" /\ heart' # heart =>
       \/ faults' < faults
       \/ faults' = faults /\ heart'.missed > heart.missed
       \/ faults' = faults /\ heart'.missed = heart.missed /\ Pending(heart') < Pending(heart)]_vars

\* The inductive invariant behind the theorems about the properties above.
\* _ws is the socket created last, or undefined; nothing has been said of the
\* close of a socket that is in use or yet to come.
SocketInUse ==
  /\ net.ws = 0 <=> net.state = "none"
  /\ net.ws # 0 => net.ws = net.created /\ net.event[net.ws] = "none"
  /\ \A s \in SocketId : s > net.created => net.event[s] = "none"
  /\ net.state = "connecting" => net.step = "socket" /\ ~heard
  /\ IsOpen => net.step = "none"

\* Logins are started one after the other.
Started ==
  \A k, l \in LoginId : k < l /\ logins[l].step # "none" => logins[k].step # "none"

\* The promise in the table is that of the login which wrote the entry last.
PromiseOfEntry ==
  LET e == entries[current]
  IN current # 0 /\ e.promise # 0 =>
       /\ e.promise \in InFlight
       /\ logins[e.promise].entry = current
       /\ logins[e.promise].startTS = e.startTS

\* A result in the table is that of a login which has returned.
ResultOfLogin ==
  current # 0 /\ entries[current].loggedIn =>
    LET l == entries[current].result
    IN l \in LoginId /\ logins[l].step = "returned" /\ logins[l].on \in SocketId

\* While a login is under way that nothing has disturbed, it is in the table,
\* where the next to call webLogin finds a promise or a result.
TableKnows ==
  \A l \in InFlight \ upset :
    /\ current # 0 /\ logins[l].entry = current
    /\ entries[current].loggedIn \/ entries[current].promise # 0

\* A LOGIN is sent on a socket, and belongs to an entry.
Sent ==
  \A l \in InFlight : logins[l].entry \in LoginId /\ (logins[l].step = "sent" => logins[l].on \in SocketId)

IInv ==
  /\ TypeOK
  /\ SocketInUse
  /\ Started
  /\ PromiseOfEntry
  /\ ResultOfLogin
  /\ TableKnows
  /\ Sent
  /\ LoginShared
  /\ AcceptedIsReturned
  /\ LoginOutlived
  /\ HeartbeatAlive

\* So a connection that goes silent is found dead and left.
SilenceNoticed == heard /\ net.state = "silent" ~> ~heard \/ net.state # "silent"

=============================================================================
