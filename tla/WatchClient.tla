----------------------------- MODULE WatchClient -----------------------------
(***************************************************************************)
(* One watch of the realtime database client and everything that acts on   *)
(* it: the user, its own timers and pending promises, the shared           *)
(* connection that pauses and resumes it, and a server whose messages may  *)
(* be reordered, lost or duplicated.                                       *)
(*                                                                         *)
(* Each action is one turn of the event loop: a callback, with the         *)
(* microtasks it leaves behind, up to the next point where the code waits  *)
(* for a timer, a message or the connection.                               *)
(***************************************************************************)
EXTENDS WatchObject

CONSTANTS
  MaxEvent,    \* bound: events the server commits after the first
  MaxFaults,   \* bound: failures, losses, duplicates and disconnections
  MaxBoth,     \* bound: such events and faults together
  MaxAcks,     \* bound: calls of sendACK awaiting their send at once
  InitialConn  \* connection states in which the user may open the watch

ASSUME BoundsAssumption == {MaxEvent, MaxFaults, MaxBoth, MaxAcks} \subseteq Nat

\* "connecting": the first connection, which pauses and resumes nobody;
\* "reconnecting": a later one, between the attempts of which another watch may
\* begin a chain of its own: "begun", and "alone" once the socket is open.  From
\* then on it depends on the chains that sleep and join whether a watch is paused
\* and resumed.  "dead": nothing will bring the connection back.
ConnState == {"connecting", "up", "reconnecting", "begun", "alone", "dead"}

ASSUME InitialConnAssumption == InitialConn \subseteq {"connecting", "up"}

VARIABLES
  watch,       \* the VirtualWebSocketClient
  userClosed,  \* has the user called listener.close()
  delivered,   \* history: ids of the snapshots given to onChange
  conn,        \* state of the shared RealtimeWebSocketClient
  server,      \* id of the server's last event
  asked,       \* eventID in the last REBUILD_WATCH request
  wire,        \* establishments whose request is on its way to the server
  reply,       \* per establishment, the response on its way back, if any
  net,         \* other messages on their way to the watch
  faults       \* number of faults so far

vars == <<watch, userClosed, delivered, conn, server, asked, wire, reply, net, faults>>

Up == conn \in {"up", "alone"}

Reply == [lo: Nat, hi: Nat]

TypeOK ==
  /\ watch \in Watch
  /\ userClosed \in BOOLEAN
  /\ delivered \in Seq(Nat)
  /\ conn \in ConnState
  /\ server \in Nat
  /\ asked \in Nat
  /\ wire \subseteq OpName
  /\ reply \in [OpName -> SUBSET Reply]
  /\ net \subseteq Message
  /\ faults \in 0..MaxFaults

\* The constructor, which calls initWatch.
Init ==
  /\ watch = [status |-> "LOGGINGIN", hasSession |-> FALSE,
              currentEventId |-> 0, expectEventId |-> 0,
              step |-> [o \in OpName |-> IF o = "INIT_WATCH" THEN "login" ELSE "idle"],
              tickets |-> [t \in TicketName |-> MaxRetries],
              ackTimer |-> FALSE, acks |-> 0, waitTimer |-> "none",
              closing |-> FALSE, inClients |-> TRUE, inQueryMap |-> FALSE]
  /\ userClosed = FALSE
  /\ delivered = <<>>
  /\ conn \in InitialConn
  /\ server = 1
  /\ asked = 0
  /\ wire = {}
  /\ reply = [o \in OpName |-> {}]
  /\ net = {}
  /\ faults = 0

\* server - 1 events and the faults so far.
Within == server - 1 + faults < MaxBoth

Fault == faults < MaxFaults /\ Within /\ faults' = faults + 1

NoFault == faults' = faults

\* The user may call listener.close() in the callback that delivers an event;
\* the call changes nothing until the events in hand have been delivered.
CloseInCallback(w, closes) == IF closes THEN CloseWatch(w) ELSE w

MayClose(closes, deliveries) ==
  /\ closes => ~userClosed /\ deliveries # <<>>
  /\ userClosed' = (userClosed \/ closes)

-----------------------------------------------------------------------------
(* Establishing the watch: initWatch, rebuildWatch and their error handler. *)

\* webLogin can succeed: it talks to the server, or still has a cached login.
LoginPossible == conn \notin {"connecting", "dead"}

\* The login is done and the watch was paused meanwhile: resolve.
LoginCancelled(o) ==
  /\ watch.step[o] = "login"
  /\ LoginPossible
  /\ watch.status = "PAUSED"
  /\ o = "REBUILD_WATCH" => watch.hasSession
  /\ watch' = [watch EXCEPT !.step[o] = "idle"]
  /\ UNCHANGED <<userClosed, delivered, conn, server, asked, wire, reply, net, faults>>

\* Mutant: the request names the event it wants next, not the last one seen.
LoginOkAhead(o) ==
  /\ watch.step[o] = "login"
  /\ LoginPossible
  /\ watch.status # "PAUSED"
  /\ o = "REBUILD_WATCH" => watch.hasSession
  /\ watch' = [watch EXCEPT
                 !.status = IF o = "INIT_WATCH" THEN "INITING" ELSE "REBUILDING",
                 !.step[o] = IF Up THEN "wait" ELSE "send"]
  /\ wire' = IF Up THEN wire \cup {o} ELSE wire
  /\ asked' = IF o = "REBUILD_WATCH" THEN watch.currentEventId + 1 ELSE asked
  /\ UNCHANGED <<userClosed, delivered, conn, server, reply, net, faults>>

\* The login is done: call send, which goes out at once if it can.
LoginOk(o) ==
  /\ watch.step[o] = "login"
  /\ LoginPossible
  /\ watch.status # "PAUSED"
  /\ o = "REBUILD_WATCH" => watch.hasSession
  /\ watch' = [watch EXCEPT
                 !.status = IF o = "INIT_WATCH" THEN "INITING" ELSE "REBUILDING",
                 !.step[o] = IF Up THEN "wait" ELSE "send"]
  /\ wire' = IF Up THEN wire \cup {o} ELSE wire
  /\ asked' = IF o = "REBUILD_WATCH" THEN watch.currentEventId ELSE asked
  /\ UNCHANGED <<userClosed, delivered, conn, server, reply, net, faults>>

\* rebuildWatch throws when its session has gone.
SessionMissing ==
  /\ watch.step["REBUILD_WATCH"] = "login"
  /\ LoginPossible
  /\ ~watch.hasSession
  /\ watch' = EstablishmentError(watch, "REBUILD_WATCH", "unknown", Up)
  /\ UNCHANGED <<userClosed, delivered, conn, server, asked, wire, reply, net, faults>>

\* The login fails, or is reset by a disconnection; only the server itself
\* reports a bad signature or a fatal error.
LoginFails(o, e) ==
  /\ watch.step[o] = "login"
  /\ e \in {"sign", "fatal"} => Up
  /\ IF Up THEN Fault ELSE NoFault
  /\ watch' = EstablishmentError(watch, o, e, Up)
  /\ UNCHANGED <<userClosed, delivered, conn, server, asked, wire, reply, net>>

\* send was awaiting _wsInitPromise.
SendRequest(o) ==
  /\ watch.step[o] = "send"
  /\ Up
  /\ watch' = [watch EXCEPT !.step[o] = "wait"]
  /\ wire' = wire \cup {o}
  /\ UNCHANGED <<userClosed, delivered, conn, server, asked, reply, net, faults>>

\* send finds no open socket, or ws.send throws.
SendFails(o) ==
  /\ \/ watch.step[o] = "send"
     \/ watch.step[o] = "wait" /\ o \in wire
  /\ IF Up THEN Fault ELSE NoFault
  /\ watch' = EstablishmentError(watch, o, "unknown", Up)
  /\ wire' = wire \ {o}
  /\ UNCHANGED <<userClosed, delivered, conn, server, asked, reply, net>>

\* Mutant: only the wait for the connection is timed.
SendTimesOutUnsent(o) ==
  /\ watch.step[o] = "send"
  /\ NoFault
  /\ watch' = EstablishmentError(watch, o, "timeout", Up)
  /\ UNCHANGED <<userClosed, delivered, conn, server, asked, wire, reply, net>>

\* send times out.  The entry in _wsResponseWait stays, so a late response to
\* REBUILD_WATCH still reaches onMessage (skipOnMessage is false), while a late
\* response to INIT_WATCH is dropped.
SendTimesOut(o) ==
  /\ watch.step[o] \in {"send", "wait"}
  /\ IF o \in wire \/ reply[o] # {} THEN Fault ELSE NoFault
  /\ watch' = EstablishmentError(watch, o, "timeout", Up)
  /\ wire' = wire \ {o}
  /\ reply' = [reply EXCEPT ![o] = {}]
  /\ net' = IF o = "REBUILD_WATCH"
              THEN net \cup {[type |-> "NEXT_EVENT", lo |-> r.lo, hi |-> r.hi] : r \in reply[o]}
              ELSE net
  /\ UNCHANGED <<userClosed, delivered, conn, server, asked>>

\* The server answers with an ERROR message.  For REBUILD_WATCH it is routed to
\* onMessage before the rejection is handled.
ErrorReply(o, e) ==
  /\ watch.step[o] = "wait"
  /\ o \in wire
  /\ Fault
  /\ LET m == [type |-> "ERROR", lo |-> 0, hi |-> 0]
         w == IF o = "REBUILD_WATCH" /\ watch.inClients THEN OnMessage(watch, m) ELSE watch
     IN watch' = EstablishmentError(w, o, e, Up)
  /\ wire' = wire \ {o}
  /\ UNCHANGED <<userClosed, delivered, conn, server, asked, reply, net>>

\* The INIT_EVENT response: a new session, the first snapshot, onWatchStart.
InitReply(r, closes) ==
  /\ watch.step["INIT_WATCH"] = "wait"
  /\ r \in reply["INIT_WATCH"]
  /\ MayClose(closes, <<r.hi>>)
  /\ LET s == [watch EXCEPT !.hasSession = TRUE, !.currentEventId = r.hi,
                            !.expectEventId = 0, !.ackTimer = TRUE]
     IN watch' = [CloseInCallback(s, closes) EXCEPT
                    !.inQueryMap = TRUE, !.status = "ACTIVE",
                    !.tickets["INIT_WATCH"] = MaxRetries,
                    !.step["INIT_WATCH"] = "idle"]
  /\ delivered' = Append(delivered, r.hi)
  /\ reply' = [reply EXCEPT !["INIT_WATCH"] = {}]
  /\ UNCHANGED <<conn, server, asked, wire, net, faults>>

\* The NEXT_EVENT response to REBUILD_WATCH.  It is also routed to onMessage
\* first; whatever that delivers, the promise's continuation then drops.
RebuildReply(r, closes) ==
  /\ watch.step["REBUILD_WATCH"] = "wait"
  /\ r \in reply["REBUILD_WATCH"]
  /\ MayClose(closes, Fresh(watch, r.lo, r.hi))
  /\ watch' = [CloseInCallback(HandleServerEvents(watch, r.lo, r.hi), closes) EXCEPT
                 !.status = "ACTIVE",
                 !.tickets["REBUILD_WATCH"] = MaxRetries,
                 !.step["REBUILD_WATCH"] = "idle"]
  /\ delivered' = delivered \o Fresh(watch, r.lo, r.hi)
  /\ reply' = [reply EXCEPT !["REBUILD_WATCH"] = {}]
  /\ UNCHANGED <<conn, server, asked, wire, net, faults>>

\* The sleep of onUnknownError is over.
EndSleep(o) ==
  /\ watch.step[o] = "sleep"
  /\ watch' = AfterSleep(watch, o, Up)
  /\ UNCHANGED <<userClosed, delivered, conn, server, asked, wire, reply, net, faults>>

\* onceWSConnected resolves for the error handler.
Reconnected(o) ==
  /\ watch.step[o] = "reconnect"
  /\ Up
  /\ watch' = Retry(watch, o)
  /\ UNCHANGED <<userClosed, delivered, conn, server, asked, wire, reply, net, faults>>

-----------------------------------------------------------------------------
(* Messages, acknowledgements and the watch's timers. *)

\* onmessage routes by watchId, or by queryID when the watch is no longer a
\* client; keep: the message is delivered once more later.
Receive(m, keep, closes) ==
  /\ m \in net
  /\ IF keep THEN Fault ELSE NoFault
  /\ net' = IF keep THEN net ELSE net \ {m}
  /\ LET routed == watch.inClients \/ (watch.inQueryMap /\ m.type # "ERROR")
         fresh == IF routed THEN Delivered(watch, m) ELSE <<>>
     IN /\ MayClose(closes, fresh)
        /\ watch' = IF routed THEN CloseInCallback(OnMessage(watch, m), closes) ELSE watch
        /\ delivered' = delivered \o fresh
  /\ UNCHANGED <<conn, server, asked, wire, reply>>

\* The debounced timer of scheduleSendACK fires, and sendACK runs up to its
\* send.  It waits for another period while an expected event is timed or the
\* watch is not ACTIVE.
AckTimerFires ==
  /\ watch.ackTimer
  /\ watch.waitTimer = "none" /\ watch.status = "ACTIVE" /\ watch.hasSession
       => watch.acks < MaxAcks
  /\ watch' = CASE watch.waitTimer # "none" \/ watch.status # "ACTIVE" -> watch
                [] watch.waitTimer = "none" /\ watch.status = "ACTIVE" ->
                     IF watch.hasSession
                       THEN [watch EXCEPT !.ackTimer = FALSE, !.acks = @ + 1]
                       ELSE [watch EXCEPT !.ackTimer = FALSE]
  /\ UNCHANGED <<userClosed, delivered, conn, server, asked, wire, reply, net, faults>>

\* Mutant: the next ACK is not scheduled.
AckSentOnce ==
  /\ watch.acks > 0
  /\ Up
  /\ watch' = [watch EXCEPT !.acks = @ - 1]
  /\ net' = net \cup {[type |-> "CHECK_EVENT", lo |-> 0, hi |-> server]}
  /\ UNCHANGED <<userClosed, delivered, conn, server, asked, wire, reply, faults>>

\* CHECK_LAST goes out and the server answers with its own event id.
AckSent ==
  /\ watch.acks > 0
  /\ Up
  /\ watch' = ScheduleSendACK([watch EXCEPT !.acks = @ - 1])
  /\ net' = net \cup {[type |-> "CHECK_EVENT", lo |-> 0, hi |-> server]}
  /\ UNCHANGED <<userClosed, delivered, conn, server, asked, wire, reply, faults>>

\* The send of CHECK_LAST is rejected.
AckFails ==
  /\ watch.acks > 0
  /\ IF Up THEN Fault ELSE NoFault
  /\ LET w == [watch EXCEPT !.acks = @ - 1] IN
       watch' = IF w.tickets["CHECK_LAST"] > 0
                  THEN ScheduleSendACK([w EXCEPT !.tickets["CHECK_LAST"] = @ - 1])
                  ELSE CloseWithError(w)
  /\ UNCHANGED <<userClosed, delivered, conn, server, asked, wire, reply, net>>

\* The expected event did not come in time.  The timer's id is not cleared.
WaitTimerFires ==
  /\ watch.waitTimer = "pending"
  /\ watch' = Establish([watch EXCEPT !.waitTimer = "fired"], "REBUILD_WATCH")
  /\ UNCHANGED <<userClosed, delivered, conn, server, asked, wire, reply, net, faults>>

-----------------------------------------------------------------------------
(* The user. *)

\* listener.close() outside a callback.
UserClose ==
  /\ ~userClosed
  /\ userClosed' = TRUE
  /\ watch' = CloseWatch(watch)
  /\ UNCHANGED <<delivered, conn, server, asked, wire, reply, net, faults>>

\* The rest of closeWatch once CLOSE_WATCH is sent.
CloseSent ==
  /\ watch.closing
  /\ Up
  /\ watch' = [OnWatchClose(watch) EXCEPT !.closing = FALSE, !.hasSession = FALSE,
                                          !.status = "CLOSED"]
  /\ UNCHANGED <<userClosed, delivered, conn, server, asked, wire, reply, net, faults>>

\* The rest of closeWatch when CLOSE_WATCH can not be sent.
CloseFails ==
  /\ watch.closing
  /\ IF Up THEN Fault ELSE NoFault
  /\ watch' = OnWatchClose(CloseWithError([watch EXCEPT !.closing = FALSE]))
  /\ UNCHANGED <<userClosed, delivered, conn, server, asked, wire, reply, net>>

-----------------------------------------------------------------------------
(* The shared connection, as the watch sees it. *)

\* Only a chain that reconnects resumes the watches, which it has paused.
ConnectionOpens ==
  /\ \/ conn = "connecting" /\ conn' = "up" /\ UNCHANGED watch
     \/ /\ conn = "reconnecting"
        /\ conn' = "up"
        /\ watch' = IF watch.inClients THEN Resume(watch) ELSE watch
     \/ conn = "begun" /\ conn' = "alone" /\ UNCHANGED watch
     \/ /\ conn = "begun"
        /\ watch.inClients /\ watch.status = "PAUSED"
        /\ conn' = "alone"
        /\ watch' = Resume(watch)
  /\ UNCHANGED <<userClosed, delivered, server, asked, wire, reply, net, faults>>

\* onclose with a code that reconnects, or a heartbeat without pongs.  A socket
\* that fails to open closes, too, which starts a reconnection.
ConnectionLost ==
  /\ \/ conn \in {"up", "connecting"} /\ conn' = "reconnecting"
     \/ conn \in {"alone", "begun"} /\ conn' = "begun"
  /\ Fault
  /\ watch' = IF watch.inClients THEN Pause(watch) ELSE watch
  /\ wire' = {}
  /\ reply' = [o \in OpName |-> {}]
  /\ net' = {}
  /\ UNCHANGED <<userClosed, delivered, server, asked>>

\* watch() of another watch between two attempts of a reconnection: it starts a
\* chain that does not reconnect, which the reconnection joins if it wakes up.
ConnectionBegun ==
  /\ conn = "reconnecting"
  /\ conn' = "begun"
  /\ UNCHANGED <<watch, userClosed, delivered, server, asked, wire, reply, net, faults>>

\* That reconnection has left its state behind, for which onclose starts no other;
\* or the chain slept meanwhile, and renews the socket without pausing anybody.
LossUnseen ==
  /\ conn = "alone"
  /\ Fault
  /\ conn' \in {"dead", "begun"}
  /\ wire' = {}
  /\ reply' = [o \in OpName |-> {}]
  /\ net' = {}
  /\ UNCHANGED <<watch, userClosed, delivered, server, asked>>

\* onerror on an open socket; the close event follows.
SocketError ==
  /\ Up
  /\ watch.inClients
  /\ Fault
  /\ watch' = CloseWithError(watch)
  /\ UNCHANGED <<userClosed, delivered, conn, server, asked, wire, reply, net>>

\* The last attempt fails.  Only a reconnection closes the clients; then the
\* handlers that await the connection are rejected and retry once more.
GivenUpCloses ==
  CASE conn = "connecting"   -> {FALSE}
    [] conn = "reconnecting" -> {TRUE}
    [] OTHER                 -> BOOLEAN

ConnectionGivenUp ==
  /\ conn \in {"connecting", "reconnecting", "begun"}
  /\ Fault
  /\ conn' = "dead"
  /\ \E closes \in GivenUpCloses :
       LET w == IF closes /\ watch.inClients THEN CloseWithError(watch) ELSE watch
       IN watch' = IF \E o \in OpName : w.step[o] = "reconnect"
                     THEN Retry(w, CHOOSE o \in OpName : w.step[o] = "reconnect")
                     ELSE w
  /\ UNCHANGED <<userClosed, delivered, server, asked, wire, reply, net>>

-----------------------------------------------------------------------------
(* The server and the network. *)

\* A change to the query's result: a NEXT_EVENT push, if there is a connection.
ServerEvent ==
  /\ server <= MaxEvent /\ Within
  /\ server' = server + 1
  /\ net' = IF Up THEN net \cup {[type |-> "NEXT_EVENT", lo |-> server + 1, hi |-> server + 1]}
                  ELSE net
  /\ UNCHANGED <<watch, userClosed, delivered, conn, asked, wire, reply, faults>>

\* The server sends an ERROR for the watch.
ServerError ==
  /\ Up
  /\ Fault
  /\ net' = net \cup {[type |-> "ERROR", lo |-> 0, hi |-> 0]}
  /\ UNCHANGED <<watch, userClosed, delivered, conn, server, asked, wire, reply>>

\* The server answers INIT_WATCH with its event id, and REBUILD_WATCH with the
\* events after the one the client names.
ServerAnswers(o) ==
  /\ o \in wire
  /\ wire' = wire \ {o}
  /\ LET first == IF o = "INIT_WATCH" THEN server ELSE asked + 1
     IN reply' = [reply EXCEPT ![o] = {[lo |-> first, hi |-> server]}]
  /\ UNCHANGED <<watch, userClosed, delivered, conn, server, asked, net, faults>>

LoseMessage(m) ==
  /\ m \in net
  /\ Fault
  /\ net' = net \ {m}
  /\ UNCHANGED <<watch, userClosed, delivered, conn, server, asked, wire, reply>>

-----------------------------------------------------------------------------

LoginReturns(o) == LoginCancelled(o) \/ LoginOk(o)

ReplyArrives ==
  \/ \E closes \in BOOLEAN, r \in reply["INIT_WATCH"] : InitReply(r, closes)
  \/ \E closes \in BOOLEAN, r \in reply["REBUILD_WATCH"] : RebuildReply(r, closes)

EstablishStep ==
  \/ \E o \in OpName : LoginReturns(o)
  \/ SessionMissing
  \/ \E o \in OpName, e \in ErrorKind : LoginFails(o, e)
  \/ \E o \in OpName : SendRequest(o) \/ SendFails(o) \/ SendTimesOut(o)
  \/ \E o \in OpName, e \in {"sign", "fatal"} : ErrorReply(o, e)
  \/ ReplyArrives
  \/ \E o \in OpName : EndSleep(o) \/ Reconnected(o)

MessageStep ==
  \/ \E m \in net, keep, closes \in BOOLEAN : Receive(m, keep, closes)
  \/ AckTimerFires \/ AckSent \/ AckFails \/ WaitTimerFires

UserStep == UserClose \/ CloseSent \/ CloseFails

ConnectionStep ==
  \/ ConnectionOpens \/ ConnectionLost \/ ConnectionBegun \/ LossUnseen
  \/ SocketError \/ ConnectionGivenUp

ServerStep ==
  \/ ServerEvent
  \/ ServerError
  \/ \E o \in OpName : ServerAnswers(o)
  \/ \E m \in net : LoseMessage(m)

Next == EstablishStep \/ MessageStep \/ UserStep \/ ConnectionStep \/ ServerStep

Spec == Init /\ [][Next]_vars

\* Timers fire, awaited calls settle, the server answers, messages arrive and
\* reconnection is attempted again.  Nothing is assumed of the user, of the
\* query's changes or of faults.
Fairness ==
  /\ \A o \in OpName :
       /\ WF_vars(LoginReturns(o))
       /\ WF_vars(SendRequest(o) \/ SendTimesOut(o))
       /\ WF_vars(ServerAnswers(o))
       /\ WF_vars(EndSleep(o))
       /\ WF_vars(Reconnected(o))
  /\ WF_vars(SessionMissing)
  /\ WF_vars(ReplyArrives)
  /\ WF_vars(\E m \in net : Receive(m, FALSE, FALSE))
  /\ WF_vars(AckTimerFires)
  /\ WF_vars(AckSent)
  /\ WF_vars(WaitTimerFires)
  /\ WF_vars(CloseSent \/ CloseFails)
  /\ WF_vars(ConnectionOpens)

FairSpec == Spec /\ Fairness

-----------------------------------------------------------------------------
(* Safety. *)

\* The ids given to onChange are consecutive: no event is skipped, repeated or
\* given late, whatever the network does and however pushes, responses and
\* late responses interleave (_handleServerEvents against currentEventId).
DeliveredInOrder ==
  \A i \in 1..(Len(delivered) - 1) : delivered[i + 1] = delivered[i] + 1

\* The session's position is the last snapshot the user has seen, and one the
\* server has committed: what REBUILD_WATCH and CHECK_LAST report is true.
PositionIsLastDelivered ==
  watch.hasSession =>
    /\ delivered # <<>>
    /\ delivered[Len(delivered)] = watch.currentEventId
    /\ watch.currentEventId <= server

\* initWatch never runs beside rebuildWatch, nor over an existing session,
\* though their promises do not know of each other: resume, the gap handler,
\* the retries and the expected-event timer all start one or the other.
OneEstablishment ==
  watch.step["INIT_WATCH"] # "idle" =>
    ~watch.hasSession /\ watch.step["REBUILD_WATCH"] = "idle"

\* A response to REBUILD_WATCH never leaves a gap, even if events were handled
\* while it was pending: a gap there would ask for the rebuild that is being
\* completed, which nobody awaits, and leave the watch ACTIVE but behind.
RebuildReplyFits ==
  \A r \in reply["REBUILD_WATCH"] : ~Gap(watch, r.lo, r.hi)

\* An ACTIVE watch that still is a client has its ACK timer armed or an ACK on
\* its way: the periodic CHECK_LAST, the only way to learn of a lost last
\* event, is never dropped by the paths that re-arm it.
AckAlive ==
  watch.inClients /\ watch.status = "ACTIVE" => watch.ackTimer \/ watch.acks > 0

\* On a live connection a client is listening, closing, or some establishment
\* is under way: no interleaving of pause, resume, retry and cancellation
\* leaves it waiting for nobody.  Not so ("alone") once another watch has begun a
\* chain of its own beside a reconnection, which may then resume nobody.
NotStranded ==
  conn = "up" /\ watch.inClients =>
    \/ watch.status \in {"ACTIVE", "CLOSING"}
    \/ \E o \in OpName : watch.step[o] # "idle"

\* The inductive invariant behind the theorems about the properties above.
SessionHistory ==
  /\ delivered = <<>> =>
       /\ ~watch.hasSession
       /\ watch.step["REBUILD_WATCH"] = "idle"
       /\ watch.waitTimer = "none"
       /\ watch.status # "ACTIVE"
  /\ watch.step["INIT_WATCH"] # "idle" => delivered = <<>>
  /\ watch.inClients /\ ~watch.hasSession => delivered = <<>>

InFlight ==
  \A o \in OpName :
    /\ o \in wire => watch.step[o] = "wait" /\ reply[o] = {}
    /\ reply[o] # {} => watch.step[o] = "wait"

KnownEvents ==
  /\ server > 0
  /\ \A m \in net : m.hi <= server
  /\ \A o \in OpName : \A r \in reply[o] : r.hi <= server
  /\ \A r \in reply["INIT_WATCH"] : r.hi > 0

RequestsBehind ==
  /\ watch.step["REBUILD_WATCH"] \in {"send", "wait"} /\ watch.hasSession =>
       asked <= watch.currentEventId
  /\ \A r \in reply["REBUILD_WATCH"] : r.lo = asked + 1

IInv ==
  /\ TypeOK
  /\ SessionHistory
  /\ InFlight
  /\ KnownEvents
  /\ RequestsBehind
  /\ PositionIsLastDelivered
  /\ DeliveredInOrder
  /\ AckAlive

\* And behind NotStranded, for a watch opened on a connection that is up: those
\* that paused the watch have handed it over to the reconnection, which resumes it.
NobodyPaused ==
  conn # "connecting" /\ (conn = "up" /\ watch.inClients => watch.status # "PAUSED")

\* What close() promises (typings/index.ts, "And Now His Watch Is Ended"):
\* once closeWatch has run to its end, the watch never is ACTIVE again.
EndOfWatch == userClosed /\ ~watch.closing => watch.status # "ACTIVE"

\* The watch implements the feed its user is promised (typings/index.ts,
\* IWatchOptions.onChange): every step delivers nothing, the first snapshot, or
\* the events that follow the last one delivered.
Feed == INSTANCE WatchFeed WITH seen <- delivered

ImplementsFeed == Feed!Spec

-----------------------------------------------------------------------------
(* Liveness, of FairSpec. *)

\* Once events and faults stop, a client on a live connection has been given
\* the server's last event: a lost or reordered push is made good by the next
\* CHECK_EVENT, the expected-event timer and a rebuild.  The exception is that of
\* NotStranded.
CatchesUp ==
  <>[](conn = "up" /\ watch.inClients => watch.hasSession /\ watch.currentEventId = server)

\* Every establishment ends, and again and again none is under way: the retries are
\* bounded, and no timer or response an establishment awaits is forgotten.
EstablishmentEnds ==
  []<>(conn = "dead" \/ \A o \in OpName : watch.step[o] = "idle")

\* The steps of an attempt, in order.
Rank(step) ==
  CASE step = "idle" -> 0
    [] step = "login" -> 1
    [] step = "send" -> 2
    [] step = "wait" -> 3
    [] step = "sleep" -> 4
    [] step = "reconnect" -> 5

Advances(o) ==
  watch.step[o] # "idle" /\ watch'.step[o] # "idle" =>
    \/ watch'.tickets[o] < watch.tickets[o]
    \/ watch'.tickets[o] = watch.tickets[o] /\ Rank(watch'.step[o]) >= Rank(watch.step[o])

\* Why it does: from one end of an establishment to the next its attempt only
\* moves forward, or a retry is used up.  No message, timer, pause or resume
\* starts an attempt again that is under way, or gives retries back to it.
EstablishmentAdvances == [][\A o \in OpName : Advances(o)]_vars

\* close() releases the watch, whatever it interrupts.
CloseReleases == userClosed ~> ~watch.inClients

=============================================================================
