-------------------------- MODULE WatchClientProofs --------------------------
(***************************************************************************)
(* Proofs about WatchClient.  A lemma per method of WatchObject says what  *)
(* the method keeps and what it changes; the invariance proofs cite these  *)
(* instead of the methods' definitions.                                    *)
(***************************************************************************)
EXTENDS WatchClient, TLAPS

\* v has the session of w, at the same position, and the same event timer.
SameSession(w, v) ==
  /\ v \in Watch
  /\ v.hasSession = w.hasSession
  /\ v.currentEventId = w.currentEventId
  /\ v.waitTimer = w.waitTimer

\* v is w but for the establishment o.
OnlyMoves(w, v, o) ==
  /\ SameSession(w, v)
  /\ v.inClients => w.inClients
  /\ \A p \in OpName \ {o} : v.step[p] = w.step[p]

-----------------------------------------------------------------------------
(* The methods. *)

\* onWatchClose ends the watch's membership and nothing else that matters here.
LEMMA OnWatchCloseFacts ==
  ASSUME NEW w \in Watch
  PROVE  /\ SameSession(w, OnWatchClose(w))
         /\ ~OnWatchClose(w).inClients
         /\ OnWatchClose(w).step = w.step
         /\ OnWatchClose(w).status = w.status
         /\ OnWatchClose(w).ackTimer = w.ackTimer
<1>1. OnWatchClose(w) \in Watch
  BY Zenon DEF OnWatchClose, Watch
<1> QED
  BY <1>1, SMT DEF OnWatchClose, Watch, SameSession

\* closeWithError ends the watch and leaves its pending promises alone.
LEMMA CloseWithErrorFacts ==
  ASSUME NEW w \in Watch
  PROVE  /\ SameSession(w, CloseWithError(w))
         /\ ~CloseWithError(w).inClients
         /\ CloseWithError(w).step = w.step
         /\ CloseWithError(w).status = "ERRORED"
<1> DEFINE x == [w EXCEPT !.status = "ERRORED", !.ackTimer = FALSE]
<1>1. x \in Watch
  <2>1. "ERRORED" \in WatchStatus
    BY DEF WatchStatus
  <2> QED
    BY <2>1, Zenon DEF Watch
<1>2. /\ x.status = "ERRORED" /\ x.step = w.step
      /\ x.hasSession = w.hasSession /\ x.currentEventId = w.currentEventId
      /\ x.waitTimer = w.waitTimer
  BY SMT DEF Watch
<1>3. CloseWithError(w) = OnWatchClose(x)
  BY DEF CloseWithError
<1> HIDE DEF x
<1> QED
  BY <1>1, <1>2, <1>3, OnWatchCloseFacts DEF SameSession

\* initWatch and rebuildWatch start a login, or do nothing.
LEMMA EstablishFacts ==
  ASSUME NEW w \in Watch, NEW o \in OpName
  PROVE  /\ OnlyMoves(w, Establish(w, o), o)
         /\ Establish(w, o).inClients = w.inClients
         /\ Establish(w, o).ackTimer = w.ackTimer
         /\ w.step[o] # "idle" \/ w.status = "PAUSED" => Establish(w, o) = w
         /\ w.step[o] = "idle" /\ w.status # "PAUSED" =>
              Establish(w, o).step[o] = "login" /\ Establish(w, o).status = "LOGGINGIN"
<1>1. Establish(w, o) \in Watch
  <2>1. "LOGGINGIN" \in WatchStatus /\ [w.step EXCEPT ![o] = "login"] \in [OpName -> Step]
    BY SMT DEF Watch, WatchStatus, Step
  <2>2. [w EXCEPT !.status = "LOGGINGIN", !.step[o] = "login"] \in Watch
    BY <2>1, Zenon DEF Watch
  <2> QED
    BY <2>2 DEF Establish
<1> QED
  BY <1>1, SMT DEF Establish, Watch, OnlyMoves, SameSession

\* A retry uses up a ticket and starts over, or ends the watch.
LEMMA RetryFacts ==
  ASSUME NEW w \in Watch, NEW o \in OpName
  PROVE  /\ OnlyMoves(w, Retry(w, o), o)
         /\ Retry(w, o).step[o] \in {"idle", "login"}
         /\ Retry(w, o).status # "ACTIVE"
         /\ Retry(w, o).inClients /\ w.status # "PAUSED" => Retry(w, o).step[o] = "login"
         /\ Retry(w, o).status = "PAUSED" => w.status = "PAUSED"
<1>1. CASE w.tickets[o] > 0
  <2> DEFINE x == [w EXCEPT !.tickets[o] = @ - 1, !.step[o] = "idle"]
  <2>1. x \in Watch
    <3>1. o \in TicketName /\ w.tickets \in [TicketName -> 0..MaxRetries]
      BY DEF Watch, TicketName
    <3>2. w.tickets[o] - 1 \in 0..MaxRetries
      BY <1>1, <3>1, MaxRetriesAssumption, SMT
    <3>3. [w.tickets EXCEPT ![o] = @ - 1] \in [TicketName -> 0..MaxRetries]
      BY <3>1, <3>2, SMT
    <3>4. [w.step EXCEPT ![o] = "idle"] \in [OpName -> Step]
      BY SMT DEF Watch, Step
    <3> QED
      BY <3>3, <3>4, Zenon DEF Watch
  <2>2. /\ OnlyMoves(w, x, o) /\ x.step[o] = "idle" /\ x.status = w.status
    BY <2>1, SMT DEF Watch, OnlyMoves, SameSession
  <2>3. Retry(w, o) = Establish(x, o)
    BY <1>1 DEF Retry
  <2> HIDE DEF x
  <2> QED
    BY <2>1, <2>2, <2>3, EstablishFacts, SMT DEF OnlyMoves, SameSession
<1>2. CASE ~(w.tickets[o] > 0)
  <2> DEFINE x == CloseWithError(w)
  <2>1. /\ SameSession(w, x) /\ ~x.inClients
        /\ x.step = w.step /\ x.status = "ERRORED"
    BY CloseWithErrorFacts
  <2>2. Retry(w, o) = [x EXCEPT !.step[o] = "idle"]
    BY <1>2 DEF Retry, Abort
  <2> HIDE DEF x
  <2>3. Retry(w, o) \in Watch
    BY <2>1, <2>2, SMT DEF SameSession, Watch, Step
  <2> QED
    BY <2>1, <2>2, <2>3, SMT DEF OnlyMoves, SameSession, Watch
<1> QED
  BY <1>1, <1>2

\* pause keeps everything but the status.
LEMMA PauseFacts ==
  ASSUME NEW w \in Watch
  PROVE  /\ SameSession(w, Pause(w))
         /\ Pause(w).step = w.step /\ Pause(w).inClients = w.inClients
         /\ Pause(w).status = "PAUSED"
<1>1. Pause(w) \in Watch
  BY SMT DEF Pause, Watch, WatchStatus
<1> QED
  BY <1>1, SMT DEF Pause, Watch, SameSession

\* Moving one establishment to another step.
LEMMA StepFacts ==
  ASSUME NEW w \in Watch, NEW o \in OpName, NEW s \in Step
  PROVE  LET v == [w EXCEPT !.step[o] = s] IN
           /\ OnlyMoves(w, v, o)
           /\ v.step[o] = s /\ v.status = w.status
           /\ v.inClients = w.inClients /\ v.ackTimer = w.ackTimer /\ v.acks = w.acks
<1>1. [w EXCEPT !.step[o] = s] \in Watch
  BY SMT DEF Watch
<1> QED
  BY <1>1, SMT DEF Watch, OnlyMoves, SameSession

\* What the handler of a failed establishment may do: end the watch, start over,
\* or wait before it does; only without a connection does it pause the watch.
Handled(w, v, o, up) ==
  /\ OnlyMoves(w, v, o)
  /\ v.step[o] \in {"idle", "login", "sleep", "reconnect"}
  /\ v.status = "ACTIVE" =>
       w.status = "ACTIVE" /\ v.ackTimer = w.ackTimer /\ v.acks = w.acks
  /\ v.inClients /\ w.status # "PAUSED" => v.step[o] # "idle"
  /\ v.status = "PAUSED" => w.status = "PAUSED" \/ ~up

LEMMA RetryHandled ==
  ASSUME NEW w \in Watch, NEW o \in OpName, NEW up
  PROVE  Handled(w, Retry(w, o), o, up)
BY RetryFacts DEF Handled

LEMMA DisconnectedHandled ==
  ASSUME NEW w \in Watch, NEW o \in OpName
  PROVE  Handled(w, OnWSDisconnected(w, o), o, FALSE)
<1> DEFINE x == Pause(w)
<1>1. /\ SameSession(w, x) /\ x.status = "PAUSED"
      /\ x.step = w.step /\ x.inClients = w.inClients
  BY PauseFacts
<1>2. OnWSDisconnected(w, o) = [x EXCEPT !.step[o] = "reconnect"]
  BY DEF OnWSDisconnected
<1>3. "reconnect" \in Step
  BY DEF Step
<1> HIDE DEF x
<1> QED
  BY <1>1, <1>2, <1>3, StepFacts, SMT DEF Handled, OnlyMoves, SameSession

LEMMA EstablishmentErrorFacts ==
  ASSUME NEW w \in Watch, NEW o \in OpName, NEW e \in ErrorKind, NEW up \in BOOLEAN
  PROVE  Handled(w, EstablishmentError(w, o, e, up), o, up)
<1>1. CASE e \in {"sign", "timeout"}
  BY <1>1, RetryHandled DEF EstablishmentError
<1>2. CASE e = "fatal"
  <2> DEFINE x == CloseWithError(w)
  <2>1. /\ SameSession(w, x) /\ ~x.inClients
        /\ x.step = w.step /\ x.status = "ERRORED"
    BY CloseWithErrorFacts
  <2>2. EstablishmentError(w, o, e, up) = [x EXCEPT !.step[o] = "idle"]
    BY <1>2 DEF EstablishmentError, Abort
  <2>3. "idle" \in Step
    BY DEF Step
  <2> HIDE DEF x
  <2> QED
    BY <2>1, <2>2, <2>3, StepFacts, SMT DEF Handled, OnlyMoves, SameSession
<1>3. CASE e = "unknown" /\ up
  <2>1. EstablishmentError(w, o, e, up) = [w EXCEPT !.step[o] = "sleep"]
    BY <1>3 DEF EstablishmentError
  <2>2. "sleep" \in Step
    BY DEF Step
  <2> QED
    BY <2>1, <2>2, StepFacts, SMT DEF Handled
<1>4. CASE e = "unknown" /\ ~up
  <2>1. EstablishmentError(w, o, e, up) = OnWSDisconnected(w, o) /\ up = FALSE
    BY <1>4 DEF EstablishmentError
  <2> QED
    BY <2>1, DisconnectedHandled
<1> QED
  BY <1>1, <1>2, <1>3, <1>4 DEF ErrorKind

\* After the sleep the same holds, except that a paused watch gives up.
LEMMA AfterSleepFacts ==
  ASSUME NEW w \in Watch, NEW o \in OpName, NEW up \in BOOLEAN
  PROVE  Handled(w, AfterSleep(w, o, up), o, up)
<1>1. CASE w.status = "PAUSED"
  <2>1. AfterSleep(w, o, up) = [w EXCEPT !.step[o] = "idle"]
    BY <1>1 DEF AfterSleep
  <2>2. "idle" \in Step
    BY DEF Step
  <2> QED
    BY <1>1, <2>1, <2>2, StepFacts, SMT DEF Handled
<1>2. CASE w.status # "PAUSED" /\ up
  <2>1. AfterSleep(w, o, up) = Retry(w, o)
    BY <1>2 DEF AfterSleep
  <2> QED
    BY <2>1, RetryHandled
<1>3. CASE w.status # "PAUSED" /\ ~up
  <2>1. AfterSleep(w, o, up) = OnWSDisconnected(w, o) /\ up = FALSE
    BY <1>3 DEF AfterSleep
  <2> QED
    BY <2>1, DisconnectedHandled
<1> QED
  BY <1>1, <1>2, <1>3

\* A resumed watch has an establishment under way.
LEMMA ResumeFacts ==
  ASSUME NEW w \in Watch
  PROVE  /\ SameSession(w, Resume(w))
         /\ Resume(w).inClients = w.inClients
         /\ Resume(w).status \in {"RESUMING", "LOGGINGIN"}
         /\ w.hasSession => Resume(w).step["REBUILD_WATCH"] # "idle"
         /\ w.hasSession => Resume(w).step["INIT_WATCH"] = w.step["INIT_WATCH"]
         /\ ~w.hasSession => Resume(w).step["INIT_WATCH"] # "idle"
         /\ ~w.hasSession => Resume(w).step["REBUILD_WATCH"] = w.step["REBUILD_WATCH"]
         /\ \A o \in OpName : w.step[o] # "idle" => Resume(w).step[o] = w.step[o]
         /\ \A o \in OpName : w.step[o] = "idle" => Resume(w).step[o] \in {"idle", "login"}
<1> DEFINE x == [w EXCEPT !.status = "RESUMING"]
<1>1. x \in Watch
  BY SMT DEF Watch, WatchStatus
<1>2. /\ SameSession(w, x) /\ x.inClients = w.inClients
      /\ x.step = w.step /\ x.status = "RESUMING"
  BY <1>1, SMT DEF Watch, SameSession
<1>3. /\ w.hasSession => Resume(w) = Establish(x, "REBUILD_WATCH")
      /\ ~w.hasSession => Resume(w) = Establish(x, "INIT_WATCH")
  BY DEF Resume
<1> HIDE DEF x
<1>4. CASE w.hasSession
  <2>1. Resume(w) = Establish(x, "REBUILD_WATCH")
    BY <1>3, <1>4
  <2>2. "REBUILD_WATCH" \in OpName /\ "INIT_WATCH" \in OpName \ {"REBUILD_WATCH"}
    BY DEF OpName
  <2>3. /\ OnlyMoves(x, Resume(w), "REBUILD_WATCH")
        /\ Resume(w).inClients = x.inClients
        /\ x.step["REBUILD_WATCH"] # "idle" => Resume(w) = x
        /\ x.step["REBUILD_WATCH"] = "idle" =>
             Resume(w).step["REBUILD_WATCH"] = "login" /\ Resume(w).status = "LOGGINGIN"
    BY <1>1, <1>2, <2>1, <2>2, EstablishFacts, SMT
  <2>4. SameSession(w, Resume(w))
    BY <1>2, <2>3, SMT DEF OnlyMoves, SameSession
  <2>5. /\ Resume(w).inClients = w.inClients
        /\ Resume(w).status \in {"RESUMING", "LOGGINGIN"}
    BY <1>2, <2>3, SMT
  <2>6. Resume(w).step["REBUILD_WATCH"] # "idle"
    BY <1>2, <2>3, SMT
  <2>7. Resume(w).step["INIT_WATCH"] = w.step["INIT_WATCH"]
    BY <1>2, <2>2, <2>3, SMT DEF OnlyMoves
  <2>8. \A o \in OpName : w.step[o] # "idle" => Resume(w).step[o] = w.step[o]
    BY <1>2, <2>7, <2>3, SMT DEF OpName
  <2>9. \A o \in OpName : w.step[o] = "idle" => Resume(w).step[o] \in {"idle", "login"}
    BY <1>2, <2>7, <2>3, SMT DEF OpName
  <2> QED
    BY <1>4, <2>4, <2>5, <2>6, <2>7, <2>8, <2>9
<1>5. CASE ~w.hasSession
  BY <1>1, <1>2, <1>3, <1>5, EstablishFacts, SMT DEF OnlyMoves, SameSession, OpName
<1> QED
  BY <1>4, <1>5

\* close() leaves the session and the pending promises alone; the watch stays a
\* client only to send CLOSE_WATCH.
LEMMA CloseWatchFacts ==
  ASSUME NEW w \in Watch
  PROVE  /\ SameSession(w, CloseWatch(w))
         /\ CloseWatch(w).step = w.step
         /\ CloseWatch(w).inClients => w.inClients
         /\ CloseWatch(w).inClients => CloseWatch(w).status = "CLOSING"
         /\ CloseWatch(w).status \in {"CLOSING", "CLOSED"}
         /\ CloseWatch(w).ackTimer = w.ackTimer
<1>1. CASE w.status = "ACTIVE"
  <2>1. CloseWatch(w) = [w EXCEPT !.status = "CLOSING", !.closing = TRUE]
    BY <1>1 DEF CloseWatch
  <2>2. "CLOSING" \in WatchStatus
    BY DEF WatchStatus
  <2>3. CloseWatch(w) \in Watch
    BY <2>1, <2>2, Zenon DEF Watch
  <2> QED
    BY <2>1, <2>3, SMT DEF Watch, SameSession
<1>2. CASE w.status # "ACTIVE"
  <2> DEFINE x == [w EXCEPT !.status = "CLOSED"]
  <2>1. x \in Watch
    BY SMT DEF Watch, WatchStatus
  <2>2. /\ SameSession(w, x) /\ x.step = w.step
        /\ x.status = "CLOSED" /\ x.ackTimer = w.ackTimer
    BY <2>1, SMT DEF Watch, SameSession
  <2>3. CloseWatch(w) = OnWatchClose(x)
    BY <1>2 DEF CloseWatch
  <2> HIDE DEF x
  <2> QED
    BY <2>1, <2>2, <2>3, OnWatchCloseFacts, SMT DEF SameSession
<1> QED
  BY <1>1, <1>2

LEMMA ScheduleFacts ==
  ASSUME NEW w \in Watch
  PROVE  /\ SameSession(w, ScheduleSendACK(w))
         /\ ScheduleSendACK(w).step = w.step
         /\ ScheduleSendACK(w).inClients = w.inClients
         /\ ScheduleSendACK(w).status = w.status
         /\ ScheduleSendACK(w).expectEventId = w.expectEventId
         /\ ScheduleSendACK(w).ackTimer = TRUE
<1>1. ScheduleSendACK(w) \in Watch
  BY Zenon DEF ScheduleSendACK, Watch
<1> QED
  BY <1>1, Zenon DEF ScheduleSendACK, Watch, SameSession

\* What handling messages may do: it never touches an initWatch under way or a
\* watch without a session, and leaves the ACK timer armed if it was.
Digested(w, v) ==
  /\ v \in Watch
  /\ v.hasSession = w.hasSession
  /\ v.step["INIT_WATCH"] = w.step["INIT_WATCH"]
  /\ ~w.hasSession => v.step = w.step /\ v.waitTimer = w.waitTimer
  /\ w.step["REBUILD_WATCH"] # "idle" =>
       v.step["REBUILD_WATCH"] = w.step["REBUILD_WATCH"]
  /\ w.step["REBUILD_WATCH"] = "idle" =>
       v.step["REBUILD_WATCH"] \in {"idle", "login"}
  /\ v.inClients => w.inClients
  /\ v.status = "ACTIVE" => w.status = "ACTIVE" /\ (v.ackTimer = TRUE \/ v = w)
  /\ v.inClients => v.status = w.status \/ v.step["REBUILD_WATCH"] # "idle"
  /\ v.status = "PAUSED" => w.status = "PAUSED"

LEMMA PostCheckFacts ==
  ASSUME NEW w \in Watch
  PROVE  /\ PostCheck(w) \in Watch
         /\ PostCheck(w).hasSession = w.hasSession
         /\ PostCheck(w).currentEventId = w.currentEventId
         /\ PostCheck(w).step = w.step
         /\ PostCheck(w).inClients = w.inClients
         /\ PostCheck(w).status = w.status
         /\ PostCheck(w).ackTimer = w.ackTimer
         /\ ~w.hasSession => PostCheck(w).waitTimer = w.waitTimer
<1>1. PostCheck(w) \in Watch
  <2>1. "none" \in WaitTimer
    BY DEF WaitTimer
  <2>2. [w EXCEPT !.waitTimer = "none"] \in Watch
    BY <2>1, Zenon DEF Watch
  <2> QED
    BY <2>2 DEF PostCheck, ClearWaitExpectedEvent
<1> QED
  BY <1>1, SMT DEF PostCheck, ClearWaitExpectedEvent, Watch

\* Either nothing is delivered, or the events from the next one to hi.
LEMMA FreshFacts ==
  ASSUME NEW w \in Watch, NEW lo \in Nat, NEW hi \in Nat, Fresh(w, lo, hi) # <<>>
  PROVE  /\ w.hasSession
         /\ w.currentEventId < hi
         /\ lo <= w.currentEventId + 1
         /\ Fresh(w, lo, hi) = [k \in 1..(hi - w.currentEventId) |-> w.currentEventId + k]
<1>1. w.currentEventId \in Nat
  BY DEF Watch
<1>2. /\ w.hasSession /\ lo <= w.currentEventId + 1
      /\ Fresh(w, lo, hi) = [k \in 1..(hi - w.currentEventId) |-> w.currentEventId + k]
  BY DEF Fresh
<1>3. ASSUME hi <= w.currentEventId PROVE FALSE
  <2>1. 1..(hi - w.currentEventId) = {}
    BY <1>1, <1>3, SMT
  <2>2. Fresh(w, lo, hi) = [k \in {} |-> w.currentEventId + k]
    BY <1>2, <2>1
  <2>3. [k \in {} |-> w.currentEventId + k] = <<>>
    BY SMT
  <2> QED
    BY <2>2, <2>3
<1> QED
  BY <1>1, <1>2, <1>3, SMT

\* Handling a batch moves the position to the last event delivered.
LEMMA HandleServerEventsFacts ==
  ASSUME NEW w \in Watch, NEW lo \in Nat, NEW hi \in Nat
  PROVE  /\ Digested(w, HandleServerEvents(w, lo, hi))
         /\ HandleServerEvents(w, lo, hi).ackTimer = TRUE
         /\ HandleServerEvents(w, lo, hi).currentEventId =
               IF Fresh(w, lo, hi) # <<>> THEN hi ELSE w.currentEventId
<1> DEFINE s == ScheduleSendACK(w)
           h == IF Gap(w, lo, hi) THEN Establish(s, "REBUILD_WATCH")
                ELSE IF Fresh(w, lo, hi) # <<>> THEN [s EXCEPT !.currentEventId = hi]
                ELSE s
<1>1. /\ SameSession(w, s) /\ s.step = w.step /\ s.inClients = w.inClients
      /\ s.status = w.status /\ s.ackTimer = TRUE
  BY ScheduleFacts
<1>2. HandleServerEvents(w, lo, hi) = PostCheck(h)
  BY DEF HandleServerEvents
<1> HIDE DEF s
<1>3. /\ Digested(w, h) /\ h.ackTimer = TRUE
      /\ h.currentEventId = IF Fresh(w, lo, hi) # <<>> THEN hi ELSE w.currentEventId
  <2>1. CASE Gap(w, lo, hi)
    <3>1. /\ w.hasSession /\ h = Establish(s, "REBUILD_WATCH")
          /\ Fresh(w, lo, hi) = <<>>
      <4>1. w.hasSession /\ lo > w.currentEventId + 1 /\ w.currentEventId \in Nat
        BY <2>1 DEF Gap, Watch
      <4> QED
        BY <2>1, <4>1, SMT DEF Fresh
    <3>2. "REBUILD_WATCH" \in OpName /\ "INIT_WATCH" \in OpName \ {"REBUILD_WATCH"}
      BY DEF OpName
    <3>3. /\ OnlyMoves(s, h, "REBUILD_WATCH") /\ h.inClients = s.inClients
          /\ h.ackTimer = s.ackTimer
          /\ s.step["REBUILD_WATCH"] # "idle" \/ s.status = "PAUSED" => h = s
          /\ s.step["REBUILD_WATCH"] = "idle" /\ s.status # "PAUSED" =>
               h.step["REBUILD_WATCH"] = "login" /\ h.status = "LOGGINGIN"
      BY <1>1, <3>1, <3>2, EstablishFacts DEF SameSession
    <3> HIDE DEF h
    <3>4. /\ h.step["INIT_WATCH"] = w.step["INIT_WATCH"]
          /\ w.step["REBUILD_WATCH"] # "idle" =>
               h.step["REBUILD_WATCH"] = w.step["REBUILD_WATCH"]
          /\ w.step["REBUILD_WATCH"] = "idle" =>
               h.step["REBUILD_WATCH"] \in {"idle", "login"}
          /\ h.status \in {w.status, "LOGGINGIN"}
          /\ h.status = w.status \/ h.step["REBUILD_WATCH"] # "idle"
      BY <1>1, <3>2, <3>3, SMT DEF OnlyMoves
    <3>5. /\ h \in Watch /\ h.hasSession = w.hasSession
          /\ h.currentEventId = w.currentEventId
      BY <1>1, <3>3 DEF OnlyMoves, SameSession
    <3>6. h.inClients = w.inClients /\ h.ackTimer = TRUE
      BY <1>1, <3>3
    <3> QED
      BY <3>1, <3>4, <3>5, <3>6 DEF Digested
  <2>2. CASE ~Gap(w, lo, hi) /\ Fresh(w, lo, hi) # <<>>
    <3>1. h = [s EXCEPT !.currentEventId = hi]
      BY <2>2
    <3>2. h \in Watch
      BY <1>1, <3>1, Zenon DEF Watch, SameSession
    <3>3. /\ h.hasSession = s.hasSession /\ h.step = s.step /\ h.status = s.status
          /\ h.inClients = s.inClients /\ h.ackTimer = s.ackTimer
          /\ h.waitTimer = s.waitTimer
          /\ h.currentEventId = hi
      BY <1>1, <3>1, Zenon DEF Watch, SameSession
    <3>4. w.hasSession
      BY <2>2 DEF Fresh
    <3> HIDE DEF h
    <3> QED
      BY <1>1, <2>2, <3>2, <3>3, <3>4, SMT DEF Digested, SameSession
  <2>3. CASE ~Gap(w, lo, hi) /\ Fresh(w, lo, hi) = <<>>
    <3>1. h = s
      BY <2>3
    <3> HIDE DEF h
    <3> QED
      BY <1>1, <2>3, <3>1, SMT DEF Digested, SameSession
  <2> QED
    BY <2>1, <2>2, <2>3
<1> HIDE DEF h
<1> QED
  BY <1>2, <1>3, PostCheckFacts, SMT DEF Digested

\* onMessage digests its message: it ignores it, delivers events, rebuilds, sets
\* the event timer or ends the watch.
LEMMA OnMessageFacts ==
  ASSUME NEW w \in Watch, NEW m \in Message
  PROVE  /\ Digested(w, OnMessage(w, m))
         /\ OnMessage(w, m).currentEventId =
               IF Delivered(w, m) # <<>> THEN m.hi ELSE w.currentEventId
<1>1. CASE ~Accepts(w, m)
  <2>1. OnMessage(w, m) = w /\ Delivered(w, m) = <<>>
    BY <1>1 DEF OnMessage, Delivered
  <2>2. w.step["REBUILD_WATCH"] \in Step
    BY DEF Watch, OpName
  <2>3. Digested(w, w)
    BY Zenon DEF Digested
  <2> QED
    BY <2>1, <2>3
<1>2. CASE Accepts(w, m) /\ m.type = "NEXT_EVENT"
  <2>1. /\ OnMessage(w, m) = HandleServerEvents(w, m.lo, m.hi)
        /\ Delivered(w, m) = Fresh(w, m.lo, m.hi)
        /\ m.lo \in Nat /\ m.hi \in Nat
    BY <1>2 DEF OnMessage, Delivered, Message
  <2>2. /\ Digested(w, HandleServerEvents(w, m.lo, m.hi))
        /\ HandleServerEvents(w, m.lo, m.hi).currentEventId =
              IF Fresh(w, m.lo, m.hi) # <<>> THEN m.hi ELSE w.currentEventId
    BY <2>1, HandleServerEventsFacts, Zenon
  <2> QED
    BY <2>1, <2>2, Zenon
<1>3. CASE Accepts(w, m) /\ m.type = "CHECK_EVENT"
  <2>1. /\ OnMessage(w, m) = HandleCheckEvent(w, m.hi)
        /\ Delivered(w, m) = <<>> /\ w.hasSession /\ m.hi \in Nat
    BY <1>3 DEF OnMessage, Delivered, Accepts, Message
  <2>2. CASE w.currentEventId < m.hi
    <3> DEFINE v == [w EXCEPT !.ackTimer = TRUE, !.expectEventId = m.hi,
                              !.waitTimer = "pending"]
    <3>1. OnMessage(w, m) = v
      BY <2>1, <2>2 DEF HandleCheckEvent
    <3>2. "pending" \in WaitTimer
      BY DEF WaitTimer
    <3>3. v \in Watch
      BY <2>1, <3>2, Zenon DEF Watch
    <3>4. /\ v.hasSession = w.hasSession /\ v.currentEventId = w.currentEventId
          /\ v.step = w.step /\ v.status = w.status /\ v.inClients = w.inClients
          /\ v.ackTimer = TRUE
      BY Zenon DEF Watch
    <3> HIDE DEF v
    <3>5. Digested(w, v)
      BY <2>1, <3>3, <3>4 DEF Digested
    <3> QED
      BY <2>1, <3>1, <3>4, <3>5
  <2>3. CASE ~(w.currentEventId < m.hi)
    <3>1. OnMessage(w, m) = ScheduleSendACK(w)
      BY <2>1, <2>3 DEF HandleCheckEvent
    <3>2. Digested(w, ScheduleSendACK(w))
      BY ScheduleFacts DEF Digested, SameSession
    <3> QED
      BY <2>1, <3>1, <3>2, ScheduleFacts DEF SameSession
  <2> QED
    BY <2>2, <2>3
<1>4. CASE Accepts(w, m) /\ m.type = "ERROR"
  <2>1. OnMessage(w, m) = CloseWithError(w) /\ Delivered(w, m) = <<>>
    BY <1>4 DEF OnMessage, Delivered
  <2>2. Digested(w, CloseWithError(w))
    BY CloseWithErrorFacts DEF Digested, SameSession
  <2> QED
    BY <2>1, <2>2, CloseWithErrorFacts DEF SameSession
<1> QED
  BY <1>1, <1>2, <1>3, <1>4 DEF Message

\* What is delivered of a message is what its position allows.
LEMMA DeliveredFacts ==
  ASSUME NEW w \in Watch, NEW m \in Message, Delivered(w, m) # <<>>
  PROVE  /\ w.hasSession
         /\ w.currentEventId < m.hi
         /\ Delivered(w, m) = [k \in 1..(m.hi - w.currentEventId) |-> w.currentEventId + k]
<1>1. Delivered(w, m) = Fresh(w, m.lo, m.hi) /\ m.lo \in Nat /\ m.hi \in Nat
  BY DEF Delivered, Message
<1> QED
  BY <1>1, FreshFacts

-----------------------------------------------------------------------------
(* Steps that only move one establishment. *)

\* What such a step leaves of the requests and responses in flight.
DropsRequest(o) ==
  /\ wire' \subseteq wire \ {o}
  /\ reply' \in [OpName -> SUBSET Reply]
  /\ reply'[o] = {}
  /\ \A p \in OpName \ {o} : reply'[p] = reply[p]
  /\ net' \subseteq Message
  /\ \A m \in net' : m.hi <= server

LEMMA HandledStep ==
  ASSUME IInv, NEW o \in OpName, watch.step[o] # "idle",
         Handled(watch, watch', o, Up), DropsRequest(o),
         UNCHANGED <<userClosed, delivered, server, asked>>,
         conn' \in ConnState, faults' \in 0..MaxFaults
  PROVE  IInv'
<1> USE DEF IInv
<1>1. TypeOK'
  BY DEF TypeOK, Handled, OnlyMoves, SameSession, DropsRequest
<1>2. /\ watch \in Watch /\ watch' \in Watch
      /\ watch'.hasSession = watch.hasSession
      /\ watch'.currentEventId = watch.currentEventId
      /\ watch'.waitTimer = watch.waitTimer
      /\ watch'.inClients => watch.inClients
      /\ \A p \in OpName \ {o} : watch'.step[p] = watch.step[p]
      /\ watch'.step[o] \in {"idle", "login", "sleep", "reconnect"}
      /\ watch'.status = "ACTIVE" =>
           watch.status = "ACTIVE" /\ watch'.ackTimer = watch.ackTimer /\ watch'.acks = watch.acks
  BY DEF Handled, OnlyMoves, SameSession, TypeOK
<1>3. o = "INIT_WATCH" \/ o = "REBUILD_WATCH"
  BY DEF OpName
<1>4. SessionHistory'
  <2>1. CASE o = "INIT_WATCH"
    <3>1. "REBUILD_WATCH" \in OpName \ {o}
      BY <2>1 DEF OpName
    <3> QED
      BY <1>2, <2>1, <3>1 DEF SessionHistory
  <2>2. CASE o = "REBUILD_WATCH"
    <3>1. "INIT_WATCH" \in OpName \ {o}
      BY <2>2 DEF OpName
    <3> QED
      BY <1>2, <2>2, <3>1 DEF SessionHistory
  <2> QED
    BY <1>3, <2>1, <2>2
<1>5. InFlight'
  BY <1>2, SMT DEF InFlight, DropsRequest
<1>6. KnownEvents'
  <2>1. \A p \in OpName : \A r \in reply'[p] : r \in reply[p]
    BY DEF DropsRequest
  <2>2. "INIT_WATCH" \in OpName
    BY DEF OpName
  <2> QED
    BY <2>1, <2>2 DEF KnownEvents, DropsRequest
<1>7. RequestsBehind'
  <2>1. CASE o = "INIT_WATCH"
    <3>1. "REBUILD_WATCH" \in OpName \ {o}
      BY <2>1 DEF OpName
    <3>2. reply'["REBUILD_WATCH"] = reply["REBUILD_WATCH"]
      BY <3>1 DEF DropsRequest
    <3> QED
      BY <1>2, <3>1, <3>2 DEF RequestsBehind
  <2>2. CASE o = "REBUILD_WATCH"
    BY <1>2, <2>2 DEF RequestsBehind, DropsRequest
  <2> QED
    BY <1>3, <2>1, <2>2
<1>8. PositionIsLastDelivered' /\ DeliveredInOrder'
  BY <1>2 DEF PositionIsLastDelivered, DeliveredInOrder
<1>9. AckAlive'
  BY <1>2 DEF AckAlive
<1> QED
  BY <1>1, <1>4, <1>5, <1>6, <1>7, <1>8, <1>9

LEMMA LoginCancelledPreserves ==
  ASSUME IInv, NEW o \in OpName, LoginCancelled(o)
  PROVE  IInv'
<1>1. watch \in Watch /\ "idle" \in Step /\ watch.step[o] = "login" /\ watch.status = "PAUSED"
  BY DEF IInv, TypeOK, Step, LoginCancelled
<1>2. watch' = [watch EXCEPT !.step[o] = "idle"]
  BY DEF LoginCancelled
<1>3. Handled(watch, watch', o, Up)
  BY <1>1, <1>2, StepFacts, SMT DEF Handled
<1>4. DropsRequest(o)
  BY <1>1 DEF IInv, TypeOK, InFlight, KnownEvents, DropsRequest, LoginCancelled
<1> QED
  BY <1>1, <1>3, <1>4, HandledStep DEF LoginCancelled, IInv, TypeOK

LEMMA EstablishmentErrorPreserves ==
  ASSUME IInv, NEW o \in OpName, NEW e \in ErrorKind,
         watch.step[o] # "idle",
         watch' = EstablishmentError(watch, o, e, Up),
         DropsRequest(o),
         UNCHANGED <<userClosed, delivered, conn, server, asked>>,
         faults' \in 0..MaxFaults
  PROVE  IInv'
<1>1. watch \in Watch /\ Up \in BOOLEAN
  BY DEF IInv, TypeOK, Up
<1>2. Handled(watch, watch', o, Up)
  BY <1>1, EstablishmentErrorFacts
<1> QED
  BY <1>2, HandledStep DEF IInv, TypeOK

LEMMA FaultFacts ==
  ASSUME TypeOK, Fault \/ NoFault
  PROVE  faults' \in 0..MaxFaults
BY BoundsAssumption DEF TypeOK, Fault, NoFault

\* Nothing is in flight for an establishment that is not waiting.
LEMMA NothingInFlight ==
  ASSUME IInv, NEW o \in OpName, watch.step[o] # "wait",
         UNCHANGED <<wire, reply, net>>
  PROVE  DropsRequest(o)
BY DEF IInv, TypeOK, InFlight, KnownEvents, DropsRequest

LEMMA SessionMissingPreserves ==
  ASSUME IInv, SessionMissing
  PROVE  IInv'
<1>1. "REBUILD_WATCH" \in OpName /\ "unknown" \in ErrorKind
  BY DEF OpName, ErrorKind
<1>2. DropsRequest("REBUILD_WATCH")
  BY <1>1, NothingInFlight DEF SessionMissing
<1> QED
  BY <1>1, <1>2, EstablishmentErrorPreserves DEF SessionMissing, IInv, TypeOK

LEMMA LoginFailsPreserves ==
  ASSUME IInv, NEW o \in OpName, NEW e \in ErrorKind, LoginFails(o, e)
  PROVE  IInv'
<1>1. DropsRequest(o)
  BY NothingInFlight DEF LoginFails
<1>2. faults' \in 0..MaxFaults
  BY FaultFacts DEF LoginFails, IInv
<1> QED
  BY <1>1, <1>2, EstablishmentErrorPreserves DEF LoginFails

LEMMA SendFailsPreserves ==
  ASSUME IInv, NEW o \in OpName, SendFails(o)
  PROVE  IInv'
<1>1. DropsRequest(o)
  BY DEF SendFails, IInv, TypeOK, InFlight, KnownEvents, DropsRequest
<1>2. faults' \in 0..MaxFaults
  BY FaultFacts DEF SendFails, IInv
<1>3. "unknown" \in ErrorKind
  BY DEF ErrorKind
<1> QED
  BY <1>1, <1>2, <1>3, EstablishmentErrorPreserves DEF SendFails

LEMMA SendTimesOutPreserves ==
  ASSUME IInv, NEW o \in OpName, SendTimesOut(o)
  PROVE  IInv'
<1>1. reply' \in [OpName -> SUBSET Reply] /\ reply'[o] = {}
      /\ \A p \in OpName \ {o} : reply'[p] = reply[p]
  BY DEF SendTimesOut, IInv, TypeOK
<1>2. net' \subseteq Message /\ \A m \in net' : m.hi <= server
  <2>1. net \subseteq Message /\ \A m \in net : m.hi <= server
    BY DEF IInv, TypeOK, KnownEvents
  <2>2. \A r \in reply[o] : r \in Reply /\ r.hi <= server
    BY DEF IInv, TypeOK, KnownEvents
  <2>3. \A r \in reply[o] :
          LET m == [type |-> "NEXT_EVENT", lo |-> r.lo, hi |-> r.hi]
          IN m \in Message /\ m.hi = r.hi
    BY <2>2 DEF Reply, Message
  <2>4. \A m \in net' \ net :
          \E r \in reply[o] : m = [type |-> "NEXT_EVENT", lo |-> r.lo, hi |-> r.hi]
    BY DEF SendTimesOut
  <2>5. \A m \in net' \ net : m \in Message /\ m.hi <= server
    BY <2>2, <2>3, <2>4
  <2> QED
    BY <2>1, <2>5
<1>3. DropsRequest(o)
  BY <1>1, <1>2 DEF SendTimesOut, DropsRequest
<1>4. faults' \in 0..MaxFaults
  BY FaultFacts DEF SendTimesOut, IInv
<1>5. "timeout" \in ErrorKind
  BY DEF ErrorKind
<1> QED
  BY <1>3, <1>4, <1>5, EstablishmentErrorPreserves DEF SendTimesOut

\* An ERROR response ends the watch first if it gets through onMessage.
LEMMA ErrorReplyHandled ==
  ASSUME watch \in Watch, NEW o \in OpName, NEW e \in {"sign", "fatal"}, ErrorReply(o, e)
  PROVE  Handled(watch, watch', o, Up)
<1> DEFINE m == [type |-> "ERROR", lo |-> 0, hi |-> 0]
           w == IF o = "REBUILD_WATCH" /\ watch.inClients THEN OnMessage(watch, m)
                                                           ELSE watch
<1>1. e \in ErrorKind /\ Up \in BOOLEAN
  BY DEF ErrorKind, Up
<1>2. watch' = EstablishmentError(w, o, e, Up)
  BY DEF ErrorReply
<1>3. w = watch \/ w = CloseWithError(watch)
  <2>1. m.type = "ERROR"
    OBVIOUS
  <2>2. OnMessage(watch, m) = watch \/ OnMessage(watch, m) = CloseWithError(watch)
    BY <2>1, Zenon DEF OnMessage
  <2> QED
    BY <2>2
<1> HIDE DEF w
<1>4. /\ SameSession(watch, w) /\ w.step = watch.step
      /\ w = watch \/ (~w.inClients /\ w.status = "ERRORED")
  BY <1>3, CloseWithErrorFacts, Zenon DEF SameSession
<1>5. Handled(w, watch', o, Up)
  BY <1>1, <1>2, <1>4, EstablishmentErrorFacts DEF SameSession
<1> QED
  BY <1>4, <1>5 DEF Handled, OnlyMoves, SameSession

LEMMA ErrorReplyPreserves ==
  ASSUME IInv, NEW o \in OpName, NEW e \in {"sign", "fatal"}, ErrorReply(o, e)
  PROVE  IInv'
<1>1. Handled(watch, watch', o, Up) /\ watch.step[o] = "wait"
  BY ErrorReplyHandled DEF ErrorReply, IInv, TypeOK
<1>2. DropsRequest(o)
  BY DEF ErrorReply, IInv, TypeOK, InFlight, KnownEvents, DropsRequest
<1>3. faults' \in 0..MaxFaults
  BY FaultFacts DEF ErrorReply, IInv
<1> QED
  BY <1>1, <1>2, <1>3, HandledStep DEF ErrorReply, IInv, TypeOK

LEMMA EndSleepPreserves ==
  ASSUME IInv, NEW o \in OpName, EndSleep(o)
  PROVE  IInv'
<1>1. watch \in Watch /\ Up \in BOOLEAN
  BY DEF IInv, TypeOK, Up
<1>2. Handled(watch, watch', o, Up)
  BY <1>1, AfterSleepFacts DEF EndSleep
<1>3. DropsRequest(o)
  BY NothingInFlight DEF EndSleep
<1> QED
  BY <1>2, <1>3, HandledStep DEF EndSleep, IInv, TypeOK

LEMMA ReconnectedPreserves ==
  ASSUME IInv, NEW o \in OpName, Reconnected(o)
  PROVE  IInv'
<1>1. watch \in Watch
  BY DEF IInv, TypeOK
<1>2. Handled(watch, watch', o, Up)
  BY <1>1, RetryHandled DEF Reconnected
<1>3. DropsRequest(o)
  BY NothingInFlight DEF Reconnected
<1> QED
  BY <1>2, <1>3, HandledStep DEF Reconnected, IInv, TypeOK

-----------------------------------------------------------------------------
(* Requests. *)

LEMMA LoginOkPreserves ==
  ASSUME IInv, NEW o \in OpName, LoginOk(o)
  PROVE  IInv'
<1> DEFINE s == IF o = "INIT_WATCH" THEN "INITING" ELSE "REBUILDING"
           t == IF Up THEN "wait" ELSE "send"
<1>1. watch \in Watch /\ s \in WatchStatus /\ t \in Step /\ watch.step[o] = "login"
  BY DEF IInv, TypeOK, WatchStatus, Step, LoginOk
<1>2. watch' = [watch EXCEPT !.status = s, !.step[o] = t]
  BY DEF LoginOk
<1>3. s # "ACTIVE" /\ t \in {"send", "wait"} /\ (Up <=> t = "wait")
  OBVIOUS
<1>4. wire' = (IF t = "wait" THEN wire \cup {o} ELSE wire)
  BY DEF LoginOk
<1> HIDE DEF s, t
<1>5. /\ OnlyMoves(watch, watch', o)
      /\ watch'.step[o] = t /\ watch'.status = s /\ watch'.inClients = watch.inClients
  <2>1. [watch.step EXCEPT ![o] = t] \in [OpName -> Step]
    BY <1>1 DEF Watch
  <2>2. watch' \in Watch
    BY <1>1, <1>2, <2>1, Zenon DEF Watch
  <2> QED
    BY <1>1, <1>2, <2>2, SMT DEF Watch, OnlyMoves, SameSession
<1>6. o = "INIT_WATCH" \/ (o = "REBUILD_WATCH" /\ watch.hasSession)
  BY DEF OpName, LoginOk
<1>7. TypeOK'
  <2>1. watch' \in Watch /\ watch.currentEventId \in Nat
    BY <1>1, <1>5 DEF OnlyMoves, SameSession, Watch
  <2>2. wire' \subseteq OpName
    BY <1>4 DEF IInv, TypeOK
  <2>3. asked' \in Nat
    BY <2>1 DEF LoginOk, IInv, TypeOK
  <2> QED
    BY <2>1, <2>2, <2>3 DEF LoginOk, IInv, TypeOK
<1>8. SessionHistory'
  <2>1. CASE o = "INIT_WATCH"
    <3>1. "REBUILD_WATCH" \in OpName \ {o}
      BY <2>1 DEF OpName
    <3> QED
      BY <1>1, <1>3, <1>5, <2>1, <3>1 DEF SessionHistory, OnlyMoves, SameSession, LoginOk, IInv
  <2>2. CASE o = "REBUILD_WATCH"
    <3>1. "INIT_WATCH" \in OpName \ {o}
      BY <2>2 DEF OpName
    <3> QED
      BY <1>1, <1>3, <1>5, <1>6, <2>2, <3>1
         DEF SessionHistory, OnlyMoves, SameSession, LoginOk, IInv
  <2> QED
    BY <1>6, <2>1, <2>2
<1>9. InFlight'
  BY <1>1, <1>3, <1>4, <1>5 DEF InFlight, OnlyMoves, LoginOk, IInv
<1>10. KnownEvents'
  BY DEF KnownEvents, LoginOk, IInv
<1>11. RequestsBehind'
  <2>1. CASE o = "INIT_WATCH"
    <3>1. "REBUILD_WATCH" \in OpName \ {o}
      BY <2>1 DEF OpName
    <3> QED
      BY <1>5, <2>1, <3>1 DEF RequestsBehind, OnlyMoves, SameSession, LoginOk, IInv
  <2>2. CASE o = "REBUILD_WATCH"
    <3>1. reply["REBUILD_WATCH"] = {} /\ asked' = watch.currentEventId
      BY <1>1, <2>2 DEF InFlight, IInv, LoginOk
    <3>2. watch'.currentEventId = watch.currentEventId /\ watch.currentEventId \in Nat
      BY <1>1, <1>5 DEF OnlyMoves, SameSession, Watch
    <3> QED
      BY <3>1, <3>2, SMT DEF RequestsBehind, LoginOk
  <2> QED
    BY <1>6, <2>1, <2>2
<1>12. PositionIsLastDelivered' /\ DeliveredInOrder'
  BY <1>5 DEF PositionIsLastDelivered, DeliveredInOrder, OnlyMoves, SameSession, LoginOk, IInv
<1>13. AckAlive'
  BY <1>3, <1>5 DEF AckAlive
<1> QED
  BY <1>7, <1>8, <1>9, <1>10, <1>11, <1>12, <1>13 DEF IInv

LEMMA SendRequestPreserves ==
  ASSUME IInv, NEW o \in OpName, SendRequest(o)
  PROVE  IInv'
<1>1. watch \in Watch /\ "wait" \in Step /\ watch.step[o] = "send"
  BY DEF IInv, TypeOK, Step, SendRequest
<1>2. watch' = [watch EXCEPT !.step[o] = "wait"]
  BY DEF SendRequest
<1>3. /\ OnlyMoves(watch, watch', o)
      /\ watch'.step[o] = "wait" /\ watch'.status = watch.status
      /\ watch'.inClients = watch.inClients
      /\ watch'.ackTimer = watch.ackTimer /\ watch'.acks = watch.acks
  BY <1>1, <1>2, StepFacts, Zenon
<1>4. o = "INIT_WATCH" \/ o = "REBUILD_WATCH"
  BY DEF OpName
<1>5. TypeOK'
  <2>1. watch' \in Watch /\ wire' \subseteq OpName
    BY <1>3 DEF OnlyMoves, SameSession, SendRequest, IInv, TypeOK
  <2> QED
    BY <2>1 DEF SendRequest, IInv, TypeOK
<1>6. SessionHistory'
  <2>1. \A p \in OpName : watch'.step[p] # "idle" <=> watch.step[p] # "idle"
    BY <1>1, <1>3 DEF OnlyMoves
  <2>2. "INIT_WATCH" \in OpName /\ "REBUILD_WATCH" \in OpName
    BY DEF OpName
  <2> QED
    BY <1>3, <2>1, <2>2 DEF SessionHistory, OnlyMoves, SameSession, SendRequest, IInv
<1>7. InFlight'
  BY <1>1, <1>3 DEF InFlight, OnlyMoves, SendRequest, IInv
<1>8. KnownEvents'
  BY DEF KnownEvents, SendRequest, IInv
<1>9. RequestsBehind'
  <2>1. \/ "REBUILD_WATCH" \in OpName /\ watch.step["REBUILD_WATCH"] \in {"send", "wait"}
        \/ watch'.step["REBUILD_WATCH"] = watch.step["REBUILD_WATCH"]
    BY <1>1, <1>3, <1>4 DEF OnlyMoves, OpName
  <2> QED
    BY <1>3, <2>1 DEF RequestsBehind, OnlyMoves, SameSession, SendRequest, IInv
<1>10. PositionIsLastDelivered' /\ DeliveredInOrder'
  BY <1>3 DEF PositionIsLastDelivered, DeliveredInOrder, OnlyMoves, SameSession,
              SendRequest, IInv
<1>11. AckAlive'
  BY <1>3 DEF AckAlive, IInv
<1> QED
  BY <1>5, <1>6, <1>7, <1>8, <1>9, <1>10, <1>11 DEF IInv

LEMMA ServerAnswersPreserves ==
  ASSUME IInv, NEW o \in OpName, ServerAnswers(o)
  PROVE  IInv'
<1> DEFINE first == IF o = "INIT_WATCH" THEN server ELSE asked + 1
           r == [lo |-> first, hi |-> server]
<1>1. r \in Reply /\ r.hi = server /\ r.lo = first
  BY DEF IInv, TypeOK, Reply
<1>2. reply' = [reply EXCEPT ![o] = {r}] /\ wire' = wire \ {o} /\ o \in wire
  BY DEF ServerAnswers
<1>3. o = "REBUILD_WATCH" => r.lo = asked + 1
  BY <1>1
<1> HIDE DEF first, r
<1>4. /\ reply' \in [OpName -> SUBSET Reply] /\ reply'[o] = {r}
      /\ \A p \in OpName \ {o} : reply'[p] = reply[p]
  BY <1>1, <1>2 DEF IInv, TypeOK
<1>5. TypeOK'
  BY <1>2, <1>4 DEF ServerAnswers, IInv, TypeOK
<1>6. SessionHistory' /\ PositionIsLastDelivered' /\ DeliveredInOrder' /\ AckAlive'
  BY DEF SessionHistory, PositionIsLastDelivered, DeliveredInOrder, AckAlive,
         ServerAnswers, IInv
<1>7. InFlight'
  BY <1>2, <1>4 DEF InFlight, ServerAnswers, IInv
<1>8. KnownEvents'
  <2>1. server \in Nat /\ server > 0
    BY DEF IInv, TypeOK, KnownEvents
  <2>2. \A p \in OpName : \A q \in reply'[p] : q \in reply[p] \/ q = r
    BY <1>4
  <2>3. "INIT_WATCH" \in OpName
    BY DEF OpName
  <2> QED
    BY <1>1, <2>1, <2>2, <2>3 DEF KnownEvents, ServerAnswers, IInv
<1>9. RequestsBehind'
  <2>1. o = "INIT_WATCH" \/ o = "REBUILD_WATCH"
    BY DEF OpName
  <2>2. "REBUILD_WATCH" \in OpName
    BY DEF OpName
  <2>3. \A q \in reply'["REBUILD_WATCH"] : q.lo = asked + 1
    BY <1>3, <1>4, <2>1, <2>2 DEF RequestsBehind, IInv
  <2> QED
    BY <2>3 DEF RequestsBehind, ServerAnswers, IInv
<1> QED
  BY <1>5, <1>6, <1>7, <1>8, <1>9 DEF IInv

-----------------------------------------------------------------------------
(* Steps that neither deliver events nor finish an establishment. *)

KeepsPosition ==
  /\ watch' \in Watch
  /\ watch'.currentEventId = watch.currentEventId
  /\ watch'.hasSession => watch.hasSession
  /\ watch'.inClients => watch.inClients /\ watch'.hasSession = watch.hasSession
  /\ \A o \in OpName :
       /\ watch.step[o] # "idle" => watch'.step[o] = watch.step[o]
       /\ watch.step[o] = "idle" => watch'.step[o] \in {"idle", "login"}
  /\ delivered # <<>> => watch'.step["INIT_WATCH"] = watch.step["INIT_WATCH"]
  /\ delivered = <<>> =>
       /\ watch'.step["REBUILD_WATCH"] = watch.step["REBUILD_WATCH"]
       /\ watch'.waitTimer = watch.waitTimer
  /\ watch'.status = "ACTIVE" => watch.status = "ACTIVE"

\* The network forgets, but invents nothing.
HonestTraffic ==
  /\ wire' \subseteq wire
  /\ reply' \in [OpName -> SUBSET Reply]
  /\ \A o \in OpName : reply'[o] \in {reply[o], {}}
  /\ net' \subseteq Message
  /\ server' \in Nat /\ server <= server'
  /\ \A m \in net' : m.hi <= server'

LEMMA QuietStep ==
  ASSUME IInv, KeepsPosition, HonestTraffic, AckAlive',
         UNCHANGED <<delivered, asked>>,
         userClosed' \in BOOLEAN, conn' \in ConnState, faults' \in 0..MaxFaults
  PROVE  IInv'
<1>1. TypeOK'
  BY DEF IInv, TypeOK, KeepsPosition, HonestTraffic
<1>2. "INIT_WATCH" \in OpName /\ "REBUILD_WATCH" \in OpName
  BY DEF OpName
<1>3. SessionHistory'
  BY <1>2 DEF IInv, SessionHistory, KeepsPosition
<1>4. InFlight'
  BY DEF IInv, InFlight, KeepsPosition, HonestTraffic
<1>5. KnownEvents'
  <2>1. server \in Nat /\ server' \in Nat /\ server <= server' /\ server > 0
    BY DEF IInv, TypeOK, KnownEvents, HonestTraffic
  <2>2. \A o \in OpName : \A r \in reply'[o] : r \in reply[o] /\ r \in Reply
    BY DEF HonestTraffic
  <2>3. \A o \in OpName : \A r \in reply'[o] : r.hi \in Nat /\ r.hi <= server
    BY <2>2 DEF IInv, KnownEvents, Reply
  <2>4. \A r \in reply'["INIT_WATCH"] : r.hi > 0
    BY <1>2, <2>2 DEF IInv, KnownEvents
  <2>5. \A o \in OpName : \A r \in reply'[o] : r.hi <= server'
    BY <2>1, <2>3
  <2> QED
    BY <2>1, <2>4, <2>5 DEF KnownEvents, HonestTraffic
<1>6. RequestsBehind'
  BY <1>2 DEF IInv, RequestsBehind, KeepsPosition, HonestTraffic
<1>7. PositionIsLastDelivered'
  <2>1. watch.currentEventId \in Nat /\ server \in Nat /\ server' \in Nat
        /\ server <= server' /\ watch'.currentEventId = watch.currentEventId
    BY DEF IInv, TypeOK, Watch, HonestTraffic, KeepsPosition
  <2> QED
    BY <2>1 DEF IInv, PositionIsLastDelivered, KeepsPosition
<1>8. DeliveredInOrder'
  BY DEF IInv, DeliveredInOrder
<1> QED
  BY <1>1, <1>3, <1>4, <1>5, <1>6, <1>7, <1>8 DEF IInv

LEMMA QuietTraffic ==
  ASSUME IInv, UNCHANGED <<wire, reply, server>>,
         net' \subseteq Message, \A m \in net' : m.hi <= server
  PROVE  HonestTraffic
BY DEF HonestTraffic, IInv, TypeOK

\* What onMessage and the methods it calls do keeps the position.
LEMMA DigestedKeeps ==
  ASSUME IInv, Digested(watch, watch'), watch'.currentEventId = watch.currentEventId
  PROVE  KeepsPosition /\ AckAlive'
<1>1. KeepsPosition
  <2>1. delivered = <<>> => ~watch.hasSession
    BY DEF IInv, SessionHistory
  <2> QED
    BY <2>1 DEF Digested, KeepsPosition, OpName
<1>2. AckAlive'
  BY DEF Digested, IInv, AckAlive
<1> QED
  BY <1>1, <1>2

\* Steps of the server and the network that the watch does not notice.
LEMMA UnseenPreserves ==
  ASSUME IInv, HonestTraffic, UNCHANGED <<watch, delivered, asked>>,
         userClosed' \in BOOLEAN, conn' \in ConnState, faults' \in 0..MaxFaults
  PROVE  IInv'
<1>1. KeepsPosition
  BY DEF KeepsPosition, IInv, TypeOK
<1>2. AckAlive'
  BY DEF IInv, AckAlive
<1> QED
  BY <1>1, <1>2, QuietStep

LEMMA ServerEventPreserves ==
  ASSUME IInv, ServerEvent
  PROVE  IInv'
<1> DEFINE m == [type |-> "NEXT_EVENT", lo |-> server + 1, hi |-> server + 1]
<1>1. server \in Nat /\ server' = server + 1
  BY DEF IInv, TypeOK, ServerEvent
<1>2. m \in Message /\ m.hi = server + 1
  BY <1>1 DEF Message
<1>3. net' = net \/ net' = net \cup {m}
  BY DEF ServerEvent
<1> HIDE DEF m
<1>4. net' \subseteq Message
  BY <1>2, <1>3 DEF IInv, TypeOK
<1>5. \A n \in net' : n.hi <= server'
  <2>1. \A n \in net : n.hi \in Nat /\ n.hi <= server
    BY DEF IInv, TypeOK, KnownEvents, Message
  <2>2. \A n \in net : n.hi <= server'
    BY <1>1, <2>1
  <2>3. m.hi <= server'
    BY <1>1, <1>2
  <2> QED
    BY <1>3, <2>2, <2>3
<1>6. HonestTraffic
  BY <1>1, <1>4, <1>5 DEF HonestTraffic, ServerEvent, IInv, TypeOK
<1> QED
  BY <1>6, UnseenPreserves DEF ServerEvent, IInv, TypeOK

LEMMA ServerErrorPreserves ==
  ASSUME IInv, ServerError
  PROVE  IInv'
<1> DEFINE m == [type |-> "ERROR", lo |-> 0, hi |-> 0]
<1>1. m \in Message /\ m.hi <= server
  BY DEF Message, IInv, TypeOK
<1>2. net' = net \cup {m}
  BY DEF ServerError
<1> HIDE DEF m
<1>3. HonestTraffic
  BY <1>1, <1>2, QuietTraffic DEF ServerError, IInv, TypeOK, KnownEvents
<1>4. faults' \in 0..MaxFaults
  BY FaultFacts DEF ServerError, IInv
<1> QED
  BY <1>3, <1>4, UnseenPreserves DEF ServerError, IInv, TypeOK

LEMMA LoseMessagePreserves ==
  ASSUME IInv, NEW m \in net, LoseMessage(m)
  PROVE  IInv'
<1>1. HonestTraffic
  BY QuietTraffic DEF LoseMessage, IInv, TypeOK, KnownEvents
<1>2. faults' \in 0..MaxFaults
  BY FaultFacts DEF LoseMessage, IInv
<1> QED
  BY <1>1, <1>2, UnseenPreserves DEF LoseMessage, IInv, TypeOK

LEMMA UserClosePreserves ==
  ASSUME IInv, UserClose
  PROVE  IInv'
<1>1. watch \in Watch /\ watch' = CloseWatch(watch)
  BY DEF IInv, TypeOK, UserClose
<1>2. /\ SameSession(watch, watch') /\ watch'.step = watch.step
      /\ watch'.inClients => watch.inClients
      /\ watch'.status \in {"CLOSING", "CLOSED"}
  BY <1>1, CloseWatchFacts
<1>3. KeepsPosition /\ AckAlive'
  BY <1>2 DEF KeepsPosition, SameSession, AckAlive
<1>4. HonestTraffic
  BY QuietTraffic DEF UserClose, IInv, TypeOK, KnownEvents
<1> QED
  BY <1>3, <1>4, QuietStep DEF UserClose, IInv, TypeOK

LEMMA CloseSentPreserves ==
  ASSUME IInv, CloseSent
  PROVE  IInv'
<1> DEFINE x == OnWatchClose(watch)
<1>1. watch \in Watch
  BY DEF IInv, TypeOK
<1>2. SameSession(watch, x) /\ ~x.inClients /\ x.step = watch.step
  BY <1>1, OnWatchCloseFacts
<1>3. watch' = [x EXCEPT !.closing = FALSE, !.hasSession = FALSE, !.status = "CLOSED"]
  BY DEF CloseSent
<1> HIDE DEF x
<1>4. "CLOSED" \in WatchStatus /\ x \in Watch
  BY <1>2 DEF WatchStatus, SameSession
<1>5. watch' \in Watch
  BY <1>3, <1>4, Zenon DEF Watch
<1>6. /\ watch'.currentEventId = x.currentEventId /\ watch'.waitTimer = x.waitTimer
      /\ watch'.hasSession = FALSE /\ watch'.status = "CLOSED"
      /\ watch'.inClients = x.inClients /\ watch'.step = x.step
  BY <1>3, <1>4, Zenon DEF Watch
<1>7. KeepsPosition /\ AckAlive'
  BY <1>2, <1>5, <1>6 DEF KeepsPosition, SameSession, AckAlive
<1>8. HonestTraffic
  BY QuietTraffic DEF CloseSent, IInv, TypeOK, KnownEvents
<1> QED
  BY <1>7, <1>8, QuietStep DEF CloseSent, IInv, TypeOK

\* Ending the watch by an error keeps everything else.
LEMMA EndedKeeps ==
  ASSUME IInv, SameSession(watch, watch'), watch'.step = watch.step,
         ~watch'.inClients, watch'.status # "ACTIVE"
  PROVE  KeepsPosition /\ AckAlive'
BY DEF KeepsPosition, SameSession, AckAlive

LEMMA CloseFailsPreserves ==
  ASSUME IInv, CloseFails
  PROVE  IInv'
<1> DEFINE x == [watch EXCEPT !.closing = FALSE]
           y == CloseWithError(x)
<1>1. x \in Watch
  BY Zenon DEF IInv, TypeOK, Watch
<1>2. SameSession(watch, x) /\ x.step = watch.step
  BY <1>1, Zenon DEF IInv, TypeOK, Watch, SameSession
<1> HIDE DEF x
<1>3. SameSession(x, y) /\ y.step = x.step /\ y.status = "ERRORED"
  BY <1>1, CloseWithErrorFacts
<1>4. watch' = OnWatchClose(y)
  BY DEF CloseFails, x
<1> HIDE DEF y
<1>5. /\ SameSession(y, watch') /\ watch'.step = y.step
      /\ ~watch'.inClients /\ watch'.status = y.status
  BY <1>3, <1>4, OnWatchCloseFacts DEF SameSession
<1>6. SameSession(watch, watch')
  BY <1>2, <1>3, <1>5 DEF SameSession
<1>7. KeepsPosition /\ AckAlive'
  BY <1>2, <1>3, <1>5, <1>6, EndedKeeps
<1>8. HonestTraffic
  BY QuietTraffic DEF CloseFails, IInv, TypeOK, KnownEvents
<1>9. faults' \in 0..MaxFaults
  BY FaultFacts DEF CloseFails, IInv
<1> QED
  BY <1>7, <1>8, <1>9, QuietStep DEF CloseFails, IInv, TypeOK

LEMMA SocketErrorPreserves ==
  ASSUME IInv, SocketError
  PROVE  IInv'
<1>1. watch \in Watch /\ watch' = CloseWithError(watch)
  BY DEF IInv, TypeOK, SocketError
<1>2. KeepsPosition /\ AckAlive'
  BY <1>1, CloseWithErrorFacts, EndedKeeps
<1>3. HonestTraffic
  BY QuietTraffic DEF SocketError, IInv, TypeOK, KnownEvents
<1>4. faults' \in 0..MaxFaults
  BY FaultFacts DEF SocketError, IInv
<1> QED
  BY <1>2, <1>3, <1>4, QuietStep DEF SocketError, IInv, TypeOK

LEMMA WaitTimerFiresPreserves ==
  ASSUME IInv, WaitTimerFires
  PROVE  IInv'
<1> DEFINE x == [watch EXCEPT !.waitTimer = "fired"]
<1>1. "fired" \in WaitTimer /\ "REBUILD_WATCH" \in OpName /\ watch \in Watch
  BY DEF WaitTimer, OpName, IInv, TypeOK
<1>2. x \in Watch
  BY <1>1, Zenon DEF Watch
<1>3. /\ x.hasSession = watch.hasSession /\ x.currentEventId = watch.currentEventId
      /\ x.step = watch.step /\ x.status = watch.status /\ x.inClients = watch.inClients
      /\ x.ackTimer = watch.ackTimer /\ x.acks = watch.acks
  BY <1>1, Zenon DEF Watch
<1>4. watch' = Establish(x, "REBUILD_WATCH")
  BY DEF WaitTimerFires
<1> HIDE DEF x
<1>5. /\ OnlyMoves(x, watch', "REBUILD_WATCH")
      /\ watch'.inClients = x.inClients
      /\ watch' = x \/ (watch'.step["REBUILD_WATCH"] = "login" /\ watch'.status = "LOGGINGIN"
                        /\ x.step["REBUILD_WATCH"] = "idle")
  BY <1>1, <1>2, <1>4, EstablishFacts
<1>6. delivered # <<>>
  BY DEF IInv, SessionHistory, WaitTimerFires
<1>7. KeepsPosition
  BY <1>3, <1>5, <1>6 DEF KeepsPosition, OnlyMoves, SameSession, OpName
<1>8. AckAlive'
  BY <1>3, <1>5 DEF AckAlive, IInv
<1>9. HonestTraffic
  BY QuietTraffic DEF WaitTimerFires, IInv, TypeOK, KnownEvents
<1> QED
  BY <1>7, <1>8, <1>9, QuietStep DEF WaitTimerFires, IInv, TypeOK

\* sendACK sends, or waits for another period; an ACTIVE client has a session.
LEMMA AckTimerFiresPreserves ==
  ASSUME IInv, AckTimerFires
  PROVE  IInv'
<1>1. watch \in Watch
  BY DEF IInv, TypeOK
<1>2. \/ watch' = watch
      \/ /\ watch.hasSession
         /\ watch' = [watch EXCEPT !.ackTimer = FALSE, !.acks = @ + 1]
      \/ /\ ~watch.hasSession /\ watch.status = "ACTIVE"
         /\ watch' = [watch EXCEPT !.ackTimer = FALSE]
  BY DEF AckTimerFires
<1>3. /\ watch' \in Watch
      /\ watch'.hasSession = watch.hasSession
      /\ watch'.currentEventId = watch.currentEventId
      /\ watch'.waitTimer = watch.waitTimer
      /\ watch'.step = watch.step
      /\ watch'.status = watch.status
      /\ watch'.inClients = watch.inClients
  <2>1. CASE watch' = watch
    BY <1>1, <2>1
  <2>2. CASE watch' = [watch EXCEPT !.ackTimer = FALSE, !.acks = @ + 1]
    <3>1. watch.acks + 1 \in Nat
      BY <1>1, SMT DEF Watch
    <3>2. watch' \in Watch
      BY <1>1, <2>2, <3>1, Zenon DEF Watch
    <3> QED
      BY <1>1, <2>2, <3>2, Zenon DEF Watch
  <2>3. CASE watch' = [watch EXCEPT !.ackTimer = FALSE]
    BY <1>1, <2>3, Zenon DEF Watch
  <2> QED
    BY <1>2, <2>1, <2>2, <2>3
<1>4. AckAlive'
  <2>1. CASE watch' = watch
    BY <2>1 DEF AckAlive, IInv
  <2>2. CASE watch' = [watch EXCEPT !.ackTimer = FALSE, !.acks = @ + 1]
    BY <1>1, <2>2, SMT DEF AckAlive, Watch
  <2>3. CASE ~watch.hasSession /\ watch.status = "ACTIVE"
    <3>1. ~watch.inClients
      BY <2>3 DEF IInv, SessionHistory
    <3> QED
      BY <1>3, <3>1 DEF AckAlive
  <2> QED
    BY <1>2, <2>1, <2>2, <2>3
<1>5. KeepsPosition
  BY <1>3 DEF KeepsPosition
<1>6. HonestTraffic
  BY QuietTraffic DEF AckTimerFires, IInv, TypeOK, KnownEvents
<1> QED
  BY <1>4, <1>5, <1>6, QuietStep DEF AckTimerFires, IInv, TypeOK

\* An ACK taken off its way leaves the rest of the watch alone.
LEMMA AckDoneFacts ==
  ASSUME NEW w \in Watch, w.acks > 0
  PROVE  LET v == [w EXCEPT !.acks = @ - 1] IN
           /\ SameSession(w, v) /\ v.step = w.step
           /\ v.status = w.status /\ v.inClients = w.inClients
           /\ v.tickets = w.tickets
<1>1. w.acks - 1 \in Nat
  BY SMT DEF Watch
<1>2. [w EXCEPT !.acks = @ - 1] \in Watch
  BY <1>1, Zenon DEF Watch
<1> QED
  BY <1>2, Zenon DEF Watch, SameSession

\* A scheduled ACK keeps AckAlive whatever else happened.
LEMMA ScheduledKeeps ==
  ASSUME IInv, NEW x \in Watch, watch' = ScheduleSendACK(x),
         SameSession(watch, x), x.step = watch.step,
         x.status = watch.status, x.inClients = watch.inClients
  PROVE  KeepsPosition /\ AckAlive'
BY ScheduleFacts DEF KeepsPosition, SameSession, AckAlive

LEMMA AckSentPreserves ==
  ASSUME IInv, AckSent
  PROVE  IInv'
<1> DEFINE x == [watch EXCEPT !.acks = @ - 1]
           m == [type |-> "CHECK_EVENT", lo |-> 0, hi |-> server]
<1>1. watch \in Watch /\ watch.acks > 0 /\ server \in Nat
  BY DEF IInv, TypeOK, AckSent
<1>2. /\ SameSession(watch, x) /\ x.step = watch.step
      /\ x.status = watch.status /\ x.inClients = watch.inClients
  BY <1>1, AckDoneFacts
<1>3. watch' = ScheduleSendACK(x) /\ net' = net \cup {m}
  BY DEF AckSent
<1>4. m \in Message /\ m.hi <= server
  BY <1>1 DEF Message
<1> HIDE DEF x, m
<1>5. KeepsPosition /\ AckAlive'
  BY <1>2, <1>3, ScheduledKeeps DEF SameSession
<1>6. HonestTraffic
  BY <1>3, <1>4, QuietTraffic DEF AckSent, IInv, TypeOK, KnownEvents
<1> QED
  BY <1>5, <1>6, QuietStep DEF AckSent, IInv, TypeOK

LEMMA AckFailsPreserves ==
  ASSUME IInv, AckFails
  PROVE  IInv'
<1> DEFINE x == [watch EXCEPT !.acks = @ - 1]
           y == [x EXCEPT !.tickets["CHECK_LAST"] = @ - 1]
<1>1. watch \in Watch /\ watch.acks > 0
  BY DEF IInv, TypeOK, AckFails
<1>2. /\ SameSession(watch, x) /\ x.step = watch.step
      /\ x.status = watch.status /\ x.inClients = watch.inClients
  BY <1>1, AckDoneFacts
<1>3. watch' = IF x.tickets["CHECK_LAST"] > 0 THEN ScheduleSendACK(y)
                                              ELSE CloseWithError(x)
  BY DEF AckFails
<1> HIDE DEF x
<1>4. x \in Watch
  BY <1>2 DEF SameSession
<1>5. KeepsPosition /\ AckAlive'
  <2>1. CASE x.tickets["CHECK_LAST"] > 0
    <3>0. "CHECK_LAST" \in TicketName /\ x.tickets \in [TicketName -> 0..MaxRetries]
      BY <1>4 DEF Watch, TicketName
    <3>1. x.tickets["CHECK_LAST"] - 1 \in 0..MaxRetries
      BY <2>1, <3>0, MaxRetriesAssumption, SMT
    <3>2. [x.tickets EXCEPT !["CHECK_LAST"] = @ - 1] \in [TicketName -> 0..MaxRetries]
      BY <3>0, <3>1, SMT
    <3>3. y \in Watch
      BY <1>4, <3>2, Zenon DEF Watch
    <3>4. /\ SameSession(x, y) /\ y.step = x.step
          /\ y.status = x.status /\ y.inClients = x.inClients
      BY <1>4, <3>3, Zenon DEF Watch, SameSession
    <3>5. watch' = ScheduleSendACK(y)
      BY <1>3, <2>1
    <3> HIDE DEF y
    <3>6. SameSession(watch, y)
      BY <1>2, <3>4 DEF SameSession
    <3> QED
      BY <1>2, <3>3, <3>4, <3>5, <3>6, ScheduledKeeps
  <2>2. CASE ~(x.tickets["CHECK_LAST"] > 0)
    <3>1. watch' = CloseWithError(x)
      BY <1>3, <2>2
    <3>2. SameSession(x, watch') /\ watch'.step = x.step /\ ~watch'.inClients
          /\ watch'.status = "ERRORED"
      BY <1>4, <3>1, CloseWithErrorFacts
    <3>3. SameSession(watch, watch')
      BY <1>2, <3>2 DEF SameSession
    <3> QED
      BY <1>2, <3>2, <3>3, EndedKeeps
  <2> QED
    BY <2>1, <2>2
<1>6. HonestTraffic
  BY QuietTraffic DEF AckFails, IInv, TypeOK, KnownEvents
<1>7. faults' \in 0..MaxFaults
  BY FaultFacts DEF AckFails, IInv
<1> QED
  BY <1>5, <1>6, <1>7, QuietStep DEF AckFails, IInv, TypeOK

LEMMA ConnectionOpensPreserves ==
  ASSUME IInv, ConnectionOpens
  PROVE  IInv'
<1>1. watch \in Watch
  BY DEF IInv, TypeOK
<1>2. KeepsPosition /\ AckAlive'
  <2>1. CASE watch' = watch
    BY <1>1, <2>1 DEF KeepsPosition, AckAlive, IInv
  <2>2. CASE watch.inClients /\ watch' = Resume(watch)
    <3>1. KeepsPosition
      <4>1. ~watch.hasSession => delivered = <<>>
        BY <2>2 DEF IInv, SessionHistory
      <4>2. delivered = <<>> => ~watch.hasSession
        BY DEF IInv, SessionHistory
      <4>3. \A o \in OpName :
              watch.step[o] = "idle" => watch'.step[o] \in {"idle", "login"}
        BY <1>1, <2>2, ResumeFacts
      <4>4. /\ SameSession(watch, watch') /\ watch'.inClients = watch.inClients
            /\ watch'.status # "ACTIVE"
            /\ watch.hasSession => watch'.step["INIT_WATCH"] = watch.step["INIT_WATCH"]
            /\ ~watch.hasSession => watch'.step["REBUILD_WATCH"] = watch.step["REBUILD_WATCH"]
            /\ \A o \in OpName : watch.step[o] # "idle" => watch'.step[o] = watch.step[o]
        BY <1>1, <2>2, ResumeFacts
      <4> QED
        BY <4>1, <4>2, <4>3, <4>4 DEF KeepsPosition, SameSession
    <3> QED
      BY <1>1, <2>2, <3>1, ResumeFacts DEF AckAlive
  <2> QED
    BY <2>1, <2>2 DEF ConnectionOpens
<1>3. HonestTraffic
  BY QuietTraffic DEF ConnectionOpens, IInv, TypeOK, KnownEvents
<1> QED
  BY <1>2, <1>3, QuietStep DEF ConnectionOpens, IInv, TypeOK, ConnState

LEMMA ConnectionLostPreserves ==
  ASSUME IInv, ConnectionLost
  PROVE  IInv'
<1>1. watch \in Watch
  BY DEF IInv, TypeOK
<1>2. watch' = watch \/ watch' = Pause(watch)
  BY DEF ConnectionLost
<1>3. KeepsPosition /\ AckAlive'
  <2>1. CASE watch' = watch
    BY <1>1, <2>1 DEF KeepsPosition, AckAlive, IInv
  <2>2. CASE watch' = Pause(watch)
    BY <1>1, <2>2, PauseFacts DEF KeepsPosition, SameSession, AckAlive
  <2> QED
    BY <1>2, <2>1, <2>2
<1>4. HonestTraffic
  BY DEF HonestTraffic, ConnectionLost, IInv, TypeOK
<1>5. faults' \in 0..MaxFaults
  BY FaultFacts DEF ConnectionLost, IInv
<1> QED
  BY <1>3, <1>4, <1>5, QuietStep DEF ConnectionLost, IInv, TypeOK, ConnState

\* What happens to the connection unseen by the watch.
LEMMA UnnoticedPreserves ==
  ASSUME IInv, ConnectionBegun \/ LossUnseen
  PROVE  IInv'
<1>1. KeepsPosition /\ AckAlive'
  BY DEF ConnectionBegun, LossUnseen, KeepsPosition, AckAlive, IInv, TypeOK
<1>2. HonestTraffic
  <2>1. CASE ConnectionBegun
    BY <2>1, QuietTraffic DEF ConnectionBegun, IInv, TypeOK, KnownEvents
  <2>2. CASE LossUnseen
    BY <2>2 DEF HonestTraffic, LossUnseen, IInv, TypeOK
  <2> QED
    BY <2>1, <2>2
<1>3. faults' \in 0..MaxFaults
  BY FaultFacts DEF ConnectionBegun, LossUnseen, IInv, TypeOK
<1> QED
  BY <1>1, <1>2, <1>3, QuietStep DEF ConnectionBegun, LossUnseen, IInv, TypeOK, ConnState

LEMMA ConnectionGivenUpPreserves ==
  ASSUME IInv, ConnectionGivenUp
  PROVE  IInv'
<1>0. PICK closes \in BOOLEAN :
        LET w == IF closes /\ watch.inClients THEN CloseWithError(watch) ELSE watch
        IN watch' = IF \E o \in OpName : w.step[o] = "reconnect"
                      THEN Retry(w, CHOOSE o \in OpName : w.step[o] = "reconnect")
                      ELSE w
  BY DEF ConnectionGivenUp, GivenUpCloses
<1> DEFINE w == IF closes /\ watch.inClients THEN CloseWithError(watch) ELSE watch
           o == CHOOSE o \in OpName : w.step[o] = "reconnect"
<1>1. watch \in Watch
  BY DEF IInv, TypeOK
<1>2. watch' = IF \E p \in OpName : w.step[p] = "reconnect" THEN Retry(w, o) ELSE w
  BY <1>0
<1>3. w = watch \/ w = CloseWithError(watch)
  OBVIOUS
<1>4. (\E p \in OpName : w.step[p] = "reconnect") => o \in OpName /\ w.step[o] = "reconnect"
  OBVIOUS
<1> HIDE DEF w, o
<1>5. /\ SameSession(watch, w) /\ w.step = watch.step
      /\ w = watch \/ (~w.inClients /\ w.status = "ERRORED")
  BY <1>1, <1>3, CloseWithErrorFacts, Zenon DEF SameSession
<1>6. faults' \in 0..MaxFaults /\ conn' \in ConnState
  BY FaultFacts DEF ConnectionGivenUp, IInv, ConnState
<1>7. CASE \E p \in OpName : w.step[p] = "reconnect"
  <2>1. o \in OpName /\ watch.step[o] = "reconnect" /\ watch' = Retry(w, o)
    BY <1>2, <1>4, <1>5, <1>7
  <2>2. Handled(w, watch', o, Up)
    BY <1>5, <2>1, RetryHandled DEF SameSession
  <2>3. watch'.status = "PAUSED" => w.status = "PAUSED"
    BY <1>5, <2>1, RetryFacts DEF SameSession
  <2>4. Handled(watch, watch', o, Up)
    BY <1>5, <2>2, <2>3 DEF Handled, OnlyMoves, SameSession
  <2>5. DropsRequest(o)
    BY <2>1, NothingInFlight DEF ConnectionGivenUp
  <2> QED
    BY <1>6, <2>1, <2>4, <2>5, HandledStep DEF ConnectionGivenUp
<1>8. CASE ~\E p \in OpName : w.step[p] = "reconnect"
  <2>1. watch' = w
    BY <1>2, <1>8
  <2>2. KeepsPosition /\ AckAlive'
    BY <1>5, <2>1 DEF KeepsPosition, SameSession, AckAlive, IInv
  <2>3. HonestTraffic
    BY QuietTraffic DEF ConnectionGivenUp, IInv, TypeOK, KnownEvents
  <2> QED
    BY <1>6, <2>2, <2>3, QuietStep DEF ConnectionGivenUp, IInv, TypeOK
<1> QED
  BY <1>7, <1>8

-----------------------------------------------------------------------------
(* Steps that deliver events. *)

LEMMA ConcatFacts ==
  ASSUME NEW h \in Seq(Nat), NEW f \in Seq(Nat)
  PROVE  /\ h \o f \in Seq(Nat)
         /\ Len(h \o f) = Len(h) + Len(f)
         /\ \A i \in 1..Len(h) : (h \o f)[i] = h[i]
         /\ \A i \in 1..Len(f) : (h \o f)[Len(h) + i] = f[i]
OBVIOUS

\* h is a history without gaps that ends with event c.
InOrderUpTo(h, c) ==
  /\ h \in Seq(Nat) /\ h # <<>> /\ c \in Nat /\ h[Len(h)] = c
  /\ \A i \in 1..(Len(h) - 1) : h[i + 1] = h[i] + 1

\* f are the events after c up to hi.
EventsAfter(f, c, hi) ==
  /\ f \in Seq(Nat) /\ hi \in Nat /\ c < hi /\ Len(f) = hi - c
  /\ \A k \in 1..(hi - c) : f[k] = c + k

\* Appending the events after the last one keeps a history in order.
LEMMA FollowOn ==
  ASSUME NEW h, NEW c, InOrderUpTo(h, c), NEW f, NEW hi, EventsAfter(f, c, hi)
  PROVE  InOrderUpTo(h \o f, hi)
<1> DEFINE g == h \o f
<1>1. /\ h \in Seq(Nat) /\ h # <<>> /\ c \in Nat /\ h[Len(h)] = c
      /\ \A i \in 1..(Len(h) - 1) : h[i + 1] = h[i] + 1
      /\ f \in Seq(Nat) /\ hi \in Nat /\ c < hi /\ Len(f) = hi - c
      /\ \A k \in 1..(hi - c) : f[k] = c + k
  BY DEF InOrderUpTo, EventsAfter
<1>2. /\ g \in Seq(Nat) /\ Len(g) = Len(h) + (hi - c)
      /\ \A i \in 1..Len(h) : g[i] = h[i]
      /\ \A i \in 1..(hi - c) : g[Len(h) + i] = c + i
  <2>1. /\ g \in Seq(Nat) /\ Len(g) = Len(h) + Len(f)
        /\ \A i \in 1..Len(h) : g[i] = h[i]
        /\ \A i \in 1..Len(f) : g[Len(h) + i] = f[i]
    BY <1>1, ConcatFacts
  <2> HIDE DEF g
  <2> QED
    BY <1>1, <2>1
<1> HIDE DEF g
<1>3. Len(h) \in Nat /\ Len(h) > 0
  BY <1>1
<1>4. g # <<>> /\ g[Len(g)] = hi
  <2>1. hi - c \in 1..(hi - c) /\ c + (hi - c) = hi
    BY <1>1
  <2>2. g[Len(h) + (hi - c)] = hi
    BY <1>1, <1>2, <2>1
  <2> QED
    BY <1>1, <1>2, <1>3, <2>2
<1>5. ASSUME NEW i \in 1..(Len(g) - 1) PROVE g[i + 1] = g[i] + 1
  <2>1. i \in Nat /\ i >= 1 /\ i < Len(h) + (hi - c)
    BY <1>1, <1>2, <1>3
  <2>2. CASE i < Len(h)
    <3>1. i \in 1..Len(h) /\ i + 1 \in 1..Len(h) /\ i \in 1..(Len(h) - 1)
      BY <1>1, <1>3, <2>1, <2>2
    <3> QED
      BY <1>1, <1>2, <3>1
  <2>3. CASE i = Len(h)
    <3>1. 1 \in 1..(hi - c) /\ Len(h) \in 1..Len(h)
      BY <1>1, <1>3
    <3>2. g[i + 1] = c + 1
      BY <1>1, <1>2, <2>3, <3>1
    <3>3. g[i] = c
      BY <1>1, <1>2, <2>3, <3>1
    <3> QED
      BY <1>1, <3>2, <3>3
  <2>4. CASE i > Len(h)
    <3>1. PICK j \in 1..(hi - c) : i = Len(h) + j /\ j + 1 \in 1..(hi - c)
      <4>1. i - Len(h) \in 1..(hi - c) /\ i = Len(h) + (i - Len(h))
            /\ (i - Len(h)) + 1 \in 1..(hi - c)
        BY <1>1, <1>3, <2>1, <2>4
      <4> QED
        BY <4>1
    <3>2. i + 1 = Len(h) + (j + 1)
      BY <1>1, <1>3, <3>1
    <3>3. g[i] = c + j /\ g[i + 1] = c + (j + 1)
      BY <1>1, <1>2, <3>1, <3>2
    <3> QED
      BY <1>1, <3>3
  <2> QED
    BY <1>1, <1>3, <2>1, <2>2, <2>3, <2>4
<1> QED
  BY <1>1, <1>2, <1>4, <1>5 DEF g, InOrderUpTo

\* Delivering the events up to hi and moving the position there.
LEMMA FollowPosition ==
  ASSUME IInv, watch.hasSession, NEW hi \in Nat,
         watch.currentEventId < hi, hi <= server,
         delivered' = delivered \o
           [k \in 1..(hi - watch.currentEventId) |-> watch.currentEventId + k],
         watch'.currentEventId = hi, server' = server
  PROVE  /\ delivered # <<>> /\ delivered' # <<>>
         /\ delivered' \in Seq(Nat)
         /\ DeliveredInOrder' /\ PositionIsLastDelivered'
<1> DEFINE c == watch.currentEventId
           f == [k \in 1..(hi - c) |-> c + k]
<1>1. InOrderUpTo(delivered, c)
  BY DEF InOrderUpTo, IInv, TypeOK, Watch, PositionIsLastDelivered, DeliveredInOrder
<1>2. c \in Nat /\ delivered # <<>> /\ delivered' = delivered \o f /\ c < hi
  BY <1>1 DEF InOrderUpTo
<1> HIDE DEF c
<1>3. EventsAfter(f, c, hi)
  <2>1. hi - c \in Nat
    BY <1>2
  <2>2. f \in [1..(hi - c) -> Nat] /\ \A k \in 1..(hi - c) : f[k] = c + k
    BY <1>2
  <2> HIDE DEF f
  <2>3. f \in Seq(Nat) /\ Len(f) = hi - c
    BY <2>1, <2>2
  <2> QED
    BY <1>2, <2>2, <2>3 DEF EventsAfter
<1> HIDE DEF f
<1>4. InOrderUpTo(delivered', hi)
  BY <1>1, <1>2, <1>3, FollowOn
<1> QED
  BY <1>2, <1>4 DEF InOrderUpTo, DeliveredInOrder, PositionIsLastDelivered

\* A step of a watch that has delivered something, and may deliver more.
LEMMA ProgressStep ==
  ASSUME IInv, HonestTraffic, UNCHANGED asked,
         userClosed' \in BOOLEAN, conn' \in ConnState, faults' \in 0..MaxFaults,
         watch' \in Watch, watch'.hasSession = watch.hasSession,
         watch'.inClients => watch.inClients,
         watch'.step["INIT_WATCH"] = watch.step["INIT_WATCH"],
         watch'.step["REBUILD_WATCH"] \in {"send", "wait"} =>
           watch'.step["REBUILD_WATCH"] = watch.step["REBUILD_WATCH"],
         watch.currentEventId <= watch'.currentEventId,
         delivered # <<>>, delivered' # <<>>, delivered' \in Seq(Nat),
         DeliveredInOrder', PositionIsLastDelivered', InFlight', AckAlive'
  PROVE  IInv'
<1>1. TypeOK'
  BY DEF IInv, TypeOK, HonestTraffic
<1>2. SessionHistory'
  BY DEF IInv, SessionHistory
<1>3. KnownEvents'
  <2>1. server \in Nat /\ server' \in Nat /\ server <= server' /\ server > 0
    BY DEF IInv, TypeOK, KnownEvents, HonestTraffic
  <2>2. \A o \in OpName : \A r \in reply'[o] : r \in reply[o] /\ r \in Reply
    BY DEF HonestTraffic
  <2>3. \A o \in OpName : \A r \in reply'[o] : r.hi \in Nat /\ r.hi <= server
    BY <2>2 DEF IInv, KnownEvents, Reply
  <2>4. \A r \in reply'["INIT_WATCH"] : r.hi > 0
    BY <2>2 DEF IInv, KnownEvents, OpName
  <2>5. \A o \in OpName : \A r \in reply'[o] : r.hi <= server'
    BY <2>1, <2>3
  <2> QED
    BY <2>1, <2>4, <2>5 DEF KnownEvents, HonestTraffic
<1>4. RequestsBehind'
  <2>1. watch.currentEventId \in Nat /\ watch'.currentEventId \in Nat /\ asked \in Nat
    BY DEF IInv, TypeOK, Watch
  <2>2. \A r \in reply'["REBUILD_WATCH"] : r \in reply["REBUILD_WATCH"]
    BY DEF HonestTraffic, OpName
  <2> QED
    BY <2>1, <2>2 DEF IInv, RequestsBehind
<1> QED
  BY <1>1, <1>2, <1>3, <1>4 DEF IInv

LEMMA ReceivePreserves ==
  ASSUME IInv, NEW m \in net, NEW keep \in BOOLEAN, NEW closes \in BOOLEAN,
         Receive(m, keep, closes)
  PROVE  IInv'
<1> DEFINE x == OnMessage(watch, m)
           routed == watch.inClients \/ (watch.inQueryMap /\ m.type # "ERROR")
           fresh == IF routed THEN Delivered(watch, m) ELSE <<>>
<1>1. watch \in Watch /\ m \in Message /\ m.hi <= server
  BY DEF IInv, TypeOK, KnownEvents
<1>2. /\ Digested(watch, x)
      /\ x.currentEventId =
           IF Delivered(watch, m) # <<>> THEN m.hi ELSE watch.currentEventId
  BY <1>1, OnMessageFacts
<1>3. /\ watch' = IF routed THEN CloseInCallback(x, closes) ELSE watch
      /\ delivered' = delivered \o fresh
      /\ closes => fresh # <<>>
      /\ userClosed' \in BOOLEAN
  BY DEF Receive, MayClose, IInv, TypeOK
<1>4. faults' \in 0..MaxFaults
  BY FaultFacts DEF Receive, IInv
<1>5. HonestTraffic
  BY QuietTraffic DEF Receive, IInv, TypeOK, KnownEvents
<1>6. UNCHANGED <<conn, server, asked, wire, reply>>
  BY DEF Receive
<1>7. CASE fresh = <<>>
  <2>1. delivered' = delivered
    BY <1>3, <1>7 DEF IInv, TypeOK
  <2>2. watch' = watch \/ (watch' = x /\ Delivered(watch, m) = <<>>)
    BY <1>3, <1>7 DEF CloseInCallback
  <2> HIDE DEF x
  <2>3. KeepsPosition /\ AckAlive'
    <3>1. CASE watch' = watch
      BY <1>1, <3>1 DEF KeepsPosition, AckAlive, IInv
    <3>2. CASE watch' = x /\ Delivered(watch, m) = <<>>
      BY <1>2, <3>2, DigestedKeeps
    <3> QED
      BY <2>2, <3>1, <3>2
  <2> QED
    BY <1>4, <1>5, <1>6, <1>3, <2>1, <2>3, QuietStep DEF IInv, TypeOK
<1>8. CASE fresh # <<>>
  <2>1. /\ routed /\ fresh = Delivered(watch, m) /\ Delivered(watch, m) # <<>>
    BY <1>8
  <2>2. /\ watch.hasSession /\ watch.currentEventId < m.hi /\ m.hi \in Nat
        /\ Delivered(watch, m) =
             [k \in 1..(m.hi - watch.currentEventId) |-> watch.currentEventId + k]
    BY <1>1, <2>1, DeliveredFacts DEF Message
  <2>3. delivered' = delivered \o
          [k \in 1..(m.hi - watch.currentEventId) |-> watch.currentEventId + k]
    BY <1>3, <2>1, <2>2
  <2>4. watch' = x \/ watch' = CloseWatch(x)
    BY <1>3, <2>1 DEF CloseInCallback
  <2> HIDE DEF x, fresh, routed
  <2>5. x \in Watch /\ x.currentEventId = m.hi
    BY <1>2, <2>1 DEF Digested
  <2>6. /\ SameSession(x, watch') /\ watch'.step = x.step
        /\ watch'.inClients => x.inClients
        /\ watch' = x \/ watch'.status # "ACTIVE"
    BY <2>4, <2>5, CloseWatchFacts DEF SameSession
  <2>7. /\ delivered # <<>> /\ delivered' # <<>> /\ delivered' \in Seq(Nat)
        /\ DeliveredInOrder' /\ PositionIsLastDelivered'
    <3>1. watch'.currentEventId = m.hi
      BY <2>5, <2>6 DEF SameSession
    <3> QED
      BY <1>1, <1>6, <2>2, <2>3, <3>1, FollowPosition
  <2>8. \A o \in OpName : watch.step[o] # "idle" => watch'.step[o] = watch.step[o]
    BY <1>2, <2>6 DEF Digested, OpName
  <2>9. InFlight'
    BY <1>6, <2>8 DEF InFlight, IInv
  <2>10. AckAlive'
    <3>1. watch'.status = "ACTIVE" => watch'.ackTimer = TRUE \/ watch' = watch
      BY <1>2, <2>6 DEF Digested
    <3> QED
      BY <3>1 DEF AckAlive, IInv
  <2>11. /\ watch' \in Watch /\ watch'.hasSession = watch.hasSession
         /\ watch'.inClients => watch.inClients
         /\ watch'.step["INIT_WATCH"] = watch.step["INIT_WATCH"]
         /\ watch'.step["REBUILD_WATCH"] \in {"send", "wait"} =>
              watch'.step["REBUILD_WATCH"] = watch.step["REBUILD_WATCH"]
    BY <1>2, <2>6 DEF Digested, SameSession
  <2>12. watch.currentEventId <= watch'.currentEventId
    BY <1>1, <2>2, <2>5, <2>6 DEF SameSession, Watch
  <2> QED
    BY <1>3, <1>4, <1>5, <1>6, <2>7, <2>9, <2>10, <2>11, <2>12, ProgressStep
       DEF IInv, TypeOK
<1> QED
  BY <1>7, <1>8

\* The end of an establishment: an ACTIVE watch.
LEMMA ActivateFacts ==
  ASSUME NEW w \in Watch, NEW o \in OpName
  PROVE  LET v == [w EXCEPT !.status = "ACTIVE", !.tickets[o] = MaxRetries,
                            !.step[o] = "idle"]
         IN /\ OnlyMoves(w, v, o)
            /\ v.step[o] = "idle" /\ v.ackTimer = w.ackTimer
<1> DEFINE v == [w EXCEPT !.status = "ACTIVE", !.tickets[o] = MaxRetries, !.step[o] = "idle"]
<1>1. "ACTIVE" \in WatchStatus
  BY DEF WatchStatus
<1>2. [w.step EXCEPT ![o] = "idle"] \in [OpName -> Step]
  BY DEF Watch, Step
<1>3. [w.tickets EXCEPT ![o] = MaxRetries] \in [TicketName -> 0..MaxRetries]
  <2>1. w.tickets \in [TicketName -> 0..MaxRetries] /\ MaxRetries \in 0..MaxRetries
    BY MaxRetriesAssumption, SMT DEF Watch
  <2> QED
    BY <2>1
<1>4. v \in Watch
  BY <1>1, <1>2, <1>3, Zenon DEF Watch
<1> QED
  BY <1>4, SMT DEF Watch, OnlyMoves, SameSession

\* A rebuild delivers what is new in its response and leaves an ACTIVE watch,
\* even where close() was called meanwhile.
LEMMA RebuildReplyPreserves ==
  ASSUME IInv, NEW r \in reply["REBUILD_WATCH"], NEW closes \in BOOLEAN,
         RebuildReply(r, closes)
  PROVE  IInv'
<1> DEFINE fresh == Fresh(watch, r.lo, r.hi)
           x == HandleServerEvents(watch, r.lo, r.hi)
           y == CloseInCallback(x, closes)
<1>1. "REBUILD_WATCH" \in OpName /\ "INIT_WATCH" \in OpName \ {"REBUILD_WATCH"}
  BY DEF OpName
<1>2. /\ watch \in Watch /\ r.lo \in Nat /\ r.hi \in Nat /\ r.hi <= server
      /\ watch.step["REBUILD_WATCH"] = "wait"
  BY <1>1 DEF IInv, TypeOK, Reply, KnownEvents, RebuildReply
<1>3. /\ Digested(watch, x) /\ x.ackTimer = TRUE
      /\ x.currentEventId = IF fresh # <<>> THEN r.hi ELSE watch.currentEventId
  BY <1>2, HandleServerEventsFacts
<1>4. /\ delivered' = delivered \o fresh
      /\ watch' = [y EXCEPT !.status = "ACTIVE", !.tickets["REBUILD_WATCH"] = MaxRetries,
                            !.step["REBUILD_WATCH"] = "idle"]
      /\ userClosed' \in BOOLEAN
      /\ reply' = [reply EXCEPT !["REBUILD_WATCH"] = {}]
      /\ UNCHANGED <<conn, server, asked, wire, net, faults>>
  BY DEF RebuildReply, MayClose, IInv, TypeOK
<1>14. UNCHANGED <<conn, server, asked, wire, net, faults>>
  BY <1>4
<1>5. y = x \/ y = CloseWatch(x)
  BY DEF CloseInCallback
<1>6. /\ fresh # <<>> =>
           /\ watch.hasSession /\ watch.currentEventId < r.hi
           /\ fresh = [k \in 1..(r.hi - watch.currentEventId) |-> watch.currentEventId + k]
  BY <1>2, FreshFacts
<1> HIDE DEF x, y, fresh
<1>7. /\ SameSession(x, y) /\ y.step = x.step
      /\ y.inClients => x.inClients
      /\ y.ackTimer = TRUE
  BY <1>3, <1>5, CloseWatchFacts DEF Digested, SameSession
<1>8. /\ OnlyMoves(y, watch', "REBUILD_WATCH")
      /\ watch'.step["REBUILD_WATCH"] = "idle" /\ watch'.ackTimer = TRUE
  BY <1>1, <1>4, <1>7, ActivateFacts DEF SameSession
<1>9. /\ watch' \in Watch /\ watch'.hasSession = watch.hasSession
      /\ watch'.inClients => watch.inClients
      /\ watch'.step["INIT_WATCH"] = watch.step["INIT_WATCH"]
      /\ watch'.currentEventId = x.currentEventId
  BY <1>1, <1>3, <1>7, <1>8 DEF Digested, SameSession, OnlyMoves
<1>10. HonestTraffic
  <2>1. /\ reply' \in [OpName -> SUBSET Reply]
        /\ \A o \in OpName : reply'[o] \in {reply[o], {}}
    BY <1>1, <1>4 DEF IInv, TypeOK
  <2> QED
    BY <1>14, <2>1 DEF HonestTraffic, IInv, TypeOK, KnownEvents
<1>11. AckAlive'
  BY <1>8 DEF AckAlive
<1>12. InFlight'
  <2>1. wire' = wire /\ "REBUILD_WATCH" \notin wire
    BY <1>1, <1>4 DEF IInv, InFlight
  <2>2. /\ reply'["REBUILD_WATCH"] = {}
        /\ \A o \in OpName \ {"REBUILD_WATCH"} : reply'[o] = reply[o]
    BY <1>1, <1>4 DEF IInv, TypeOK
  <2>3. \A o \in OpName \ {"REBUILD_WATCH"} : watch'.step[o] = watch.step[o]
    BY <1>9 DEF OpName
  <2> QED
    BY <2>1, <2>2, <2>3 DEF IInv, InFlight
<1>13. /\ delivered # <<>> /\ delivered' # <<>> /\ delivered' \in Seq(Nat)
       /\ DeliveredInOrder' /\ PositionIsLastDelivered'
       /\ watch.currentEventId <= watch'.currentEventId
  <2>1. delivered # <<>>
    BY <1>2 DEF IInv, SessionHistory
  <2>2. watch.currentEventId \in Nat
    BY <1>2 DEF Watch
  <2>3. CASE fresh = <<>>
    <3>1. delivered' = delivered /\ watch'.currentEventId = watch.currentEventId
      BY <1>3, <1>4, <1>9, <2>3 DEF IInv, TypeOK
    <3>2. DeliveredInOrder' /\ PositionIsLastDelivered'
      BY <1>4, <1>9, <3>1 DEF IInv, DeliveredInOrder, PositionIsLastDelivered
    <3> QED
      BY <2>1, <2>2, <3>1, <3>2 DEF IInv, TypeOK
  <2>4. CASE fresh # <<>>
    <3>1. watch'.currentEventId = r.hi /\ watch.hasSession /\ watch.currentEventId < r.hi
      BY <1>3, <1>6, <1>9, <2>4
    <3>2. delivered' = delivered \o
            [k \in 1..(r.hi - watch.currentEventId) |-> watch.currentEventId + k]
      BY <1>4, <1>6, <2>4
    <3>3. /\ delivered # <<>> /\ delivered' # <<>> /\ delivered' \in Seq(Nat)
          /\ DeliveredInOrder' /\ PositionIsLastDelivered'
      BY <1>2, <1>14, <3>1, <3>2, FollowPosition, Zenon
    <3> QED
      BY <1>2, <2>2, <3>1, <3>3
  <2> QED
    BY <2>3, <2>4
<1> QED
  BY <1>4, <1>8, <1>9, <1>10, <1>11, <1>12, <1>13, ProgressStep DEF IInv, TypeOK

\* The first snapshot starts the session and the history.
LEMMA InitReplyPreserves ==
  ASSUME IInv, NEW r \in reply["INIT_WATCH"], NEW closes \in BOOLEAN,
         InitReply(r, closes)
  PROVE  IInv'
<1> DEFINE x == [watch EXCEPT !.hasSession = TRUE, !.currentEventId = r.hi,
                              !.expectEventId = 0, !.ackTimer = TRUE]
           y == CloseInCallback(x, closes)
           z == [y EXCEPT !.inQueryMap = TRUE]
<1>1. "INIT_WATCH" \in OpName /\ "REBUILD_WATCH" \in OpName \ {"INIT_WATCH"}
  BY DEF OpName
<1>2. /\ watch \in Watch /\ r.hi \in Nat /\ 0 < r.hi /\ r.hi <= server
      /\ watch.step["INIT_WATCH"] = "wait"
  BY <1>1 DEF IInv, TypeOK, Reply, KnownEvents, InitReply
<1>3. delivered = <<>> /\ watch.step["REBUILD_WATCH"] = "idle"
  BY <1>2 DEF IInv, SessionHistory
<1>4. /\ delivered' = <<r.hi>>
      /\ watch' = [y EXCEPT !.inQueryMap = TRUE, !.status = "ACTIVE",
                            !.tickets["INIT_WATCH"] = MaxRetries,
                            !.step["INIT_WATCH"] = "idle"]
      /\ userClosed' \in BOOLEAN
      /\ reply' = [reply EXCEPT !["INIT_WATCH"] = {}]
      /\ UNCHANGED <<conn, server, asked, wire, net, faults>>
  BY <1>3 DEF InitReply, MayClose, IInv, TypeOK
<1>5. y = x \/ y = CloseWatch(x)
  BY DEF CloseInCallback
<1>6. x \in Watch
  BY <1>2, Zenon DEF Watch
<1>7. /\ x.hasSession = TRUE /\ x.currentEventId = r.hi /\ x.ackTimer = TRUE
      /\ x.step = watch.step
  BY <1>2, Zenon DEF Watch
<1> HIDE DEF x, y
<1>8. /\ y \in Watch /\ y.hasSession = TRUE /\ y.currentEventId = r.hi /\ y.ackTimer = TRUE
      /\ y.step = watch.step
  BY <1>5, <1>6, <1>7, CloseWatchFacts DEF SameSession
<1>9. /\ watch' \in Watch /\ watch'.hasSession = TRUE /\ watch'.currentEventId = r.hi
      /\ watch'.ackTimer = TRUE
      /\ watch'.step["INIT_WATCH"] = "idle" /\ watch'.step["REBUILD_WATCH"] = "idle"
  <2>1. z \in Watch
    BY <1>8, Zenon DEF Watch
  <2>2. /\ z.hasSession = TRUE /\ z.currentEventId = r.hi /\ z.ackTimer = TRUE
        /\ z.step = watch.step
    BY <1>8, Zenon DEF Watch
  <2>3. watch' = [z EXCEPT !.status = "ACTIVE", !.tickets["INIT_WATCH"] = MaxRetries,
                           !.step["INIT_WATCH"] = "idle"]
    BY <1>4, <1>8 DEF Watch
  <2> HIDE DEF z
  <2>4. OnlyMoves(z, watch', "INIT_WATCH")
        /\ watch'.step["INIT_WATCH"] = "idle" /\ watch'.ackTimer = z.ackTimer
    BY <1>1, <2>1, <2>3, ActivateFacts
  <2> QED
    BY <1>1, <1>3, <2>2, <2>4 DEF OnlyMoves, SameSession
<1>10. TypeOK'
  <2>1. reply' \in [OpName -> SUBSET Reply]
    BY <1>4 DEF IInv, TypeOK
  <2>2. delivered' \in Seq(Nat)
    BY <1>2, <1>4
  <2> QED
    BY <1>4, <1>9, <2>1, <2>2 DEF IInv, TypeOK
<1>11. SessionHistory'
  <2>1. delivered' # <<>>
    BY <1>4
  <2> QED
    BY <1>9, <2>1 DEF SessionHistory
<1>12. InFlight'
  <2>1. "INIT_WATCH" \notin wire /\ "REBUILD_WATCH" \notin wire /\ reply["REBUILD_WATCH"] = {}
    BY <1>1, <1>2, <1>3 DEF IInv, InFlight, InitReply
  <2>2. reply'["INIT_WATCH"] = {} /\ reply'["REBUILD_WATCH"] = {}
    BY <1>1, <1>4, <2>1 DEF IInv, TypeOK
  <2> QED
    BY <1>4, <2>1, <2>2 DEF InFlight, OpName
<1>13. KnownEvents'
  <2>1. /\ reply'["INIT_WATCH"] = {}
        /\ \A o \in OpName \ {"INIT_WATCH"} : reply'[o] = reply[o]
    BY <1>1, <1>4 DEF IInv, TypeOK
  <2> QED
    BY <1>4, <2>1 DEF IInv, KnownEvents
<1>14. RequestsBehind'
  <2>1. reply'["REBUILD_WATCH"] = {}
    BY <1>1, <1>3, <1>4 DEF IInv, TypeOK, InFlight
  <2> QED
    BY <1>9, <2>1 DEF RequestsBehind
<1>15. PositionIsLastDelivered' /\ DeliveredInOrder'
  <2>1. Len(delivered') = 1 /\ delivered'[1] = r.hi /\ delivered' # <<>>
    BY <1>4
  <2> QED
    BY <1>2, <1>4, <1>9, <2>1 DEF PositionIsLastDelivered, DeliveredInOrder
<1>16. AckAlive'
  BY <1>9 DEF AckAlive
<1> QED
  BY <1>10, <1>11, <1>12, <1>13, <1>14, <1>15, <1>16 DEF IInv

-----------------------------------------------------------------------------
(* The invariant. *)

LEMMA InitEstablishes ==
  ASSUME Init
  PROVE  IInv
<1>1. "INIT_WATCH" \in OpName /\ "REBUILD_WATCH" \in OpName
  BY DEF OpName
<1>2. watch \in Watch
  <2> DEFINE step == [o \in OpName |-> IF o = "INIT_WATCH" THEN "login" ELSE "idle"]
             tickets == [t \in TicketName |-> MaxRetries]
  <2>1. step \in [OpName -> Step]
    BY DEF Step
  <2>2. tickets \in [TicketName -> 0..MaxRetries]
    BY MaxRetriesAssumption
  <2>3. "LOGGINGIN" \in WatchStatus /\ "none" \in WaitTimer /\ 0 \in Nat
    BY DEF WatchStatus, WaitTimer
  <2>4. watch = [status |-> "LOGGINGIN", hasSession |-> FALSE,
                 currentEventId |-> 0, expectEventId |-> 0, step |-> step,
                 tickets |-> tickets, ackTimer |-> FALSE, acks |-> 0,
                 waitTimer |-> "none", closing |-> FALSE,
                 inClients |-> TRUE, inQueryMap |-> FALSE]
    BY DEF Init
  <2> HIDE DEF step, tickets
  <2> QED
    BY <2>1, <2>2, <2>3, <2>4, Zenon DEF Watch
<1>3. TypeOK
  <2>1. conn \in ConnState
    BY InitialConnAssumption DEF Init, ConnState
  <2>2. faults \in 0..MaxFaults
    BY BoundsAssumption DEF Init
  <2>3. delivered \in Seq(Nat) /\ reply \in [OpName -> SUBSET Reply]
    BY DEF Init
  <2> QED
    BY <1>2, <2>1, <2>2, <2>3 DEF Init, TypeOK
<1>4. /\ watch.hasSession = FALSE /\ watch.waitTimer = "none"
      /\ watch.status = "LOGGINGIN" /\ watch.step["REBUILD_WATCH"] = "idle"
  BY <1>1 DEF Init
<1>5. SessionHistory /\ PositionIsLastDelivered /\ AckAlive
  BY <1>4 DEF Init, SessionHistory, PositionIsLastDelivered, AckAlive
<1>6. InFlight /\ KnownEvents
  BY <1>1 DEF Init, InFlight, KnownEvents
<1>7. RequestsBehind /\ DeliveredInOrder
  BY <1>1, <1>4 DEF Init, RequestsBehind, DeliveredInOrder
<1> QED
  BY <1>3, <1>5, <1>6, <1>7 DEF IInv

LEMMA StutterPreserves ==
  ASSUME IInv, UNCHANGED vars
  PROVE  IInv'
BY UnseenPreserves DEF vars, IInv, TypeOK, KnownEvents, HonestTraffic

LEMMA NextPreserves ==
  ASSUME IInv, [Next]_vars
  PROVE  IInv'
<1>1. CASE EstablishStep
  <2>1. ASSUME NEW o \in OpName, LoginReturns(o) PROVE IInv'
    BY <2>1, LoginCancelledPreserves, LoginOkPreserves DEF LoginReturns
  <2>2. ASSUME NEW o \in OpName, SendRequest(o) \/ SendFails(o) \/ SendTimesOut(o)
        PROVE  IInv'
    BY <2>2, SendRequestPreserves, SendFailsPreserves, SendTimesOutPreserves
  <2>3. ASSUME NEW o \in OpName, EndSleep(o) \/ Reconnected(o) PROVE IInv'
    BY <2>3, EndSleepPreserves, ReconnectedPreserves
  <2>4. ASSUME ReplyArrives PROVE IInv'
    BY <2>4, InitReplyPreserves, RebuildReplyPreserves DEF ReplyArrives
  <2> QED
    BY <1>1, <2>1, <2>2, <2>3, <2>4, SessionMissingPreserves, LoginFailsPreserves,
       ErrorReplyPreserves DEF EstablishStep
<1>2. CASE MessageStep
  BY <1>2, ReceivePreserves, AckTimerFiresPreserves, AckSentPreserves,
     AckFailsPreserves, WaitTimerFiresPreserves DEF MessageStep
<1>3. CASE UserStep
  BY <1>3, UserClosePreserves, CloseSentPreserves, CloseFailsPreserves DEF UserStep
<1>4. CASE ConnectionStep
  BY <1>4, ConnectionOpensPreserves, ConnectionLostPreserves, UnnoticedPreserves,
     SocketErrorPreserves, ConnectionGivenUpPreserves DEF ConnectionStep
<1>5. CASE ServerStep
  BY <1>5, ServerEventPreserves, ServerErrorPreserves, ServerAnswersPreserves,
     LoseMessagePreserves DEF ServerStep
<1> QED
  BY <1>1, <1>2, <1>3, <1>4, <1>5, StutterPreserves DEF Next

\* The inductive invariant holds in every reachable state: of any number of
\* events, faults, acknowledgements and retries.
THEOREM Invariance == Spec => []IInv
<1>1. Init => IInv
  BY InitEstablishes
<1>2. IInv /\ [Next]_vars => IInv'
  BY NextPreserves
<1> QED
  BY <1>1, <1>2, PTL DEF Spec

\* The methods of VirtualWebSocketClient keep its fields in their types, and
\* the retry tickets of useRetryTicket never go below 0.
THEOREM TypeCorrect == Spec => []TypeOK
<1>1. IInv => TypeOK
  BY DEF IInv
<1> QED
  BY <1>1, Invariance, PTL

\* The user of watch() is given consecutive events, whatever is lost, repeated
\* or reordered (_handleServerEvents).
THEOREM InOrder == Spec => []DeliveredInOrder
<1>1. IInv => DeliveredInOrder
  BY DEF IInv
<1> QED
  BY <1>1, Invariance, PTL

\* What the client tells the server of its position is what its user has seen.
THEOREM Position == Spec => []PositionIsLastDelivered
<1>1. IInv => PositionIsLastDelivered
  BY DEF IInv
<1> QED
  BY <1>1, Invariance, PTL

\* Every path that replaces the ACK timer leaves one armed (scheduleSendACK).
THEOREM AcksGoOn == Spec => []AckAlive
<1>1. IInv => AckAlive
  BY DEF IInv
<1> QED
  BY <1>1, Invariance, PTL

\* initWatch and rebuildWatch never run at once, though neither looks at the
\* other's promise.
THEOREM Exclusion == Spec => []OneEstablishment
<1>1. IInv => OneEstablishment
  BY DEF IInv, SessionHistory, OneEstablishment
<1> QED
  BY <1>1, Invariance, PTL

\* The events in a response to REBUILD_WATCH follow the position the watch has
\* when it arrives, so that rebuildWatch never finds a gap in its own response.
THEOREM RebuildFits == Spec => []RebuildReplyFits
<1>1. IInv => RebuildReplyFits
  <2> SUFFICES ASSUME IInv, NEW r \in reply["REBUILD_WATCH"], Gap(watch, r.lo, r.hi)
               PROVE  FALSE
    BY DEF RebuildReplyFits
  <2>1. watch.step["REBUILD_WATCH"] = "wait"
    BY DEF IInv, InFlight, OpName
  <2>2. r.lo = asked + 1 /\ asked <= watch.currentEventId
    BY <2>1 DEF IInv, RequestsBehind, Gap
  <2>3. asked \in Nat /\ watch.currentEventId \in Nat
    BY DEF IInv, TypeOK, Watch
  <2> QED
    BY <2>2, <2>3 DEF Gap
<1> QED
  BY <1>1, Invariance, PTL

-----------------------------------------------------------------------------
(* The watch implements its feed. *)

LEMMA FollowStep ==
  ASSUME IInv, watch.hasSession, NEW hi \in Nat,
         watch.currentEventId < hi, hi <= server, server' = server,
         delivered' = delivered \o
           [k \in 1..(hi - watch.currentEventId) |-> watch.currentEventId + k]
  PROVE  Feed!Follow
<1>1. /\ delivered # <<>> /\ delivered[Len(delivered)] = watch.currentEventId
      /\ watch.currentEventId \in Nat /\ server \in Nat
  BY DEF IInv, TypeOK, Watch, PositionIsLastDelivered
<1>2. hi - watch.currentEventId \in 1..(server - watch.currentEventId)
  BY <1>1
<1>3. \E n \in 1..(server - watch.currentEventId) :
         delivered' = delivered \o [k \in 1..n |-> watch.currentEventId + k]
  BY <1>2
<1> QED
  BY <1>1, <1>3 DEF Feed!Follow

LEMMA ReceiveFollows ==
  ASSUME IInv, NEW m \in net, NEW keep \in BOOLEAN, NEW closes \in BOOLEAN,
         Receive(m, keep, closes)
  PROVE  Feed!Follow \/ UNCHANGED <<server, delivered>>
<1>1. watch \in Watch /\ m \in Message /\ m.hi <= server /\ m.hi \in Nat
  BY DEF IInv, TypeOK, KnownEvents, Message
<1>2. server' = server
  BY DEF Receive
<1>3. delivered' = delivered \o <<>> \/ delivered' = delivered \o Delivered(watch, m)
  BY DEF Receive
<1>4. delivered \o <<>> = delivered
  BY DEF IInv, TypeOK
<1>5. CASE Delivered(watch, m) = <<>>
  BY <1>2, <1>3, <1>4, <1>5
<1>6. CASE Delivered(watch, m) # <<>>
  <2>1. /\ watch.hasSession /\ watch.currentEventId < m.hi
        /\ Delivered(watch, m) =
             [k \in 1..(m.hi - watch.currentEventId) |-> watch.currentEventId + k]
    BY <1>1, <1>6, DeliveredFacts
  <2>2. CASE delivered' = delivered \o Delivered(watch, m)
    <3>1. delivered' = delivered \o
            [k \in 1..(m.hi - watch.currentEventId) |-> watch.currentEventId + k]
      BY <2>1, <2>2
    <3> QED
      BY <1>1, <1>2, <2>1, <3>1, FollowStep
  <2> QED
    BY <1>2, <1>3, <1>4, <2>2
<1> QED
  BY <1>5, <1>6

LEMMA RebuildReplyFollows ==
  ASSUME IInv, NEW r \in reply["REBUILD_WATCH"], NEW closes \in BOOLEAN,
         RebuildReply(r, closes)
  PROVE  Feed!Follow \/ UNCHANGED <<server, delivered>>
<1>1. watch \in Watch /\ r.lo \in Nat /\ r.hi \in Nat /\ r.hi <= server
  BY DEF IInv, TypeOK, Reply, KnownEvents, OpName
<1>2. server' = server /\ delivered' = delivered \o Fresh(watch, r.lo, r.hi)
  BY DEF RebuildReply
<1>3. CASE Fresh(watch, r.lo, r.hi) = <<>>
  BY <1>2, <1>3 DEF IInv, TypeOK
<1>4. CASE Fresh(watch, r.lo, r.hi) # <<>>
  <2>1. /\ watch.hasSession /\ watch.currentEventId < r.hi
        /\ Fresh(watch, r.lo, r.hi) =
             [k \in 1..(r.hi - watch.currentEventId) |-> watch.currentEventId + k]
    BY <1>1, <1>4, FreshFacts
  <2>2. delivered' = delivered \o
          [k \in 1..(r.hi - watch.currentEventId) |-> watch.currentEventId + k]
    BY <1>2, <2>1
  <2> QED
    BY <1>1, <1>2, <2>1, <2>2, FollowStep
<1> QED
  BY <1>3, <1>4

LEMMA InitReplySnapshots ==
  ASSUME IInv, NEW r \in reply["INIT_WATCH"], NEW closes \in BOOLEAN,
         InitReply(r, closes)
  PROVE  Feed!Snapshot
<1>1. r.hi \in 1..server /\ server' = server /\ delivered' = Append(delivered, r.hi)
  BY DEF IInv, TypeOK, Reply, KnownEvents, OpName, InitReply
<1>2. delivered = <<>>
  BY DEF IInv, SessionHistory, InitReply
<1>3. delivered' = <<r.hi>>
  BY <1>1, <1>2
<1> QED
  BY <1>1, <1>2, <1>3 DEF Feed!Snapshot

\* Every step of the watch is a step of the feed, or none that it shows.
LEMMA FeedStep ==
  ASSUME IInv, [Next]_vars
  PROVE  [Feed!Next]_<<server, delivered>>
<1>1. CASE EstablishStep
  <2>1. CASE ReplyArrives
    BY <2>1, InitReplySnapshots, RebuildReplyFollows DEF ReplyArrives, Feed!Next
  <2>2. CASE ~ReplyArrives
    BY <1>1, <2>2 DEF EstablishStep, LoginReturns, LoginCancelled, LoginOk, SessionMissing,
       LoginFails, SendRequest, SendFails, SendTimesOut, ErrorReply, EndSleep, Reconnected
  <2> QED
    BY <2>1, <2>2
<1>2. CASE MessageStep
  <2>1. CASE AckTimerFires \/ AckSent \/ AckFails \/ WaitTimerFires
    BY <2>1 DEF AckTimerFires, AckSent, AckFails, WaitTimerFires
  <2>2. CASE \E m \in net, keep, closes \in BOOLEAN : Receive(m, keep, closes)
    BY <2>2, ReceiveFollows DEF Feed!Next
  <2> QED
    BY <1>2, <2>1, <2>2 DEF MessageStep
<1>3. CASE UserStep
  BY <1>3 DEF UserStep, UserClose, CloseSent, CloseFails
<1>4. CASE ConnectionStep
  BY <1>4 DEF ConnectionStep, ConnectionOpens, ConnectionLost, ConnectionBegun,
              LossUnseen, SocketError, ConnectionGivenUp
<1>5. CASE ServerStep
  <2>1. CASE ServerEvent
    BY <2>1 DEF ServerEvent, Feed!Next, Feed!Commit
  <2>2. CASE ~ServerEvent
    BY <1>5, <2>2 DEF ServerStep, ServerError, ServerAnswers, LoseMessage
  <2> QED
    BY <2>1, <2>2
<1>6. CASE UNCHANGED vars
  BY <1>6 DEF vars
<1> QED
  BY <1>1, <1>2, <1>3, <1>4, <1>5, <1>6 DEF Next

\* What onChange is given, with all the protocol behind it, is the feed that
\* watch() promises: a snapshot, then every later event once and in order.
THEOREM Refinement == Spec => ImplementsFeed
<1>1. Init => Feed!Init
  BY DEF Init, Feed!Init
<1>2. IInv /\ [Next]_vars => [Feed!Next]_<<server, delivered>>
  BY FeedStep
<1> QED
  BY <1>1, <1>2, Invariance, PTL DEF Spec, ImplementsFeed, Feed!Spec

=============================================================================
