----------------------------- MODULE WatchObject -----------------------------
(***************************************************************************)
(* The methods of one VirtualWebSocketClient (one watch on a query), each  *)
(* as an operator from the state of the object to its state when the       *)
(* method returns or first awaits.  JavaScript runs a method to that point *)
(* without interruption, so a state machine takes each of them in a single *)
(* step.  Documents are left out: an event is its number, and handling a   *)
(* batch of events is delivering a range of numbers.                       *)
(***************************************************************************)
EXTENDS Integers, Sequences

CONSTANT MaxRetries     \* DEFAULT_MAX_AUTO_RETRY_ON_ERROR, and the same for ACKs

ASSUME MaxRetriesAssumption == MaxRetries \in Nat

-----------------------------------------------------------------------------

\* The two ways to establish a watch; each has a promise field of its own.
OpName == {"INIT_WATCH", "REBUILD_WATCH"}

TicketName == OpName \cup {"CHECK_LAST"}

WatchStatus == {"LOGGINGIN", "INITING", "REBUILDING", "ACTIVE", "ERRORED",
                "CLOSING", "CLOSED", "PAUSED", "RESUMING"}

\* Where an establishment stands.  "idle": no promise is pending.  "login":
\* awaiting the login.  "send": awaiting the connection before it can send.
\* "wait": awaiting the response.  "sleep" and "reconnect": the error handler
\* is waiting before it retries.
Step == {"idle", "login", "send", "wait", "sleep", "reconnect"}

\* What can make an establishment fail, as handleCommonError sorts errors.
ErrorKind == {"sign", "timeout", "fatal", "unknown"}

\* _waitExpectedTimeoutId: unset, set and still to fire, set and fired.
WaitTimer == {"none", "pending", "fired"}

\* inClients: member of _virtualWSClient and _watchIdClientMap.  inQueryMap:
\* its queryID is a key of _queryIdClientMap.  acks, closing: calls of sendACK
\* and closeWatch that await their send.  expectEventId is 0 when undefined.
Watch == [status: WatchStatus, hasSession: BOOLEAN,
          currentEventId: Nat, expectEventId: Nat,
          step: [OpName -> Step], tickets: [TicketName -> 0..MaxRetries],
          ackTimer: BOOLEAN, acks: Nat, waitTimer: WaitTimer, closing: BOOLEAN,
          inClients: BOOLEAN, inQueryMap: BOOLEAN]

\* Messages routed to onMessage.  lo..hi are the ids of the events carried (none
\* if lo > hi); hi is the server's own event id, currEvent.
Message == [type: {"NEXT_EVENT", "CHECK_EVENT", "ERROR"}, lo: Nat, hi: Nat]

-----------------------------------------------------------------------------

ScheduleSendACK(w) == [w EXCEPT !.ackTimer = TRUE]

\* RealtimeWebSocketClient.onWatchClose; without a session the queryID is ''
\* and the entry of _queryIdClientMap is left alone.
OnWatchClose(w) ==
  [w EXCEPT !.inClients = FALSE, !.inQueryMap = IF w.hasSession THEN FALSE ELSE @]

CloseWithError(w) ==
  OnWatchClose([w EXCEPT !.status = "ERRORED", !.ackTimer = FALSE])

\* Mutant: a watch that is not ACTIVE is closed without onWatchClose.
CloseWatchQuietly(w) ==
  IF w.status = "ACTIVE" THEN [w EXCEPT !.status = "CLOSING", !.closing = TRUE]
                         ELSE [w EXCEPT !.status = "CLOSED"]

\* closeWatch up to its first await; only an ACTIVE watch tells the server.
CloseWatch(w) ==
  IF w.status = "ACTIVE" THEN [w EXCEPT !.status = "CLOSING", !.closing = TRUE]
                         ELSE OnWatchClose([w EXCEPT !.status = "CLOSED"])

Pause(w) == [w EXCEPT !.status = "PAUSED"]

\* initWatch and rebuildWatch up to their first await: a pending promise is
\* returned as it is, a paused watch resolves at once, the rest logs in.
Establish(w, o) ==
  IF w.step[o] # "idle" \/ w.status = "PAUSED"
    THEN w
    ELSE [w EXCEPT !.status = "LOGGINGIN", !.step[o] = "login"]

\* Mutant: resume leaves the status PAUSED.
ResumePaused(w) ==
  Establish(w, IF w.hasSession THEN "REBUILD_WATCH" ELSE "INIT_WATCH")

\* Mutant: resume always starts over.
ResumeByInit(w) == Establish([w EXCEPT !.status = "RESUMING"], "INIT_WATCH")

Resume(w) ==
  Establish([w EXCEPT !.status = "RESUMING"],
            IF w.hasSession THEN "REBUILD_WATCH" ELSE "INIT_WATCH")

Abort(w, o) == [CloseWithError(w) EXCEPT !.step[o] = "idle"]

\* Mutant: a ticket is used that is not there.
RetryOffByOne(w, o) ==
  IF w.tickets[o] >= 0
    THEN Establish([w EXCEPT !.tickets[o] = @ - 1, !.step[o] = "idle"], o)
    ELSE Abort(w, o)

\* Mutant: no ticket is used.
RetryFree(w, o) == Establish([w EXCEPT !.step[o] = "idle"], o)

Retry(w, o) ==
  IF w.tickets[o] > 0
    THEN Establish([w EXCEPT !.tickets[o] = @ - 1, !.step[o] = "idle"], o)
    ELSE Abort(w, o)

OnWSDisconnected(w, o) == [Pause(w) EXCEPT !.step[o] = "reconnect"]

\* handleWatchEstablishmentError with handleCommonError, up to their first
\* await; up says whether isWSConnected().
EstablishmentError(w, o, e, up) ==
  CASE e \in {"sign", "timeout"} -> Retry(w, o)
    [] e = "fatal"               -> Abort(w, o)
    [] e = "unknown" /\ up       -> [w EXCEPT !.step[o] = "sleep"]
    [] e = "unknown" /\ ~up      -> OnWSDisconnected(w, o)

\* The rest of onUnknownError once its sleep is over.
AfterSleep(w, o, up) ==
  CASE w.status = "PAUSED"         -> [w EXCEPT !.step[o] = "idle"]
    [] w.status # "PAUSED" /\ up  -> Retry(w, o)
    [] w.status # "PAUSED" /\ ~up -> OnWSDisconnected(w, o)

-----------------------------------------------------------------------------

\* Mutant: the events already seen are not dropped.
FreshWithDuplicates(w, lo, hi) ==
  IF w.hasSession /\ lo <= hi /\ lo <= w.currentEventId + 1
    THEN [k \in 1..(hi - lo + 1) |-> lo + k - 1]
    ELSE <<>>

\* Mutant: the events after a gap are not held back.
FreshAcrossGap(w, lo, hi) ==
  LET first == IF lo > w.currentEventId THEN lo ELSE w.currentEventId + 1
  IN IF w.hasSession THEN [k \in 1..(hi - first + 1) |-> first + k - 1] ELSE <<>>

\* The events of lo..hi that are given to onChange, in order: those after
\* currentEventId, provided the first of them is the next one.
Fresh(w, lo, hi) ==
  IF w.hasSession /\ lo <= w.currentEventId + 1
    THEN [k \in 1..(hi - w.currentEventId) |-> w.currentEventId + k]
    ELSE <<>>

Gap(w, lo, hi) == w.hasSession /\ lo <= hi /\ lo > w.currentEventId + 1

ClearWaitExpectedEvent(w) == [w EXCEPT !.waitTimer = "none"]

\* _postHandleServerEventsValidityCheck
PostCheck(w) ==
  IF w.hasSession /\ w.expectEventId # 0 /\ w.currentEventId >= w.expectEventId
    THEN ClearWaitExpectedEvent(w)
    ELSE w

\* Mutant: the position is not moved.
HandleServerEventsInPlace(w, lo, hi) ==
  LET s == ScheduleSendACK(w) IN
    PostCheck(IF Gap(w, lo, hi) THEN Establish(s, "REBUILD_WATCH") ELSE s)

\* handleServerEvents and _handleServerEvents: deliver, drop duplicates, and
\* rebuild at a gap.
HandleServerEvents(w, lo, hi) ==
  LET s == ScheduleSendACK(w) IN
    PostCheck(IF Gap(w, lo, hi) THEN Establish(s, "REBUILD_WATCH")
              ELSE IF Fresh(w, lo, hi) # <<>> THEN [s EXCEPT !.currentEventId = hi]
              ELSE s)

\* The status and session checks at the top of onMessage.
Accepts(w, m) ==
  /\ w.hasSession
  /\ \/ w.status \in {"ACTIVE", "RESUMING", "CLOSING"}
     \/ w.status = "PAUSED" /\ m.type = "ERROR"

\* Mutant: no timer for the events expected.
HandleCheckEventUntimed(w, hi) ==
  IF w.currentEventId < hi
    THEN [w EXCEPT !.ackTimer = TRUE, !.expectEventId = hi]
    ELSE ScheduleSendACK(w)

\* The CHECK_EVENT case of onMessage: when the server is ahead, give the
\* missing events some time before rebuilding.
HandleCheckEvent(w, hi) ==
  IF w.currentEventId < hi
    THEN [w EXCEPT !.ackTimer = TRUE, !.expectEventId = hi, !.waitTimer = "pending"]
    ELSE ScheduleSendACK(w)

OnMessage(w, m) ==
  CASE ~Accepts(w, m)                           -> w
    [] Accepts(w, m) /\ m.type = "NEXT_EVENT"  -> HandleServerEvents(w, m.lo, m.hi)
    [] Accepts(w, m) /\ m.type = "CHECK_EVENT" -> HandleCheckEvent(w, m.hi)
    [] Accepts(w, m) /\ m.type = "ERROR"       -> CloseWithError(w)

\* What onMessage gives to onChange.
Delivered(w, m) ==
  IF Accepts(w, m) /\ m.type = "NEXT_EVENT" THEN Fresh(w, m.lo, m.hi) ELSE <<>>

=============================================================================
