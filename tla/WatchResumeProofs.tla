-------------------------- MODULE WatchResumeProofs --------------------------
(***************************************************************************)
(* A watch opened on a connection that is up is never stranded on a live   *)
(* connection, whatever pauses and resumes it, and its establishments only *)
(* advance.  The lemmas of WatchClientProofs say what the methods of the   *)
(* watch keep.                                                             *)
(***************************************************************************)
EXTENDS WatchClientProofs

\* A client listens, is closing or has an establishment under way.
Served(w) ==
  w.inClients =>
    /\ w.status # "PAUSED"
    /\ \/ w.status \in {"ACTIVE", "CLOSING"}
       \/ \E o \in OpName : w.step[o] # "idle"

\* The inductive invariant.
Resumed ==
  /\ watch \in Watch
  /\ conn \in ConnState \ {"connecting"}
  /\ conn = "up" => Served(watch)

LEMMA ResumedIs == Resumed <=> watch \in Watch /\ conn \in ConnState /\ NobodyPaused /\ NotStranded
  BY DEF Resumed, Served, ConnState, NobodyPaused, NotStranded, Up

\* A failed establishment is retried while the connection is up.
LEMMA HandledServes ==
  ASSUME Resumed, NEW o \in OpName, Handled(watch, watch', o, Up), UNCHANGED conn
  PROVE  Resumed'
<1> SUFFICES ASSUME conn = "up", watch'.inClients
             PROVE  watch'.status # "PAUSED" /\ watch'.step[o] # "idle"
  BY DEF Resumed, Served, Handled, OnlyMoves, SameSession, Up
<1>1. watch.status # "PAUSED"
  BY DEF Resumed, Served, Handled, OnlyMoves
<1> QED
  BY <1>1 DEF Handled, Up

\* So is a watch that a message finds behind the server.
LEMMA DigestedServes ==
  ASSUME Resumed, Digested(watch, watch'), UNCHANGED conn
  PROVE  Resumed'
<1> SUFFICES ASSUME conn = "up", watch'.inClients
             PROVE  /\ watch'.status # "PAUSED"
                    /\ \/ watch'.status \in {"ACTIVE", "CLOSING"}
                       \/ \E o \in OpName : watch'.step[o] # "idle"
  BY DEF Resumed, Served, Digested, Up
<1>1. watch.status # "PAUSED" /\ watch'.status # "PAUSED"
  BY DEF Resumed, Served, Digested
<1>2. CASE watch'.step["REBUILD_WATCH"] # "idle"
  BY <1>1, <1>2 DEF OpName
<1>3. CASE watch'.step["REBUILD_WATCH"] = "idle"
  <2>1. watch'.status = watch.status
    BY <1>3 DEF Digested
  <2>2. \A o \in OpName : watch'.step[o] = watch.step[o] \/ watch.step[o] = "idle"
    BY <1>3 DEF Digested, OpName
  <2>3. watch.step["REBUILD_WATCH"] = "idle"
    BY <1>3 DEF Digested
  <2>4. \A o \in OpName : watch.step[o] # "idle" => watch'.step[o] # "idle"
    BY <2>2
  <2> QED
    BY <1>1, <2>1, <2>4 DEF Resumed, Served, Digested
<1> QED
  BY <1>2, <1>3

\* A step that takes neither the status nor an establishment from a client.
LEMMA SameServes ==
  ASSUME Resumed, SameSession(watch, watch'), UNCHANGED conn,
         watch'.inClients => /\ watch.inClients
                             /\ watch'.status = watch.status /\ watch'.step = watch.step
  PROVE  Resumed'
  BY DEF Resumed, Served, SameSession, Up

\* A step that ends the watch, or leaves it listening or closing.
LEMMA EndedServes ==
  ASSUME Resumed, watch' \in Watch, UNCHANGED conn,
         watch'.inClients => watch'.status \in {"ACTIVE", "CLOSING"}
  PROVE  Resumed'
  BY DEF Resumed, Served, Up

-----------------------------------------------------------------------------

LEMMA EstablishStepServes == ASSUME Resumed, IInv, watch' \in Watch, EstablishStep PROVE Resumed'
<1> USE DEF Resumed
<1>1. "REBUILD_WATCH" \in OpName /\ "INIT_WATCH" \in OpName /\ Up \in BOOLEAN
      /\ {"unknown", "timeout"} \subseteq ErrorKind
  BY DEF OpName, ErrorKind, Up
<1>2. ASSUME NEW o \in OpName, LoginCancelled(o) PROVE Resumed'
  <2>1. Handled(watch, watch', o, Up)
    <3>1. "idle" \in Step
      BY DEF Step
    <3> QED
      BY <1>2, <3>1, StepFacts, SMT DEF Handled, LoginCancelled
  <2> QED
    BY <1>2, <2>1, HandledServes DEF LoginCancelled
<1>3. ASSUME NEW o \in OpName, LoginOk(o) \/ SendRequest(o) PROVE Resumed'
  <2>1. PICK s \in {"INITING", "REBUILDING", watch.status}, t \in {"wait", "send"} :
          watch' = [watch EXCEPT !.status = s, !.step[o] = t]
    BY <1>3 DEF LoginOk, SendRequest, Watch
  <2>2. s \in WatchStatus /\ [watch.step EXCEPT ![o] = t] \in [OpName -> Step]
    BY DEF WatchStatus, Watch, Step
  <2>3. watch' \in Watch
    BY <2>1, <2>2, Zenon DEF Watch
  <2>4. watch'.step[o] = t /\ watch'.inClients = watch.inClients /\ watch'.status = s
    BY <2>1 DEF Watch
  <2> QED
    BY <1>3, <2>3, <2>4 DEF Served, LoginOk, SendRequest, Up
<1>4. ASSUME SessionMissing PROVE Resumed'
  BY <1>1, <1>4, EstablishmentErrorFacts, HandledServes DEF SessionMissing
<1>5. ASSUME NEW o \in OpName, NEW e \in ErrorKind, LoginFails(o, e) PROVE Resumed'
  BY <1>1, <1>5, EstablishmentErrorFacts, HandledServes DEF LoginFails
<1>6. ASSUME NEW o \in OpName, SendFails(o) \/ SendTimesOut(o) PROVE Resumed'
  BY <1>1, <1>6, EstablishmentErrorFacts, HandledServes DEF SendFails, SendTimesOut
<1>7. ASSUME NEW o \in OpName, NEW e \in {"sign", "fatal"}, ErrorReply(o, e) PROVE Resumed'
  BY <1>7, ErrorReplyHandled, HandledServes DEF ErrorReply
<1>8. ASSUME NEW o \in OpName, EndSleep(o) PROVE Resumed'
  BY <1>1, <1>8, AfterSleepFacts, HandledServes DEF EndSleep
<1>9. ASSUME NEW o \in OpName, Reconnected(o) PROVE Resumed'
  BY <1>9, RetryHandled, HandledServes DEF Reconnected
<1>10. ASSUME ReplyArrives PROVE Resumed'
  <2>1. UNCHANGED conn
    BY <1>10 DEF ReplyArrives, InitReply, RebuildReply
  <2>2. ASSUME NEW r \in reply["INIT_WATCH"], NEW closes \in BOOLEAN, InitReply(r, closes)
        PROVE  watch'.status = "ACTIVE"
    <3> DEFINE x == [watch EXCEPT !.hasSession = TRUE, !.currentEventId = r.hi,
                                  !.expectEventId = 0, !.ackTimer = TRUE]
               w == CloseInCallback(x, closes)
    <3>1. r.hi \in Nat
      BY <1>1 DEF IInv, TypeOK, Reply
    <3>2. x \in Watch
      BY <3>1, Zenon DEF Watch
    <3>3. watch' = [w EXCEPT !.inQueryMap = TRUE, !.status = "ACTIVE",
                             !.tickets["INIT_WATCH"] = MaxRetries, !.step["INIT_WATCH"] = "idle"]
      BY <2>2 DEF InitReply
    <3> HIDE DEF x
    <3>4. w \in Watch
      BY <3>2, CloseWatchFacts DEF CloseInCallback, SameSession
    <3> HIDE DEF w
    <3> QED
      BY <3>3, <3>4 DEF Watch
  <2>3. ASSUME NEW r \in reply["REBUILD_WATCH"], NEW closes \in BOOLEAN, RebuildReply(r, closes)
        PROVE  watch'.status = "ACTIVE"
    <3> DEFINE w == CloseInCallback(HandleServerEvents(watch, r.lo, r.hi), closes)
    <3>1. r.lo \in Nat /\ r.hi \in Nat
      BY <1>1 DEF IInv, TypeOK, Reply
    <3>2. watch' = [w EXCEPT !.status = "ACTIVE", !.tickets["REBUILD_WATCH"] = MaxRetries,
                             !.step["REBUILD_WATCH"] = "idle"]
      BY <2>3 DEF RebuildReply
    <3>3. w \in Watch
      BY <3>1, HandleServerEventsFacts, CloseWatchFacts DEF CloseInCallback, SameSession, Digested
    <3> HIDE DEF w
    <3> QED
      BY <3>2, <3>3 DEF Watch
  <2> QED
    BY <1>10, <2>1, <2>2, <2>3, EndedServes DEF ReplyArrives
<1> QED
  BY <1>2, <1>3, <1>4, <1>5, <1>6, <1>7, <1>8, <1>9, <1>10 DEF EstablishStep, LoginReturns
LEMMA MessageStepServes == ASSUME Resumed, IInv, watch' \in Watch, MessageStep PROVE Resumed'
<1> USE DEF Resumed
<1>1. ASSUME NEW m \in net, NEW keep \in BOOLEAN, NEW closes \in BOOLEAN, Receive(m, keep, closes)
      PROVE  Resumed'
  <2>1. m \in Message /\ UNCHANGED conn
    BY <1>1 DEF IInv, TypeOK, Receive
  <2>2. Digested(watch, OnMessage(watch, m))
    BY <2>1, OnMessageFacts
  <2>3. watch' = watch \/ watch' = OnMessage(watch, m) \/ watch' = CloseWatch(OnMessage(watch, m))
    BY <1>1 DEF Receive, CloseInCallback
  <2>4. CASE watch' = watch
    BY <2>1, <2>4 DEF Up
  <2>5. CASE watch' = OnMessage(watch, m)
    BY <2>1, <2>2, <2>5, DigestedServes
  <2>6. CASE watch' = CloseWatch(OnMessage(watch, m))
    BY <2>1, <2>2, <2>6, CloseWatchFacts, EndedServes DEF Digested
  <2> QED
    BY <2>3, <2>4, <2>5, <2>6
<1>2. ASSUME AckTimerFires PROVE Resumed'
  <2>1. \/ watch' = watch
        \/ watch' = [watch EXCEPT !.ackTimer = FALSE, !.acks = @ + 1]
        \/ watch' = [watch EXCEPT !.ackTimer = FALSE]
    BY <1>2, Zenon DEF AckTimerFires
  <2>2. watch'.inClients = watch.inClients /\ watch'.status = watch.status /\ watch'.step = watch.step
    BY <2>1 DEF Watch
  <2> QED
    BY <1>2, <2>2 DEF AckTimerFires, Served, Up
<1>3. ASSUME AckSent PROVE Resumed'
  <2>1. UNCHANGED conn /\ watch' = ScheduleSendACK([watch EXCEPT !.acks = @ - 1])
    BY <1>3 DEF AckSent
  <2>2. watch'.inClients = watch.inClients /\ watch'.status = watch.status /\ watch'.step = watch.step
    <3> DEFINE w == [watch EXCEPT !.acks = @ - 1]
    <3>1. /\ w \in Watch /\ w.inClients = watch.inClients /\ w.status = watch.status
          /\ w.step = watch.step
      BY <1>3, AckDoneFacts DEF AckSent, SameSession
    <3> HIDE DEF w
    <3> QED
      BY <2>1, <3>1, ScheduleFacts DEF w
  <2> QED
    BY <2>1, <2>2 DEF Served, Up
<1>4. ASSUME AckFails PROVE Resumed'
  <2> DEFINE w == [watch EXCEPT !.acks = @ - 1]
             t == [w.tickets EXCEPT !["CHECK_LAST"] = @ - 1]
  <2>1. /\ w \in Watch /\ w.inClients = watch.inClients /\ w.status = watch.status
        /\ w.step = watch.step
    BY <1>4, AckDoneFacts DEF AckFails, SameSession
  <2>2. watch' = ScheduleSendACK([w EXCEPT !.tickets = t]) \/ watch' = CloseWithError(w)
    BY <1>4 DEF AckFails
  <2> HIDE DEF w, t
  <2>3. CASE watch' = ScheduleSendACK([w EXCEPT !.tickets = t])
    <3>1. watch'.inClients = watch.inClients /\ watch'.status = watch.status /\ watch'.step = watch.step
      BY <2>1, <2>3 DEF ScheduleSendACK, Watch
    <3> QED
      BY <1>4, <3>1 DEF AckFails, Served, Up
  <2>4. CASE watch' = CloseWithError(w)
    BY <1>4, <2>1, <2>4, CloseWithErrorFacts, EndedServes DEF AckFails
  <2> QED
    BY <2>2, <2>3, <2>4
<1>5. ASSUME WaitTimerFires PROVE Resumed'
  <2> DEFINE x == [watch EXCEPT !.waitTimer = "fired"]
  <2>1. /\ x \in Watch /\ x.inClients = watch.inClients /\ x.status = watch.status
        /\ x.step = watch.step
    BY Zenon DEF Watch, WaitTimer
  <2>2. watch' = Establish(x, "REBUILD_WATCH") /\ "REBUILD_WATCH" \in OpName /\ UNCHANGED conn
    BY <1>5 DEF WaitTimerFires, OpName
  <2> HIDE DEF x
  <2>3. /\ watch'.inClients = watch.inClients
        /\ watch' = x \/ (watch'.step["REBUILD_WATCH"] = "login" /\ watch'.status = "LOGGINGIN")
    BY <2>1, <2>2, EstablishFacts
  <2>4. CASE watch' = x
    BY <2>1, <2>2, <2>4 DEF Served, Up
  <2>5. CASE watch'.step["REBUILD_WATCH"] = "login" /\ watch'.status = "LOGGINGIN"
    BY <2>2, <2>5 DEF Served, Up
  <2> QED
    BY <2>3, <2>4, <2>5
<1> QED
  BY <1>1, <1>2, <1>3, <1>4, <1>5 DEF MessageStep

LEMMA UserStepServes == ASSUME Resumed, watch' \in Watch, UserStep PROVE Resumed'
<1> USE DEF Resumed
<1>1. ASSUME UserClose PROVE Resumed'
  BY <1>1, CloseWatchFacts, EndedServes DEF UserClose
<1>2. ASSUME CloseSent PROVE Resumed'
  <2>1. watch' = [OnWatchClose(watch) EXCEPT !.closing = FALSE, !.hasSession = FALSE,
                                             !.status = "CLOSED"]
        /\ ~OnWatchClose(watch).inClients /\ OnWatchClose(watch) \in Watch
    BY <1>2, OnWatchCloseFacts DEF CloseSent, SameSession
  <2>2. ~watch'.inClients
    BY <2>1 DEF Watch
  <2> QED
    BY <1>2, <2>2, EndedServes DEF CloseSent
<1>3. ASSUME CloseFails PROVE Resumed'
  <2>1. [watch EXCEPT !.closing = FALSE] \in Watch
    BY Zenon DEF Watch
  <2>2. ~watch'.inClients
    BY <1>3, <2>1, CloseWithErrorFacts, OnWatchCloseFacts DEF CloseFails, SameSession
  <2> QED
    BY <1>3, <2>2, EndedServes DEF CloseFails
<1> QED
  BY <1>1, <1>2, <1>3 DEF UserStep

\* Only a connection that was lost pauses the watch, and when it opens again it
\* resumes the watch.
LEMMA ConnectionStepServes == ASSUME Resumed, watch' \in Watch, ConnectionStep PROVE Resumed'
<1> USE DEF Resumed
<1>1. ASSUME ConnectionOpens PROVE Resumed'
  <2>1. CASE conn = "reconnecting"
    <3>1. watch' = (IF watch.inClients THEN Resume(watch) ELSE watch) /\ conn' = "up"
      BY <1>1, <2>1 DEF ConnectionOpens
    <3>2. Resume(watch).status # "PAUSED" /\ \E o \in OpName : Resume(watch).step[o] # "idle"
      BY ResumeFacts DEF OpName
    <3> QED
      BY <3>1, <3>2 DEF Served, ConnState
  <2>2. CASE conn # "reconnecting"
    <3>1. conn' = "alone"
      BY <1>1, <2>2 DEF ConnectionOpens
    <3> QED
      BY <3>1 DEF ConnState
  <2> QED
    BY <2>1, <2>2
<1>2. ASSUME ConnectionLost PROVE Resumed'
  BY <1>2 DEF ConnectionLost, ConnState
<1>3. ASSUME SocketError PROVE Resumed'
  BY <1>3, CloseWithErrorFacts, EndedServes DEF SocketError
<1>4. ASSUME ConnectionGivenUp PROVE Resumed'
  BY <1>4 DEF ConnectionGivenUp, ConnState
<1>5. ASSUME ConnectionBegun \/ LossUnseen PROVE Resumed'
  BY <1>5 DEF ConnectionBegun, LossUnseen, ConnState
<1> QED
  BY <1>1, <1>2, <1>3, <1>4, <1>5 DEF ConnectionStep

LEMMA ResumedPreserved == ASSUME Resumed, IInv, IInv', [Next]_vars PROVE Resumed'
<1>1. watch' \in Watch
  BY DEF IInv, TypeOK
<1>2. CASE ServerStep \/ UNCHANGED vars
  <2>1. UNCHANGED <<watch, conn>>
    BY <1>2 DEF ServerStep, ServerEvent, ServerError, ServerAnswers, LoseMessage, vars
  <2> QED
    BY <2>1 DEF Resumed, Served, Up
<1> QED
  BY <1>1, <1>2, EstablishStepServes, MessageStepServes, UserStepServes, ConnectionStepServes DEF Next

\* On a live connection a watch that was opened on one is never left waiting for
\* nobody, unless another watch has begun a chain of its own beside a reconnection
\* (ConnectionBegun), whatever pause, resume, retry, cancellation and close() do to each other
\* (pause, resume, onWSDisconnected and handleCommonError).
THEOREM NeverStranded ==
  ASSUME "connecting" \notin InitialConn
  PROVE  Spec => []NotStranded
<1>1. Init /\ IInv => Resumed
  <2> SUFFICES ASSUME Init, IInv PROVE Resumed
    OBVIOUS
  <2>1. conn = "up"
    BY InitialConnAssumption DEF Init
  <2>2. watch.status = "LOGGINGIN" /\ watch.step["INIT_WATCH"] = "login" /\ "INIT_WATCH" \in OpName
    BY DEF Init, OpName
  <2> QED
    BY <2>1, <2>2 DEF Resumed, Served, IInv, TypeOK
<1>2. Resumed /\ IInv /\ IInv' /\ [Next]_vars => Resumed'
  BY ResumedPreserved
<1>3. Resumed => NotStranded
  BY DEF Resumed, Served, NotStranded
<1> QED
  BY <1>1, <1>2, <1>3, Invariance, PTL DEF Spec

-----------------------------------------------------------------------------
(* How establishments advance. *)

\* The same retries, and every establishment that is under way where it was.
Leaves(w, v) ==
  /\ v \in Watch
  /\ v.tickets = w.tickets
  /\ \A o \in OpName : w.step[o] # "idle" => v.step[o] = w.step[o]

\* An establishment that goes on has moved forward, or used up a retry.
Forward(w, v, o) ==
  w.step[o] # "idle" /\ v.step[o] # "idle" =>
    \/ v.tickets[o] < w.tickets[o]
    \/ v.tickets[o] = w.tickets[o] /\ Rank(v.step[o]) >= Rank(w.step[o])

\* Only the establishment o is moved, and forward.
Drives(w, v, o) ==
  /\ Forward(w, v, o)
  /\ \A p \in OpName \ {o} :
       /\ v.tickets[p] = w.tickets[p]
       /\ w.step[p] # "idle" => v.step[p] = w.step[p]

LEMMA RankIs ==
  /\ \A t \in Step : Rank(t) \in Nat
  /\ Rank("login") = 1 /\ Rank("send") = 2 /\ Rank("wait") = 3
  /\ Rank("sleep") = 4 /\ Rank("reconnect") = 5
  BY DEF Rank, Step

LEMMA TicketsFacts ==
  ASSUME NEW w \in Watch
  PROVE  /\ w.tickets \in [TicketName -> 0..MaxRetries]
         /\ w.step \in [OpName -> Step]
         /\ \A o \in OpName : w.tickets[o] \in Int /\ Rank(w.step[o]) \in Nat
  BY RankIs, MaxRetriesAssumption DEF Watch, TicketName

LEMMA LeavesTransitive ==
  ASSUME NEW w, NEW v, NEW u, Leaves(w, v), Leaves(v, u)
  PROVE  Leaves(w, u)
  BY DEF Leaves

LEMMA LeavesDrives ==
  ASSUME NEW w \in Watch, NEW v, Leaves(w, v), NEW o \in OpName
  PROVE  Forward(w, v, o) /\ Drives(w, v, o)
  BY TicketsFacts DEF Leaves, Forward, Drives

-----------------------------------------------------------------------------
\* The methods that leave establishments alone.

LEMMA OnWatchCloseLeaves ==
  ASSUME NEW w \in Watch
  PROVE  Leaves(w, OnWatchClose(w)) /\ OnWatchClose(w).tickets = w.tickets
<1>1. OnWatchClose(w).tickets = w.tickets
  BY DEF OnWatchClose, Watch
<1> QED
  BY <1>1, OnWatchCloseFacts DEF Leaves, SameSession

LEMMA CloseWithErrorLeaves ==
  ASSUME NEW w \in Watch
  PROVE  Leaves(w, CloseWithError(w)) /\ CloseWithError(w).tickets = w.tickets
<1>1. CloseWithError(w).tickets = w.tickets
  BY DEF CloseWithError, OnWatchClose, Watch
<1> QED
  BY <1>1, CloseWithErrorFacts DEF Leaves, SameSession

LEMMA CloseWatchLeaves ==
  ASSUME NEW w \in Watch
  PROVE  Leaves(w, CloseWatch(w))
<1>1. CloseWatch(w).tickets = w.tickets
  BY DEF CloseWatch, OnWatchClose, Watch
<1> QED
  BY <1>1, CloseWatchFacts DEF Leaves, SameSession

LEMMA PauseLeaves ==
  ASSUME NEW w \in Watch
  PROVE  Leaves(w, Pause(w))
<1>1. Pause(w).tickets = w.tickets
  BY DEF Pause, Watch
<1> QED
  BY <1>1, PauseFacts DEF Leaves, SameSession

LEMMA ScheduleLeaves ==
  ASSUME NEW w \in Watch
  PROVE  Leaves(w, ScheduleSendACK(w))
<1>1. ScheduleSendACK(w).tickets = w.tickets
  BY DEF ScheduleSendACK, Watch
<1> QED
  BY <1>1, ScheduleFacts DEF Leaves, SameSession

LEMMA PostCheckLeaves ==
  ASSUME NEW w \in Watch
  PROVE  Leaves(w, PostCheck(w))
<1>1. PostCheck(w).tickets = w.tickets
  BY DEF PostCheck, ClearWaitExpectedEvent, Watch
<1> QED
  BY <1>1, PostCheckFacts DEF Leaves

\* A promise that is pending is returned as it is.
LEMMA EstablishLeaves ==
  ASSUME NEW w \in Watch, NEW o \in OpName
  PROVE  Leaves(w, Establish(w, o))
<1>1. Establish(w, o).tickets = w.tickets
  BY DEF Establish, Watch
<1> QED
  BY <1>1, EstablishFacts DEF Leaves, OnlyMoves, SameSession

LEMMA ResumeLeaves ==
  ASSUME NEW w \in Watch
  PROVE  Leaves(w, Resume(w))
<1>1. Resume(w).tickets = w.tickets
  BY DEF Resume, Establish, Watch
<1> QED
  BY <1>1, ResumeFacts DEF Leaves, SameSession

LEMMA HandleServerEventsLeaves ==
  ASSUME NEW w \in Watch, NEW lo \in Nat, NEW hi \in Nat
  PROVE  Leaves(w, HandleServerEvents(w, lo, hi))
<1> DEFINE s == ScheduleSendACK(w)
           x == IF Gap(w, lo, hi) THEN Establish(s, "REBUILD_WATCH")
                ELSE IF Fresh(w, lo, hi) # <<>> THEN [s EXCEPT !.currentEventId = hi]
                ELSE s
<1>1. HandleServerEvents(w, lo, hi) = PostCheck(x)
  BY DEF HandleServerEvents
<1>2. s \in Watch /\ Leaves(w, s)
  BY ScheduleLeaves DEF Leaves
<1> HIDE DEF s
<1>3. Leaves(s, Establish(s, "REBUILD_WATCH"))
  BY <1>2, EstablishLeaves DEF OpName
<1>4. Leaves(s, [s EXCEPT !.currentEventId = hi])
  <2>1. [s EXCEPT !.currentEventId = hi] \in Watch
    BY <1>2, Zenon DEF Watch
  <2> QED
    BY <1>2, <2>1 DEF Leaves, Watch
<1>5. Leaves(s, x)
  <2>1. Leaves(s, s)
    BY <1>2 DEF Leaves
  <2> QED
    BY <1>3, <1>4, <2>1
<1> HIDE DEF x
<1>6. Leaves(x, PostCheck(x))
  BY <1>5, PostCheckLeaves DEF Leaves
<1> QED
  BY <1>1, <1>2, <1>5, <1>6, LeavesTransitive

LEMMA OnMessageLeaves ==
  ASSUME NEW w \in Watch, NEW m \in Message
  PROVE  Leaves(w, OnMessage(w, m))
<1>1. CASE ~Accepts(w, m)
  BY <1>1 DEF OnMessage, Leaves
<1>2. CASE Accepts(w, m) /\ m.type = "NEXT_EVENT"
  <2>1. OnMessage(w, m) = HandleServerEvents(w, m.lo, m.hi) /\ m.lo \in Nat /\ m.hi \in Nat
    BY <1>2 DEF OnMessage, Message
  <2> QED
    BY <2>1, HandleServerEventsLeaves
<1>3. CASE Accepts(w, m) /\ m.type = "CHECK_EVENT"
  <2>1. OnMessage(w, m) = HandleCheckEvent(w, m.hi) /\ m.hi \in Nat
    BY <1>3 DEF OnMessage, Message
  <2>2. CASE w.currentEventId < m.hi
    <3> DEFINE v == [w EXCEPT !.ackTimer = TRUE, !.expectEventId = m.hi, !.waitTimer = "pending"]
    <3>1. "pending" \in WaitTimer
      BY DEF WaitTimer
    <3>2. v \in Watch
      BY <2>1, <3>1, Zenon DEF Watch
    <3>3. v.tickets = w.tickets /\ v.step = w.step
      BY Zenon DEF Watch
    <3>4. OnMessage(w, m) = v
      BY <2>1, <2>2 DEF HandleCheckEvent
    <3> HIDE DEF v
    <3> QED
      BY <3>2, <3>3, <3>4 DEF Leaves
  <2>3. CASE ~(w.currentEventId < m.hi)
    BY <2>1, <2>3, ScheduleLeaves DEF HandleCheckEvent
  <2> QED
    BY <2>2, <2>3
<1>4. CASE Accepts(w, m) /\ m.type = "ERROR"
  BY <1>4, CloseWithErrorLeaves DEF OnMessage
<1> QED
  BY <1>1, <1>2, <1>3, <1>4 DEF Message

LEMMA CloseInCallbackLeaves ==
  ASSUME NEW w \in Watch, NEW closes \in BOOLEAN
  PROVE  Leaves(w, CloseInCallback(w, closes))
  BY CloseWatchLeaves DEF CloseInCallback, Leaves

-----------------------------------------------------------------------------
\* The methods that drive one.

LEMMA StepDrives ==
  ASSUME NEW w \in Watch, NEW o \in OpName, NEW t \in Step,
         t = "idle" \/ Rank(t) >= Rank(w.step[o])
  PROVE  Drives(w, [w EXCEPT !.step[o] = t], o)
<1> DEFINE v == [w EXCEPT !.step[o] = t]
<1>1. v.tickets = w.tickets /\ v.step[o] = t /\ \A p \in OpName \ {o} : v.step[p] = w.step[p]
  BY DEF Watch
<1> HIDE DEF v
<1>2. Drives(w, v, o)
  BY <1>1 DEF Drives, Forward
<1> QED
  BY <1>2 DEF v

LEMMA AbortDrives ==
  ASSUME NEW w \in Watch, NEW o \in OpName
  PROVE  Drives(w, Abort(w, o), o)
<1> DEFINE x == CloseWithError(w)
<1>1. x \in Watch /\ Leaves(w, x)
  BY CloseWithErrorLeaves DEF Leaves
<1>2. Abort(w, o) = [x EXCEPT !.step[o] = "idle"]
  BY DEF Abort
<1> HIDE DEF x
<1>3. /\ Abort(w, o).tickets = x.tickets /\ Abort(w, o).step[o] = "idle"
      /\ \A p \in OpName \ {o} : Abort(w, o).step[p] = x.step[p]
  BY <1>1, <1>2 DEF Watch
<1> QED
  BY <1>1, <1>3 DEF Leaves, Drives, Forward

\* A retry has to be there, and is used up.
LEMMA RetryDrives ==
  ASSUME NEW w \in Watch, NEW o \in OpName
  PROVE  Drives(w, Retry(w, o), o)
<1>1. CASE w.tickets[o] > 0
  <2> DEFINE x == [w EXCEPT !.tickets[o] = @ - 1, !.step[o] = "idle"]
  <2>1. w.tickets \in [TicketName -> 0..MaxRetries] /\ o \in TicketName /\ w.tickets[o] \in Int
    BY TicketsFacts DEF TicketName
  <2>2. x \in Watch
    <3>1. w.tickets[o] - 1 \in 0..MaxRetries
      BY <1>1, <2>1, MaxRetriesAssumption
    <3>2. [w.tickets EXCEPT ![o] = @ - 1] \in [TicketName -> 0..MaxRetries]
      BY <2>1, <3>1
    <3>3. [w.step EXCEPT ![o] = "idle"] \in [OpName -> Step]
      BY SMT DEF Watch, Step
    <3> QED
      BY <3>2, <3>3, Zenon DEF Watch
  <2>3. /\ x.tickets[o] = w.tickets[o] - 1
        /\ \A p \in OpName \ {o} : x.tickets[p] = w.tickets[p] /\ x.step[p] = w.step[p]
    BY <2>1 DEF Watch, TicketName
  <2>4. Retry(w, o) = Establish(x, o)
    BY <1>1 DEF Retry
  <2> HIDE DEF x
  <2>5. Leaves(x, Retry(w, o))
    BY <2>2, <2>4, EstablishLeaves
  <2>6. Retry(w, o).tickets[o] < w.tickets[o]
    BY <2>1, <2>3, <2>5 DEF Leaves
  <2>7. \A p \in OpName \ {o} : Retry(w, o).tickets[p] = w.tickets[p]
    BY <2>3, <2>5 DEF Leaves
  <2>8. \A p \in OpName \ {o} : w.step[p] # "idle" => Retry(w, o).step[p] = w.step[p]
    BY <2>3, <2>5 DEF Leaves
  <2> QED
    BY <2>6, <2>7, <2>8 DEF Drives, Forward
<1>2. CASE ~(w.tickets[o] > 0)
  BY <1>2, AbortDrives DEF Retry
<1> QED
  BY <1>1, <1>2

LEMMA DisconnectedDrives ==
  ASSUME NEW w \in Watch, NEW o \in OpName
  PROVE  Drives(w, OnWSDisconnected(w, o), o)
<1> DEFINE x == Pause(w)
           v == [x EXCEPT !.step[o] = "reconnect"]
<1>1. x \in Watch /\ Leaves(w, x) /\ x.step = w.step
  BY PauseLeaves, PauseFacts DEF Leaves
<1> HIDE DEF x
<1>2. "reconnect" \in Step /\ Rank("reconnect") >= Rank(x.step[o])
  <2>1. x.step[o] \in Step
    BY <1>1, TicketsFacts
  <2> QED
    BY <2>1 DEF Rank, Step
<1>3. Drives(x, v, o)
  BY <1>1, <1>2, StepDrives
<1>4. OnWSDisconnected(w, o) = v
  BY DEF OnWSDisconnected, x
<1> HIDE DEF v
<1> QED
  BY <1>1, <1>3, <1>4 DEF Drives, Forward, Leaves

LEMMA EstablishmentErrorDrives ==
  ASSUME NEW w \in Watch, NEW o \in OpName, NEW e \in ErrorKind, NEW up \in BOOLEAN,
         w.step[o] \in {"login", "send", "wait"}
  PROVE  Drives(w, EstablishmentError(w, o, e, up), o)
<1>1. CASE e \in {"sign", "timeout"}
  BY <1>1, RetryDrives DEF EstablishmentError
<1>2. CASE e = "fatal"
  BY <1>2, AbortDrives DEF EstablishmentError
<1>3. CASE e = "unknown" /\ up
  <2>1. "sleep" \in Step /\ Rank("sleep") >= Rank(w.step[o])
    BY RankIs DEF Step
  <2> QED
    BY <1>3, <2>1, StepDrives DEF EstablishmentError
<1>4. CASE e = "unknown" /\ ~up
  BY <1>4, DisconnectedDrives DEF EstablishmentError
<1> QED
  BY <1>1, <1>2, <1>3, <1>4 DEF ErrorKind

LEMMA AfterSleepDrives ==
  ASSUME NEW w \in Watch, NEW o \in OpName, NEW up \in BOOLEAN
  PROVE  Drives(w, AfterSleep(w, o, up), o)
<1>1. CASE w.status = "PAUSED"
  BY <1>1, StepDrives DEF AfterSleep, Step
<1>2. CASE w.status # "PAUSED" /\ up
  BY <1>2, RetryDrives DEF AfterSleep
<1>3. CASE w.status # "PAUSED" /\ ~up
  BY <1>3, DisconnectedDrives DEF AfterSleep
<1> QED
  BY <1>1, <1>2, <1>3

-----------------------------------------------------------------------------
\* The steps.

AllForward == \A p \in OpName : Forward(watch, watch', p)

LEMMA DrivesAll ==
  ASSUME watch \in Watch, NEW o \in OpName, Drives(watch, watch', o)
  PROVE  AllForward
  BY TicketsFacts DEF AllForward, Drives, Forward

LEMMA LeavesAll ==
  ASSUME watch \in Watch, Leaves(watch, watch')
  PROVE  AllForward
  BY LeavesDrives DEF AllForward

LEMMA LoginForward ==
  ASSUME watch \in Watch, NEW o \in OpName, LoginReturns(o) \/ SendRequest(o)
  PROVE  AllForward
<1>1. CASE LoginCancelled(o)
  BY <1>1, StepDrives, DrivesAll DEF LoginCancelled, Step
<1>2. CASE LoginOk(o) \/ SendRequest(o)
  <2>1. PICK s \in {"INITING", "REBUILDING", watch.status}, t \in {"wait", "send"} :
          /\ watch' = [watch EXCEPT !.status = s, !.step[o] = t]
          /\ watch.step[o] = "login" \/ (watch.step[o] = "send" /\ t = "wait")
    BY <1>2 DEF LoginOk, SendRequest, Watch
  <2>2. /\ watch'.tickets = watch.tickets /\ watch'.step[o] = t
        /\ \A p \in OpName \ {o} : watch'.step[p] = watch.step[p]
    BY <2>1 DEF Watch
  <2>3. Rank(t) >= Rank(watch.step[o])
    BY <2>1, RankIs
  <2> QED
    BY <2>2, <2>3, DrivesAll DEF Drives, Forward
<1> QED
  BY <1>1, <1>2 DEF LoginReturns

\* The server's ERROR may first end the watch, which leaves the promise pending.
LEMMA ErrorReplyForward ==
  ASSUME watch \in Watch, NEW o \in OpName, NEW e \in {"sign", "fatal"}, ErrorReply(o, e)
  PROVE  AllForward
<1> DEFINE m == [type |-> "ERROR", lo |-> 0, hi |-> 0]
           w == IF o = "REBUILD_WATCH" /\ watch.inClients THEN OnMessage(watch, m) ELSE watch
<1>1. m \in Message
  BY DEF Message
<1>2. watch' = EstablishmentError(w, o, e, Up) /\ watch.step[o] = "wait"
  BY DEF ErrorReply
<1>3. w \in Watch /\ Leaves(watch, w)
  <2>1. Leaves(watch, watch)
    BY DEF Leaves
  <2> QED
    BY <1>1, <2>1, OnMessageLeaves DEF Leaves
<1> HIDE DEF w
<1>4. w.step[o] = "wait"
  BY <1>2, <1>3 DEF Leaves
<1>5. e \in ErrorKind /\ Up \in BOOLEAN
  BY DEF ErrorKind, Up
<1>7. Drives(w, watch', o)
  BY <1>2, <1>3, <1>4, <1>5, EstablishmentErrorDrives
<1>8. Drives(watch, watch', o)
  BY <1>2, <1>3, <1>4, <1>7 DEF Drives, Forward, Leaves
<1> QED
  BY <1>8, DrivesAll

\* A response ends its establishment and leaves the other alone.
LEMMA EndsForward ==
  ASSUME watch \in Watch, NEW w, Leaves(watch, w), NEW o \in OpName, NEW tickets,
         watch'.step[o] = "idle",
         watch'.tickets = [w.tickets EXCEPT ![o] = tickets],
         \A p \in OpName \ {o} : watch'.step[p] = w.step[p]
  PROVE  AllForward
<1>1. w.tickets \in [TicketName -> 0..MaxRetries]
  BY TicketsFacts DEF Leaves
<1>2. \A p \in OpName \ {o} : watch'.tickets[p] = watch.tickets[p]
  BY <1>1 DEF Leaves, TicketName
<1>3. Drives(watch, watch', o)
  BY <1>2 DEF Drives, Forward, Leaves
<1> QED
  BY <1>3, DrivesAll

LEMMA ReplyForward ==
  ASSUME IInv, ReplyArrives
  PROVE  AllForward
<1>1. watch \in Watch /\ "INIT_WATCH" \in OpName /\ "REBUILD_WATCH" \in OpName
  BY DEF IInv, TypeOK, OpName
<1>2. ASSUME NEW closes \in BOOLEAN, NEW r \in reply["INIT_WATCH"], InitReply(r, closes)
      PROVE  AllForward
  <2> DEFINE x == [watch EXCEPT !.hasSession = TRUE, !.currentEventId = r.hi,
                                !.expectEventId = 0, !.ackTimer = TRUE]
             w == CloseInCallback(x, closes)
  <2>1. r.hi \in Nat
    BY <1>1 DEF IInv, TypeOK, Reply
  <2>2. x \in Watch
    BY <1>1, <2>1, Zenon DEF Watch
  <2>3. Leaves(watch, x)
    BY <1>1, <2>2 DEF Leaves, Watch
  <2>4. watch' = [w EXCEPT !.inQueryMap = TRUE, !.status = "ACTIVE",
                           !.tickets["INIT_WATCH"] = MaxRetries, !.step["INIT_WATCH"] = "idle"]
    BY <1>2 DEF InitReply
  <2> HIDE DEF x
  <2>5. w \in Watch /\ Leaves(watch, w)
    BY <2>2, <2>3, CloseInCallbackLeaves, LeavesTransitive DEF Leaves
  <2> HIDE DEF w
  <2>6. /\ watch'.step["INIT_WATCH"] = "idle"
        /\ watch'.tickets = [w.tickets EXCEPT !["INIT_WATCH"] = MaxRetries]
        /\ \A p \in OpName \ {"INIT_WATCH"} : watch'.step[p] = w.step[p]
    BY <1>1, <2>4, <2>5 DEF Watch
  <2> QED
    BY <1>1, <2>5, <2>6, EndsForward
<1>3. ASSUME NEW closes \in BOOLEAN, NEW r \in reply["REBUILD_WATCH"], RebuildReply(r, closes)
      PROVE  AllForward
  <2> DEFINE x == HandleServerEvents(watch, r.lo, r.hi)
             w == CloseInCallback(x, closes)
  <2>1. r.lo \in Nat /\ r.hi \in Nat
    BY <1>1 DEF IInv, TypeOK, Reply
  <2>2. x \in Watch /\ Leaves(watch, x)
    BY <1>1, <2>1, HandleServerEventsLeaves DEF Leaves
  <2>3. watch' = [w EXCEPT !.status = "ACTIVE", !.tickets["REBUILD_WATCH"] = MaxRetries,
                           !.step["REBUILD_WATCH"] = "idle"]
    BY <1>3 DEF RebuildReply
  <2> HIDE DEF x
  <2>4. w \in Watch /\ Leaves(watch, w)
    BY <2>2, CloseInCallbackLeaves, LeavesTransitive DEF Leaves
  <2> HIDE DEF w
  <2>5. /\ watch'.step["REBUILD_WATCH"] = "idle"
        /\ watch'.tickets = [w.tickets EXCEPT !["REBUILD_WATCH"] = MaxRetries]
        /\ \A p \in OpName \ {"REBUILD_WATCH"} : watch'.step[p] = w.step[p]
    BY <1>1, <2>3, <2>4 DEF Watch
  <2> QED
    BY <1>1, <2>4, <2>5, EndsForward
<1> QED
  BY <1>2, <1>3 DEF ReplyArrives

LEMMA EstablishForward ==
  ASSUME IInv, EstablishStep
  PROVE  AllForward
<1>1. watch \in Watch /\ Up \in BOOLEAN /\ "REBUILD_WATCH" \in OpName
      /\ {"unknown", "timeout"} \subseteq ErrorKind
  BY DEF IInv, TypeOK, OpName, ErrorKind, Up
<1>2. CASE SessionMissing
  BY <1>1, <1>2, EstablishmentErrorDrives, DrivesAll DEF SessionMissing
<1>3. ASSUME NEW o \in OpName, NEW e \in ErrorKind, LoginFails(o, e) PROVE AllForward
  BY <1>1, <1>3, EstablishmentErrorDrives, DrivesAll DEF LoginFails
<1>4. ASSUME NEW o \in OpName, SendFails(o) \/ SendTimesOut(o) PROVE AllForward
  BY <1>1, <1>4, EstablishmentErrorDrives, DrivesAll DEF SendFails, SendTimesOut
<1>5. ASSUME NEW o \in OpName, EndSleep(o) PROVE AllForward
  BY <1>1, <1>5, AfterSleepDrives, DrivesAll DEF EndSleep
<1>6. ASSUME NEW o \in OpName, Reconnected(o) PROVE AllForward
  BY <1>1, <1>6, RetryDrives, DrivesAll DEF Reconnected
<1> QED
  BY <1>1, <1>2, <1>3, <1>4, <1>5, <1>6, LoginForward, ErrorReplyForward, ReplyForward
     DEF EstablishStep

\* CHECK_LAST has retries of its own.
LEMMA AckForward ==
  ASSUME watch \in Watch, AckTimerFires \/ AckSent \/ AckFails
  PROVE  AllForward
<1> DEFINE w == [watch EXCEPT !.acks = @ - 1]
<1>1. CASE AckTimerFires
  <2>1. watch'.tickets = watch.tickets /\ watch'.step = watch.step
    BY <1>1 DEF AckTimerFires, Watch
  <2> QED
    BY <2>1, TicketsFacts DEF AllForward, Forward
<1>2. CASE AckSent
  <2>1. watch'.tickets = watch.tickets /\ watch'.step = watch.step
    BY <1>2 DEF AckSent, ScheduleSendACK, Watch
  <2> QED
    BY <2>1, TicketsFacts DEF AllForward, Forward
<1>3. CASE AckFails
  <2>1. \/ watch' = ScheduleSendACK([w EXCEPT !.tickets["CHECK_LAST"] = @ - 1])
        \/ watch' = CloseWithError(w)
    BY <1>3 DEF AckFails
  <2>2. w.tickets = watch.tickets /\ w.step = watch.step
    BY DEF Watch
  <2>3. watch'.step = w.step
    BY <2>1 DEF ScheduleSendACK, CloseWithError, OnWatchClose, Watch
  <2>4. \/ watch'.tickets = [w.tickets EXCEPT !["CHECK_LAST"] = @ - 1]
        \/ watch'.tickets = w.tickets
    BY <2>1 DEF ScheduleSendACK, CloseWithError, OnWatchClose, Watch
  <2> HIDE DEF w
  <2>5. \A o \in OpName : watch'.tickets[o] = watch.tickets[o]
    BY <2>2, <2>4, TicketsFacts DEF OpName, TicketName
  <2> QED
    BY <2>2, <2>3, <2>5, TicketsFacts DEF AllForward, Forward
<1> QED
  BY <1>1, <1>2, <1>3

LEMMA MessageForward ==
  ASSUME IInv, MessageStep
  PROVE  AllForward
<1>1. watch \in Watch
  BY DEF IInv, TypeOK
<1>2. ASSUME NEW m \in net, NEW keep \in BOOLEAN, NEW closes \in BOOLEAN, Receive(m, keep, closes)
      PROVE  AllForward
  <2> DEFINE x == OnMessage(watch, m)
             v == CloseInCallback(x, closes)
  <2>1. watch' = watch \/ watch' = v
    BY <1>2 DEF Receive
  <2>2. x \in Watch /\ Leaves(watch, x)
    BY <1>1, OnMessageLeaves DEF IInv, TypeOK, Leaves
  <2> HIDE DEF x
  <2>3. Leaves(watch, v)
    BY <2>2, CloseInCallbackLeaves, LeavesTransitive
  <2>4. Leaves(watch, watch)
    BY <1>1 DEF Leaves
  <2> QED
    BY <1>1, <2>1, <2>3, <2>4, LeavesAll
<1>3. CASE WaitTimerFires
  <2> DEFINE x == [watch EXCEPT !.waitTimer = "fired"]
  <2>1. x \in Watch /\ Leaves(watch, x)
    <3>1. "fired" \in WaitTimer
      BY DEF WaitTimer
    <3>2. x \in Watch
      BY <1>1, <3>1, Zenon DEF Watch
    <3> QED
      BY <1>1, <3>2 DEF Leaves, Watch
  <2>2. watch' = Establish(x, "REBUILD_WATCH") /\ "REBUILD_WATCH" \in OpName
    BY <1>3 DEF WaitTimerFires, OpName
  <2> HIDE DEF x
  <2> QED
    BY <1>1, <2>1, <2>2, EstablishLeaves, LeavesTransitive, LeavesAll
<1> QED
  BY <1>1, <1>2, <1>3, AckForward DEF MessageStep

LEMMA UserForward ==
  ASSUME watch \in Watch, UserStep
  PROVE  AllForward
<1>1. CASE UserClose
  BY <1>1, CloseWatchLeaves, LeavesAll DEF UserClose
<1>2. CASE CloseSent \/ CloseFails
  <2>1. watch'.tickets = watch.tickets /\ watch'.step = watch.step
    BY <1>2 DEF CloseSent, CloseFails, CloseWithError, OnWatchClose, Watch
  <2> QED
    BY <2>1, TicketsFacts DEF AllForward, Forward
<1> QED
  BY <1>1, <1>2 DEF UserStep

\* Resume does not disturb an establishment; the last attempt to connect makes
\* one that waited for it go on.
LEMMA ConnectionForward ==
  ASSUME watch \in Watch, ConnectionStep
  PROVE  AllForward
<1>1. Leaves(watch, watch)
  BY DEF Leaves
<1>2. CASE ConnectionOpens
  BY <1>1, <1>2, ResumeLeaves, LeavesAll DEF ConnectionOpens
<1>3. CASE ConnectionLost
  BY <1>1, <1>3, PauseLeaves, LeavesAll DEF ConnectionLost
<1>4. CASE SocketError
  BY <1>4, CloseWithErrorLeaves, LeavesAll DEF SocketError
<1>5. CASE ConnectionGivenUp
  <2>0. PICK closes \in BOOLEAN :
          LET w == IF closes /\ watch.inClients THEN CloseWithError(watch) ELSE watch
          IN watch' = IF \E o \in OpName : w.step[o] = "reconnect"
                        THEN Retry(w, CHOOSE o \in OpName : w.step[o] = "reconnect")
                        ELSE w
    BY <1>5 DEF ConnectionGivenUp, GivenUpCloses
  <2> DEFINE w == IF closes /\ watch.inClients THEN CloseWithError(watch) ELSE watch
  <2>1. w \in Watch /\ Leaves(watch, w) /\ w.step = watch.step
    BY <1>1, CloseWithErrorLeaves, CloseWithErrorFacts DEF Leaves
  <2>2. \/ watch' = w
        \/ \E o \in OpName : w.step[o] = "reconnect" /\ watch' = Retry(w, o)
    BY <2>0
  <2> HIDE DEF w
  <2>3. ASSUME NEW o \in OpName, watch' = Retry(w, o) PROVE AllForward
    <3>1. Drives(w, watch', o)
      BY <2>1, <2>3, RetryDrives
    <3>2. Drives(watch, watch', o)
      BY <2>1, <3>1 DEF Drives, Forward, Leaves
    <3> QED
      BY <3>2, DrivesAll
  <2> QED
    BY <2>1, <2>2, <2>3, LeavesAll
<1>6. CASE ConnectionBegun \/ LossUnseen
  <2>1. watch' = watch
    BY <1>6 DEF ConnectionBegun, LossUnseen
  <2> QED
    BY <1>1, <2>1, LeavesAll
<1> QED
  BY <1>2, <1>3, <1>4, <1>5, <1>6 DEF ConnectionStep

\* However an establishment fails and is retried, paused, resumed and overtaken by
\* messages, its attempts only move forward and use up its retries, of which there
\* are MaxRetries: nothing makes it start over for free.
THEOREM RetriesRunOut == Spec => EstablishmentAdvances
<1>1. IInv /\ [Next]_vars => [\A o \in OpName : Advances(o)]_vars
  <2> SUFFICES ASSUME IInv, Next PROVE \A o \in OpName : Advances(o)
    OBVIOUS
  <2>1. watch \in Watch
    BY DEF IInv, TypeOK
  <2>2. ASSUME ServerStep PROVE AllForward
    <3>1. watch' = watch
      BY <2>2 DEF ServerStep, ServerEvent, ServerError, ServerAnswers, LoseMessage
    <3>2. Leaves(watch, watch')
      BY <2>1, <3>1 DEF Leaves
    <3> QED
      BY <2>1, <3>2, LeavesAll
  <2>3. AllForward
    BY <2>1, <2>2, EstablishForward, MessageForward, UserForward, ConnectionForward DEF Next
  <2> QED
    BY <2>3 DEF AllForward, Forward, Advances
<1> QED
  BY <1>1, Invariance, PTL DEF Spec, EstablishmentAdvances

=============================================================================
