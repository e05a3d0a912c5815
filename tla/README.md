# Verification of the database SDK

TLA+ models of `@cloudbase/database`, the browser SDK of a document database: its
realtime subscriptions (`src/realtime`), its transactions (`src/transaction`), and its
queries, commands and serializers. TLC checks the models on small instances; TLAPS
proves the main safety properties for every value of the constants. `PROJECT.json`
lists the runs, the lines each definition stands for, the hazards and the theorems.

## 1. The system

Three parts are state machines, and one is a translator: it turns what the user
says, in JavaScript values and commands, into JSON requests, and the answers back
into values.

| component | state | operations |
|---|---|---|
| **watch** (`VirtualWebSocketClient`, one per `watch()`) | status, session (queryID, currentEventId, expectEventId, documents), the promises of initWatch and rebuildWatch, retry tickets, two timers | constructor, initWatch, rebuildWatch, their error handler, onMessage, handleServerEvents, sendACK, pause, resume, closeWatch, closeWithError |
| **connection** (`RealtimeWebSocketClient`, one per environment) | the set of watches and two maps from ids to watches, the socket, the promise of a connection attempt, subscribers that await it, the responses awaited, the table of logins, heartbeat counters and timers | initWebSocketConnection, the four socket handlers, webLogin, send, heartbeat, close, pauseClients, resumeClients, closeAllClients, onWatchStart, onWatchClose, watch |
| **transaction** (`Transaction`, `runTransaction`) | id, inited, aborted, commited, abortReason; the recursion of `runTransaction` | init, commit, rollback, the operations of `DocumentReference`, runTransaction |
| **queries** (`Query`, `CollectionReference`, `DocumentReference`, `Aggregation`) | filter, orders and options, which derived queries share; the stages of a pipeline, which grow in place | where, orderBy, limit, skip, field; get, count, update, remove; create, set, add; aggregate, the stages, end |
| **commands, serializers, values** (`commands`, `serializer`, `geo`, `util.ts`, ...) | none: immutable values and pure functions | the commands of conditions and updates, flatten, encodeQuery, encodeUpdate, serialize, formatField |

Each operation of a query ends in one call of `reqClass.send`, whose promise is
followed by formatting and the user's callback. A watch reaches the connection through
functions it is given (`send`, `login`, `isWSConnected`, `onceWSConnected`,
`onWatchStart`, `onWatchClose`); the connection calls `onMessage`, `pause`, `resume`
and `closeWithError` of its watches. The user is called back through `onChange` and
`onError` and may call `close()` from within a callback.

JavaScript runs one callback at a time, so the hard behaviours are those between
two turns of the event loop: what is read before an `await` and used after it,
timers that outlive the reason they were set for, promises that several callers
share, and responses that overtake pushes. The network adds lost, duplicated
and late messages, disconnections at any point and logins that expire. The
hazards of `PROJECT.json` name each at its line.

What makes each component correct:

- *watch*: the events given to `onChange` are consecutive; the position it
  reports to the server is the last one delivered; it catches up with the
  server after any loss; at most one establishment runs; retries are bounded;
  on a live connection it is never left waiting for nobody; `close()` ends it.
- *documents*: a snapshot shows the result of the query as of its event and
  tells all its changes, whenever it is read; the documents kept for the next
  batch belong to the position reported to the server.
- *connection*: one socket at a time; an attempt can end; every disconnection
  leads to a new connection or to the closing of all watches.
- *logins*: watches that log in together share one login; a watch joins none that
  is over; a login is not used past the end of the socket it was made on.
- *heartbeat*: while messages come, a timer or a ping is always pending, so that
  a connection that goes silent is noticed.
- *queries*: what the server does with what the SDK encodes is what the call means
  in the terms of its user; deriving a query changes no other; a call ends and its
  callback is told, whatever fails.
- *transaction*: a callback's writes take effect at most once, unless it throws an
  earlier conflict after a commit; `runTransaction` returns only after a commit, a
  rollback is final, and a transaction is left open only after an attempt to roll it
  back or a conflict.

## 2. Modules

| module | models |
|---|---|
| `WatchObject` | the methods of one `VirtualWebSocketClient`, each an operator from the object's state to its state at the method's first `await` |
| `WatchClient` | the state machine of one watch: the user, the timers and promises, the shared connection as the watch sees it, the server and the network |
| `WatchFeed` | the abstract specification: what the user of `watch()` is promised |
| `MCWatchClient` | instances for TLC and the promises of comments that the code breaks |
| `WatchClientProofs` | theorems about `WatchClient` |
| `WatchResumeProofs` | that a watch opened on a live connection is never stranded, and that its attempts run out |
| `ServerEvents` | what `_handleServerEvents` makes of the changes in a batch: documents and snapshots |
| `MCServerEvents` | its instance for TLC |
| `ServerEventsProofs` | theorems about `ServerEvents` |
| `Connection` | the shared connection: sockets, chains of attempts, close events, and what they do to the watches |
| `Session` | what the connection keeps beside its socket: the table of logins and the heartbeat |
| `SessionProofs` | theorems about `Session` |
| `Values` | JavaScript values, the geographical classes, how values are serialized and read back |
| `Commands` | the commands of conditions and how a condition is encoded |
| `Updates` | the commands of updates and how an update is encoded |
| `Documents` | what can be done to a document, whether it holds the values of the user or those of the server |
| `DocumentServer` | the database as far as `src/` relies on it: MongoDB's operators (external) |
| `DocumentStore` | the abstract specification: what calls mean on documents of JavaScript values |
| `Queries` | the objects of class `Query` and the options they share: `where`, `orderBy`, `limit`, `skip`, `field` |
| `Callbacks` | a call from its request to its callback, whatever it asks |
| `Requests` | what is done with queries, pipelines and documents, and the requests they send |
| `RequestsProofs` | theorems about `Queries` and `Callbacks` |
| `MCRequests` | the values, conditions and programs for TLC, and a promise of a comment that the code breaks |
| `MCConnection` | instances for TLC and the promises of comments that the code breaks |
| `ConnectionProofs` | theorems about `Connection` |
| `RecoveryProofs` | that a paused watch of a connection that was established is in good hands |
| `RunTransaction` | one call of `runTransaction` with its attempts, the user's callback and the server |
| `TransactionPromise` | the abstract specification: what the user of `runTransaction` is promised |
| `RunTransactionProofs` | theorems about `RunTransaction` |

### The watch

`WatchClient!watch` is the object: `status` is `watchStatus`, `currentEventId`
and `expectEventId` are those of `sessionInfo` (`hasSession` says whether it is
there), `tickets` is `_availableRetries`, `ackTimer` and `waitTimer` are
`_ackTimeoutId` and `_waitExpectedTimeoutId` (the latter may be set, and set but
fired, which the code does not tell apart and `sendACK` waits for). `step` says
at which `await` the promise of `initWatch` or `rebuildWatch` is: the login, the
connection inside `send`, the response, the sleep or the reconnection of the
error handler. `inClients` stands for membership in `_virtualWSClient` and
`_watchIdClientMap`, `inQueryMap` in `_queryIdClientMap`: a closed watch may
still be found under its queryID.

An event is its number; a batch is a range of numbers; handling a batch appends
the numbers given to `onChange` to the history `delivered`. An action is one
turn of the event loop: a callback with the microtasks it leaves behind. The
user's `close()` inside a callback is the parameter `closes` of the actions that
deliver events. The connection is reduced to `conn`: `connecting` is the first
attempt, which pauses and resumes nobody, `reconnecting` a later one, `dead`
the end of the attempts. A failed ticket leaves `_ws` and `_wsInitPromise` undefined
while a reconnection sleeps, and the `watch()` of another watch then starts a chain
with `reconnect = false` (`ConnectionBegun`, conn `begun`). The reconnection joins it
if it wakes up in time; the chain's success resumes nobody and leaves
`_reconnectState` set, so that a later loss may start nothing (`LossUnseen`). On the
socket it opens (`alone`) a paused watch may or may not have been resumed.

`send` times out even when the request has not left (`SendTimesOut` in step
`send`), the entry in `_wsResponseWait` survives it, and a late response to
`REBUILD_WATCH` is still routed to `onMessage` as an ordinary `NEXT_EVENT`.
Simplified: the code still transmits the request of such a timeout when the
connection opens, and the server may answer one that was given up; a session made
that way at the server is nobody's.

`WatchClient` takes another watch to keep the connection open. It does not have a
watch opened while no connection is attempted or between two attempts, nor chains of
a first connection that overlap; `Connection` has both.

### The documents

`ServerEvents` fills in what `WatchClient` leaves out of a batch. `log` is the
server's history: each event with its changes and the result of the query after
it. A change is one of the kinds of `typings/realtime.ts`; it carries its
document (`sent`), or the fields set and removed, or nothing. `full` is a ghost:
the document the user is to see. Documents are references into a heap, because
the code shares them between session, changes and snapshots, and `Snapshot`
copies them only when the user reads it. `Populate` is the first switch of the
loop, `Queue` the second, `Dispatch` the call of `onChange`, `Aliased` the
effect of `currentDocs` and `docs` being one array after the first dispatch.

Any run of committed events may arrive at any time, also at a watch that has failed,
which over-approximates what `WatchClient` lets arrive. The callback may throw at any
event (`throws`). At an empty first result it throws into `initWatch`, whose error
handler sends `INIT_WATCH` again: `InitReply` then changes nothing. A server that
fails may leave out a document, but not the same event now and then: it is resent as
it is. The code does not check that an `add` has its document, and an `add` always has
it here. Fields are flat.

### The connection

`Connection!conn` is the object. A *chain* is one call of
`initWebSocketConnection` with the calls it makes of itself after a failure: it
says whether it is a reconnection and how many retries it has left. `step` and
`attempt` are the chain that makes an attempt, awaiting a ticket or its socket;
`_wsInitPromise` is set exactly when `step # "none"`. Between two attempts a
chain sleeps, and `sleeping` counts the chains of each kind: during a sleep
`_wsInitPromise` is undefined, and another chain may begin. Sockets are numbered
in the order of their creation. The browser keeps a closed socket's event for
later: `AfterClose` says which, `ClosedByClient` and `SocketFails` deliver it at
any later time, so that the event of an old socket may come after its successor
has opened. `login` is the socket the cached login was made on.

A watch is what the connection can do to it: establishing, listening (on the socket
`on`), paused, ended, or not opened yet: those of `Connected0` listen at the start.
The history `unaided` says that a watch was opened while no reconnection and no
pending close event was restoring a lost connection: between two attempts, or when
none were left. It is the exception of `PausedInGoodHands` and `Served`. Abstracted:
the counters of pings and pongs (the timers fire and renew the connection of a silent
socket, or find it well, which changes nothing) and logins in flight, which `Session`
has, and in a joined chain the microtask order of the promises that end together, and
the await of `_ws.connect` (214-216) between a socket's creation and its handlers.
`_maxReconnect` is positive: the constructor (`websocket-client.ts:137`) replaces 0 by
the default.

### Logins and the heartbeat

`Session` has what `Connection` leaves out, and in turn takes an attempt to
connect for one step (`step` says what it awaits). `entries` are the objects of
type `ILoginInfo`, named by the login that made them, so that a login can be seen
to hold on to an entry whose table is gone; `current` is the one `_logins` has.
`startTS` is the value of `Date.now`, which two calls that follow closely may
share. A login waits for its ticket, then for its answer; the time-out of `send`
may come first. In `heart`, `ping` and `pong` are the timers whose ids are kept,
`sending` the pings whose send has not settled, and `stray` the pong timers whose
ids a later one has overwritten: nobody can clear them. `missed` is
`_pongMissed`, which nothing resets. `ClosedByPeer`, `LateClose` and the pong
timer are the three ways a socket ends; a late close event resets the logins and
the heartbeat of its successor. Late events with abnormal codes are in
`Connection`.

Two ghosts qualify the properties: `heard`, that a message has come since a close
event cleared the heartbeat, for only a message starts it again; `upset`, the
logins during which the table was reset or another login failed, for a failing
login forgets what its entry holds, even if a refresh has recorded another login
there meanwhile. An `envId` is truthy: without one, every accepted login throws
(`websocket-client.ts:648`), as its entry is recorded nowhere.

### Queries and requests

A JavaScript value in `Values` is its type and its contents; an object is a
function from paths, of one name each but where it is flattened. A command is a
value with its kind, operator, operands and field. `Flatten`, `EncodeQuery`,
`EncodeLogic`, `Merge`, `EncodeUpdate` and `FormatField` follow the functions of
those names; `Thrown` stands for an exception. Patterns are the sets of strings
they match, dates small numbers, coordinates whole numbers.

In `Queries` a query has its filter, encoded by `where`, its orders, and an index into
`options`, the heap of `_queryOptions`, so that sharing is real. In `Callbacks` a call
is `sent`, then answered, refused or lost. `Settle` is what follows its promise, an
exception in formatting included; if the callback throws, the call is `thrown`, and
`TellAgain` is the `catch` that calls it a second time, with what it threw. `Requests`
extends both. `Builds`, the only action that changes `queries` or `options`, is a step
of `QueriesNext` with arguments from the program, and `Where` encodes the condition
before `Filter` takes it. Every operation is a `Send` or a `Decline`, and `Serve`,
`Fails`, `Settles` and `TellsAgain` are an `Answer`, a `Refuse`, a `Settle` and a
`TellAgain`: nothing else changes `calls` or `faults`, so that each step is one of
`CallsNext` or leaves them alone. In `Requests` itself, a pipeline (`pipelines`) grows
in place. The server parses the request (`Parse`: what was not encoded loses its type)
and executes it by MongoDB's operators.

The ghosts `meant` and `asked` keep each call in the terms of the user, and `seen`
the documents as the user sees them. `DocumentStore` interprets the user's
conditions and updates directly, without flattening, encoding or merging, and
`ImplementsStore` says that each step of `Requests` is a step of it or a stutter:
a call takes effect once, at some time, as it was meant, or never. The two share
`Documents` (order, arrays, projection), on which nothing of the SDK bears.

### runTransaction

`attempt` is the depth of the recursion, `times` the parameter, `tx` the current
`Transaction`. The server keeps a state per attempt. An unanswered request may
or may not have been executed. The callback may operate, commit and roll back as it
likes, keep the errors it is given, and return or throw any error: one of its own,
the last it was given, an earlier one, or one of another transaction. The catch block
looks only at the error's code (`index.ts:145`), so that a conflict is tried again
whatever has become of the transaction, and without a rollback. Two histories tell
the cases apart: `conflicted`, the attempts to which the server answered a conflict,
and `stale`, those tried again for a conflict that was not the answer to the
callback's last call.

`TransactionPromise` knows no transactions: the callback runs, a run happens as a
whole or not at all, and the call returns or throws. `RunTransaction` implements it
with `attempt` as the number of the run, the attempts committed at the server as the
runs that have happened, `stale`, and `pc` as the outcome once it is `returned` or
`threw`. The promise excepts `stale` runs: the next may happen although they have. A
commit happens when the server executes it, whether or not its answer arrives.

## 3. Runs

| run | specification and bounds | shows |
|---|---|---|
| `watch_safety` | `Spec`; 2 events after the first, 2 faults, 1 retry, opened on a live or a first connection | type, order of events, position, exclusion of establishments, no gap in a rebuild, acknowledgements, refinement of `WatchFeed`, an attempt under way is not started again for nothing |
| `watch_liveness` | `FairSpec`; 2 events after the first, 2 faults, at most 3 of both, 1 retry, opened on a live connection | never stranded, catches up, establishments end, `close()` releases |
| `watch_ended` | 1 event after the first, else as above | **violated**: a closed watch becomes `ACTIVE` again |
| `first_connection` | 1 event after the first, opened on a first connection | **violated**: the watch waits for nobody |
| `server_events` | `Spec`; 2 documents of 1 field with 2 values, 3 events with 2 changes beside the first result | snapshots and their changes right for good, session right for its position |
| `connection_safety` | `Spec`; 2 watches, no connection at first, 1 retry, one failure each of ticket, opening, close, error and handshake | type, one socket, attempts can end |
| `connection_lost` | `FairSpec`; one watch listening and one to be opened at any time, 1 retry, one failure each of ticket, opening, closing, silence and handshake | paused watches are taken care of, every watch is served or closed, unless a watch was opened while nobody restored the connection |
| `given_up` | one loss, all attempts fail | **violated**: `_reconnectState` outlives the reconnection |
| `session` | `FairSpec`; 2 logins, 2 sockets, 1 ping under way, 2 faults, 1 missed pong tolerated and no failed ping | type, logins are shared and joined only in flight, an accepted login is told, no login outlives its socket's close event, the heartbeat goes on, silence is noticed |
| `requests` | `Spec`; 4 ids, default limit 2, greatest limit 3, seven programs | type, queries keep their meaning, what a callback is told is true, refinement of `DocumentStore`, every call ends, and tells a callback that throws once more |
| `query_or` | objects with `_.or` on two fields | **violated**: either field is enough |
| `run_transaction` | `FairSpec`; 2 retries, 2 calls of the callback per run | at most one commit unless the callback throws an earlier conflict, return means commit, rollback is final, locks released or left to the server by a conflict, refinement of `TransactionPromise`, the call ends |

Why the bounds are enough. Three events make a gap and an overlap possible (one
seen, one lost or late, one that arrives). `MaxEvent` counts those after the first;
`MaxBoth` bounds these events and the faults together, which keeps the graph of
`watch_liveness` small without excluding two pushes in the wrong order or a fault
during the rebuild that their gap starts. Two faults allow a fault inside the handling
of another (a disconnection during a retry, a loss after a timeout); one retry
ticket makes both the retry and the exhausted case reachable. Faults include
failures, losses, duplicates and disconnections. Failures that a disconnection
causes by itself are not counted. `MaxAcks` bounds the calls of `sendACK` that
await their send at once. Two retries of `runTransaction` distinguish the first,
a middle and the last attempt; two calls of the callback allow an operation and
a rollback, or a rollback after a failed one. The theorems hold without these
bounds being small: `MaxRetries`, `MaxEvent`, `MaxFaults`, `MaxAcks`, `Times` and
`MaxOps` are arbitrary naturals there.

In `ServerEvents` two changes in one event or two events in one batch are what
separates the dispatch of an event from that of a change and makes `docs` and
`currentDocs` one array; two documents make places in the array matter; a field
that may be absent or have one of two values tells a stale document from a
current one. In `Connection` each kind of failure has a budget of its own
(`MaxFailures`), so that a run can be given the mixtures that matter: with one
of each, chains overlap, sleep and wake over one another and events of old
sockets are late. In `connection_lost` a reconnection may give up, and a watch may
be opened before, during and after the outage. `MaxSockets` is never reached with these
budgets. Both kinds of bounds are arbitrary in the theorems.

In `Session` two logins are what it takes to overlap, join, refresh and overtake;
two sockets to have a late close event; one ping under way beside one stray pong
timer to overwrite an id; two faults to lose one thing during the recovery from
another. One missed pong tolerated and no failed ping exercise both sides of each
counter's test. The tolerances of the code are 2 and 2.

The programs of `MCRequests` are `conditions` (each operator on numbers, dates,
strings, patterns, arrays and points; commands combined on a field and across
conditions; nested objects and paths), `derivations` (two derivations from any
query), `updating` (each update command, alone and beside another), `writing` (each
type of value through set and add, and read back), `refusing`, `aggregating` (three
stages in any order) and `racing` (two calls under way, one of which is refused,
lost or called back by a function that throws). Two and three stand for the limits
100 and 1000: what matters is a limit below, between and above them and more
documents than the default. Two operands, two fields and one level of nesting are
what the encoders recurse on; the operands differ in type, so that a value that
was left unencoded selects other documents.

Fairness. Timers fire, a promise that is awaited settles (the code gives every
request that waits for a response a timeout, and the event loop runs what is
ready), a response that has arrived is handled, the server answers what it
receives, a request to close the watch is sent or fails, and a reconnection is
attempted again. It is weak fairness, action by
action, as a continuously ready callback is run. Nothing is assumed of the user,
of the query's changes, of faults, or of failures that are alternatives to a
success. In `Connection`: requests for tickets settle, a socket that is opening
opens or fails, a socket that `close()` was called on fires its event, sleeps
and heartbeat timers end, and watches on a live connection get their messages.
In `Session`: the ping timer fires, the send of a ping settles, the pong timer
fires. In `Requests`: a request gets an answer, a refusal or an error (a promise of
the network layer, outside `src/`), and what follows its promise is run. In
`RunTransaction` the only assumption is that `send` and the callback settle.

All configurations say `CHECK_DEADLOCK FALSE`: a watch that has ended and a call
that has returned stop.

### What the violated runs show

- `watch_ended`: `close()` in the `onChange` of the first snapshot sets `CLOSED`
  and removes the watch; `initWatch` then continues, registers the queryID and
  sets `ACTIVE` (`virtual-websocket-client.ts:248-249`). The typings say of close
  "And Now His Watch Is Ended".
- `first_connection`: while the first connection is being attempted, a watch
  whose login fails finds the socket not open and pauses itself
  (`virtual-websocket-client.ts:394`). Its retry resolves as "cancelled on pause"
  (183-188), and only a reconnection resumes watches
  (`websocket-client.ts:227-230`). The comment at 417 promises "maximum effort on
  SEAMINGLESS FAULT TOLERANCE, just retry".
- `given_up`: the last attempt of a reconnection closes the watches and rejects,
  but `_reconnectState`, set at `websocket-client.ts:154`, stays: a later
  reconnection is ignored (149-151). The comment at 271 says that a failed
  reconnection counts as the end of that state.
- `query_or`: in an object query each field's `_.or` encodes to a `$or` of its own,
  and `mergeConditionAfterEncode` concatenates the two arrays
  (`serializer/query.ts:264-268`), so that one field's alternative is enough. The
  comment at 226 says "Merge 2 query conditions"; the same holds for `_.nor`.

Met while modelling, without a run of their own:

- `runTransaction` looks at the code of an error and not at `commited`
  (`transaction/index.ts:145`): a callback that catches a conflict, commits and then
  throws that conflict is run again, and may commit twice. A retry also leaves the
  transaction of the conflict without a rollback.
- `watch()` between two attempts of a reconnection starts a chain that does not
  reconnect (`websocket-client.ts:976-977`). The reconnection joins it and resumes
  nobody; watches that were paused stay so on a live socket, and `_reconnectState`
  stays set, so that a later loss is ignored (149-151).
- A callback of a query that throws is called a second time, with its own exception
  (`query.ts:210` and 213-214).

- After a silent loss the heartbeat opens a new socket; logins are reset by the
  close event of the old one, which may come later, and until then `webLogin`
  answers from the table. The comment at `websocket-client.ts:383` says "all logins
  are invalid after disconnection". `LoginOutlived` is what does hold.
- The last watch is closed while the first attempt awaits its ticket: there is no
  socket to close yet, and the attempt opens one that nobody uses, against "we should
  release the websocket connection" (970).
- The late close event of a replaced socket clears the heartbeat of its successor
  until a message comes; a ping timer that fires before the socket is open sets no
  other; a ping whose send settles late leaves a pong timer nobody can clear.
- An update whose removed fields come as `RemovedFields`, the name in
  `typings/realtime.ts:261`, passes the test at `virtual-websocket-client.ts:1184`
  but `JSON.parse(event.removedFields)` throws and the watch ends with an error
  (`ServerEvents!Unreadable`).
- Operands that lose their type or field, all outside the programs of `MCRequests`:
  a date, pattern or point directly inside a field's `_.and` or `_.or`; a plain value
  there; `_.not` of a logic command; a date in `_.set`, `_.max`, in the modifiers of
  `_.push` or in `elemMatch`; an empty nested object in a condition, which flattening
  drops.
- A stored date of 0 ms is read back as an object (`util.ts:130` asks for a truthy
  value); one point out of range makes a whole `get` fail; `limit(0)` is the default
  limit; refusals of a call with a callback are told by a promise only; `and` and
  `or` of a command put it into the caller's own array.

## 4. Proofs

`WatchClientProofs`. None of the properties is inductive alone: that a batch is
delivered in order rests on the position being the last event delivered; that a
response to a rebuild leaves no gap rests on the request having named a position
no later than the current one, and on at most one request being in flight; that
`initWatch` does not run over a session rests on nothing having been delivered
before it. `IInv` collects these facts: `SessionHistory` (what an empty history
says of the session, the establishments and the timer), `InFlight` (a request or
a response in flight belongs to the step that awaits it), `KnownEvents` (nobody
knows an event the server has not committed), `RequestsBehind` (a rebuild names a
position already seen). There is one lemma per action, on top of lemmas about
the operators of `WatchObject` (what `Establish`, `Retry`, `HandleServerEvents`
preserve) and about sequences. From `Invariance` follow the type invariant, the
order of events, the position, the exclusion of establishments, the fit of
rebuild responses, the acknowledgements, and that every step is a step of
`WatchFeed` or leaves it alone (`Refinement`).

`WatchResumeProofs`. `NotStranded` speaks of conn `up`; the socket of another watch's
chain is `alone`, and there the code strands a paused watch. It is a theorem of
watches that are not opened on a first connection (`"connecting" \notin InitialConn`),
and of no others: that is what the run `first_connection` shows. It needs beside it
that no watch is paused on a live connection (`NobodyPaused`): a watch is paused while
the connection is down, and is then among those that the reconnection resumes.
`Resumed` combines the two; the lemmas say of each method that it leaves a watch on a
live connection `ACTIVE` or on its way there. No bound and no fault matters.

`RetriesRunOut` is the part of `EstablishmentEnds` that needs no fairness, and it
holds of every watch: `EstablishmentAdvances` ranks the awaits of an attempt in their
order (login, send, response, sleep, reconnection) and says that a step takes an
establishment back to an earlier one only by using up a retry. There is a lemma per
method of `WatchObject` and one per action; the danger is in those that are not the
establishment's own (a message, a timer, `pause`, `resume`, `close()` from a callback),
which must neither start its attempt again nor give its retries back. What remains
for TLC is that each await ends.

`RunTransactionProofs`. `CommittedOnce` needs that a retry that is not `stale` follows
an error that rules a commit out: a conflict given by the callback's last call came
from the current attempt (`Flags`), and the commit's own conflict means that it did
not happen. `Attempts` says that an earlier attempt is committed only if it is
`stale`, that it is open only if it is `conflicted` or `stale`, and that later ones
have not begun. `ReleasesLocks` follows for all attempts, not for the last alone. The
type, proved from the same invariant, says that the recursion never makes more
attempts than `times`. `Refinement` maps each step to one of `TransactionPromise` or
to a stutter: `RunAgain` where a conflict is tried again, which needs that no attempt
is committed then but `stale` ones; `Happen` where the server commits and the answer
is lost; `Return` where it arrives; `Throw` at the end of a call that gives up,
whatever was committed. `CallRunsOut` gives the reason why a call ends (`RunsOut`):
every step uses up one of the `times`, or decreases `Left`, what the current attempt
can still do; both are naturals. Fairness then makes it end, which TLC checks as
`Ends`.

`ConnectionProofs`. `OneSocket` and `AttemptCanEnd` hold for any number of
watches, chains, sockets and failures. The inductive invariant `IInv` says that
`_ws` is undefined or the last socket created, and undefined while a ticket is
awaited (`LastSocket`); that a socket that has not opened yet is the last one and
is awaited by the attempt (`Awaited`); and that only a chain with retries left
sleeps (`Sleepers`), without which the next attempt would leave the type. The
lemmas follow the methods: what `Close`, `OnWatchClose`,
`InitWebSocketConnection`, `AttemptFails` and `OnClose` preserve, then one step
per action.

`RecoveryProofs`. `PausedInGoodHands` is a theorem of any watches, of which some
listen at the start (`Connected0`) and the others are opened at any time. Its
exception, `unaided`, is where the code lets paused watches down: a watch opened while
nobody restores the connection starts a chain that resumes nobody, and a watch that
waits for such a chain pauses for good when it fails (also a first connection's, as
the hazard at `websocket-client.ts:276` says). Until then `Restored` holds: every chain
under way or asleep is a reconnection; while there are watches, a reconnection is under
way, or the socket is open, or a socket that the heartbeat closed has its event still to
come, which begins one; and with a paused watch it is not the open socket. A watch that
is opened joins what is under way (`WatchRestores`). This is more than the run can show:
the number of failures of each kind is arbitrary.

`SessionProofs`. The properties say what the table of logins never forgets and what
its promises never outlive, so `IInv` says whom each thing belongs to.
`SocketInUse`: `_ws` is the socket created last and nothing has been heard of its
close. `PromiseOfEntry`: the promise in the table is that of the login that wrote
the entry last, with its `startTS`. `ResultOfLogin`: a recorded result is that of a
login which has returned. `TableKnows`: a login under way that nothing has upset
finds its entry in the table, with a promise or a result there, and so the next
caller of `webLogin` joins it; this is what `LoginShared` rests on. `Started` and
`Sent` order the logins and tie a request to its socket. The properties that a late
close event threatens, `LoginOutlived` and `HeartbeatAlive`, are conjuncts: the first
holds because a close event empties the table, so that a login which is answered
later writes into an entry that the table no longer has; the second because the event
also forgets what was `heard`. `SilentWindsDown` is the part of `SilenceNoticed` that
needs no fairness (`WindsDown`): on a silent socket each step of the heartbeat uses up
a fault, counts a missed pong, or decreases `Pending`, a weighted count of the timers
and pings under way. Stray timers, which nobody can clear, are in the count, and so is
a ping that outlasts the heartbeat it belongs to.

`ServerEventsProofs`. The properties of the documents hold for any number of
documents, fields, values, events, changes and snapshots. `Shows` counts documents;
the invariant uses `Mirrors` instead, which says that references and documents of
the result correspond one to one. `IInv`: `History` (each event's changes lead from
one result to the next), `Right` for each snapshot (its references mirror the result
of its event, its changes are that event's with their documents, in the heap of
now), and `SessionFits`: the session mirrors the result of its position, *or* the watch
has failed and is `Stuck`, for the next event is one that cannot be used. The second
case is real: after the first batch `docs` and `currentDocs` are one array, so a
fatal change leaves the changes before it in the session, and the position behind.
It is harmless because every later batch stops at the same event.

The proof of a batch is an induction over the passes of its loop. `Held` is what
every pass keeps (the snapshots are right, the heap has only grown); `Stage` is
where the loop is: at a `Boundary` between events, or `Midway`, between the two
changes of one. `LoopStep` takes one to the other; lemmas below it say what
`Populate` allocates, what `Queue` does to a mirror (`MirrorsEnqueue`,
`MirrorsUpdate`, `MirrorsDequeue`) and what `Dispatch` adds. An `INIT_EVENT` has a
loop invariant of its own (`Opening`): after i passes the documents are the first i.
`BatchFits` says what a concatenation of events looks like: the ids go up by one at
most, and each change stands at its place in its event. These inductions are first-order:
the loop and the concatenation are recursive functions, and each induction takes the
least counterexample (`LeastNat`, from the well-foundedness of `<`).

`RequestsProofs`. That no derivation changes what another query means is a theorem of
any number of queries, derived in any order with any arguments. `IInv` says that
the options of a query exist, that they and its orders are what its user asked for,
and what fields it has. One lemma (`DeriveKeeps`) says that adding a query of that
kind, and at most adding to the options, keeps this and leaves every earlier query as it
was (`QueriesStay`); one per method says that the query it makes is of that kind. The
values themselves never matter, so the encoders are not needed.

Nor are they for the calls: `CallsSpec` lets a call ask for anything, the server
answer anything, and formatting throw or not. `CallsInv` says of each call how its
step, its effect (`asked`) and what was told fit together (`Outcome`): one that was
sent and not settled has told nothing; one that was answered has taken effect, one
that was refused has not; one that has told `ok` or a code, and perhaps what its
callback threw, has told `ok` only with, and a code only without an effect.
`TruthIsTold` follows from it, and `OneOutcome` (`OutcomeKept`) from the same lemmas,
action by action: the effect of a call is never changed or repeated, what was told
stands, and all that may follow is one more telling, of the callback's own exception.

`RunsOut`, `WindsDown` and `OutcomeKept` are theorems and no run repeats them.

Assumptions: the named ASSUMEs of the modules (the bounds are naturals, the watches
and the documents that a query can find are finitely many, the watch is opened on a
first or a live connection). TLC evaluates them in every run.

Only model-checked: the liveness properties (`CatchesUp`, `EstablishmentEnds`,
`CloseReleases`, `Served`, `Ends`, `SilenceNoticed`, `CallsEnd`), which need fairness
and ENABLED (of `EstablishmentEnds`, `Ends` and `SilenceNoticed` the theorems
`RetriesRunOut`, `CallRunsOut` and `SilentWindsDown` prove what must run out); and the
type of `Requests` with its refinement of `DocumentStore`: its operators recurse over
data, so it and the modules it extends have RECURSIVE definitions, and what they
compute for every input is an induction over data, which the prover cannot do. For the
same reason no theorem says that `Requests` takes only steps of `QueriesNext` and
`CallsNext`; the run checks `QueriesKeepMeaning` and `ToldTruth` on `Requests` itself.

## 5. Not modelled

- The calls of `onError`, an exception of the user's callback outside
  `ServerEvents` and `Requests`, a user who goes on using a transaction after
  its callback has settled, and transactions that expire at the server.
- Of the connection: routing by watchId and queryID beyond what `WatchClient` has of
  it. `Session` takes attempts to connect for single steps, and `Connection` leaves
  out the logins and the heartbeat's counters.
- `connection_lost` allows one silent loss. With two, the close event of a
  replaced socket may clear the heartbeat of its successor, and the second loss
  goes unnoticed until a request times out; no comment promises otherwise.
- Of queries: stages of aggregation whose meaning is the server's alone (`_pipe`
  sends them as they are given), `unwrap` and `done`, the aggregation operators of
  `command.ts` (one key each), `$timestamp` written by others, options of patterns,
  the modifiers of `_.push`, and the server's part of `geoWithin` and
  `geoIntersects`. A conversion to text is modelled by the values it keeps apart.
- Of validation: the tests of parameters, which throw before anything changes;
  error classes and constants have no behaviour.

## 6. Plan

Done: the watch and its refinement of `WatchFeed`, the documents of a watch, the
connection, its logins and heartbeat, `runTransaction` and its refinement of
`TransactionPromise`, queries, commands and serializers with the refinement of
`DocumentStore`, calls and their callbacks, and the theorems listed in `PROJECT.json`.
What could come next:

1. Several detailed watches on one `Connection`: routing, and the pausing and
   resuming of all.
2. The calls of `onError`, and a user who goes on after an exception of `onChange`.
