---------------------------- MODULE ServerEvents ----------------------------
(***************************************************************************)
(* What _handleServerEvents makes of the changes in a batch of events: the *)
(* documents of the session and the snapshots given to onChange.  When     *)
(* batches arrive is the subject of WatchClient; here any run of events    *)
(* that the server has committed may arrive at any time, so losses,        *)
(* duplicates, overlaps and responses to a rebuild are all included.       *)
(*                                                                         *)
(* Documents are JavaScript objects.  The session, the changes and the     *)
(* snapshots hold references into a heap, and a snapshot copies what its   *)
(* references lead to only when the user first reads it: it is to be right *)
(* whenever that is.                                                       *)
(***************************************************************************)
EXTENDS Integers, Sequences, FiniteSets, SequencesExt

CONSTANTS DocId, Field, Value,
          MaxEvent,      \* bound on the events the server commits
          MaxChanges     \* bound on the changes these make

\* A query finds finitely many documents.
ASSUME BoundsAssumption ==
  MaxEvent \in Nat \ {0} /\ MaxChanges \in Nat /\ IsFiniteSet(DocId)

VARIABLES log,       \* the server's events: their changes and the result after
          client     \* the watch

vars == <<log, client>>

-----------------------------------------------------------------------------
\* Data

Absent == "absent"     \* a document may lack a field

Data == [Field -> Value \cup {Absent}]

None == 0                   \* undefined, for references and documents

\* Result of a query: a partial function from ids to what the documents hold.
Result == UNION {[S -> Data] : S \in SUBSET DocId}

\* The kinds of events of typings/realtime.ts, and those that carry the document.
Kind == {<<"init", "init">>,
         <<"update", "update">>, <<"update", "enqueue">>, <<"update", "dequeue">>,
         <<"replace", "update">>, <<"replace", "enqueue">>, <<"replace", "dequeue">>,
         <<"add", "enqueue">>, <<"remove", "dequeue">>,
         <<"limit", "enqueue">>, <<"limit", "dequeue">>}

HasDoc(dataType, queueType) ==
  dataType \in {"init", "replace"} \/ queueType = "enqueue"

\* full: the document the change is about, as the user is to see it (a ghost).
\* sent: Doc is there.  updated, removed: UpdatedFields and removed fields;
\* spelling: the name under which the latter are sent.
Change(dataType, queueType, id, full, sent, updated, removed, spelling) ==
  [dataType |-> dataType, queueType |-> queueType, docId |-> id, full |-> full,
   sent |-> sent, updated |-> updated, removed |-> removed, spelling |-> spelling]

-----------------------------------------------------------------------------
\* _handleServerEvents.  Its state c: the position and documents of the session,
\* the local variables docs and initEncountered, the heap, the changes of the
\* event so far, the snapshots given to onChange, and how the loop has ended.

\* JSON.parse(event.removedFields), whichever of the two names was tested.
Unreadable(change) == change.removed # {} /\ change.spelling = "RemovedFields"

Find(docs, heap, id) == SelectInSeq(docs, LAMBDA ref : heap[ref].id = id)

\* cloneDeep, then set and unset.
PartialUpdate(doc, change) ==
  [doc EXCEPT !.data =
     [f \in Field |-> IF f \in change.removed THEN Absent
                      ELSE IF f \in DOMAIN change.updated THEN change.updated[f]
                      ELSE @[f]]]

\* A new object, and the reference to it.
Allocate(c, change, doc) ==
  [c EXCEPT !.heap = Append(@, doc),
            !.group = Append(@, [change |-> change, doc |-> Len(c.heap) + 1])]

Refer(c, change, ref) == [c EXCEPT !.group = Append(@, [change |-> change, doc |-> ref])]

NeedsDoc(change) ==
  \/ change.dataType \in {"update", "limit"} /\ change.queueType = "enqueue"
  \/ change.dataType = "replace"

\* Mutant: without cloneDeep, an update reaches the object that earlier snapshots
\* refer to.
PopulateInPlace(c, change) ==
  LET at == Find(c.docs, c.heap, change.docId)
  IN IF change.dataType = "update" /\ ~change.sent /\ at # 0
     THEN [Refer(c, change, c.docs[at]) EXCEPT !.heap[c.docs[at]] = PartialUpdate(@, change)]
     ELSE Allocate(c, change, [id |-> change.docId, data |-> change.full])

\* Mutant: a document that leaves the result by the limit is not told.
PopulateButLimit(c, change) ==
  LET at == Find(c.docs, c.heap, change.docId)
  IN IF ~change.sent /\ change.dataType = "limit" THEN Refer(c, change, None)
     ELSE IF ~change.sent /\ change.dataType = "remove" THEN Refer(c, change, c.docs[at])
     ELSE Allocate(c, change, [id |-> change.docId, data |-> change.full])

\* The first switch: gives the change a document.
Populate(c, change) ==
  LET at == Find(c.docs, c.heap, change.docId)
      local == IF at = 0 THEN None ELSE c.docs[at]
  IN IF change.sent /\ change.dataType # "remove"
     THEN Allocate(c, change, [id |-> change.docId, data |-> change.full])
     ELSE IF NeedsDoc(change) THEN [c EXCEPT !.outcome = "invalid"]
     ELSE IF local # None /\ change.dataType = "update"
     THEN Allocate(c, change, PartialUpdate(c.heap[local], change))
     ELSE IF change.dataType \in {"update", "remove", "limit"} THEN Refer(c, change, local)
     ELSE Refer(c, change, None)

\* The second switch: applies the change to the documents.
Queue(c, change) ==
  LET at == Find(c.docs, c.heap, change.docId)
      doc == Last(c.group).doc
  IN CASE change.queueType = "init" ->
            [c EXCEPT !.docs = IF c.initEncountered THEN Append(@, doc) ELSE <<doc>>,
                      !.initEncountered = TRUE]
       [] change.queueType = "enqueue" -> [c EXCEPT !.docs = Append(@, doc)]
       [] change.queueType = "dequeue" ->
            [c EXCEPT !.docs = IF at = 0 THEN @ ELSE RemoveAt(@, at)]
       [] change.queueType = "update" ->
            [c EXCEPT !.docs = IF at = 0 THEN @ ELSE [@ EXCEPT ![at] = doc]]

\* currentDocs and docs are one array from the first dispatch of the batch on.
Aliased(c) == IF c.dispatched THEN [c EXCEPT !.currentDocs = c.docs] ELSE c

\* Mutant: takes the next event to be the position.
DispatchNext(c, id, throws) ==
  [c EXCEPT !.currentEventId = id + 1, !.currentDocs = c.docs, !.dispatched = TRUE,
            !.snapshots = Append(@, [id |-> id, docs |-> c.docs, docChanges |-> c.group]),
            !.group = <<>>,
            !.outcome = IF id = throws THEN "thrown" ELSE @]

\* onChange is called when the event is complete; throws is the id of the event
\* at which the user's callback throws.
Dispatch(c, id, throws) ==
  [c EXCEPT !.currentEventId = id, !.currentDocs = c.docs, !.dispatched = TRUE,
            !.snapshots = Append(@, [id |-> id, docs |-> c.docs, docChanges |-> c.group]),
            !.group = <<>>,
            !.outcome = IF id = throws THEN "thrown" ELSE @]

\* Mutant: dispatches every change on its own.
HandleChangeAlone(c, events, i, throws) ==
  LET id == events[i].id
      change == events[i].change
      populated == Populate(c, change)
  IN IF c.outcome # "done" \/ c.currentEventId >= id THEN c
     ELSE IF c.currentEventId # id - 1 THEN [c EXCEPT !.outcome = "rebuild"]
     ELSE IF populated.outcome = "invalid" THEN populated
     ELSE Dispatch(Queue(populated, change), id, throws)

\* One pass of the loop.  An element of a batch is a change with its event's id.
HandleChange(c, events, i, throws) ==
  LET id == events[i].id
      change == events[i].change
      populated == Populate(c, change)
      queued == Aliased(Queue(populated, change))
  IN IF c.outcome # "done" \/ c.currentEventId >= id THEN c
     ELSE IF c.currentEventId # id - 1 THEN [c EXCEPT !.outcome = "rebuild"]
     ELSE IF populated.outcome = "invalid" THEN populated
     ELSE IF i = Len(events) \/ events[i + 1].id # id THEN Dispatch(queued, id, throws)
     ELSE queued

\* The state before the loop, and after each of its passes.
Start(w) ==
  [currentEventId |-> w.currentEventId, currentDocs |-> w.currentDocs,
   docs |-> w.currentDocs, heap |-> w.heap, group |-> <<>>, snapshots |-> w.snapshots,
   initEncountered |-> FALSE, dispatched |-> FALSE, outcome |-> "done"]

Loop(w, events, throws) ==
  LET loop[i \in 0..Len(events)] ==
        IF i = 0 THEN Start(w) ELSE HandleChange(loop[i - 1], events, i, throws)
  IN loop

\* closeWithError on data that cannot be read or used.  A watch that has failed
\* may still be given the response to a rebuild it had begun.  Objects that
\* nothing refers to afterwards are left out of the heap.
HandleServerEvents(w, events, throws) ==
  LET end == Loop(w, events, throws)[Len(events)]
  IN IF \E i \in DOMAIN events : Unreadable(events[i].change)
     THEN [w EXCEPT !.failed = TRUE]
     ELSE [w EXCEPT !.currentEventId = end.currentEventId,
                    !.currentDocs = end.currentDocs,
                    !.heap = IF end.dispatched THEN end.heap ELSE @,
                    !.snapshots = end.snapshots,
                    !.failed = @ \/ end.outcome = "invalid"]

-----------------------------------------------------------------------------
\* The server (external)

EventId == 1..Len(log)

After(result, change) ==
  IF change.queueType = "dequeue"
  THEN [id \in DOMAIN result \ {change.docId} |-> result[id]]
  ELSE [id \in DOMAIN result \cup {change.docId} |->
          IF id = change.docId THEN change.full ELSE result[id]]

\* Updates of a document in the result: a field is set or removed.
FieldSet(result, queueType, id, f, v) ==
  Change("update", queueType, id, [result[id] EXCEPT ![f] = v], FALSE,
         [x \in {f} |-> v], {}, "removedFields")

FieldRemoved(result, queueType, id, f, spelling) ==
  Change("update", queueType, id, [result[id] EXCEPT ![f] = Absent], FALSE, <<>>, {f}, spelling)

Updates(result, queueType) ==
  {FieldSet(result, queueType, id, f, v) : id \in DOMAIN result, f \in Field, v \in Value}
  \cup
  {FieldRemoved(result, queueType, id, f, spelling) :
     id \in DOMAIN result, f \in Field, spelling \in {"removedFields", "RemovedFields"}}

\* A document enters, is replaced, or leaves.  A server that fails may leave out
\* the document that an event is to carry.
Others(result) ==
  {Change(kind[1], kind[2], id, full, sent, <<>>, {}, "removedFields") :
     kind \in Kind \ {<<"init", "init">>, <<"update", "update">>, <<"update", "dequeue">>},
     id \in DocId, full \in Data, sent \in BOOLEAN}

Legal(result, change) ==
  /\ change.queueType = "enqueue" <=> change.docId \notin DOMAIN result
  /\ change.queueType = "dequeue" /\ change.dataType \in {"remove", "limit"}
       => change.full = result[change.docId]
  /\ change.sent => HasDoc(change.dataType, change.queueType)
  /\ ~change.sent => change.dataType # "add"

Changes(result) ==
  Updates(result, "update") \cup Updates(result, "dequeue")
    \cup {change \in Others(result) : Legal(result, change)}

\* The documents found by INIT_WATCH, in any order, as changes of event id.
InitChanges(id) ==
  LET result == log[id].result
  IN {[i \in DOMAIN ids |-> Change("init", "init", ids[i], result[ids[i]], TRUE, <<>>, {},
                                   "removedFields")] : ids \in SetToSeqs(DOMAIN result)}

\* The changes of the events lo..hi, each with the id of its event.
Tagged(id, changes) == [i \in DOMAIN changes |-> [id |-> id, change |-> changes[i]]]

Batch(lo, hi) ==
  FlattenSeq([i \in 1..(hi - lo + 1) |-> Tagged(lo + i - 1, log[lo + i - 1].changes)])

ChangesMade == FoldLeft(LAMBDA n, event : n + Len(event.changes), 0, log)

-----------------------------------------------------------------------------
\* Behaviours

\* event 1 stands for the database as it is when the watch is opened.
Init == /\ \E result \in Result : log = <<[changes |-> <<>>, result |-> result]>>
        /\ client = [opened |-> FALSE, failed |-> FALSE, currentEventId |-> 0,
                     currentDocs |-> <<>>, heap |-> <<>>, snapshots |-> <<>>]

\* A write changes the result in one place or, with limit(), in two.
MayCommit(n) == Len(log) < MaxEvent /\ ChangesMade + n <= MaxChanges

Commit(changes, result) ==
  /\ log' = Append(log, [changes |-> changes, result |-> result])
  /\ UNCHANGED client

CommitOne ==
  /\ MayCommit(1)
  /\ LET before == log[Len(log)].result
     IN \E c \in Changes(before) : Commit(<<c>>, After(before, c))

CommitTwo ==
  /\ MayCommit(2)
  /\ LET before == log[Len(log)].result
     IN \E c \in Changes(before) : \E d \in Changes(After(before, c)) :
          Commit(<<c, d>>, After(After(before, c), d))

\* initWatch: the response to INIT_WATCH, as of event id.  When the callback
\* throws on an empty first result, that counts as an error of initWatch, which
\* sends INIT_WATCH again and makes a new session.
InitReply(id, throws) ==
  /\ ~client.opened
  /\ \E changes \in InitChanges(id) :
       client' = CASE changes = <<>> /\ throws = None ->
                        [client EXCEPT !.opened = TRUE, !.currentEventId = id,
                                       !.snapshots = <<[id |-> id, docs |-> <<>>,
                                                        docChanges |-> <<>>]>>]
                   [] changes = <<>> /\ throws # None -> client
                   [] changes # <<>> ->
                        HandleServerEvents([client EXCEPT !.opened = TRUE,
                                                          !.currentEventId = id - 1],
                                           Tagged(id, changes), throws)
  /\ UNCHANGED log

\* A NEXT_EVENT, pushed or in response to REBUILD_WATCH, with the events lo..hi.
NextEvent(lo, hi, throws) ==
  /\ client.opened
  /\ 1 < lo /\ lo <= hi
  /\ client' = HandleServerEvents(client, Batch(lo, hi), throws)
  /\ UNCHANGED log

Next == \/ CommitOne
        \/ CommitTwo
        \/ \E id \in EventId : \E throws \in {None, id} : InitReply(id, throws)
        \/ \E lo, hi \in EventId : \E throws \in {None} \cup (lo..hi) : NextEvent(lo, hi, throws)

Spec == Init /\ [][Next]_vars

-----------------------------------------------------------------------------
\* Properties

Ref == 1..Len(client.heap)

Doc == [id : DocId, data : Data]

\* The documents referred to are those of the result, each once.
Shows(docs, result) ==
  /\ Len(docs) = Cardinality(DOMAIN result)
  /\ \A id \in DOMAIN result :
       \E i \in DOMAIN docs : client.heap[docs[i]] = [id |-> id, data |-> result[id]]

\* The session and the snapshots are well formed: no reference leads nowhere.
TypeOK ==
  /\ client.opened \in BOOLEAN /\ client.failed \in BOOLEAN
  /\ client.currentEventId \in 0..Len(log)
  /\ client.heap \in Seq(Doc)
  /\ client.currentDocs \in Seq(Ref)
  /\ \A i \in DOMAIN client.snapshots : LET s == client.snapshots[i] IN
       /\ s.id \in EventId
       /\ s.docs \in Seq(Ref)
       /\ \A j \in DOMAIN s.docChanges : s.docChanges[j].doc \in Ref \cup {None}

\* Every snapshot shows the result of the query as of its event, now and at any
\* later time that the user reads it: nothing done for a later event reaches
\* the documents of an earlier snapshot (cloneDeep, the shallow slice and the
\* lazy copy of Snapshot).
SnapshotsFaithful ==
  \A i \in DOMAIN client.snapshots :
    Shows(client.snapshots[i].docs, log[client.snapshots[i].id].result)

\* A snapshot tells all the changes of its event and no others, in order, each
\* with the whole document it concerns even if the server has sent none or a
\* part: the updated one, or the one that has left the result.
ChangesComplete ==
  \A i \in DOMAIN client.snapshots :
    LET s == client.snapshots[i] IN
      s.docChanges = <<>> \/ s.docChanges[1].change.dataType = "init" \/
      /\ Len(s.docChanges) = Len(log[s.id].changes)
      /\ \A j \in DOMAIN s.docChanges :
           LET change == log[s.id].changes[j] IN
             /\ s.docChanges[j].change = change
             /\ s.docChanges[j].doc # None
             /\ client.heap[s.docChanges[j].doc] = [id |-> change.docId, data |-> change.full]

\* The documents kept for the next batch are the result as of the position the
\* watch reports to the server, even if the last batch was cut short by a gap or
\* by an exception of the user's callback.  A rebuild from that position would
\* otherwise be applied to the wrong documents.
SessionFaithful ==
  client.snapshots # <<>> /\ ~client.failed =>
    Shows(client.currentDocs, log[client.currentEventId].result)

-----------------------------------------------------------------------------
\* The inductive invariant

\* Shows, said of the documents and not of their number, in any heap.
Mirrors(docs, heap, result) ==
  /\ \A i \in DOMAIN docs :
       /\ heap[docs[i]].id \in DOMAIN result
       /\ heap[docs[i]].data = result[heap[docs[i]].id]
  /\ \A i, j \in DOMAIN docs : heap[docs[i]].id = heap[docs[j]].id => i = j
  /\ \A id \in DOMAIN result : \E i \in DOMAIN docs : heap[docs[i]].id = id

\* The changes of an event lead from one result to the next.
Leads(before, changes, after) ==
  \/ \E c \in Changes(before) : changes = <<c>> /\ after = After(before, c)
  \/ \E c \in Changes(before) : \E d \in Changes(After(before, c)) :
       changes = <<c, d>> /\ after = After(After(before, c), d)

History ==
  /\ log \in Seq(Range(log)) /\ Len(log) > 0
  /\ \A k \in EventId : log[k].result \in Result
  /\ \A k \in EventId \ {1} : Leads(log[k - 1].result, log[k].changes, log[k].result)

\* The documents and changes of a snapshot are those of its event.
Right(s, heap) ==
  /\ s.id \in EventId
  /\ s.docs \in Seq(1..Len(heap))
  /\ Mirrors(s.docs, heap, log[s.id].result)
  /\ \A j \in DOMAIN s.docChanges : s.docChanges[j].doc \in 1..Len(heap)
  /\ s.docChanges = <<>> \/ s.docChanges[1].change.dataType = "init" \/
       /\ Len(s.docChanges) = Len(log[s.id].changes)
       /\ \A j \in DOMAIN s.docChanges :
            LET change == log[s.id].changes[j] IN
              /\ s.docChanges[j].change = change
              /\ heap[s.docChanges[j].doc] = [id |-> change.docId, data |-> change.full]

\* The event after position p cannot be used: no batch gets beyond it.
Invalid(change) == ~(change.sent /\ change.dataType # "remove") /\ NeedsDoc(change)

Stuck(p) == p < Len(log) /\ \E j \in DOMAIN log[p + 1].changes : Invalid(log[p + 1].changes[j])

\* The documents of the session, in any heap.  A watch may fail amid the changes
\* of an event.
SessionFits(w) ==
  \/ Mirrors(w.currentDocs, w.heap, log[w.currentEventId].result)
  \/ w.failed /\ Stuck(w.currentEventId)

Watching(w) ==
  /\ w.currentEventId \in EventId
  /\ w.snapshots # <<>>
  /\ \A i \in DOMAIN w.snapshots : Right(w.snapshots[i], w.heap)
  /\ SessionFits(w)

Unopened(w) == w.currentEventId = 0 /\ w.currentDocs = <<>> /\ w.heap = <<>> /\ w.snapshots = <<>>

Typed(w) ==
  /\ w = [opened |-> w.opened, failed |-> w.failed, currentEventId |-> w.currentEventId,
          currentDocs |-> w.currentDocs, heap |-> w.heap, snapshots |-> w.snapshots]
  /\ w.opened \in BOOLEAN /\ w.failed \in BOOLEAN
  /\ w.heap \in Seq(Doc)
  /\ w.currentDocs \in Seq(1..Len(w.heap))
  /\ w.snapshots \in Seq(Range(w.snapshots))

IInv ==
  /\ History
  /\ Typed(client)
  /\ IF client.opened THEN Watching(client) ELSE Unopened(client)
=============================================================================
