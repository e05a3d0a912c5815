------------------------------- MODULE Requests -------------------------------
(***************************************************************************)
(* Query, CollectionReference, DocumentReference and Aggregation: queries  *)
(* derived from one another, pipelines built up stage by stage, and the    *)
(* requests that their operations send.                                    *)
(*                                                                         *)
(* Requests implements DocumentStore: what the server does with what the   *)
(* SDK encodes is what the calls mean.                                     *)
(***************************************************************************)
EXTENDS Queries, Callbacks, DocumentServer, Updates

CONSTANTS
  Id,            \* ids of documents
  DefaultLimit,  \* 100
  MaxLimit,      \* 1000
  Programs       \* by name: the values and operations that a program uses, and bounds

LOCAL INSTANCE SequencesExt
LOCAL INSTANCE FiniteSetsExt

VARIABLES
  program,  \* the name of the program
  docs,     \* the server's documents, Undefined where there is none
  pipelines,  \* the objects of class Aggregation: _stages; ghost meant: as given
  seen      \* ghost: the documents in the terms of the user

vars == <<program, docs, options, queries, pipelines, calls, seen, faults>>

Uses == Programs[program]

\* What _fieldFilters is until where is called.
ASSUME NoFilterAssumption == NoFilter = Undefined

\* A stored value: no command, and no operator or _id for a key.
RECURSIVE IsStored(_)
IsStored(v) ==
  \/ Type(v) \in {"number", "string", "date"}
  \/ Type(v) = "array" /\ \A e \in Elements(v) : IsStored(e)
  \/ Type(v) = "object" /\ \A k \in Keys(v) : k \notin OperatorKeys \cup {<<"_id">>} /\ IsStored(At(v, k))

TypeOK ==
  /\ program \in DOMAIN Programs
  /\ \A i \in Id : docs[i] = Undefined \/ IsStored(docs[i])
  /\ \A n \in DOMAIN queries : queries[n].options \in DOMAIN options
  /\ \A c \in DOMAIN calls :
       /\ calls[c].step \in {"sent", "answered", "refused", "failed", "thrown", "ended"}
       /\ calls[c].told \in {<<>>, <<"ok">>, <<"code">>, <<"error">>, <<"ok", "error">>, <<"code", "error">>}
  /\ faults \in 0..Uses.faults

\* What the user can see of a value: what formatField makes of it, but that a
\* point out of range, which it cannot make, is seen as it is.
RECURSIVE View(_)
View(v) ==
  LET read == FormatField(v)
  IN IF read # Thrown THEN read
     ELSE IF Type(v) = "array" THEN Map(View, v) ELSE Obj([k \in Keys(v) |-> View(At(v, k))])

\* EJSON.parse, by which the results of an aggregation are read: dates only.
RECURSIVE Revived(_)
Revived(v) ==
  CASE Type(v) = "array" -> Map(Revived, v)
    [] Type(v) = "object" -> IF Has(v, <<"$date">>) THEN Date(Of(At(v, <<"$date">>)))
                             ELSE Obj([k \in Keys(v) |-> Revived(At(v, k))])
    [] OTHER -> v

Seen(answer) ==
  CASE answer[1] = "found" -> <<"found", [n \in DOMAIN answer[2] |-> <<answer[2][n][1], View(answer[2][n][2])>>]>>
    [] answer[1] = "list" -> <<"list", [n \in DOMAIN answer[2] |-> Revived(answer[2][n])]>>
    [] OTHER -> answer

AllSeen(documents) == [i \in Id |-> View(Emit(documents[i]))]

Init ==
  /\ program \in DOMAIN Programs
  /\ docs \in Uses.initials
  /\ QueriesInit
  /\ pipelines = <<>>
  /\ calls = <<>>
  /\ seen = AllSeen(docs)
  /\ faults = Uses.faults

-----------------------------------------------------------------------------
(* Query.where *)

\* Where throws when no value is given, or the condition cannot be encoded.
Where(q, cond) ==
  LET filter == EncodeQuery(cond, Unset)
  IN /\ Type(cond) = "object" => Keys(cond) = {} \/ \E k \in Keys(cond) : At(cond, k) # Undefined
     /\ filter # Thrown
     /\ Filter(q, cond, filter)

-----------------------------------------------------------------------------
(* Aggregation: aggregate() and the stages *)

Aggregate ==
  /\ pipelines' = Append(pipelines, [stages |-> <<>>, meant |-> <<>>])
  /\ UNCHANGED <<program, docs, options, queries, calls, seen, faults>>

\* Mutant: the stage becomes the first.
PipeFirst(k, name, param, meant) ==
  /\ pipelines' = [pipelines EXCEPT ![k] = [stages |-> <<[name |-> name, param |-> param]>> \o @.stages,
                                            meant |-> Append(@.meant, [name |-> name, param |-> meant])]]
  /\ UNCHANGED <<program, docs, options, queries, calls, seen, faults>>

\* _pipe: unlike a query, a pipeline grows in place.
Pipe(k, name, param, meant) ==
  /\ pipelines' = [pipelines EXCEPT ![k] = [stages |-> Append(@.stages, [name |-> name, param |-> param]),
                                            meant |-> Append(@.meant, [name |-> name, param |-> meant])]]
  /\ UNCHANGED <<program, docs, options, queries, calls, seen, faults>>

\* match, which throws what where throws; any other stage is sent as it is given.
Stage(k, stage) ==
  LET filter == EncodeQuery(stage.param, Unset)
  IN IF stage.name = "match" THEN filter # Thrown /\ Pipe(k, "match", filter, stage.param)
     ELSE Pipe(k, stage.name, stage.param, stage.param)

-----------------------------------------------------------------------------
(* Operations *)

\* What a request says unless the operation says otherwise.
Request == [query |-> Undefined, order |-> <<>>, offset |-> 0, limit |-> 0, projection |-> <<>>,
            data |-> Undefined, merge |-> FALSE, id |-> 0, stages |-> <<>>]

\* Ghost: the call in the terms of DocumentStore, on a query or on a document.
OnQuery(op, q, data) == [op |-> op, id |-> 0, data |-> data] @@ MeantBy(q)
OnDoc(op, id, data) == [op |-> op, id |-> id, data |-> data] @@ Collection.meant

Asks(meant) ==
  /\ meant.op \in Uses.ops
  /\ UNCHANGED <<program, docs, options, queries, pipelines, seen>>

Sends(meant, action, param) == Send(meant, action, param) /\ Asks(meant)
Refuses(meant) == Decline(meant, Request) /\ Asks(meant)

GetQuery(q) ==
  LET o == OptionsOf(q)
      limit == IF o.limit = 0 THEN DefaultLimit ELSE IF o.limit < MaxLimit THEN o.limit ELSE MaxLimit
  IN Sends(OnQuery("get", q, Undefined), "queryDocument",
           [Request EXCEPT !.query = queries[q].filter, !.order = queries[q].orders,
                           !.offset = o.offset, !.limit = limit, !.projection = o.projection])

Count(q) ==
  Sends(OnQuery("count", q, Undefined), "countDocument", [Request EXCEPT !.query = queries[q].filter])

MayUpdate(data) == <<"_id">> \notin Keys(data)

Update(q, data) ==
  LET meant == OnQuery("update", q, data)
  IN IF MayUpdate(data)
       THEN Sends(meant, "updateDocument",
                  [Request EXCEPT !.query = queries[q].filter, !.data = EncodeUpdate(data), !.merge = TRUE])
       ELSE Refuses(meant)

\* The filter, which is encoded, is encoded again.
RemoveQuery(q) ==
  Sends(OnQuery("remove", q, Undefined), "deleteDocument",
        [Request EXCEPT !.query = EncodeQuery(queries[q].filter, Unset)])

ById(id) == Obj(<<"_id">> :> Num(id))

GetDoc(id, projection) ==
  Sends([OnDoc("get", id, Undefined) EXCEPT !.projection = Normal(projection)], "queryDocument",
        [Request EXCEPT !.query = ById(id), !.projection = Normal(projection)])

UpdateDoc(id, data) ==
  LET meant == OnDoc("update", id, data)
  IN IF MayUpdate(data)
       THEN Sends(meant, "updateDocument",
                  [Request EXCEPT !.query = ById(id), !.data = EncodeUpdate(data), !.merge = TRUE])
       ELSE Refuses(meant)

\* Mutant: commands inside objects are overlooked.
HasOperatorOnTop(data) == \E k \in Keys(data) : IsKind(At(data, k), {"update"})

\* checkMixed
RECURSIVE HasOperator(_)
HasOperator(data) ==
  \E k \in DOMAIN Of(data) :
    LET x == Of(data)[k]
    IN IsKind(x, {"update"}) \/ (Type(x) \in {"object", "array"} /\ HasOperator(x))

\* set replaces the document, or makes it: the only upsert.
SetDoc(id, data) ==
  LET meant == OnDoc("set", id, data)
  IN IF MayUpdate(data) /\ ~HasOperator(data)
       THEN Sends(meant, "updateDocument",
                  [Request EXCEPT !.query = ById(id), !.data = Serialize(data), !.id = id])
       ELSE Refuses(meant)

RemoveDoc(id) ==
  Sends(OnDoc("remove", id, Undefined), "deleteDocument", [Request EXCEPT !.query = ById(id)])

\* create, of a document with an id; add, without one (0).
Create(id, data) ==
  Sends(OnDoc("add", id, data), "addDocument", [Request EXCEPT !.data = Serialize(data), !.id = id])

\* Aggregation.end
End(k) ==
  Sends([op |-> "aggregate", id |-> 0, stages |-> pipelines[k].meant], "aggregate",
        [Request EXCEPT !.stages = pipelines[k].stages])

-----------------------------------------------------------------------------
(* The server and the network *)

WithId(i) == Put(docs[i], <<"_id">>, Num(i))

Selected(query) ==
  {i \in Id : docs[i] # Undefined
                /\ (query = Undefined \/ Matches(Parse(query), WithId(i)))}

\* The server does what is asked.
Serve(c) ==
  LET p == calls[c].param
      action == calls[c].action
      ids == Selected(p.query)
      data == Parse(p.data)
      count == <<"number", Cardinality(ids)>>
      all == SetToSeq(Selected(Undefined))
      run(list, stage) == Staged(stage, list, LAMBDA d : Matches(Parse(stage.param), d))
      results == FoldLeft(run, [n \in DOMAIN all |-> WithId(all[n])], p.stages)
      found == IF p.limit = 0 THEN SetToSeq(ids) ELSE Window(docs, ids, p.order, p.offset, p.limit)
      answers(answer) == Answer(c, answer, Seen(answer))
  IN /\ calls[c].step = "sent"
     /\ \/ /\ action = "queryDocument"
           /\ answers(<<"found", [n \in DOMAIN found |-> <<found[n], Emit(Project(docs[found[n]], p.projection))>>]>>)
           /\ UNCHANGED docs
        \/ /\ action = "aggregate"
           /\ answers(<<"list", [n \in DOMAIN results |-> Emit(results[n])]>>)
           /\ UNCHANGED docs
        \/ action = "countDocument" /\ answers(count) /\ UNCHANGED docs
        \/ /\ action = "updateDocument"
           /\ docs' = [i \in Id |-> IF i \in ids THEN IF p.merge THEN Apply(data, docs[i]) ELSE data
                                    ELSE IF i = p.id THEN data ELSE docs[i]]
           /\ answers(count)
        \/ /\ action = "deleteDocument"
           /\ docs' = [i \in Id |-> IF i \in ids THEN Undefined ELSE docs[i]]
           /\ answers(count)
        \/ /\ action = "addDocument"
           /\ \E i \in (IF p.id # 0 THEN {p.id} ELSE Id) :
                /\ docs[i] = Undefined
                /\ docs' = [docs EXCEPT ![i] = data]
                /\ answers(<<"id", i>>)
     /\ seen' = IF docs' = docs THEN seen ELSE AllSeen(docs')
     /\ UNCHANGED <<program, options, queries, pipelines>>

\* An id that another document has.
Taken(c) == calls[c].action = "addDocument" /\ calls[c].param.id # 0 /\ docs[calls[c].param.id] # Undefined

Fails(c) ==
  /\ Refuse(c, Taken(c))
  /\ UNCHANGED <<program, docs, options, queries, pipelines, seen>>

\* Documents that are found are formatted, which may throw.
Settles(c) ==
  LET answer == calls[c].answer
  IN /\ Settle(c, answer[1] = "found" /\ \E n \in DOMAIN answer[2] : FormatDocument(answer[2][n][2]) = Thrown)
     /\ UNCHANGED <<program, docs, options, queries, pipelines, seen>>

TellsAgain(c) == TellAgain(c) /\ UNCHANGED <<program, docs, options, queries, pipelines, seen>>

-----------------------------------------------------------------------------

Builds(q) ==
  /\ \/ \E cond \in Uses.conds : Where(q, cond)
     \/ \E order \in Uses.orders : OrderBy(q, order)
     \/ \E n \in Uses.limits : Limit(q, n)
     \/ \E n \in Uses.offsets : Skip(q, n)
     \/ \E projection \in Uses.projections : Field(q, projection)
  /\ UNCHANGED <<program, docs, pipelines, calls, seen, faults>>

Operates(q) == GetQuery(q) \/ Count(q) \/ RemoveQuery(q) \/ \E data \in Uses.changes : Update(q, data)

OperatesOn(id) ==
  \/ \E projection \in Uses.projections : GetDoc(id, projection)
  \/ \E data \in Uses.changes : UpdateDoc(id, data)
  \/ \E data \in Uses.documents : SetDoc(id, data) \/ Create(id, data)
  \/ RemoveDoc(id)

\* Bounds: maxQueries, maxPipelines, maxStages, maxCalls.
Next ==
  \/ Len(pipelines) < Uses.maxPipelines /\ Aggregate
  \/ \E k \in DOMAIN pipelines, stage \in Uses.stages :
       Len(pipelines[k].stages) < Uses.maxStages /\ Stage(k, stage)
  \/ Len(queries) < Uses.maxQueries /\ \E q \in DOMAIN queries : Builds(q)
  \/ /\ Len(calls) < Uses.maxCalls
     /\ \/ \E q \in DOMAIN queries : Operates(q)
        \/ \E id \in Uses.ids : OperatesOn(id)
        \/ \E k \in DOMAIN pipelines : End(k)
        \/ \E data \in Uses.documents : Create(0, data)
  \/ \E c \in DOMAIN calls : Serve(c) \/ Fails(c) \/ Settles(c) \/ TellsAgain(c)

\* No request stays without an answer, a refusal or an error, and what follows it is run.
Fairness ==
  \A c \in 1..2 : /\ []<>(c \in DOMAIN calls => calls[c].step # "sent")
                 /\ WF_vars(c \in DOMAIN calls /\ (Settles(c) \/ TellsAgain(c)))

Spec == Init /\ [][Next]_vars /\ Fairness

-----------------------------------------------------------------------------

Store == INSTANCE DocumentStore WITH docs <- seen, asked <- [c \in DOMAIN calls |-> calls[c].asked]

\* The server does to the documents, and answers, what the calls say in the terms
\* of the user: conditions and updates keep their meaning when they are encoded,
\* written values are read back, and calls that are refused do nothing.
ImplementsStore == Store!Spec

\* Every call ends, and its callback is called, whatever fails on the way.
CallsEnd ==
  \A c \in 1..2 :
    c \in DOMAIN calls ~> c \in DOMAIN calls /\ calls[c].step = "ended" /\ calls[c].told # <<>>

=============================================================================
