---------------------------- MODULE DocumentStore ----------------------------
(***************************************************************************)
(* What the calls of Query, DocumentReference, CollectionReference and     *)
(* Aggregation mean to their user: documents of JavaScript values, on      *)
(* which each call takes effect at once, some time after it was made, or   *)
(* never.                                                                  *)
(***************************************************************************)
EXTENDS Documents, Commands

CONSTANTS
  Id,            \* ids of documents
  DefaultLimit,  \* how many documents are got unless the user says
  MaxLimit,      \* and how many at most
  Now            \* the server's clock

LOCAL INSTANCE FiniteSetsExt
LOCAL INSTANCE SequencesExt

VARIABLES
  docs,  \* the documents of a collection, Undefined where there is none
  asked  \* the calls made: what was called, whether it has taken effect, and its result

vars == <<docs, asked>>

-----------------------------------------------------------------------------
(* Conditions *)

\* Whether v is as a value, a pattern or a command says.
RECURSIVE Holds(_, _)
Holds(cond, v) ==
  LET c == Of(cond)
      x == First(c.operands)
      operands == Elements(c.operands)
  IN CASE Type(cond) = "regexp" -> Type(v) = "string" /\ Of(v) \in Of(cond)
       [] Type(cond) # "command" -> v = cond
       [] c.operator = "and" -> \A p \in operands : Holds(p, v)
       [] c.operator = "or" -> \E p \in operands : Holds(p, v)
       [] c.operator = "nor" -> ~\E p \in operands : Holds(p, v)
       [] c.operator = "not" -> ~Holds(x, v)
       [] c.operator = "eq" -> v = x
       [] c.operator = "neq" -> v # x
       [] c.operator = "gt" -> Less(x, v)
       [] c.operator = "gte" -> Less(x, v) \/ v = x
       [] c.operator = "lt" -> Less(v, x)
       [] c.operator = "lte" -> Less(v, x) \/ v = x
       [] c.operator = "in" -> v \in operands
       [] c.operator = "nin" -> v \notin operands
       [] c.operator = "all" -> Type(v) = "array" /\ operands \subseteq Elements(v)
       [] c.operator = "size" -> Type(v) = "array" /\ Len(Of(v)) = Of(x)
       [] c.operator = "exists" -> Of(x) = (v # Undefined)
       [] c.operator = "mod" -> Type(v) = "number" /\ Of(v) % Of(Of(x)[1]) = Of(Of(x)[2])
       [] c.operator = "elemMatch" -> \E e \in Elements(v) : Holds(x, e)
       [] c.operator = "geoNear" ->
            LET abs(n) == IF n < 0 THEN -n ELSE n
                from(i) == Of(Of(Of(At(x, <<"geometry">>))[2])[i])
                to(i) == Of(Of(Of(v)[2])[i])
            IN Type(v) = "geo" /\ abs(from(1) - to(1)) + abs(from(2) - to(2)) <= Of(At(x, <<"maxDistance">>))

\* Whether a document is as where() says: every field named, at any depth.
RECURSIVE Means(_, _)
Means(cond, doc) ==
  IF Type(cond) = "command"
    THEN LET operands == Elements(Of(cond).operands)
         IN CASE Of(cond).operator = "and" -> \A p \in operands : Means(p, doc)
              [] Of(cond).operator = "or" -> \E p \in operands : Means(p, doc)
              [] Of(cond).operator = "nor" -> ~\E p \in operands : Means(p, doc)
    ELSE \A k \in Keys(cond) :
           LET x == At(cond, k)
               v == Get(doc, k)
           IN CASE x = Undefined -> TRUE
                [] Type(x) = "object" -> Means(x, IF v = Undefined THEN EmptyObj ELSE v)
                [] OTHER -> Holds(x, v)

-----------------------------------------------------------------------------
(* Updates *)

\* Values the server completes.
RECURSIVE Completed(_)
Completed(v) ==
  CASE Type(v) = "serverDate" -> Date(Now + Of(v))
    [] Type(v) = "array" -> Map(Completed, v)
    [] Type(v) = "object" -> Obj([k \in Keys(v) |-> Completed(At(v, k))])
    [] OTHER -> v

\* A field after a command.
Done(command, old) ==
  LET operator == Of(command).operator
      operands == Completed(Of(command).operands)
      x == First(operands)
  IN CASE operator = "set" -> x
       [] operator = "remove" -> Undefined
       [] operator = "inc" -> Plus(old, x)
       [] operator = "mul" -> Times(old, x)
       [] operator = "max" -> Higher(old, x)
       [] operator = "min" -> Lower(old, x)
       [] operator = "push" -> Appended(old, Of(operands))
       [] operator = "unshift" -> Prepended(old, Of(operands))
       [] operator = "pop" -> WithoutLast(old)
       [] operator = "shift" -> WithoutFirst(old)
       [] operator = "pull" -> Kept(old, LAMBDA e : ~Holds(operands, e))
       [] operator = "pullAll" -> Kept(old, LAMBDA e : e \notin Elements(operands))
       [] operator = "addToSet" -> Added(old, operands)

\* A document after an update: every field named, at any depth, is changed.
RECURSIVE Changed(_, _)
Changed(change, doc) ==
  FoldSet(LAMBDA k, d :
            LET x == At(change, k)
                old == Get(d, k)
            IN Set(d, k, CASE Type(x) = "command" -> Done(x, old)
                           [] Type(x) = "object" -> Changed(x, IF old = Undefined THEN EmptyObj ELSE old)
                           [] OTHER -> Completed(x)),
          doc, Keys(change))

-----------------------------------------------------------------------------
(* Calls *)

There == {i \in Id : docs[i] # Undefined}

\* The documents a call is about: one by its id, or those of a query.
About(call) ==
  IF call.id # 0 THEN There \cap {call.id}
  ELSE {i \in There : call.where = Undefined \/ Means(call.where, docs[i])}

\* Of an aggregation, which leaves geographical values as the server has them.
RECURSIVE Plain(_)
Plain(v) ==
  CASE Type(v) = "geo" -> ToJSON(v)
    [] Type(v) = "array" -> Map(Plain, v)
    [] Type(v) = "object" -> Obj([k \in Keys(v) |-> Plain(At(v, k))])
    [] OTHER -> v

Piped(stages) ==
  LET ids == SetToSeq(There)
      run(list, stage) == Staged(stage, list, LAMBDA d : Means(stage.param, d))
      list == FoldLeft(run, [n \in DOMAIN ids |-> Put(docs[ids[n]], <<"_id">>, Num(ids[n]))], stages)
  IN [n \in DOMAIN list |-> Plain(list[n])]

Unknown == <<"unknown", 0>>
Found(list) == <<"found", list>>
Number(n) == <<"number", n>>
NewId(i) == <<"id", i>>

Result(call) ==
  CASE call.op = "get" ->
         LET limit == IF call.limit = 0 THEN DefaultLimit ELSE IF call.limit < MaxLimit THEN call.limit ELSE MaxLimit
             ids == IF call.id # 0 THEN SetToSeq(About(call))
                    ELSE Window(docs, About(call), call.orders, call.offset, limit)
         IN Found([n \in DOMAIN ids |-> <<ids[n], Project(docs[ids[n]], call.projection)>>])
    [] call.op = "aggregate" -> <<"list", Piped(call.stages)>>
    [] OTHER -> Number(Cardinality(About(call)))

Effect(call) ==
  CASE call.op = "update" -> [i \in Id |-> IF i \in About(call) THEN Changed(call.data, docs[i]) ELSE docs[i]]
    [] call.op = "set" -> [docs EXCEPT ![call.id] = Completed(call.data)]
    [] call.op = "remove" -> [i \in Id |-> IF i \in About(call) THEN Undefined ELSE docs[i]]
    [] OTHER -> docs

Init ==
  /\ \A i \in Id : docs[i] = Undefined \/ Type(docs[i]) = "object"
  /\ asked = <<>>

Ask ==
  /\ Len(asked') = Len(asked) + 1
  /\ Front(asked') = asked
  /\ ~Last(asked').done
  /\ UNCHANGED docs

Takes(c) ==
  /\ ~asked[c].done
  /\ LET call == asked[c].call
     IN IF call.op = "add"
          THEN \E i \in (IF call.id # 0 THEN {call.id} ELSE Id) \ There :
                 /\ docs' = [docs EXCEPT ![i] = Completed(call.data)]
                 /\ asked' = [asked EXCEPT ![c].done = TRUE, ![c].result = NewId(i)]
          ELSE /\ docs' = Effect(call)
               /\ asked' = [asked EXCEPT ![c].done = TRUE, ![c].result = Result(call)]

Next == Ask \/ \E c \in DOMAIN asked : Takes(c)

Spec == Init /\ [][Next]_vars

=============================================================================
