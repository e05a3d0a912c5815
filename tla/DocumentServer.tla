---------------------------- MODULE DocumentServer ----------------------------
(***************************************************************************)
(* The database behind the SDK, as far as src/ relies on it: it reads JSON,*)
(* finds and changes documents by MongoDB's operators, and answers JSON.   *)
(***************************************************************************)
EXTENDS Documents, Commands

CONSTANT Now  \* the server's clock

LOCAL INSTANCE FiniteSetsExt

\* JSON.stringify of what the SDK sends, read by the server.  What was not
\* encoded loses its type: a date becomes a string, a pattern an empty object.
RECURSIVE Parse(_)
Parse(v) ==
  CASE Type(v) = "date" -> Str("ISO")
    [] Type(v) = "regexp" -> EmptyObj
    [] Type(v) = "geo" -> ToJSON(v)
    [] Type(v) = "array" -> Map(Parse, v)
    [] Type(v) = "object" ->
         IF Has(v, <<"$date">>)
           THEN LET d == At(v, <<"$date">>)
                IN Date(IF Type(d) = "object" THEN Now + Of(At(d, <<"offset">>)) ELSE Of(d))
           ELSE Obj([k \in {j \in Keys(v) : At(v, j) # Undefined} |-> Parse(At(v, k))])
    [] OTHER -> v

\* A document as it is answered.
RECURSIVE Emit(_)
Emit(v) ==
  CASE Type(v) = "date" -> Obj(<<"$date">> :> Num(Of(v)))
    [] Type(v) = "array" -> Map(Emit, v)
    [] Type(v) = "object" -> Obj([k \in Keys(v) |-> Emit(At(v, k))])
    [] OTHER -> v

Distance(v, w) ==
  LET abs(n) == IF n < 0 THEN -n ELSE n
      delta(i) == abs(Of(Of(v)[i]) - Of(Of(w)[i]))
  IN delta(1) + delta(2)

RECURSIVE MatchesField(_, _)
MatchesField(cond, v) ==
  LET satisfies(operator, x) ==
        CASE operator = "$eq" -> v = x
          [] operator = "$ne" -> v # x
          [] operator = "$gt" -> Less(x, v)
          [] operator = "$gte" -> Less(x, v) \/ v = x
          [] operator = "$lt" -> Less(v, x)
          [] operator = "$lte" -> Less(v, x) \/ v = x
          [] operator = "$in" -> v \in Elements(x)
          [] operator = "$nin" -> v \notin Elements(x)
          [] operator = "$exists" -> Of(x) = (v # Undefined)
          [] operator = "$mod" -> Type(v) = "number" /\ Of(v) % Of(Of(x)[1]) = Of(Of(x)[2])
          [] operator = "$all" -> Type(v) = "array" /\ Elements(x) \subseteq Elements(v)
          [] operator = "$size" -> Type(v) = "array" /\ Len(Of(v)) = Of(x)
          [] operator = "$elemMatch" -> \E e \in Elements(v) : MatchesField(x, e)
          [] operator = "$regex" -> Type(v) = "string" /\ Of(v) \in Of(x)
          [] operator = "$not" -> ~MatchesField(x, v)
          [] operator = "$nearSphere" ->
               /\ Has(v, <<"coordinates">>)
               /\ Distance(At(v, <<"coordinates">>), At(At(x, <<"$geometry">>), <<"coordinates">>))
                    <= Of(At(x, <<"$maxDistance">>))
  IN IF Type(cond) = "object" /\ Keys(cond) # {} /\ Keys(cond) \cap OperatorKeys = Keys(cond)
       THEN \A k \in Keys(cond) : satisfies(k[1], At(cond, k))
       ELSE v = cond

RECURSIVE Matches(_, _)
Matches(query, doc) ==
  \A k \in Keys(query) :
    LET x == At(query, k)
    IN CASE k = <<"$and">> -> \A q \in Elements(x) : Matches(q, doc)
         [] k = <<"$or">> -> \E q \in Elements(x) : Matches(q, doc)
         [] k = <<"$nor">> -> ~\E q \in Elements(x) : Matches(q, doc)
         [] OTHER -> MatchesField(x, Get(doc, k))

\* The value of a field after one operator of an update.
Modified(operator, x, old) ==
  CASE operator = "$set" -> x
    [] operator = "$unset" -> Undefined
    [] operator = "$inc" -> Plus(old, x)
    [] operator = "$mul" -> Times(old, x)
    [] operator = "$max" -> Higher(old, x)
    [] operator = "$min" -> Lower(old, x)
    [] operator = "$push" ->
         LET each == Of(At(x, <<"$each">>))
         IN IF Has(x, <<"$position">>) THEN Prepended(old, each) ELSE Appended(old, each)
    [] operator = "$pop" -> IF x = Num(1) THEN WithoutLast(old) ELSE WithoutFirst(old)
    [] operator = "$pull" -> Kept(old, LAMBDA e : ~MatchesField(x, e))
    [] operator = "$pullAll" -> Kept(old, LAMBDA e : e \notin Elements(x))
    [] operator = "$addToSet" -> Added(old, x)

Apply(update, doc) ==
  FoldSet(LAMBDA change, d : Set(d, change[2], Modified(change[1], At(At(update, <<change[1]>>), change[2]),
                                                       Get(d, change[2]))),
          doc,
          UNION {{<<k[1], path>> : path \in Keys(At(update, k))} : k \in Keys(update)})

=============================================================================
