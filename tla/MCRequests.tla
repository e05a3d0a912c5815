------------------------------ MODULE MCRequests ------------------------------
(***************************************************************************)
(* Programs for TLC: the values, conditions and updates that the users of  *)
(* Requests choose from, and what a comment of the source says of          *)
(* conditions that the code does not do.                                   *)
(***************************************************************************)
EXTENDS Requests

n == <<"n">>
s == <<"s">>
l == <<"l">>
p == <<"p">>
a == <<"a">>
b == <<"b">>

Numbers == {Num(1), Num(2)}
Scalars == Numbers \cup {Date(1), Date(2)}
Pairs(A, B) == {<<x, y>> : x \in A, y \in B}

-----------------------------------------------------------------------------
(* Documents of the server *)

GeoJSON(lng, lat) == ToJSON(Geo("Point", Point(lng, lat)))

Full == Obj(n :> Num(1) @@ s :> Str("x") @@ l :> Arr(<<Num(1), Num(2)>>) @@ p :> GeoJSON(0, 0)
             @@ a :> Obj(b :> Num(2)))
Other == Obj(n :> Num(2) @@ s :> Str("y") @@ l :> Arr(<<>>) @@ a :> Obj(b :> Num(1)))
Dated == Obj(n :> Date(1) @@ l :> Arr(<<Date(1), Num(1)>>) @@ p :> GeoJSON(2, 1) @@ a :> Obj(b :> Date(1)))

\* A point that the Point class refuses.
Misplaced == Obj(n :> Num(1) @@ p :> GeoJSON(200, 0))

Docs(list) == [i \in Id |-> IF i \in DOMAIN list THEN list[i] ELSE Undefined]

-----------------------------------------------------------------------------
(* Conditions *)

Comparisons(values) == {Compare(op, v) : op \in {"eq", "neq", "gt", "gte", "lt", "lte"}, v \in values}

OnNumber ==
  Comparisons(Scalars)
  \cup {CompareAll(op, list) : op \in {"in", "nin"}, list \in {<<>>, <<Num(1)>>, <<Num(2), Date(1)>>}}
  \cup {Compare("exists", Bool(x)) : x \in BOOLEAN}
  \cup {Compare("mod", Arr(<<Num(2), Num(r)>>)) : r \in {0, 1}}
  \cup {Num(1), Date(1)}

OnString == {Str("x"), RegExp({"x"}), RegExp({"x", "y"}), Compare("eq", Str("y")), Logic("not", <<RegExp({"x"})>>)}

OnArray ==
  {Compare("size", Num(k)) : k \in {0, 2}}
  \cup {CompareAll("all", <<v>>) : v \in {Num(2), Date(1)}}
  \cup {Compare("elemMatch", Compare("gt", Num(1)))}

OnPoint == {Compare("geoNear", Obj(<<"geometry">> :> Geo("Point", Point(0, 0)) @@ <<"maxDistance">> :> Num(d))) : d \in {0, 3}}

Bounds == {Compare("gt", Num(1)), Compare("lt", Num(2)), Compare("eq", Date(1)), Compare("neq", Num(2))}

\* Commands that combine commands on a field.
Conjunctions == {ChainCompare(x, "lt", y) : x \in Bounds, y \in Numbers} \cup {Logic("and", pair) : pair \in Pairs(Bounds, Bounds)}
Alternatives ==
  {Logic(op, pair) : op \in {"or", "nor"}, pair \in Pairs(Bounds, Bounds)}
  \cup {Chain(x, "or", <<y>>) : x \in {ChainCompare(Compare("gt", Num(1)), "lt", Num(2)), Compare("gt", Num(1))}, y \in Bounds}
Negations == {Logic("not", <<x>>) : x \in Bounds}

OnField == OnNumber \cup Conjunctions \cup Alternatives \cup Negations

Objects ==
  {Obj(n :> x) : x \in OnField \cup {Undefined}}
  \cup {Obj(s :> x) : x \in OnString}
  \cup {Obj(l :> x) : x \in OnArray}
  \cup {Obj(p :> x) : x \in OnPoint}

\* The same fields by nested objects and by paths, and several fields in one object.
Nested ==
  {Obj(a :> Obj(b :> x)) : x \in Bounds \cup Conjunctions \cup Scalars}
  \cup {Obj(a \o b :> x) : x \in Bounds \cup Scalars \cup {Logic("or", pair) : pair \in Pairs(Bounds, Bounds)}}
  \cup {Obj(n :> x @@ a :> Obj(b :> y)) : x \in Bounds \cup Numbers, y \in Bounds \cup Numbers}
  \cup {Obj(n :> ChainCompare(x, "lt", Num(2)) @@ a :> Obj(b :> ChainCompare(y, "lt", Num(2)))) : x \in Bounds, y \in Bounds}
  \cup {Obj(n :> Logic("or", <<Compare("gt", Num(1)), y>>) @@ a :> Obj(b :> z)) : y \in Bounds, z \in Numbers \cup Bounds}
  \cup {EmptyObj, Obj(n :> Num(1) @@ s :> Undefined)}

\* Commands that combine whole conditions, one without a field among them.
Combined ==
  {Logic(op, <<Obj(n :> x), Obj(a :> Obj(b :> y))>>) : op \in {"and", "or", "nor"}, x \in Bounds, y \in Bounds \cup Numbers}
  \cup {Logic("or", <<Logic("and", <<Obj(n :> x), Obj(s :> Str("x"))>>), Obj(n :> Logic("or", <<x, y>>))>>) :
          x \in Bounds, y \in Bounds}
  \cup {Compare("gt", Num(1)), Logic("and", <<Compare("gt", Num(1))>>)}

-----------------------------------------------------------------------------
(* Changes and documents of the user *)

FieldChanges ==
  Numbers \cup {Date(2), ServerDate(1), Arr(<<Num(1), Date(1)>>), PlainUpdate("remove")}
  \cup {FieldUpdate(op, v) : op \in {"set", "inc", "mul", "max", "min"}, v \in Numbers}
  \cup {FieldUpdate("set", Obj(b :> Num(1)))}

ArrayChanges ==
  {PlainUpdate(op) : op \in {"pop", "shift"}}
  \cup {ValueUpdate(op, Arr(<<Num(3), v>>)) : op \in {"push", "unshift"}, v \in {Num(4), Date(2)}}
  \cup {ValueUpdate(op, v) : op \in {"pull", "addToSet"}, v \in {Num(1), Date(1)}}
  \cup {ValueUpdate("pull", Compare("gt", Num(1))), ValueUpdate("pullAll", Arr(<<Num(1), Date(1)>>))}

Changes ==
  {Obj(n :> x @@ l :> y) : x \in FieldChanges, y \in ArrayChanges}
  \cup {Obj(a :> Obj(b :> x)) : x \in FieldChanges}
  \cup {Obj(n :> FieldUpdate("inc", x) @@ a \o b :> FieldUpdate(op, y)) : op \in {"inc", "max"}, x \in Numbers, y \in Numbers}
  \cup {Obj(a :> Obj(b :> x @@ <<"c">> :> Num(1))) : x \in {Num(1), FieldUpdate("inc", Num(1))}}
  \cup {Obj(n :> Num(1) @@ <<"_id">> :> Num(2))}

Ring(d) == <<Point(0, 0), Point(d, d), Point(0, 0)>>

\* The last but one looks like a Polygon, but is not closed.
Written ==
  {Obj(n :> Num(2) @@ p :> Geo("Point", Point(0, 0))), Obj(n :> Date(2) @@ l :> Arr(<<Date(1), Obj(b :> ServerDate(0))>>) @@ a :> Obj(b :> ServerDate(1))),
   Obj(p :> Geo("Point", Point(1, 1)) @@ a :> Obj(b :> Geo("LineString", Arr(<<Point(0, 0), Point(1, 1)>>)))),
   Obj(p :> Geo("MultiPolygon", Arr(<<Arr(<<Arr(Ring(1))>>)>>)) @@ l :> Arr(<<Geo("MultiPoint", Arr(Ring(2)))>>)),
   Obj(a :> ToJSON(Geo("Polygon", Arr(<<Arr(<<Point(0, 0), Point(1, 1)>>)>>)))), EmptyObj}

Refused == {Obj(<<"_id">> :> Num(2)), Obj(a :> Obj(b :> FieldUpdate("inc", Num(1)))), Obj(l :> Arr(<<PlainUpdate("remove")>>))}

-----------------------------------------------------------------------------

Nothing ==
  [conds |-> {}, orders |-> {}, limits |-> {}, offsets |-> {}, projections |-> {}, changes |-> {}, documents |-> {},
   ops |-> {}, ids |-> {}, stages |-> {}, maxQueries |-> 1, maxPipelines |-> 0, maxStages |-> 3, maxCalls |-> 1, faults |-> 0, initials |-> {Docs(<<Full, Other>>)}]

Conditions ==
  [Nothing EXCEPT !.conds = Objects \cup Nested \cup Combined, !.ops = {"count", "remove"}, !.maxQueries = 2,
                  !.initials = {Docs(<<Full, Other>>), Docs(<<Dated, EmptyObj>>)}]

By(field, direction) == [field |-> field, direction |-> direction]

Derivations ==
  [Nothing EXCEPT !.conds = {Obj(n :> Compare("gt", Num(1)))},
                  !.orders = {By(n, "asc"), By(n, "desc"), By(a \o b, "desc")},
                  !.limits = {0, 1, 4}, !.offsets = {1}, !.projections = {n :> 2, n :> 0 @@ p :> 0},
                  !.ops = {"get", "update", "remove"}, !.changes = {Obj(n :> FieldUpdate("inc", Num(1)))},
                  !.maxQueries = 3, !.initials = {Docs(<<Other, Full, Dated, Other>>)}]

Updating ==
  [Nothing EXCEPT !.conds = {Obj(n :> Num(1))}, !.changes = Changes, !.ops = {"update"}, !.ids = {1, 3}, !.maxQueries = 2]

Writing ==
  [Nothing EXCEPT !.documents = Written, !.projections = {n :> 1}, !.ops = {"set", "add", "get"}, !.ids = {1, 3}, !.maxCalls = 2]

Refusing ==
  [Nothing EXCEPT !.documents = Refused, !.ops = {"set"}, !.ids = {1, 3}]

Stages ==
  {[name |-> "match", param |-> cond] :
     cond \in {Obj(n :> Compare("gt", Num(1))), Obj(n :> Date(1)), Obj(a :> Obj(b :> Compare("lte", Num(2)))),
               Obj(p :> Geo("Point", Point(2, 1))), Obj(<<"_id">> :> CompareAll("in", <<Num(2), Num(3)>>)),
               Logic("or", <<Obj(n :> Compare("eq", Date(1))), Obj(s :> RegExp({"x"}))>>)}}
  \cup {[name |-> "sort", param |-> <<By(field, "desc")>>] : field \in {n, a \o b}}
  \cup {[name |-> op, param |-> 1] : op \in {"skip", "limit"}}
  \cup {[name |-> "count", param |-> "n"]}

Aggregating ==
  [Nothing EXCEPT !.stages = Stages, !.maxPipelines = 1, !.ops = {"aggregate"}, !.initials = {Docs(<<Full, Other, Dated>>)}]

\* Two calls under way, of which one may be refused or lost, or its callback throw.
Racing ==
  [Nothing EXCEPT !.conds = {Obj(n :> Num(1))}, !.changes = {Obj(n :> FieldUpdate("inc", Num(1)))},
                  !.documents = {Obj(n :> Num(1))}, !.ids = {1, 3},
                  !.ops = {"get", "count", "update", "remove", "set", "add", "aggregate"},
                  !.maxPipelines = 1, !.maxQueries = 2, !.maxCalls = 2, !.faults = 1,
                  !.projections = {}, !.initials = {Docs(<<Misplaced, Other>>)}]

MCPrograms ==
  [conditions |-> Conditions, derivations |-> Derivations, updating |-> Updating,
   writing |-> Writing, refusing |-> Refusing, aggregating |-> Aggregating, racing |-> Racing]

-----------------------------------------------------------------------------

\* Two fields of one object, each with alternatives.
TwoAlternatives ==
  [queryOr |-> [Nothing EXCEPT !.conds = {Obj(n :> Logic("or", pair) @@ a \o b :> Logic("or", pair)) : pair \in Pairs(Bounds, Bounds)},
                               !.maxQueries = 2, !.initials = {Docs(<<Full, Other>>), Docs(<<Full, Dated>>)}]]

\* mergeConditionAfterEncode is to "merge 2 query conditions ... top-level commands,
\* such as $and and $or" (serializer/query.ts:226): the filter of a query selects
\* the documents that are as every field of its condition says.
MergedMeansBoth ==
  \A k \in DOMAIN queries :
    LET cond == queries[k].meant.where
    IN cond # Undefined => Selected(queries[k].filter) = {i \in Store!There : Store!Means(cond, seen[i])}

=============================================================================
