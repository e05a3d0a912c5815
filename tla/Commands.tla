------------------------------- MODULE Commands -------------------------------
(***************************************************************************)
(* The commands of conditions (command.ts, commands/*.ts) and how a        *)
(* condition is encoded for the server (serializer/query.ts).              *)
(*                                                                         *)
(* A command is an immutable object here; that and and or of a LogicCommand *)
(* put the command into the caller's own array, if given one, is left out. *)
(***************************************************************************)
EXTENDS Values

LOCAL INSTANCE FiniteSetsExt
LOCAL INSTANCE SequencesExt

\* SYMBOL_UNSET_FIELD_NAME
Unset == <<>>

\* The classes QueryCommand, LogicCommand and UpdateCommand are three kinds; the
\* operands are an array or, of some updates, another value.
Command(kind, operator, operands, field) ==
  <<"command", [kind |-> kind, operator |-> operator, operands |-> operands, field |-> field]>>

IsKind(v, kinds) == Type(v) = "command" /\ Of(v).kind \in kinds

\* _setFieldName: the operands of a LogicCommand are named, too.
RECURSIVE SetFieldName(_, _)
SetFieldName(c, field) ==
  LET named(v) == IF IsKind(v, {"logic", "query"}) THEN SetFieldName(v, field) ELSE v
      operands == Of(c).operands
  IN Command(Of(c).kind, Of(c).operator,
             IF Of(c).kind = "logic" THEN Map(named, operands) ELSE operands,
             field)

\* _.eq, ..., _.mod
Compare(operator, v) == Command("query", operator, Arr(<<v>>), Unset)

\* _.in, _.nin, _.all
CompareAll(operator, list) == Command("query", operator, Arr(list), Unset)

\* _.and, _.or, _.nor, _.not
Logic(operator, list) == Command("logic", operator, Arr(list), Unset)

\* c.and, c.or
Chain(c, operator, list) == Command("logic", operator, Arr(<<c>> \o list), Of(c).field)

\* c.eq, c.gt, ...: a conjunction.
ChainCompare(c, operator, v) == Chain(c, "and", <<Compare(operator, v)>>)

-----------------------------------------------------------------------------
(* serializer/common.ts *)

\* A key that starts with $.
OperatorKeys ==
  {<<"$" \o name>> : name \in {"and", "or", "nor", "not", "eq", "ne", "gt", "gte", "lt", "lte", "in", "nin",
                               "all", "elemMatch", "exists", "size", "mod", "regex", "date", "set", "unset",
                               "inc", "mul", "max", "min", "push", "pop", "pull", "pullAll", "addToSet",
                               "rename", "each", "position", "slice", "sort",
                               "nearSphere", "geometry", "maxDistance"}}

IsOperatorKey(key) == key \in OperatorKeys

\* flattenQueryObject: the keys of nested objects become paths; what a nested
\* object has of operators stays under its own key.
RECURSIVE Flatten(_)
Flatten(v) ==
  LET nested(k) == ~IsOperatorKey(k) /\ Type(At(v, k)) = "object"
      flat(k) ==
        LET child == Flatten(At(v, k))
            operators == {j \in Keys(child) : IsOperatorKey(j)}
            names == Keys(child) \ operators
        IN [path \in {k \o j : j \in names} |-> At(child, SubSeq(path, Len(k) + 1, Len(path)))]
             @@ IF operators = {} THEN <<>> ELSE k :> Without(child, names)
  IN Obj(FoldSet(LAMBDA k, acc : flat(k) @@ acc,
                 [k \in {j \in Keys(v) : ~nested(j)} |-> At(v, k)],
                 {k \in Keys(v) : nested(k)}))

-----------------------------------------------------------------------------
(* serializer/query.ts *)

\* operatorToString
OperatorName(operator) ==
  CASE operator = "neq" -> <<"$ne">>
    [] operator = "remove" -> <<"$unset">>
    [] operator = "shift" -> <<"$pop">>
    [] operator = "unshift" -> <<"$push">>
    [] OTHER -> <<"$" \o operator>>

\* encodeComparisonCommand
EncodeComparison(c) ==
  LET q == Of(c)
      geometry == ToJSON(At(First(q.operands), <<"geometry">>))
      operand ==
        CASE q.operator \in {"in", "nin", "all"} -> Serialize(q.operands)
          [] q.operator = "geoNear" ->
               Obj(<<"$geometry">> :> geometry @@ <<"$maxDistance">> :> At(First(q.operands), <<"maxDistance">>))
          [] q.operator \in {"geoWithin", "geoIntersects"} -> Obj(<<"$geometry">> :> geometry)
          [] OTHER -> Serialize(First(q.operands))
      name == IF q.operator = "geoNear" THEN <<"$nearSphere">> ELSE OperatorName(q.operator)
  IN IF q.field = Unset THEN Thrown ELSE Obj(q.field :> Obj(name :> operand))

\* Mutant: a condition on a field replaces those before it.
MergeOverwriting(query, condition, key) ==
  Obj(Of(condition) @@ Of(IF Has(condition, key) THEN query ELSE Without(query, {key})))

\* mergeConditionAfterEncode: arrays are concatenated, all else overwritten.
Merge(query, condition, key) ==
  LET rest == IF Has(condition, key) THEN query ELSE Without(query, {key})
  IN IF condition = Thrown THEN Thrown
     ELSE Obj([k \in Keys(condition) |->
                 IF Has(rest, k) /\ Type(At(rest, k)) = "array"
                   THEN Arr(Of(At(rest, k)) \o Of(At(condition, k))) ELSE At(condition, k)]
              @@ Of(rest))

RECURSIVE EncodeQuery(_, _), EncodeQueryObject(_), EncodeLogic(_)

\* encodeLogicCommand
EncodeLogic(c) ==
  LET q == Of(c)
      operand == First(q.operands)
      negated == IF Type(operand) = "regexp" THEN Serialize(operand)
                 ELSE LET e == EncodeQuery(operand, Unset)
                      IN IF Has(e, q.field) THEN At(e, q.field) ELSE Undefined
      subqueries == Strict(Map(LAMBDA v : EncodeQuery(v, q.field), q.operands))
  IN IF q.operator = "not" THEN Obj(q.field :> Obj(<<"$not">> :> negated))
     ELSE IF subqueries = Thrown THEN Thrown ELSE Obj(OperatorName(q.operator) :> subqueries)

\* encodeQueryObject
EncodeQueryObject(v) ==
  LET flattened == Flatten(v)
      encodeKey(k, query) ==
        LET x == At(flattened, k)
        IN CASE query = Thrown -> Thrown
             [] IsKind(x, {"logic"}) -> Merge(query, EncodeLogic(SetFieldName(x, k)), k)
             [] IsKind(x, {"query"}) -> Merge(query, EncodeComparison(SetFieldName(x, k)), k)
             [] IsConversionRequired(x) -> Put(query, k, Serialize(x))
             [] OTHER -> query
  IN FoldSet(encodeKey, flattened, Keys(flattened))

\* encodeQuery.  A date or pattern as the operand of a LogicCommand has no keys
\* of its own, and what is no object is left as it is.
EncodeQuery(v, key) ==
  CASE IsKind(v, {"logic"}) -> EncodeLogic(v)
    [] IsKind(v, {"query"}) -> EncodeComparison(v)
    [] Type(v) \in {"date", "regexp"} -> Obj(key :> EmptyObj)
    [] Type(v) = "object" -> EncodeQueryObject(v)
    [] OTHER -> v

=============================================================================
