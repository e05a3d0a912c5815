------------------------------- MODULE Updates -------------------------------
(***************************************************************************)
(* The commands of updates (command.ts, commands/update.ts) and how an      *)
(* update is encoded for the server (serializer/update.ts).                *)
(***************************************************************************)
EXTENDS Commands

LOCAL INSTANCE FiniteSetsExt

\* _.set, _.inc, _.mul, _.max, _.min, _.rename
FieldUpdate(operator, v) == Command("update", operator, Arr(<<v>>), Unset)

\* _.remove, _.pop, _.shift
PlainUpdate(operator) == Command("update", operator, Arr(<<>>), Unset)

\* _.push, _.unshift of an array of values; _.push of an object of modifiers;
\* _.pull, _.pullAll, _.addToSet of a value
ValueUpdate(operator, v) == Command("update", operator, v, Unset)

\* Mutant: the elements go to the other end of the array.
EncodeUpdateCommandAtEnd(c) ==
  LET u == Of(c)
      operand ==
        CASE u.operator = "remove" -> Str("")
          [] u.operator \in {"push", "unshift"} ->
               IF Type(u.operands) = "array" THEN Obj(<<"$each">> :> Serialize(u.operands)) ELSE u.operands
          [] u.operator = "pop" -> Num(1)
          [] u.operator = "shift" -> Num(-1)
          [] u.operator \in {"pull", "pullAll", "addToSet"} -> Serialize(u.operands)
          [] OTHER -> First(u.operands)
  IN Obj(OperatorName(u.operator) :> Obj(u.field :> operand))

\* encodeUpdateCommand: the operand of a field update is sent as it is.
EncodeUpdateCommand(c) ==
  LET u == Of(c)
      each == <<"$each">> :> Serialize(u.operands)
      operand ==
        CASE u.operator = "remove" -> Str("")
          [] u.operator = "push" -> IF Type(u.operands) = "array" THEN Obj(each) ELSE u.operands
          [] u.operator = "unshift" -> Obj(each @@ <<"$position">> :> Num(0))
          [] u.operator = "pop" -> Num(1)
          [] u.operator = "shift" -> Num(-1)
          [] u.operator \in {"pull", "pullAll", "addToSet"} -> Serialize(u.operands)
          [] OTHER -> First(u.operands)
  IN Obj(OperatorName(u.operator) :> Obj(u.field :> operand))

\* common.ts, mergeConditionAfterEncode, of an update.
MergeUpdate(update, condition, key) ==
  LET rest == Without(update, {key})
  IN Obj([k \in Keys(condition) |->
            IF Has(rest, k) THEN Obj(Of(At(condition, k)) @@ Of(At(rest, k))) ELSE At(condition, k)]
         @@ Of(rest))

\* encodeUpdate, encodeUpdateObject: what is not a command is set.
EncodeUpdate(v) ==
  LET flattened == Flatten(v)
      command(k) ==
        LET x == At(flattened, k)
        IN IF IsKind(x, {"update"}) THEN SetFieldName(x, k)
           ELSE SetFieldName(FieldUpdate("set", Serialize(x)), k)
      encodeKey(k, update) == MergeUpdate(update, EncodeUpdateCommand(command(k)), k)
  IN FoldSet(encodeKey, flattened, {k \in Keys(flattened) : ~IsOperatorKey(k)})

=============================================================================
