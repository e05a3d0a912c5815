------------------------------ MODULE Documents ------------------------------
(***************************************************************************)
(* Documents and what can be done to them, whether they hold the values of *)
(* the user or those of the server.                                        *)
(***************************************************************************)
EXTENDS Values

LOCAL INSTANCE SequencesExt

Bool(b) == <<"boolean", b>>

Elements(v) == IF Type(v) = "array" THEN {Of(v)[i] : i \in DOMAIN Of(v)} ELSE {}

\* What path leads to, Undefined if to nothing.
RECURSIVE Get(_, _)
Get(v, path) ==
  IF path = <<>> THEN v
  ELSE IF Has(v, <<Head(path)>>) THEN Get(At(v, <<Head(path)>>), Tail(path)) ELSE Undefined

\* v with x at path; objects on the way are made, nothing is there if x is Undefined.
RECURSIVE Set(_, _, _)
Set(v, path, x) ==
  LET name == <<Head(path)>>
      inner == IF Has(v, name) THEN At(v, name) ELSE EmptyObj
  IN IF Len(path) > 1 THEN IF x = Undefined /\ ~Has(v, name) THEN v ELSE Put(v, name, Set(inner, Tail(path), x))
     ELSE IF x = Undefined THEN Without(v, {name}) ELSE Put(v, name, x)

Less(v, w) == Type(v) = Type(w) /\ Type(v) \in {"number", "date"} /\ Of(v) < Of(w)

\* Missing values come first, then numbers, then dates.
Rank(v) == CASE Type(v) = "number" -> 1 [] Type(v) = "date" -> 2 [] OTHER -> 0

Before(v, w) == Rank(v) < Rank(w) \/ Less(v, w)

Plus(v, w) == IF v = Undefined THEN w ELSE Num(Of(v) + Of(w))
Times(v, w) == IF v = Undefined THEN Num(0) ELSE Num(Of(v) * Of(w))
Higher(v, w) == IF v = Undefined \/ Before(v, w) THEN w ELSE v
Lower(v, w) == IF v = Undefined \/ Before(w, v) THEN w ELSE v

List(v) == IF v = Undefined THEN <<>> ELSE Of(v)
Appended(v, seq) == Arr(List(v) \o seq)
Prepended(v, seq) == Arr(seq \o List(v))
WithoutFirst(v) == IF List(v) = <<>> THEN v ELSE Arr(Tail(Of(v)))
WithoutLast(v) == IF List(v) = <<>> THEN v ELSE Arr(SubSeq(Of(v), 1, Len(Of(v)) - 1))
Kept(v, Test(_)) == IF v = Undefined THEN v ELSE Arr(SelectSeq(Of(v), Test))
Added(v, x) == IF x \in Elements(v) THEN v ELSE Appended(v, <<x>>)

\* Whether document i comes before document j: the first order that separates
\* them decides, then the id.
RECURSIVE Precedes(_, _, _, _)
Precedes(docs, orders, i, j) ==
  IF orders = <<>> THEN i < j
  ELSE LET o == Head(orders)
           v == Get(docs[i], o.field)
           w == Get(docs[j], o.field)
       IN IF Before(v, w) THEN o.direction = "asc"
          ELSE IF Before(w, v) THEN o.direction = "desc"
          ELSE Precedes(docs, Tail(orders), i, j)

\* The ids from offset on, at most limit of them, in order.
Window(docs, ids, orders, offset, limit) ==
  LET sorted == SetToSortSeq(ids, LAMBDA i, j : Precedes(docs, orders, i, j))
      from == offset + 1
      to == offset + limit
  IN SubSeq(sorted, from, IF to < Len(sorted) THEN to ELSE Len(sorted))

\* What a stage of an aggregation makes of a list of documents; Test says which match.
Staged(stage, list, Test(_)) ==
  LET x == stage.param
      ordered(orders) == Window(list, DOMAIN list, orders, 0, Len(list))
  IN CASE stage.name = "match" -> SelectSeq(list, Test)
       [] stage.name = "sort" -> [n \in DOMAIN list |-> list[ordered(x)[n]]]
       [] stage.name = "skip" -> SubSeq(list, x + 1, Len(list))
       [] stage.name = "limit" -> SubSeq(list, 1, IF x < Len(list) THEN x ELSE Len(list))
       [] stage.name = "count" -> IF list = <<>> THEN <<>> ELSE <<Obj(<<x>> :> Num(Len(list)))>>

\* A projection says of names whether they are shown (1) or hidden (0).
Project(doc, projection) ==
  LET shown == {k \in DOMAIN projection : projection[k] = 1}
  IN IF shown # {} THEN Obj([k \in Keys(doc) \cap shown |-> At(doc, k)])
     ELSE Without(doc, DOMAIN projection)

=============================================================================
