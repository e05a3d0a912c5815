-------------------------------- MODULE Values --------------------------------
(***************************************************************************)
(* The values that documents, conditions and updates are made of, how they *)
(* are serialized (serializer/datatype.ts) and read back (util.ts).        *)
(***************************************************************************)
EXTENDS Integers, Sequences, FiniteSets, TLC

\* A JavaScript value is its type and its contents.
Num(n) == <<"number", n>>
Str(s) == <<"string", s>>
Date(ms) == <<"date", ms>>
ServerDate(offset) == <<"serverDate", offset>>
\* A pattern is the set of strings it matches.
RegExp(pattern) == <<"regexp", pattern>>
\* type is the GeoJSON type, coordinates the nested arrays of numbers.
Geo(type, coordinates) == <<"geo", <<type, coordinates>>>>
Undefined == <<"undefined", 0>>
\* The keys of an object are paths, of one name but where objects are flattened.
\* (Comparing the contents makes TLC evaluate them once, not at each use.)
Obj(fields) == IF fields = <<>> THEN <<"object", <<>>>> ELSE <<"object", fields>>
Arr(seq) == IF seq = <<>> THEN <<"array", <<>>>> ELSE <<"array", seq>>
EmptyObj == Obj(<<>>)

\* In place of a result: an exception.
Thrown == <<"thrown", 0>>

Type(v) == v[1]
Of(v) == v[2]

Keys(v) == DOMAIN Of(v)
Has(v, key) == Type(v) = "object" /\ key \in Keys(v)
At(v, key) == Of(v)[key]
Put(v, key, x) == Obj((key :> x) @@ Of(v))
First(v) == Of(v)[1]
Map(Op(_), v) == Arr([i \in DOMAIN Of(v) |-> Op(Of(v)[i])])
Without(v, keys) == Obj([k \in Keys(v) \ keys |-> At(v, k)])

-----------------------------------------------------------------------------
(* geo/*.ts *)

Nesting == [Point |-> 0, LineString |-> 1, MultiPoint |-> 1, Polygon |-> 2,
            MultiLineString |-> 2, MultiPolygon |-> 3]

\* What is n levels below c in nested arrays.
RECURSIVE Level(_, _)
Level(c, n) == IF n = 0 THEN {c} ELSE UNION {Level(Of(c)[i], n - 1) : i \in DOMAIN Of(c)}

Point(lng, lat) == Arr(<<Num(lng), Num(lat)>>)
Points(type, c) == Level(c, Nesting[type])
Lines(type, c) ==
  IF type \in {"LineString", "Polygon", "MultiLineString", "MultiPolygon"}
    THEN Level(c, Nesting[type] - 1) ELSE {}

\* Validate.isGeopoint, which throws, and is called for each coordinate.
InRange(p) ==
  \A i \in {1, 2} : Type(Of(p)[i]) = "number" /\ Of(Of(p)[i]) \in (IF i = 1 THEN -180..180 ELSE -90..90)

\* isClosed, isCloseLineString
Closed(line) == Of(line)[1] = Of(line)[Len(Of(line))]

\* validate, of the types that do not throw.
Validates(type, c) ==
  /\ Type(c) = "array"
  /\ \A p \in Points(type, c) : \A i \in {1, 2} : Type(Of(p)[i]) = "number"
  /\ type = "Polygon" => \A line \in Lines(type, c) : Closed(line)

\* The constructors throw for anything else.
Constructible(type, c) ==
  /\ \A p \in Points(type, c) : InRange(p)
  /\ \A n \in 0..(Nesting[type] - 1) : \A part \in Level(c, n) : Of(part) # <<>>
  /\ \A line \in Lines(type, c) : Len(Of(line)) >= 2
  /\ type \in {"Polygon", "MultiPolygon"} => \A line \in Lines(type, c) : Closed(line)

ToJSON(v) == Obj(<<"type">> :> Str(Of(v)[1]) @@ <<"coordinates">> :> Of(v)[2])

-----------------------------------------------------------------------------
(* serializer/datatype.ts *)

\* utils/type.ts: what has a class of its own.  A command is in Commands.
IsInternal(v) == Type(v) \in {"geo", "serverDate", "command"}

IsConversionRequired(v) == IsInternal(v) \/ Type(v) \in {"date", "regexp"}

\* toJSON of a QueryCommand, given the operands serialized nowhere; other
\* commands have none.
CommandJSON(v) ==
  LET c == Of(v) IN
    IF c.kind # "query" THEN v
    ELSE Obj(<<"$" \o c.operator>> :> IF c.operator \in {"in", "nin"} THEN c.operands ELSE First(c.operands))

\* serialize, encodeInternalDataType.  (Options of a RegExp are left out.)
RECURSIVE Serialize(_)
Serialize(v) ==
  CASE Type(v) = "geo" -> ToJSON(v)
    [] Type(v) = "serverDate" -> Obj(<<"$date">> :> Obj(<<"offset">> :> Num(Of(v))))
    [] Type(v) = "command" -> CommandJSON(v)
    [] Type(v) = "date" -> Obj(<<"$date">> :> Num(Of(v)))
    [] Type(v) = "regexp" -> Obj(<<"$regex">> :> <<"pattern", Of(v)>>)
    [] Type(v) = "array" -> Map(Serialize, v)
    [] Type(v) = "object" -> Obj([k \in Keys(v) |-> Serialize(At(v, k))])
    [] OTHER -> v

-----------------------------------------------------------------------------
(* util.ts *)

Truthy(v) == v \notin {Undefined, Num(0)}

\* The type of a plain object: whichType, where Point.validate may throw.
WhichType(v) ==
  LET type == IF Has(v, <<"type">>) THEN Of(At(v, <<"type">>)) ELSE "none"
  IN CASE Has(v, <<"$timestamp">>) /\ Truthy(At(v, <<"$timestamp">>)) -> "Timestamp"
       [] Has(v, <<"$date">>) /\ Truthy(At(v, <<"$date">>)) -> "ServerDate"
       [] type \in DOMAIN Nesting /\ Has(v, <<"coordinates">>) /\ Type(At(v, <<"coordinates">>)) = "array"
            -> IF type = "Point" \/ Validates(type, At(v, <<"coordinates">>)) THEN type ELSE "Object"
       [] OTHER -> "Object"

\* Nothing is returned when anything inside throws.
Strict(v) == IF \E k \in DOMAIN Of(v) : Of(v)[k] = Thrown THEN Thrown ELSE v

\* formatField, of what is inside a document, and of the document.
RECURSIVE FormatField(_)
FormatField(v) ==
  CASE Type(v) = "array" -> Strict(Map(FormatField, v))
    [] Type(v) = "object" ->
         LET type == WhichType(v)
         IN CASE type = "Timestamp" -> Date(Of(At(v, <<"$timestamp">>)) * 1000)
              [] type = "ServerDate" -> Date(Of(At(v, <<"$date">>)))
              [] type = "Object" -> Strict(Obj([k \in Keys(v) |-> FormatField(At(v, k))]))
              [] OTHER -> IF Constructible(type, At(v, <<"coordinates">>))
                            THEN Geo(type, At(v, <<"coordinates">>)) ELSE Thrown
    [] OTHER -> v

FormatDocument(v) == Strict(Obj([k \in Keys(v) |-> FormatField(At(v, k))]))

=============================================================================
