------------------------------- MODULE Queries -------------------------------
(***************************************************************************)
(* The objects of class Query and the options that they share: where,      *)
(* orderBy, limit, skip and field make a new query of an old one, which    *)
(* the user goes on using.  Requests says what is done with queries.       *)
(***************************************************************************)
EXTENDS Integers, Sequences

CONSTANT NoFilter  \* undefined: no filter

VARIABLES
  options,  \* the objects of _queryOptions
  queries   \* the objects of class Query, first the collection

-----------------------------------------------------------------------------

NoOptions == [limit |-> 0, offset |-> 0, projection |-> <<>>]

\* A query has what its constructor is given (options: an index into options);
\* ghost meant: what its user has asked for, from where() to field().
Collection ==
  [filter |-> NoFilter, orders |-> <<>>, options |-> 1,
   meant |-> [where |-> NoFilter, orders |-> <<>>, limit |-> 0, offset |-> 0, projection |-> <<>>]]

OptionsOf(q) == options[queries[q].options]
MeantBy(q) == queries[q].meant

Derive(query) == queries' = Append(queries, query)

\* Mutant: the options of the query it is called on are changed in place.
ChangeInPlace(q, new, meant) ==
  /\ options' = [options EXCEPT ![queries[q].options] = new]
  /\ Derive([queries[q] EXCEPT !.meant = meant])

\* A copy of the options with one changed.
ChangeOptions(q, new, meant) ==
  /\ options' = Append(options, new)
  /\ Derive([queries[q] EXCEPT !.options = Len(options) + 1, !.meant = meant])

\* where, once the condition has been encoded.
Filter(q, cond, filter) ==
  /\ Derive([queries[q] EXCEPT !.filter = filter, !.meant = [MeantBy(q) EXCEPT !.where = cond]])
  /\ UNCHANGED options

OrderBy(q, order) ==
  /\ Derive([queries[q] EXCEPT !.orders = Append(@, order),
                              !.meant = [MeantBy(q) EXCEPT !.orders = Append(@, order)]])
  /\ UNCHANGED options

\* 0 stands for undefined, which the code does not tell apart.
Limit(q, n) == ChangeOptions(q, [OptionsOf(q) EXCEPT !.limit = n], [MeantBy(q) EXCEPT !.limit = n])
Skip(q, n) == ChangeOptions(q, [OptionsOf(q) EXCEPT !.offset = n], [MeantBy(q) EXCEPT !.offset = n])

\* field, of a query or a document: true is 1 and false 0.
Normal(projection) == [k \in DOMAIN projection |-> IF projection[k] = 0 THEN 0 ELSE 1]

Field(q, projection) ==
  ChangeOptions(q, [OptionsOf(q) EXCEPT !.projection = Normal(projection)],
                [MeantBy(q) EXCEPT !.projection = Normal(projection)])

-----------------------------------------------------------------------------
\* Queries derived in any order from any others, whatever they are given.

QueriesInit == options = <<NoOptions>> /\ queries = <<Collection>>

QueriesNext ==
  \E q \in DOMAIN queries :
    \/ \E cond, filter : Filter(q, cond, filter)
    \/ \E order : OrderBy(q, order)
    \/ \E n : Limit(q, n) \/ Skip(q, n)
    \/ \E projection : Field(q, projection)

QueriesSpec == QueriesInit /\ [][QueriesNext]_<<options, queries>>

-----------------------------------------------------------------------------

\* Deriving a query never changes another: each would send what its own user asked for.
QueriesKeepMeaning ==
  \A n \in DOMAIN queries :
    LET q == queries[n]
    IN /\ OptionsOf(n) = [limit |-> q.meant.limit, offset |-> q.meant.offset, projection |-> q.meant.projection]
       /\ q.orders = q.meant.orders

\* No query, nor what it shares with others, is changed once it has been made.
QueriesStay ==
  \A n \in DOMAIN queries :
    n \in DOMAIN queries' /\ queries'[n] = queries[n] /\ OptionsOf(n)' = OptionsOf(n)

=============================================================================
