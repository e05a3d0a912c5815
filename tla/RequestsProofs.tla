---------------------------- MODULE RequestsProofs ----------------------------
(***************************************************************************)
(* Theorems about Queries, for any number of queries derived in any order  *)
(* from one another, and about Callbacks, for any number of calls and      *)
(* faults, whatever their users give.                                      *)
(***************************************************************************)
EXTENDS Queries, Callbacks, SequenceTheorems, TLAPS

\* The shape of a query, and of what its user has asked for.
Query(q) ==
  /\ q = [filter |-> q.filter, orders |-> q.orders, options |-> q.options, meant |-> q.meant]
  /\ q.meant = [where |-> q.meant.where, orders |-> q.meant.orders, limit |-> q.meant.limit,
                offset |-> q.meant.offset, projection |-> q.meant.projection]

Options(limit, offset, projection) == [limit |-> limit, offset |-> offset, projection |-> projection]

\* A query, and the object of options it has, are as its user means them.
KeepsMeaning(q) ==
  /\ Query(q)
  /\ q.options \in 1..Len(options)
  /\ options[q.options] = Options(q.meant.limit, q.meant.offset, q.meant.projection)
  /\ q.orders = q.meant.orders

\* A sequence, of whatever values.
Sequence(s) == \E T : s \in Seq(T)

IInv ==
  /\ Sequence(options)
  /\ Sequence(queries)
  /\ \A n \in DOMAIN queries : KeepsMeaning(queries[n])

\* The fields of a query of which two are changed.
LEMMA OptionsChanged ==
  ASSUME NEW old, Query(old), NEW index, NEW meant
  PROVE  [old EXCEPT !.options = index, !.meant = meant]
           = [filter |-> old.filter, orders |-> old.orders, options |-> index, meant |-> meant]
<1> DEFINE a == old.filter
           b == old.orders
           c == old.options
           d == old.meant
           one == [old EXCEPT !.options = index]
           two == [one EXCEPT !.meant = meant]
<1>1. old = [filter |-> a, orders |-> b, options |-> c, meant |-> d]
  BY DEF Query
<1> HIDE DEF a, b, c, d
<1>2. [old EXCEPT !.options = index, !.meant = meant] = two
  BY <1>1
<1>3. one = [filter |-> a, orders |-> b, options |-> index, meant |-> d]
  BY <1>1
<1> HIDE DEF one
<1>4. two = [filter |-> a, orders |-> b, options |-> index, meant |-> meant]
  BY <1>3
<1> QED
  BY <1>2, <1>4 DEF one, a, b, c

LEMMA FilterChanged ==
  ASSUME NEW old, Query(old), NEW filter, NEW meant
  PROVE  [old EXCEPT !.filter = filter, !.meant = meant]
           = [filter |-> filter, orders |-> old.orders, options |-> old.options, meant |-> meant]
<1> DEFINE a == old.filter
           b == old.orders
           c == old.options
           d == old.meant
           one == [old EXCEPT !.filter = filter]
           two == [one EXCEPT !.meant = meant]
<1>1. old = [filter |-> a, orders |-> b, options |-> c, meant |-> d]
  BY DEF Query
<1> HIDE DEF a, b, c, d
<1>2. [old EXCEPT !.filter = filter, !.meant = meant] = two
  BY <1>1
<1>3. one = [filter |-> filter, orders |-> b, options |-> c, meant |-> d]
  BY <1>1
<1> HIDE DEF one
<1>4. two = [filter |-> filter, orders |-> b, options |-> c, meant |-> meant]
  BY <1>3
<1> QED
  BY <1>2, <1>4 DEF one, a, b, c

LEMMA OrdersChanged ==
  ASSUME NEW old, Query(old), NEW orders, NEW meant
  PROVE  [old EXCEPT !.orders = orders, !.meant = meant]
           = [filter |-> old.filter, orders |-> orders, options |-> old.options, meant |-> meant]
<1> DEFINE a == old.filter
           b == old.orders
           c == old.options
           d == old.meant
           one == [old EXCEPT !.orders = orders]
           two == [one EXCEPT !.meant = meant]
<1>1. old = [filter |-> a, orders |-> b, options |-> c, meant |-> d]
  BY DEF Query
<1> HIDE DEF a, b, c, d
<1>2. [old EXCEPT !.orders = orders, !.meant = meant] = two
  BY <1>1
<1>3. one = [filter |-> a, orders |-> orders, options |-> c, meant |-> d]
  BY <1>1
<1> HIDE DEF one
<1>4. two = [filter |-> a, orders |-> orders, options |-> c, meant |-> meant]
  BY <1>3
<1> QED
  BY <1>2, <1>4 DEF one, a, b, c

LEMMA AppendIs ==
  ASSUME NEW s, Sequence(s), NEW x
  PROVE  /\ Sequence(Append(s, x))
         /\ Len(s) \in Nat /\ DOMAIN s = 1..Len(s)
         /\ Len(Append(s, x)) = Len(s) + 1 /\ DOMAIN Append(s, x) = 1..(Len(s) + 1)
         /\ \A i \in 1..Len(s) : Append(s, x)[i] = s[i]
         /\ Append(s, x)[Len(s) + 1] = x
<1>1. PICK T : s \in Seq(T)
  BY DEF Sequence
<1> DEFINE U == T \cup {x}
           t == Append(s, x)
<1>2. s \in Seq(U) /\ x \in U
  BY <1>1, SeqMonotonic
<1> HIDE DEF U
<1>3. /\ t \in Seq(U) /\ Len(t) = Len(s) + 1
      /\ \A i \in 1..Len(s) : t[i] = s[i]
      /\ t[Len(s) + 1] = x
  BY <1>2, AppendProperties
<1>4. Len(s) \in Nat /\ DOMAIN s = 1..Len(s) /\ DOMAIN t = 1..Len(t)
  BY <1>2, <1>3, LenProperties
<1> HIDE DEF t
<1> QED
  BY <1>3, <1>4 DEF t, Sequence

-----------------------------------------------------------------------------
\* Steps

\* A new query that is as its user means it spoils no other, as long as the
\* options are at most added to.
LEMMA DeriveKeeps ==
  ASSUME IInv, NEW query, Derive(query),
         \/ UNCHANGED options
         \/ \E new : options' = Append(options, new),
         Query(query), query.options \in 1..Len(options'),
         options'[query.options]
           = Options(query.meant.limit, query.meant.offset, query.meant.projection),
         query.orders = query.meant.orders
  PROVE  IInv' /\ QueriesStay
<1>1. /\ Sequence(options)'
      /\ Len(options) \in Nat /\ Len(options') \in {Len(options), Len(options) + 1}
      /\ \A i \in 1..Len(options) : options'[i] = options[i]
  <2>1. CASE UNCHANGED options
    BY <2>1, AppendIs DEF IInv
  <2>2. CASE \E new : options' = Append(options, new)
    <3>1. PICK new : options' = Append(options, new)
      BY <2>2
    <3> DEFINE more == Append(options, new)
    <3>2. /\ Sequence(more) /\ Len(options) \in Nat /\ Len(more) = Len(options) + 1
          /\ \A i \in 1..Len(options) : more[i] = options[i]
      BY AppendIs DEF IInv
    <3> HIDE DEF more
    <3>3. options' = more
      BY <3>1 DEF more
    <3> QED
      BY <3>2, <3>3 DEF Sequence
  <2> QED
    BY <2>1, <2>2
<1>2. /\ Sequence(queries)'
      /\ Len(queries) \in Nat /\ DOMAIN queries = 1..Len(queries)
      /\ DOMAIN queries' = 1..(Len(queries) + 1)
      /\ \A i \in 1..Len(queries) : queries'[i] = queries[i]
      /\ queries'[Len(queries) + 1] = query
  <2> DEFINE more == Append(queries, query)
  <2>1. /\ Sequence(more)
        /\ Len(queries) \in Nat /\ DOMAIN queries = 1..Len(queries)
        /\ DOMAIN more = 1..(Len(queries) + 1)
        /\ \A i \in 1..Len(queries) : more[i] = queries[i]
        /\ more[Len(queries) + 1] = query
    BY AppendIs DEF IInv
  <2>2. queries' = more
    BY DEF Derive
  <2> HIDE DEF more
  <2> QED
    BY <2>1, <2>2 DEF Sequence
<1>3. ASSUME NEW n \in DOMAIN queries
      PROVE  /\ n \in DOMAIN queries' /\ queries'[n] = queries[n]
             /\ queries[n].options \in 1..Len(options)
             /\ options'[queries[n].options] = options[queries[n].options]
  <2>1. KeepsMeaning(queries[n])
    BY DEF IInv
  <2> QED
    BY <1>1, <1>2, <2>1 DEF KeepsMeaning
<1>4. QueriesStay
  BY <1>3 DEF QueriesStay, OptionsOf
<1>5. ASSUME NEW n \in DOMAIN queries'
      PROVE  KeepsMeaning(queries[n])'
  <2>1. CASE n = Len(queries) + 1
    BY <1>2, <2>1 DEF KeepsMeaning, Query, Options
  <2>2. CASE n # Len(queries) + 1
    <3>1. n \in DOMAIN queries
      BY <1>2, <2>2
    <3>2. KeepsMeaning(queries[n]) /\ queries'[n] = queries[n]
      BY <1>3, <3>1 DEF IInv
    <3>3. /\ options'[queries[n].options] = options[queries[n].options]
          /\ queries[n].options \in 1..Len(options')
      BY <1>1, <1>3, <3>1
    <3> QED
      BY <3>2, <3>3 DEF KeepsMeaning, Query, Options
  <2> QED
    BY <2>1, <2>2
<1> QED
  BY <1>1, <1>2, <1>4, <1>5 DEF IInv

\* A copy of the options with one changed, as the user means it.
LEMMA ChangeOptionsKeeps ==
  ASSUME IInv, NEW q \in DOMAIN queries, NEW limit, NEW offset, NEW projection,
         NEW new, new = Options(limit, offset, projection),
         NEW meant, meant = [where |-> MeantBy(q).where, orders |-> MeantBy(q).orders,
                             limit |-> limit, offset |-> offset, projection |-> projection],
         ChangeOptions(q, new, meant)
  PROVE  IInv' /\ QueriesStay
<1> DEFINE old == queries[q]
           n == Len(options) + 1
           query == [old EXCEPT !.options = n, !.meant = meant]
<1>1. KeepsMeaning(old)
  BY DEF IInv
<1>2. options' = Append(options, new) /\ Derive(query)
  BY DEF ChangeOptions
<1>3. n \in 1..Len(options') /\ options'[n] = new
  BY <1>2, AppendIs DEF IInv
<1> HIDE DEF old, n
<1>4. query = [filter |-> old.filter, orders |-> old.orders, options |-> n, meant |-> meant]
  <2>1. Query(old)
    BY <1>1 DEF KeepsMeaning
  <2> QED
    BY <2>1, OptionsChanged
<1> HIDE DEF query
<1>5. /\ query.options = n /\ query.meant = meant /\ query.orders = old.orders
      /\ meant.limit = limit /\ meant.offset = offset /\ meant.projection = projection
      /\ meant.orders = old.meant.orders /\ old.orders = old.meant.orders
  BY <1>1, <1>4 DEF KeepsMeaning, MeantBy, old
<1>6. Query(query)
  BY <1>4 DEF Query
<1> QED
  BY <1>2, <1>3, <1>5, <1>6, DeriveKeeps

LEMMA NextKeeps ==
  ASSUME IInv, QueriesNext
  PROVE  IInv' /\ QueriesStay
<1>1. PICK q \in DOMAIN queries :
        \/ \E cond, filter : Filter(q, cond, filter)
        \/ \E order : OrderBy(q, order)
        \/ \E n : Limit(q, n) \/ Skip(q, n)
        \/ \E projection : Field(q, projection)
  BY DEF QueriesNext
<1> DEFINE old == queries[q]
           o == OptionsOf(q)
           m == MeantBy(q)
<1>2. /\ KeepsMeaning(old) /\ Len(options) \in Nat
      /\ o = Options(m.limit, m.offset, m.projection)
      /\ m = [where |-> m.where, orders |-> m.orders, limit |-> m.limit,
              offset |-> m.offset, projection |-> m.projection]
  BY AppendIs DEF IInv, KeepsMeaning, OptionsOf, MeantBy, Query
<1>3. ASSUME NEW cond, NEW filter, Filter(q, cond, filter)
      PROVE  IInv' /\ QueriesStay
  <2> DEFINE meant == [m EXCEPT !.where = cond]
             query == [old EXCEPT !.filter = filter, !.meant = meant]
  <2>1. Derive(query) /\ UNCHANGED options
    BY <1>3 DEF Filter, MeantBy
  <2>2. /\ m = old.meant /\ o = options[old.options]
        /\ old.options \in 1..Len(options) /\ old.orders = m.orders
    BY <1>2 DEF MeantBy, OptionsOf, KeepsMeaning
  <2>3. Query(old)
    BY <1>2 DEF KeepsMeaning
  <2> HIDE DEF old, o, m
  <2>4. meant = [where |-> cond, orders |-> m.orders, limit |-> m.limit,
                 offset |-> m.offset, projection |-> m.projection]
    BY <1>2
  <2> HIDE DEF meant
  <2>5. query = [filter |-> filter, orders |-> old.orders, options |-> old.options, meant |-> meant]
    BY <2>3, FilterChanged
  <2> HIDE DEF query
  <2>6. Query(query)
    BY <2>4, <2>5 DEF Query
  <2>7. /\ query.options = old.options /\ query.orders = query.meant.orders
        /\ o = Options(query.meant.limit, query.meant.offset, query.meant.projection)
    BY <1>2, <2>2, <2>4, <2>5
  <2> QED
    BY <2>1, <2>2, <2>6, <2>7, DeriveKeeps
<1>4. ASSUME NEW order, OrderBy(q, order)
      PROVE  IInv' /\ QueriesStay
  <2> DEFINE orders == Append(old.orders, order)
             meant == [m EXCEPT !.orders = Append(@, order)]
             query == [old EXCEPT !.orders = orders, !.meant = meant]
  <2>1. /\ m = old.meant /\ o = options[old.options]
        /\ old.options \in 1..Len(options) /\ old.orders = m.orders
    BY <1>2 DEF MeantBy, OptionsOf, KeepsMeaning
  <2>2. Derive(query) /\ UNCHANGED options
    BY <1>4 DEF OrderBy, MeantBy
  <2>3. Query(old)
    BY <1>2 DEF KeepsMeaning
  <2>8. Append(m.orders, order) = orders
    BY <2>1
  <2> HIDE DEF old, o, m, orders
  <2>4. meant = [where |-> m.where, orders |-> orders, limit |-> m.limit,
                 offset |-> m.offset, projection |-> m.projection]
    BY <1>2, <2>8
  <2> HIDE DEF meant
  <2>5. query = [filter |-> old.filter, orders |-> orders, options |-> old.options, meant |-> meant]
    BY <2>3, OrdersChanged
  <2> HIDE DEF query
  <2>6. Query(query)
    BY <2>4, <2>5 DEF Query
  <2>7. /\ query.options = old.options /\ query.orders = query.meant.orders
        /\ o = Options(query.meant.limit, query.meant.offset, query.meant.projection)
    BY <1>2, <2>1, <2>4, <2>5
  <2> QED
    BY <2>1, <2>2, <2>6, <2>7, DeriveKeeps
<1>5. ASSUME NEW n, Limit(q, n)
      PROVE  IInv' /\ QueriesStay
  <2> DEFINE new == [o EXCEPT !.limit = n]
             meant == [m EXCEPT !.limit = n]
  <2>1. ChangeOptions(q, new, meant)
    BY <1>5 DEF Limit
  <2> HIDE DEF o, m
  <2>2. /\ new = Options(n, m.offset, m.projection)
        /\ meant = [where |-> m.where, orders |-> m.orders, limit |-> n,
                    offset |-> m.offset, projection |-> m.projection]
    BY <1>2 DEF Options
  <2> HIDE DEF new, meant
  <2> QED
    BY <2>1, <2>2, ChangeOptionsKeeps DEF m
<1>6. ASSUME NEW n, Skip(q, n)
      PROVE  IInv' /\ QueriesStay
  <2> DEFINE new == [o EXCEPT !.offset = n]
             meant == [m EXCEPT !.offset = n]
  <2>1. ChangeOptions(q, new, meant)
    BY <1>6 DEF Skip
  <2> HIDE DEF o, m
  <2>2. /\ new = Options(m.limit, n, m.projection)
        /\ meant = [where |-> m.where, orders |-> m.orders, limit |-> m.limit,
                    offset |-> n, projection |-> m.projection]
    BY <1>2 DEF Options
  <2> HIDE DEF new, meant
  <2> QED
    BY <2>1, <2>2, ChangeOptionsKeeps DEF m
<1>7. ASSUME NEW projection, Field(q, projection)
      PROVE  IInv' /\ QueriesStay
  <2> DEFINE p == Normal(projection)
             new == [o EXCEPT !.projection = p]
             meant == [m EXCEPT !.projection = p]
  <2>1. ChangeOptions(q, new, meant)
    BY <1>7 DEF Field
  <2> HIDE DEF o, m, p
  <2>2. /\ new = Options(m.limit, m.offset, p)
        /\ meant = [where |-> m.where, orders |-> m.orders, limit |-> m.limit,
                    offset |-> m.offset, projection |-> p]
    BY <1>2 DEF Options
  <2> HIDE DEF new, meant
  <2> QED
    BY <2>1, <2>2, ChangeOptionsKeeps DEF m
<1> QED
  BY <1>1, <1>3, <1>4, <1>5, <1>6, <1>7

-----------------------------------------------------------------------------
\* Theorems

\* Each query keeps the options and orders that its user has asked for.
THEOREM Invariance ==
  QueriesSpec => []IInv
<1>1. QueriesInit => IInv
  <2> SUFFICES ASSUME QueriesInit PROVE IInv
    OBVIOUS
  <2>1. options = <<NoOptions>> /\ queries = <<Collection>>
    BY DEF QueriesInit
  <2>2. options \in Seq({NoOptions}) /\ queries \in Seq({Collection})
    BY <2>1
  <2>3. \A n \in DOMAIN queries : queries[n] = Collection
    BY <2>1
  <2>4. Len(options) = 1 /\ options[1] = NoOptions
    BY <2>1
  <2>5. KeepsMeaning(Collection)
    BY <2>4 DEF KeepsMeaning, Collection, NoOptions, Query, Options
  <2>6. Sequence(options) /\ Sequence(queries)
    BY <2>2 DEF Sequence
  <2> QED
    BY <2>3, <2>5, <2>6 DEF IInv
<1>2. IInv /\ [QueriesNext]_<<options, queries>> => IInv'
  <2> SUFFICES ASSUME IInv, [QueriesNext]_<<options, queries>> PROVE IInv'
    OBVIOUS
  <2>1. CASE QueriesNext
    BY <2>1, NextKeeps
  <2>2. CASE UNCHANGED <<options, queries>>
    BY <2>2 DEF IInv, KeepsMeaning
  <2> QED
    BY <2>1, <2>2
<1> QED
  BY <1>1, <1>2, PTL DEF QueriesSpec

\* Deriving a query never changes what another one means, however they share
\* their options.
THEOREM MeaningKept ==
  QueriesSpec => []QueriesKeepMeaning
<1>1. IInv => QueriesKeepMeaning
  BY DEF IInv, KeepsMeaning, QueriesKeepMeaning, OptionsOf, Options
<1> QED
  BY <1>1, Invariance, PTL

\* A query and its options stay as they are, whatever is derived later.
THEOREM Untouched ==
  QueriesSpec => [][QueriesStay]_<<options, queries>>
<1>1. IInv /\ [QueriesNext]_<<options, queries>> => [QueriesStay]_<<options, queries>>
  BY NextKeeps
<1> QED
  BY <1>1, Invariance, PTL DEF QueriesSpec

-----------------------------------------------------------------------------
\* Calls and callbacks

\* What is known of a call: its shape, and how far it is, has been done and told.
Outcome(call) ==
  /\ call = [action |-> call.action, param |-> call.param, step |-> call.step,
             answer |-> call.answer, told |-> call.told, asked |-> call.asked]
  /\ call.asked = [call |-> call.asked.call, done |-> call.asked.done, result |-> call.asked.result]
  /\ call.asked.done \in BOOLEAN
  /\ \/ call.step = "sent" /\ ~call.asked.done /\ call.told = <<>>
     \/ call.step = "answered" /\ call.asked.done /\ call.told = <<>>
     \/ call.step = "refused" /\ ~call.asked.done /\ call.told = <<>>
     \/ call.step = "failed" /\ call.told = <<>>
     \/ call.step = "thrown" /\ call.asked.done /\ call.told = <<"ok">>
     \/ call.step = "thrown" /\ ~call.asked.done /\ call.told = <<"code">>
     \/ call.step = "ended" /\ call.asked.done /\ call.told \in {<<"ok">>, <<"ok", "error">>}
     \/ call.step = "ended" /\ ~call.asked.done /\ call.told \in {<<"code">>, <<"code", "error">>}
     \/ call.step = "ended" /\ call.told = <<"error">>

CallsInv == Sequence(calls) /\ \A c \in DOMAIN calls : Outcome(calls[c])

\* What has been done is not changed, nor what was told, but for the callback's error.
Extends(call, new) ==
  /\ call.asked.done \/ call.told # <<>> => new.asked = call.asked
  /\ call.told # <<>> =>
       new.told = call.told \/ (call.step = "thrown" /\ new.told = Append(call.told, "error"))
  /\ call.step = "ended" => new = call

\* What can be told, told apart.
LEMMA Tellings ==
  /\ \A told \in {<<"ok">>, <<"ok", "error">>} :
       told # <<>> /\ told \notin {<<"code">>, <<"code", "error">>, <<"error">>}
  /\ \A told \in {<<"code">>, <<"code", "error">>} : told # <<>> /\ told # <<"error">>
  /\ <<"error">> # <<>>
<1>1. /\ \A s \in {"ok", "code", "error"} : Len(<<s>>) = 1 /\ <<s>>[1] = s
      /\ \A s \in {"ok", "code"} : Len(<<s, "error">>) = 2 /\ <<s, "error">>[1] = s
      /\ Len(<<>>) = 0
  OBVIOUS
<1> QED
  BY <1>1

\* A new call, with an outcome, disturbs none of the others.
LEMMA CallKeeps ==
  ASSUME CallsInv, NEW call, Outcome(call), calls' = Append(calls, call)
  PROVE  CallsInv' /\ ToldStands
<1> DEFINE more == Append(calls, call)
<1>1. /\ Sequence(more)
      /\ Len(calls) \in Nat /\ DOMAIN calls = 1..Len(calls)
      /\ DOMAIN more = 1..(Len(calls) + 1)
      /\ \A i \in 1..Len(calls) : more[i] = calls[i]
      /\ more[Len(calls) + 1] = call
  BY AppendIs DEF CallsInv
<1>2. calls' = more
  OBVIOUS
<1> HIDE DEF more
<1>3. Sequence(calls)'
  BY <1>1, <1>2 DEF Sequence
<1>4. ASSUME NEW c \in DOMAIN calls
      PROVE  c \in DOMAIN calls' /\ calls'[c] = calls[c]
  BY <1>1, <1>2
<1>5. ToldStands
  BY <1>4 DEF ToldStands
<1>6. ASSUME NEW c \in DOMAIN calls'
      PROVE  Outcome(calls'[c])
  <2>1. CASE c = Len(calls) + 1
    BY <1>1, <1>2, <2>1
  <2>2. CASE c # Len(calls) + 1
    <3>1. c \in DOMAIN calls
      BY <1>1, <1>2, <2>2
    <3> QED
      BY <1>4, <3>1 DEF CallsInv
  <2> QED
    BY <2>1, <2>2
<1>7. \A c \in DOMAIN calls' : Outcome(calls'[c])
  BY <1>6
<1> QED
  BY <1>3, <1>5, <1>7 DEF CallsInv, Outcome

\* Nor does a call that is given an outcome which extends what it had.
LEMMA OutcomeKeeps ==
  ASSUME CallsInv, NEW c \in DOMAIN calls, NEW call, Outcome(call), Extends(calls[c], call),
         calls' = [calls EXCEPT ![c] = call]
  PROVE  CallsInv' /\ ToldStands
<1>1. PICK T : calls \in Seq(T)
  BY DEF CallsInv, Sequence
<1> DEFINE U == T \cup {call}
           new == [calls EXCEPT ![c] = call]
<1>2. calls \in Seq(U) /\ call \in U
  BY <1>1, SeqMonotonic
<1> HIDE DEF U
<1>3. Len(calls) \in Nat /\ DOMAIN calls = 1..Len(calls)
  BY <1>2, LenProperties
<1>4. new \in Seq(U) /\ DOMAIN new = DOMAIN calls
  BY <1>2, <1>3, ExceptSeq
<1>5. \A i \in DOMAIN calls : new[i] = IF i = c THEN call ELSE calls[i]
  OBVIOUS
<1>6. calls' = new
  OBVIOUS
<1> HIDE DEF new
<1>7. Sequence(calls)'
  BY <1>4, <1>6 DEF Sequence
<1>8. \A i \in DOMAIN calls' : Outcome(calls'[i])
  BY <1>4, <1>5, <1>6 DEF CallsInv
<1>9. ASSUME NEW i \in DOMAIN calls
      PROVE  i \in DOMAIN calls' /\ Extends(calls[i], calls'[i])
  BY <1>4, <1>5, <1>6 DEF Extends
<1>10. ToldStands
  BY <1>9 DEF ToldStands, Extends
<1> QED
  BY <1>7, <1>8, <1>10 DEF CallsInv, Outcome

\* A call of which one field is changed.
LEMMA FieldChanged ==
  ASSUME NEW a, NEW p, NEW s, NEW w, NEW t, NEW k, NEW x,
         NEW call, call = [action |-> a, param |-> p, step |-> s, answer |-> w, told |-> t, asked |-> k]
  PROVE  /\ [call EXCEPT !.step = x]
               = [action |-> a, param |-> p, step |-> x, answer |-> w, told |-> t, asked |-> k]
         /\ [call EXCEPT !.answer = x]
               = [action |-> a, param |-> p, step |-> s, answer |-> x, told |-> t, asked |-> k]
         /\ [call EXCEPT !.told = x]
               = [action |-> a, param |-> p, step |-> s, answer |-> w, told |-> x, asked |-> k]
         /\ [call EXCEPT !.asked = x]
               = [action |-> a, param |-> p, step |-> s, answer |-> w, told |-> t, asked |-> x]
OBVIOUS

LEMMA AnswerKeeps ==
  ASSUME CallsInv, NEW c \in DOMAIN calls, NEW answer, NEW result, Answer(c, answer, result)
  PROVE  CallsInv' /\ ToldStands
<1> DEFINE old == calls[c]
           asked == [call |-> old.asked.call, done |-> TRUE, result |-> result]
<1>1. Outcome(old) /\ old.step = "sent"
  BY DEF CallsInv, Answer
<1>2. ~old.asked.done /\ old.told = <<>>
  BY <1>1 DEF Outcome
<1>3. PICK step \in {"answered", "failed"} :
        calls' = [calls EXCEPT ![c].step = step, ![c].answer = answer,
                               ![c].asked = [call |-> @.call, done |-> TRUE, result |-> result]]
  BY DEF Answer
<1> DEFINE call == [action |-> old.action, param |-> old.param, step |-> step,
                    answer |-> answer, told |-> old.told, asked |-> asked]
<1>4. calls' = [calls EXCEPT ![c] = call]
  <2> DEFINE one == [old EXCEPT !.step = step]
             two == [one EXCEPT !.answer = answer]
             three == [two EXCEPT !.asked = asked]
  <2>2. one = [action |-> old.action, param |-> old.param, step |-> step,
               answer |-> old.answer, told |-> old.told, asked |-> old.asked]
    BY <1>1, FieldChanged DEF Outcome
  <2>3. two.asked = old.asked
    BY <2>2
  <2>4. calls' = [calls EXCEPT ![c] = three]
    BY <1>3, <2>3
  <2> HIDE DEF one
  <2>5. two = [action |-> old.action, param |-> old.param, step |-> step,
               answer |-> answer, told |-> old.told, asked |-> old.asked]
    BY <2>2, FieldChanged
  <2> HIDE DEF two, asked
  <2>6. three = [action |-> old.action, param |-> old.param, step |-> step,
                 answer |-> answer, told |-> old.told, asked |-> asked]
    BY <2>5, FieldChanged
  <2> QED
    BY <2>4, <2>6
<1>5. Outcome(call)
  BY <1>2 DEF Outcome
<1>6. Extends(old, call)
  BY <1>1, <1>2 DEF Extends
<1> QED
  BY <1>4, <1>5, <1>6, OutcomeKeeps

LEMMA RefuseKeeps ==
  ASSUME CallsInv, NEW c \in DOMAIN calls, NEW mustRefuse, Refuse(c, mustRefuse)
  PROVE  CallsInv' /\ ToldStands
<1> DEFINE old == calls[c]
<1>1. Outcome(old) /\ old.step = "sent"
  BY DEF CallsInv, Refuse
<1>2. ~old.asked.done /\ old.told = <<>>
  BY <1>1 DEF Outcome
<1>3. PICK step \in {"refused", "failed"} : calls' = [calls EXCEPT ![c].step = step]
  BY DEF Refuse
<1> DEFINE call == [action |-> old.action, param |-> old.param, step |-> step,
                    answer |-> old.answer, told |-> old.told, asked |-> old.asked]
<1>4. calls' = [calls EXCEPT ![c] = call]
  <2>1. calls' = [calls EXCEPT ![c] = [old EXCEPT !.step = step]]
    BY <1>3
  <2>2. [old EXCEPT !.step = step] = call
    BY <1>1, FieldChanged DEF Outcome
  <2> QED
    BY <2>1, <2>2
<1>5. Outcome(call)
  BY <1>1, <1>2 DEF Outcome
<1>6. Extends(old, call)
  BY <1>1, <1>2 DEF Extends
<1> QED
  BY <1>4, <1>5, <1>6, OutcomeKeeps

LEMMA StepAndToldChanged ==
  ASSUME NEW call, Outcome(call), NEW step, NEW told
  PROVE  [call EXCEPT !.step = step, !.told = told]
           = [action |-> call.action, param |-> call.param, step |-> step,
              answer |-> call.answer, told |-> told, asked |-> call.asked]
<1> DEFINE one == [call EXCEPT !.step = step]
           two == [one EXCEPT !.told = told]
<1>1. one = [action |-> call.action, param |-> call.param, step |-> step,
             answer |-> call.answer, told |-> call.told, asked |-> call.asked]
  BY FieldChanged DEF Outcome
<1> HIDE DEF one
<1>2. two = [action |-> call.action, param |-> call.param, step |-> step,
             answer |-> call.answer, told |-> told, asked |-> call.asked]
  BY <1>1, FieldChanged
<1> QED
  BY <1>2 DEF one

\* A call that is told one thing more, and ends or has thrown.
LEMMA TellKeeps ==
  ASSUME CallsInv, NEW c \in DOMAIN calls, NEW step, NEW what, Tell(c, step, what),
         NEW told, told = Append(calls[c].told, what), calls[c].step # "ended",
         calls[c].told # <<>> => calls[c].step = "thrown" /\ what = "error",
         \/ step = "ended" /\ told = <<"error">>
         \/ /\ calls[c].asked.done
            /\ \/ step = "thrown" /\ told = <<"ok">>
               \/ step = "ended" /\ told \in {<<"ok">>, <<"ok", "error">>}
         \/ /\ ~calls[c].asked.done
            /\ \/ step = "thrown" /\ told = <<"code">>
               \/ step = "ended" /\ told \in {<<"code">>, <<"code", "error">>}
  PROVE  CallsInv' /\ ToldStands
<1> DEFINE old == calls[c]
           call == [action |-> old.action, param |-> old.param, step |-> step,
                    answer |-> old.answer, told |-> told, asked |-> old.asked]
<1>1. Outcome(old)
  BY DEF CallsInv
<1>2. calls' = [calls EXCEPT ![c] = call]
  BY <1>1, StepAndToldChanged DEF Tell
<1>3. Outcome(call)
  BY <1>1 DEF Outcome
<1>4. Extends(old, call)
  BY DEF Extends
<1> QED
  BY <1>2, <1>3, <1>4, OutcomeKeeps

LEMMA SettleKeeps ==
  ASSUME CallsInv, NEW c \in DOMAIN calls, NEW unreadable \in BOOLEAN, Settle(c, unreadable)
  PROVE  CallsInv' /\ ToldStands
<1> DEFINE first == IF calls[c].step = "refused" THEN "code" ELSE "ok"
<1>1. Outcome(calls[c]) /\ calls[c].step \in {"answered", "refused", "failed"}
  BY DEF CallsInv, Settle
<1>2. /\ calls[c].told = <<>>
      /\ calls[c].step = "answered" => calls[c].asked.done
      /\ calls[c].step = "refused" => ~calls[c].asked.done
  BY <1>1 DEF Outcome
<1>3. \A what : Append(calls[c].told, what) = <<what>>
  BY <1>2
<1>4. \/ Tell(c, "ended", "error")
      \/ calls[c].step # "failed" /\ (Tell(c, "ended", first) \/ Tell(c, "thrown", first))
  BY DEF Settle
<1>5. CASE Tell(c, "ended", "error")
  BY <1>1, <1>2, <1>3, <1>5, TellKeeps
<1>6. CASE calls[c].step # "failed" /\ (Tell(c, "ended", first) \/ Tell(c, "thrown", first))
  <2>1. (first = "ok" /\ calls[c].asked.done) \/ (first = "code" /\ ~calls[c].asked.done)
    BY <1>1, <1>2, <1>6
  <2> QED
    BY <1>1, <1>2, <1>3, <1>6, <2>1, TellKeeps
<1> QED
  BY <1>4, <1>5, <1>6

LEMMA AppendPair ==
  ASSUME NEW x, NEW y
  PROVE  Append(<<x>>, y) = <<x, y>>
<1>1. <<x>> \in Seq({x, y}) /\ y \in {x, y}
  OBVIOUS
<1>2. Len(<<x>>) = 1 /\ <<x>>[1] = x
  OBVIOUS
<1>3. /\ Append(<<x>>, y) \in Seq({x,y})
      /\ Len(Append(<<x>>, y)) = 2
      /\ Append(<<x>>, y)[1] = x
      /\ Append(<<x>>, y)[2] = y
  BY <1>1, <1>2, AppendProperties
<1>4. <<x, y>> \in Seq({x, y}) /\ Len(<<x, y>>) = 2 /\ <<x,y>>[1] = x /\ <<x,y>>[2] = y
  OBVIOUS
<1> DEFINE s == Append(<<x>>, y)
           t == <<x, y>>
<1>5. s \in Seq({x, y}) /\ t \in Seq({x, y}) /\ Len(s) = Len(t)
  BY <1>3, <1>4
<1>6. \A i \in 1..Len(s) : s[i] = t[i]
  BY <1>3, <1>4
<1> HIDE DEF s, t
<1>7. s = t
  BY <1>5, <1>6, SeqEqual
<1> QED
  BY <1>7 DEF s, t

LEMMA TellAgainKeeps ==
  ASSUME CallsInv, NEW c \in DOMAIN calls, TellAgain(c)
  PROVE  CallsInv' /\ ToldStands
<1>1. Outcome(calls[c]) /\ calls[c].step = "thrown" /\ Tell(c, "ended", "error")
  BY DEF CallsInv, TellAgain
<1>2. \/ calls[c].asked.done /\ calls[c].told = <<"ok">>
      \/ ~calls[c].asked.done /\ calls[c].told = <<"code">>
  BY <1>1 DEF Outcome
<1>3. /\ Append(<<"ok">>, "error") = <<"ok", "error">>
      /\ Append(<<"code">>, "error") = <<"code", "error">>
  BY AppendPair
<1> QED
  BY <1>1, <1>2, <1>3, TellKeeps

LEMMA CallsNextKeeps ==
  ASSUME CallsInv, CallsNext
  PROVE  CallsInv' /\ ToldStands
<1>1. ASSUME NEW meant, NEW action, NEW param, NEW step, NEW told,
             Call(meant, action, param, step, told),
             \/ step = "sent" /\ told = <<>>
             \/ step = "ended" /\ told = <<"code">>
      PROVE  CallsInv' /\ ToldStands
  <2> DEFINE call == [action |-> action, param |-> param, step |-> step, answer |-> NoAnswer, told |-> told,
                      asked |-> [call |-> meant, done |-> FALSE, result |-> NoAnswer]]
  <2>1. Outcome(call)
    BY <1>1 DEF Outcome
  <2>2. calls' = Append(calls, call)
    BY <1>1 DEF Call
  <2> QED
    BY <2>1, <2>2, CallKeeps
<1> QED
  BY <1>1, AnswerKeeps, RefuseKeeps, SettleKeeps, TellAgainKeeps DEF CallsNext, Send, Decline

\* However calls overlap and fail, each has one outcome, which fits what it was told.
THEOREM CallsInvariance ==
  CallsSpec => []CallsInv
<1>1. CallsInit => CallsInv
  <2>1. <<>> \in Seq({}) /\ DOMAIN <<>> = {}
    OBVIOUS
  <2> QED
    BY <2>1 DEF CallsInit, CallsInv, Sequence
<1>2. CallsInv /\ [CallsNext]_<<calls, faults>> => CallsInv'
  <2> SUFFICES ASSUME CallsInv, [CallsNext]_<<calls, faults>> PROVE CallsInv'
    OBVIOUS
  <2>1. CASE CallsNext
    BY <2>1, CallsNextKeeps
  <2>2. CASE UNCHANGED <<calls, faults>>
    BY <2>2 DEF CallsInv, Outcome
  <2> QED
    BY <2>1, <2>2
<1> QED
  BY <1>1, <1>2, PTL DEF CallsSpec

\* "ok" is told only of what has taken effect, a code only of what never has.
THEOREM TruthIsTold ==
  CallsSpec => []ToldTruth
<1>1. CallsInv => ToldTruth
  <2> SUFFICES ASSUME CallsInv, NEW c \in DOMAIN calls
               PROVE  /\ calls[c].told \in {<<"ok">>, <<"ok", "error">>} => calls[c].asked.done
                      /\ calls[c].told \in {<<"code">>, <<"code", "error">>} => ~calls[c].asked.done
                      /\ calls[c].told # <<>> => calls[c].step \in {"thrown", "ended"}
    BY DEF ToldTruth
  <2>1. Outcome(calls[c])
    BY DEF CallsInv
  <2> QED
    BY <2>1, Tellings DEF Outcome
<1> QED
  BY <1>1, CallsInvariance, PTL

\* A call takes effect once, and what its user was told of it stands: only what
\* its own callback threw is told after that, and nothing more is done.
THEOREM OneOutcome ==
  CallsSpec => OutcomeKept
<1>1. CallsInv /\ [CallsNext]_<<calls, faults>> => [ToldStands]_<<calls, faults>>
  BY CallsNextKeeps
<1> QED
  BY <1>1, CallsInvariance, PTL DEF CallsSpec, OutcomeKept
=============================================================================
