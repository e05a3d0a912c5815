------------------------- MODULE ServerEventsProofs -------------------------
(***************************************************************************)
(* Theorems about ServerEvents, for every set of documents, fields and     *)
(* values and every number of events and changes.                          *)
(***************************************************************************)
EXTENDS ServerEvents, FiniteSetTheorems, SequenceTheorems, WellFoundedInduction, TLAPS

-----------------------------------------------------------------------------
\* Recursive functions

\* Induction, without an operator for the formula: the least counterexample.
LEMMA LeastNat ==
  ASSUME NEW S \in SUBSET Nat, S # {}
  PROVE  \E n \in S : \A m \in S : n <= m
<1> DEFINE less == {p \in Nat \X Nat : p[1] < p[2]}
<1>1. IsWellFoundedOn(less, Nat)
  BY NatLessThanWellFounded DEF OpToRel
<1>2. PICK n \in S : \A m \in S : ~(<<m, n>> \in less)
  <2> HIDE DEF less
  <2> QED
    BY <1>1, WFMin
<1>3. ASSUME NEW m \in S PROVE n <= m
  <2>1. m \in Nat /\ n \in Nat
    OBVIOUS
  <2>2. <<m, n>> \in Nat \X Nat /\ ~(m < n)
    BY <1>2, <2>1
  <2> QED
    BY <2>1, <2>2
<1> QED
  BY <1>3

\* The state of the loop after each pass.
LEMMA LoopPasses ==
  ASSUME NEW w, NEW events, Len(events) \in Nat, NEW throws
  PROVE  /\ Loop(w, events, throws)[0] = Start(w)
         /\ \A i \in 1..Len(events) :
              Loop(w, events, throws)[i] =
                HandleChange(Loop(w, events, throws)[i - 1], events, i, throws)
<1> DEFINE F(f) == [i \in 0..Len(events) |->
                      IF i = 0 THEN Start(w) ELSE HandleChange(f[i - 1], events, i, throws)]
           Runs(f, n) == /\ f[0] = Start(w)
                         /\ \A i \in 1..n : f[i] = HandleChange(f[i - 1], events, i, throws)
           S == {n \in Nat : ~\E f : Runs(f, n)}
<1>1. S = {}
  <2> SUFFICES ASSUME S # {} PROVE FALSE
    OBVIOUS
  <2>1. PICK n \in S : \A m \in S : n <= m
    BY LeastNat
  <2>2. CASE n = 0
    <3>1. Runs([i \in {0} |-> Start(w)], 0)
      OBVIOUS
    <3> QED
      BY <2>2, <3>1
  <2>3. CASE n # 0
    <3>1. n - 1 \in Nat /\ n - 1 \notin S
      <4>1. n \in Nat
        OBVIOUS
      <4> HIDE DEF S
      <4> QED
        BY <2>1, <2>3, <4>1
    <3>2. PICK f : Runs(f, n - 1)
      BY <3>1
    <3> DEFINE g == [i \in 0..n |-> IF i = n THEN HandleChange(f[n - 1], events, n, throws)
                                    ELSE f[i]]
    <3>3. g[0] = Start(w)
      BY <2>3, <3>2
    <3>4. ASSUME NEW i \in 1..n PROVE g[i] = HandleChange(g[i - 1], events, i, throws)
      <4>1. i - 1 \in 0..n /\ i - 1 # n /\ i \in 0..n
        OBVIOUS
      <4>2. g[i - 1] = f[i - 1]
        BY <4>1
      <4>3. CASE i = n
        BY <4>1, <4>2, <4>3
      <4>4. CASE i # n
        BY <3>2, <4>1, <4>2, <4>4
      <4> QED
        BY <4>3, <4>4
    <3>5. Runs(g, n)
      BY <3>3, <3>4
    <3> QED
      BY <3>5
  <2> QED
    BY <2>2, <2>3
<1>2. PICK f : Runs(f, Len(events))
  BY <1>1
<1>3. \E g : g = F(g)
  <2> DEFINE g == [i \in 0..Len(events) |-> f[i]]
  <2>1. ASSUME NEW i \in 0..Len(events)
        PROVE  g[i] = IF i = 0 THEN Start(w) ELSE HandleChange(g[i - 1], events, i, throws)
    <3>1. CASE i = 0
      BY <1>2, <3>1
    <3>2. CASE i # 0
      <4>1. i \in 1..Len(events) /\ i - 1 \in 0..Len(events)
        BY <3>2
      <4> QED
        BY <1>2, <3>2, <4>1
    <3> QED
      BY <3>1, <3>2
  <2>2. g = F(g)
    BY <2>1
  <2> QED
    BY <2>2
<1>4. Loop(w, events, throws) = CHOOSE g : g = F(g)
  BY DEF Loop
<1>5. Loop(w, events, throws) = F(Loop(w, events, throws))
  BY <1>3, <1>4
<1> QED
  BY <1>5

\* The state of FlattenSeq after each pass.
Flattens(f, seqs) ==
  /\ f[1] = seqs[1]
  /\ \A i \in 2..Len(seqs) : f[i] = f[i - 1] \o seqs[i]
  /\ FlattenSeq(seqs) = f[Len(seqs)]

LEMMA FlattenPasses ==
  ASSUME NEW seqs, Len(seqs) \in Nat \ {0}
  PROVE  \E f : Flattens(f, seqs)
<1> DEFINE Cat(x, i) == x \o seqs[i]
           F(f) == [i \in 1..Len(seqs) |-> IF i = 1 THEN seqs[i] ELSE Cat(f[i - 1], i)]
           Runs(f, n) == f[1] = seqs[1] /\ \A i \in 2..n : f[i] = Cat(f[i - 1], i)
           S == {n \in Nat : ~\E f : Runs(f, n)}
<1>4. FlattenSeq(seqs) = (CHOOSE g : g = F(g))[Len(seqs)]
  BY DEF FlattenSeq
<1> HIDE DEF Cat
<1>1. S = {}
  <2> SUFFICES ASSUME S # {} PROVE FALSE
    OBVIOUS
  <2>1. PICK n \in S : \A m \in S : n <= m
    BY LeastNat
  <2>2. CASE n < 2
    <3>1. n \in Nat /\ 2..n = {}
      BY <2>2
    <3>2. Runs([i \in {1} |-> seqs[1]], n)
      BY <3>1
    <3> QED
      BY <3>2
  <2>3. CASE n >= 2
    <3>1. n - 1 \in Nat /\ n - 1 \notin S
      <4>1. n \in Nat
        OBVIOUS
      <4> HIDE DEF S
      <4> QED
        BY <2>1, <2>3, <4>1
    <3>2. PICK f : Runs(f, n - 1)
      BY <3>1
    <3> DEFINE g == [i \in 1..n |-> IF i = n THEN Cat(f[n - 1], n) ELSE f[i]]
    <3>3. g[1] = seqs[1]
      BY <2>3, <3>2
    <3>4. ASSUME NEW i \in 2..n PROVE g[i] = Cat(g[i - 1], i)
      <4>1. i - 1 \in 1..n /\ i - 1 # n /\ i \in 1..n
        OBVIOUS
      <4>2. g[i - 1] = f[i - 1]
        BY <4>1
      <4>3. CASE i = n
        BY <4>1, <4>2, <4>3
      <4>4. CASE i # n
        <5>1. i \in 2..(n - 1) /\ g[i] = f[i]
          BY <4>1, <4>4
        <5> QED
          BY <3>2, <4>2, <5>1
      <4> QED
        BY <4>3, <4>4
    <3>5. Runs(g, n)
      BY <3>3, <3>4
    <3> QED
      BY <3>5
  <2> QED
    BY <2>2, <2>3
<1>2. PICK f : Runs(f, Len(seqs))
  BY <1>1
<1>3. \E g : g = F(g)
  <2> DEFINE g == [i \in 1..Len(seqs) |-> f[i]]
  <2>1. ASSUME NEW i \in 1..Len(seqs)
        PROVE  g[i] = IF i = 1 THEN seqs[i] ELSE Cat(g[i - 1], i)
    <3>1. CASE i = 1
      BY <1>2, <3>1
    <3>2. CASE i # 1
      <4>1. i \in 2..Len(seqs) /\ i - 1 \in 1..Len(seqs)
        BY <3>2
      <4> QED
        BY <1>2, <3>2, <4>1
    <3> QED
      BY <3>1, <3>2
  <2>2. g = F(g)
    BY <2>1
  <2> QED
    BY <2>2
<1> DEFINE flatten == CHOOSE g : g = F(g)
<1>5. flatten = F(flatten)
  BY <1>3
<1> HIDE DEF flatten
<1>6. \A i \in 1..Len(seqs) : flatten[i] = IF i = 1 THEN seqs[i] ELSE Cat(flatten[i - 1], i)
  BY <1>5
<1>7. flatten[1] = seqs[1] /\ \A i \in 2..Len(seqs) : flatten[i] = Cat(flatten[i - 1], i)
  BY <1>6
<1>8. FlattenSeq(seqs) = flatten[Len(seqs)]
  BY <1>4 DEF flatten
<1> QED
  BY <1>7, <1>8 DEF Cat, Flattens

-----------------------------------------------------------------------------
\* Batches

Item == [id : EventId, change : {log[k].changes[j] : k \in EventId, j \in {1, 2}}]

\* Whether element i of a batch is the first, or the last, of its event.
Begins(b, i) == i = 1 \/ b[i - 1].id # b[i].id

Ends(b, i) == i = Len(b) \/ b[i + 1].id # b[i].id

\* It is a change of its event, which has one or two.
Placed(b, i) ==
  LET changes == log[b[i].id].changes IN
    \/ Len(changes) = 1 /\ b[i].change = changes[1] /\ Begins(b, i) /\ Ends(b, i)
    \/ Len(changes) = 2 /\ b[i].change = changes[1] /\ Begins(b, i) /\ ~Ends(b, i)
    \/ Len(changes) = 2 /\ b[i].change = changes[2] /\ ~Begins(b, i) /\ Ends(b, i)

\* A batch has the changes of the events lo..hi, in order.
Fits(b, lo, hi) ==
  /\ b \in Seq(Item)
  /\ Len(b) > 0 /\ b[1].id = lo /\ b[Len(b)].id = hi
  /\ \A i \in 2..Len(b) : b[i].id \in {b[i - 1].id, b[i - 1].id + 1}
  /\ \A i \in 1..Len(b) : b[i].id \in lo..hi /\ Placed(b, i)

LEMMA EventShape ==
  ASSUME History, NEW e \in EventId, e # 1
  PROVE  LET changes == log[e].changes IN
           /\ e - 1 \in EventId
           /\ Len(changes) \in {1, 2}
           /\ DOMAIN changes = 1..Len(changes)
           /\ changes[1] \in Changes(log[e - 1].result)
           /\ Len(changes) = 1 => log[e].result = After(log[e - 1].result, changes[1])
           /\ Len(changes) = 2 =>
                /\ changes[2] \in Changes(After(log[e - 1].result, changes[1]))
                /\ log[e].result = After(After(log[e - 1].result, changes[1]), changes[2])
<1>1. Leads(log[e - 1].result, log[e].changes, log[e].result)
  BY DEF History
<1>2. e - 1 \in EventId
  BY DEF EventId, History
<1>3. CASE \E c \in Changes(log[e - 1].result) :
             log[e].changes = <<c>> /\ log[e].result = After(log[e - 1].result, c)
  BY <1>2, <1>3
<1>4. CASE \E c \in Changes(log[e - 1].result) :
             \E d \in Changes(After(log[e - 1].result, c)) :
               /\ log[e].changes = <<c, d>>
               /\ log[e].result = After(After(log[e - 1].result, c), d)
  BY <1>2, <1>4
<1> QED
  BY <1>1, <1>3, <1>4 DEF Leads

\* The changes of one event.
LEMMA TaggedFits ==
  ASSUME History, NEW e \in EventId, e # 1
  PROVE  Fits(Tagged(e, log[e].changes), e, e)
<1> DEFINE changes == log[e].changes
           b == Tagged(e, changes)
<1>1. Len(changes) \in {1, 2} /\ DOMAIN changes = 1..Len(changes) /\ e \in Nat
  BY EventShape DEF EventId
<1>2. b = [i \in 1..Len(changes) |-> [id |-> e, change |-> changes[i]]]
  BY <1>1 DEF Tagged
<1>3. \A i \in 1..Len(changes) : [id |-> e, change |-> changes[i]] \in Item
  BY <1>1 DEF Item
<1>4. b \in Seq(Item) /\ Len(b) = Len(changes)
  BY <1>1, <1>2, <1>3
<1> HIDE DEF b, changes
<1>5. \A i \in 1..Len(b) : b[i].id = e /\ b[i].change = changes[i]
  <2> TAKE i \in 1..Len(b)
  <2>1. b[i] = [id |-> e, change |-> changes[i]]
    BY <1>2, <1>4
  <2> QED
    BY <2>1
<1>6. \A i \in 1..Len(b) : Begins(b, i) <=> i = 1
  BY <1>1, <1>4, <1>5 DEF Begins
<1>7. \A i \in 1..Len(b) : Ends(b, i) <=> i = Len(b)
  <2> TAKE i \in 1..Len(b)
  <2>1. Len(b) \in {1, 2}
    BY <1>1, <1>4
  <2>2. i # Len(b) => i + 1 \in 1..Len(b)
    BY <2>1
  <2> QED
    BY <1>5, <2>2 DEF Ends
<1>8. ASSUME NEW i \in 1..Len(b) PROVE Placed(b, i)
  <2>1. i \in {1, 2} /\ (Len(changes) = 1 => i = 1)
    BY <1>1, <1>4
  <2>2. log[b[i].id].changes = changes
    BY <1>5 DEF changes
  <2> QED
    BY <1>1, <1>4, <1>5, <1>6, <1>7, <2>1, <2>2 DEF Placed
<1>9. 1 \in 1..Len(b) /\ Len(b) \in 1..Len(b) /\ Len(b) > 0
  BY <1>1, <1>4
<1>10. \A i \in 2..Len(b) : b[i].id \in {b[i - 1].id, b[i - 1].id + 1}
  <2> TAKE i \in 2..Len(b)
  <2>1. i \in 1..Len(b) /\ i - 1 \in 1..Len(b)
    BY <1>1, <1>4
  <2> QED
    BY <1>5, <2>1
<1>11. e \in e..e
  BY <1>1
<1>12. Fits(b, e, e)
  BY <1>4, <1>5, <1>8, <1>9, <1>10, <1>11 DEF Fits
<1> QED
  BY <1>12 DEF b, changes

LEMMA ConcatFits ==
  ASSUME NEW b, NEW t, NEW lo \in Nat, NEW e \in Nat, Fits(b, lo, e), Fits(t, e + 1, e + 1)
  PROVE  Fits(b \o t, lo, e + 1)
<1> DEFINE r == b \o t
<1>1. /\ b \in Seq(Item) /\ t \in Seq(Item) /\ Len(b) \in Nat \ {0} /\ Len(t) \in Nat \ {0}
  BY DEF Fits
<1>2. /\ r \in Seq(Item) /\ Len(r) = Len(b) + Len(t)
      /\ \A i \in 1..Len(b) : r[i] = b[i]
      /\ \A i \in 1..Len(t) : r[Len(b) + i] = t[i]
  BY <1>1, ConcatProperties
<1> HIDE DEF r
<1>3. /\ \A i \in 1..Len(r) :
           \/ i \in 1..Len(b) /\ r[i] = b[i]
           \/ i - Len(b) \in 1..Len(t) /\ r[i] = t[i - Len(b)]
      /\ \A i \in 1..Len(t) : t[i].id = e + 1
      /\ \A i \in 1..Len(b) : b[i].id \in lo..e
  <2>1. ASSUME NEW i \in 1..Len(r), i \notin 1..Len(b)
        PROVE  i - Len(b) \in 1..Len(t) /\ r[i] = t[i - Len(b)]
    <3>1. i - Len(b) \in 1..Len(t) /\ i = Len(b) + (i - Len(b))
      BY <1>1, <1>2, <2>1
    <3> QED
      BY <1>2, <3>1
  <2> QED
    BY <1>2, <2>1 DEF Fits
<1>4. r[Len(b)].id = e /\ r[Len(b) + 1].id = e + 1 /\ r[1].id = lo /\ r[Len(r)].id = e + 1
  <2>1. Len(b) \in 1..Len(b) /\ 1 \in 1..Len(t) /\ 1 \in 1..Len(b) /\ Len(t) \in 1..Len(t)
    BY <1>1
  <2> QED
    BY <1>1, <1>2, <2>1 DEF Fits
<1>5. ASSUME NEW i \in 1..Len(b)
      PROVE  /\ Begins(r, i) <=> Begins(b, i)
             /\ Ends(r, i) <=> Ends(b, i)
             /\ i # 1 => r[i].id \in {r[i - 1].id, r[i - 1].id + 1}
  <2>1. CASE i = Len(b)
    <3>1. Ends(r, i) /\ Ends(b, i)
      BY <1>1, <1>2, <1>4, <2>1 DEF Ends
    <3>2. i # 1 => i - 1 \in 1..Len(b)
      BY <1>1
    <3>3. r[i] = b[i] /\ (i # 1 => r[i - 1] = b[i - 1])
      BY <1>2, <3>2
    <3>4. i # 1 => b[i].id \in {b[i - 1].id, b[i - 1].id + 1}
      BY <1>1 DEF Fits
    <3> QED
      BY <3>1, <3>3, <3>4 DEF Begins
  <2>2. CASE i # Len(b)
    <3>1. i + 1 \in 1..Len(b) /\ (i # 1 => i - 1 \in 1..Len(b)) /\ i # Len(r)
      BY <1>1, <1>2, <2>2
    <3>2. r[i] = b[i] /\ r[i + 1] = b[i + 1] /\ (i # 1 => r[i - 1] = b[i - 1])
      BY <1>2, <3>1
    <3>3. i # 1 => b[i].id \in {b[i - 1].id, b[i - 1].id + 1}
      BY <1>1 DEF Fits
    <3> QED
      BY <2>2, <3>1, <3>2, <3>3 DEF Begins, Ends
  <2> QED
    BY <2>1, <2>2
<1>6. ASSUME NEW j \in 1..Len(t)
      PROVE  /\ Begins(r, Len(b) + j) <=> Begins(t, j)
             /\ Ends(r, Len(b) + j) <=> Ends(t, j)
             /\ r[Len(b) + j].id \in {r[Len(b) + j - 1].id, r[Len(b) + j - 1].id + 1}
  <2>1. r[Len(b) + j] = t[j] /\ t[j].id = e + 1 /\ Len(b) + j # 1
    BY <1>1, <1>2, <1>3
  <2>2. CASE j = 1
    <3>1. Begins(r, Len(b) + j) /\ Begins(t, j)
      BY <1>1, <1>4, <2>1, <2>2 DEF Begins
    <3>2. r[Len(b) + j - 1].id = e
      BY <1>1, <1>4, <2>2
    <3>3. Ends(r, Len(b) + j) <=> Ends(t, j)
      <4>1. CASE j = Len(t)
        BY <1>1, <1>2, <4>1 DEF Ends
      <4>2. CASE j # Len(t)
        <5>1. j + 1 \in 1..Len(t) /\ Len(b) + j + 1 = Len(b) + (j + 1) /\ Len(b) + j # Len(r)
          BY <1>1, <1>2, <4>2
        <5>2. r[Len(b) + j + 1] = t[j + 1]
          BY <1>2, <5>1
        <5> QED
          BY <2>1, <4>2, <5>1, <5>2 DEF Ends
      <4> QED
        BY <4>1, <4>2
    <3> QED
      BY <2>1, <3>1, <3>2, <3>3
  <2>3. CASE j # 1
    <3>1. j - 1 \in 1..Len(t) /\ Len(b) + j - 1 = Len(b) + (j - 1)
      BY <1>1, <2>3
    <3>2. r[Len(b) + j - 1] = t[j - 1] /\ t[j - 1].id = e + 1
      BY <1>2, <1>3, <3>1
    <3>3. Ends(r, Len(b) + j) <=> Ends(t, j)
      <4>1. CASE j = Len(t)
        BY <1>1, <1>2, <4>1 DEF Ends
      <4>2. CASE j # Len(t)
        <5>1. j + 1 \in 1..Len(t) /\ Len(b) + j + 1 = Len(b) + (j + 1) /\ Len(b) + j # Len(r)
          BY <1>1, <1>2, <4>2
        <5>2. r[Len(b) + j + 1] = t[j + 1]
          BY <1>2, <5>1
        <5> QED
          BY <2>1, <4>2, <5>1, <5>2 DEF Ends
      <4> QED
        BY <4>1, <4>2
    <3> QED
      BY <2>1, <2>3, <3>2, <3>3 DEF Begins
  <2> QED
    BY <2>2, <2>3
<1>7. ASSUME NEW i \in 1..Len(r)
      PROVE  /\ Placed(r, i)
             /\ r[i].id \in lo..(e + 1)
             /\ i # 1 => r[i].id \in {r[i - 1].id, r[i - 1].id + 1}
  <2>1. CASE i \in 1..Len(b)
    <3>1. Placed(b, i)
      BY <2>1 DEF Fits
    <3>2. r[i] = b[i] /\ b[i].id \in lo..e
      BY <1>2, <1>3, <2>1
    <3> QED
      BY <1>5, <2>1, <3>1, <3>2 DEF Placed
  <2>2. CASE i \notin 1..Len(b)
    <3> DEFINE j == i - Len(b)
    <3>1. j \in 1..Len(t) /\ r[i] = t[j] /\ i = Len(b) + j
      BY <1>1, <1>3, <2>2
    <3>2. Placed(t, j)
      BY <3>1 DEF Fits
    <3>3. t[j].id = e + 1
      BY <1>3, <3>1
    <3>4. 1 \in 1..Len(b)
      BY <1>1
    <3>5. lo <= e
      BY <1>3, <3>4
    <3> HIDE DEF j
    <3>6. /\ Begins(r, i) <=> Begins(t, j)
          /\ Ends(r, i) <=> Ends(t, j)
          /\ r[i].id \in {r[i - 1].id, r[i - 1].id + 1}
      BY <1>6, <3>1
    <3>7. Placed(r, i)
      BY <3>1, <3>2, <3>6 DEF Placed
    <3> QED
      BY <3>1, <3>3, <3>5, <3>6, <3>7
  <2> QED
    BY <2>1, <2>2
<1>8. Len(r) > 0 /\ \A i \in 2..Len(r) : i \in 1..Len(r) /\ i # 1
  BY <1>1, <1>2
<1>9. Fits(r, lo, e + 1)
  BY <1>2, <1>4, <1>7, <1>8 DEF Fits
<1> QED
  BY <1>9 DEF r

LEMMA BatchFits ==
  ASSUME History, NEW lo \in EventId, NEW hi \in EventId, 1 < lo, lo <= hi
  PROVE  Fits(Batch(lo, hi), lo, hi)
<1> DEFINE n == hi - lo + 1
           seqs == [i \in 1..n |-> Tagged(lo + i - 1, log[lo + i - 1].changes)]
<1>1. lo \in Nat /\ hi \in Nat /\ n \in Nat \ {0} /\ Len(seqs) = n
  BY DEF EventId
<1>2. ASSUME NEW k \in 1..n PROVE Fits(seqs[k], lo + k - 1, lo + k - 1)
  <2> DEFINE e == lo + k - 1
  <2>1. e \in EventId /\ e # 1
    BY <1>1 DEF EventId, History
  <2>2. seqs[k] = Tagged(e, log[e].changes)
    OBVIOUS
  <2> HIDE DEF e, seqs
  <2>3. Fits(seqs[k], e, e)
    BY <2>1, <2>2, TaggedFits
  <2> QED
    BY <2>3 DEF e
<1>3. Batch(lo, hi) = FlattenSeq(seqs)
  BY DEF Batch
<1> HIDE DEF seqs, n
<1>4. Len(seqs) \in Nat \ {0}
  BY <1>1
<1>5. PICK f : Flattens(f, seqs)
  BY <1>4, FlattenPasses
<1>6. /\ f[1] = seqs[1]
      /\ \A i \in 2..n : f[i] = f[i - 1] \o seqs[i]
      /\ FlattenSeq(seqs) = f[n]
  BY <1>1, <1>5 DEF Flattens
<1> DEFINE S == {k \in Nat : k \in 1..n /\ ~Fits(f[k], lo, lo + k - 1)}
<1>7. S = {}
  <2> SUFFICES ASSUME S # {} PROVE FALSE
    OBVIOUS
  <2>1. PICK k \in S : \A m \in S : k <= m
    BY LeastNat
  <2>2. k \in 1..n /\ ~Fits(f[k], lo, lo + k - 1)
    OBVIOUS
  <2>3. CASE k = 1
    <3>1. lo + 1 - 1 = lo
      BY <1>1
    <3> QED
      BY <1>2, <1>6, <2>2, <2>3, <3>1
  <2>4. CASE k # 1
    <3>1. k - 1 \in Nat /\ k - 1 \in 1..n /\ ~(k <= k - 1) /\ k \in 2..n
      BY <1>1, <2>2, <2>4
    <3>2. k - 1 \notin S
      <4> HIDE DEF S
      <4> QED
        BY <2>1, <3>1
    <3> DEFINE e == lo + (k - 1) - 1
    <3>3. e \in Nat /\ lo + k - 1 = e + 1
      BY <1>1, <3>1
    <3>4. Fits(f[k - 1], lo, e)
      BY <3>1, <3>2
    <3>5. Fits(seqs[k], e + 1, e + 1)
      BY <1>2, <2>2, <3>3
    <3>6. f[k] = f[k - 1] \o seqs[k]
      BY <1>6, <3>1
    <3> HIDE DEF e
    <3>7. Fits(f[k], lo, e + 1)
      BY <1>1, <3>3, <3>4, <3>5, <3>6, ConcatFits
    <3> QED
      BY <2>2, <3>3, <3>7
  <2> QED
    BY <2>3, <2>4
<1>8. Fits(f[n], lo, lo + n - 1)
  BY <1>1, <1>7
<1>9. lo + n - 1 = hi
  BY <1>1 DEF n
<1> QED
  BY <1>3, <1>6, <1>8, <1>9

-----------------------------------------------------------------------------
\* Documents

LEMMA AppendAny ==
  ASSUME NEW s, s \in Seq(Range(s)), NEW x
  PROVE  /\ Append(s, x) \in Seq(Range(Append(s, x)))
         /\ Len(Append(s, x)) = Len(s) + 1 /\ Len(s) \in Nat
         /\ DOMAIN Append(s, x) = 1..(Len(s) + 1) /\ DOMAIN s = 1..Len(s)
         /\ \A i \in 1..Len(s) : Append(s, x)[i] = s[i]
         /\ Append(s, x)[Len(s) + 1] = x
<1> DEFINE T == Range(s) \cup {x}
           t == Append(s, x)
<1>1. s \in Seq(T) /\ x \in T
  BY SeqMonotonic
<1> HIDE DEF T
<1>2. /\ t \in Seq(T) /\ Len(t) = Len(s) + 1
      /\ \A i \in 1..Len(s) : t[i] = s[i]
      /\ t[Len(s) + 1] = x
  BY <1>1, AppendProperties
<1>3. Len(s) \in Nat /\ DOMAIN s = 1..Len(s) /\ DOMAIN t = 1..Len(t)
  BY <1>1, <1>2, LenProperties
<1>4. t \in Seq(Range(t))
  BY <1>2, SeqOfRange
<1> QED
  BY <1>2, <1>3, <1>4

LEMMA FindIs ==
  ASSUME NEW docs, Len(docs) \in Nat, NEW heap, NEW id
  PROVE  LET at == Find(docs, heap, id) IN
           \/ at = 0 /\ \A i \in 1..Len(docs) : heap[docs[i]].id # id
           \/ at \in 1..Len(docs) /\ heap[docs[at]].id = id
<1> DEFINE I == {i \in 1..Len(docs) : heap[docs[i]].id = id}
<1>1. Find(docs, heap, id) = IF I # {} THEN Min(I) ELSE 0
  BY DEF Find, SelectInSeq
<1>2. CASE I = {}
  BY <1>1, <1>2
<1>3. CASE I # {}
  <2>1. I \in SUBSET Nat
    OBVIOUS
  <2>2. \E n \in I : \A m \in I : n <= m
    <3> HIDE DEF I
    <3> QED
      BY <1>3, <2>1, LeastNat
  <2>3. Min(I) \in I
    <3> HIDE DEF I
    <3> QED
      BY <2>2 DEF Min
  <2> QED
    BY <1>1, <1>3, <2>3
<1> QED
  BY <1>2, <1>3

\* A document of the result is found.
LEMMA FindMirrored ==
  ASSUME NEW docs, Len(docs) \in Nat, DOMAIN docs = 1..Len(docs), NEW heap, NEW result,
         Mirrors(docs, heap, result), NEW id
  PROVE  LET at == Find(docs, heap, id) IN
           /\ id \in DOMAIN result =>
                /\ at \in 1..Len(docs)
                /\ heap[docs[at]].id = id /\ heap[docs[at]].data = result[id]
           /\ id \notin DOMAIN result => at = 0
<1> DEFINE at == Find(docs, heap, id)
<1>1. \/ at = 0 /\ \A i \in 1..Len(docs) : heap[docs[i]].id # id
      \/ at \in 1..Len(docs) /\ heap[docs[at]].id = id
  BY FindIs
<1> HIDE DEF at
<1>2. at \in 1..Len(docs) => at # 0
  OBVIOUS
<1>3. /\ id \in DOMAIN result =>
           /\ at \in 1..Len(docs)
           /\ heap[docs[at]].id = id /\ heap[docs[at]].data = result[id]
      /\ id \notin DOMAIN result => at = 0
  BY <1>1, <1>2 DEF Mirrors
<1> QED
  BY <1>3 DEF at

\* What is allocated afterwards is not noticed.
LEMMA MirrorsExtended ==
  ASSUME NEW heap, NEW more, NEW docs \in Seq(1..Len(heap)), NEW result,
         \A ref \in 1..Len(heap) : more[ref] = heap[ref]
  PROVE  Mirrors(docs, heap, result) <=> Mirrors(docs, more, result)
<1>1. \A i \in DOMAIN docs : docs[i] \in 1..Len(heap)
  BY ElementOfSeq, LenProperties
<1>2. \A i \in DOMAIN docs : more[docs[i]] = heap[docs[i]]
  BY <1>1
<1> QED
  BY <1>2 DEF Mirrors

LEMMA MirrorsEnqueue ==
  ASSUME NEW n \in Nat, NEW docs \in Seq(1..n), NEW ref \in 1..n, NEW heap, NEW result,
         Mirrors(docs, heap, result), NEW change, change.queueType = "enqueue",
         change.docId \notin DOMAIN result,
         heap[ref].id = change.docId, heap[ref].data = change.full
  PROVE  /\ Mirrors(Append(docs, ref), heap, After(result, change))
         /\ Append(docs, ref) \in Seq(1..n)
<1> DEFINE more == Append(docs, ref)
           after == After(result, change)
<1>1. /\ more \in Seq(1..n) /\ Len(more) = Len(docs) + 1 /\ Len(docs) \in Nat
      /\ DOMAIN docs = 1..Len(docs) /\ DOMAIN more = 1..(Len(docs) + 1)
      /\ \A i \in 1..Len(docs) : more[i] = docs[i]
      /\ more[Len(docs) + 1] = ref
  BY AppendProperties, LenProperties
<1>2. /\ DOMAIN after = DOMAIN result \cup {change.docId}
      /\ \A id \in DOMAIN result : after[id] = result[id]
      /\ after[change.docId] = change.full
  BY DEF After
<1> HIDE DEF more, after
<1>3. \A i \in 1..(Len(docs) + 1) : i \in 1..Len(docs) \/ i = Len(docs) + 1
  BY <1>1
<1>4. \A i \in 1..Len(docs) : /\ heap[docs[i]].id \in DOMAIN result
                              /\ heap[docs[i]].data = result[heap[docs[i]].id]
  BY <1>1 DEF Mirrors
<1>5. \A i \in DOMAIN more : /\ heap[more[i]].id \in DOMAIN after
                             /\ heap[more[i]].data = after[heap[more[i]].id]
  BY <1>1, <1>2, <1>3, <1>4
<1>6. \A i, j \in DOMAIN more : heap[more[i]].id = heap[more[j]].id => i = j
  <2> TAKE i, j \in DOMAIN more
  <2>1. \/ i \in 1..Len(docs) /\ more[i] = docs[i] /\ heap[more[i]].id \in DOMAIN result
        \/ i = Len(docs) + 1 /\ heap[more[i]].id \notin DOMAIN result
    BY <1>1, <1>3, <1>4
  <2>2. \/ j \in 1..Len(docs) /\ more[j] = docs[j] /\ heap[more[j]].id \in DOMAIN result
        \/ j = Len(docs) + 1 /\ heap[more[j]].id \notin DOMAIN result
    BY <1>1, <1>3, <1>4
  <2>3. i \in 1..Len(docs) /\ j \in 1..Len(docs) /\ heap[docs[i]].id = heap[docs[j]].id => i = j
    BY <1>1 DEF Mirrors
  <2> QED
    BY <2>1, <2>2, <2>3
<1>7. \A id \in DOMAIN after : \E i \in DOMAIN more : heap[more[i]].id = id
  <2> TAKE id \in DOMAIN after
  <2>1. CASE id = change.docId
    <3>1. Len(docs) + 1 \in DOMAIN more
      BY <1>1
    <3> QED
      BY <1>1, <2>1, <3>1
  <2>2. CASE id \in DOMAIN result
    <3>1. PICK i \in 1..Len(docs) : heap[docs[i]].id = id
      BY <1>1, <2>2 DEF Mirrors
    <3>2. i \in DOMAIN more /\ more[i] = docs[i]
      BY <1>1
    <3> QED
      BY <3>1, <3>2
  <2> QED
    BY <1>2, <2>1, <2>2
<1> QED
  BY <1>1, <1>5, <1>6, <1>7 DEF Mirrors, more, after

LEMMA MirrorsUpdate ==
  ASSUME NEW n \in Nat, NEW docs \in Seq(1..n), NEW ref \in 1..n, NEW heap, NEW result,
         Mirrors(docs, heap, result), NEW change, change.queueType = "update",
         NEW at \in 1..Len(docs), heap[docs[at]].id = change.docId,
         heap[ref].id = change.docId, heap[ref].data = change.full
  PROVE  /\ Mirrors([docs EXCEPT ![at] = ref], heap, After(result, change))
         /\ [docs EXCEPT ![at] = ref] \in Seq(1..n)
<1> DEFINE r == [docs EXCEPT ![at] = ref]
           after == After(result, change)
<1>1. /\ r \in Seq(1..n) /\ DOMAIN docs = 1..Len(docs) /\ DOMAIN r = 1..Len(docs)
      /\ r[at] = ref /\ \A i \in 1..Len(docs) : i # at => r[i] = docs[i]
  BY ExceptSeq, LenProperties
<1>2. change.docId \in DOMAIN result
  BY <1>1 DEF Mirrors
<1>3. /\ DOMAIN after = DOMAIN result
      /\ \A id \in DOMAIN result : after[id] = IF id = change.docId THEN change.full ELSE result[id]
  BY <1>2 DEF After
<1> HIDE DEF r, after
<1>4. \A i \in 1..Len(docs) : heap[r[i]].id = heap[docs[i]].id
  BY <1>1
<1>5. \A i \in 1..Len(docs) : i # at => heap[docs[i]].id # change.docId
  <2> TAKE i \in 1..Len(docs)
  <2>1. heap[docs[i]].id = heap[docs[at]].id => i = at
    BY <1>1 DEF Mirrors
  <2> QED
    BY <2>1
<1>6. \A i \in DOMAIN r : heap[r[i]].id \in DOMAIN after
  BY <1>1, <1>3, <1>4 DEF Mirrors
<1>7. \A i \in DOMAIN r : heap[r[i]].data = after[heap[r[i]].id]
  <2> TAKE i \in DOMAIN r
  <2>1. CASE i = at
    BY <1>1, <1>2, <1>3, <2>1
  <2>2. CASE i # at
    <3>1. /\ r[i] = docs[i] /\ heap[docs[i]].id \in DOMAIN result
          /\ heap[docs[i]].data = result[heap[docs[i]].id]
      BY <1>1, <2>2 DEF Mirrors
    <3> QED
      BY <1>1, <1>3, <1>5, <2>2, <3>1
  <2> QED
    BY <2>1, <2>2
<1>8. \A i, j \in DOMAIN r : heap[r[i]].id = heap[r[j]].id => i = j
  BY <1>1, <1>4 DEF Mirrors
<1>9. \A id \in DOMAIN after : \E i \in DOMAIN r : heap[r[i]].id = id
  <2> TAKE id \in DOMAIN after
  <2>1. PICK i \in 1..Len(docs) : heap[docs[i]].id = id
    BY <1>1, <1>3 DEF Mirrors
  <2>2. i \in DOMAIN r /\ heap[r[i]].id = id
    BY <1>1, <1>4, <2>1
  <2> QED
    BY <2>2
<1> QED
  BY <1>1, <1>6, <1>7, <1>8, <1>9 DEF Mirrors, r, after

LEMMA RemoveAtIs ==
  ASSUME NEW T, NEW s \in Seq(T), NEW at \in 1..Len(s)
  PROVE  /\ RemoveAt(s, at) \in Seq(T)
         /\ Len(RemoveAt(s, at)) = Len(s) - 1
         /\ DOMAIN RemoveAt(s, at) = 1..(Len(s) - 1) /\ Len(s) - 1 \in Nat
         /\ \A i \in 1..(Len(s) - 1) :
              RemoveAt(s, at)[i] = IF i < at THEN s[i] ELSE s[i + 1]
<1> DEFINE a == SubSeq(s, 1, at - 1)
           b == SubSeq(s, at + 1, Len(s))
           r == a \o b
<1>1. Len(s) \in Nat /\ at \in Nat /\ \A i \in 1..Len(s) : s[i] \in T
  BY ElementOfSeq, LenProperties
<1>2. /\ a \in Seq(T) /\ Len(a) = at - 1
      /\ \A i \in 1..(at - 1) : a[i] = s[i]
  <2>1. \A i \in 1..(at - 1) : i \in 1..Len(s)
    BY <1>1
  <2> QED
    BY <1>1, <2>1, SubSeqProperties
<1>3. /\ b \in Seq(T) /\ Len(b) = Len(s) - at
      /\ \A i \in 1..(Len(s) - at) : b[i] = s[at + i]
  <2>1. \A i \in (at + 1)..Len(s) : i \in 1..Len(s)
    BY <1>1
  <2> QED
    BY <1>1, <2>1, SubSeqProperties
<1> HIDE DEF a, b
<1>4. /\ r \in Seq(T) /\ Len(r) = Len(a) + Len(b)
      /\ \A i \in 1..(Len(a) + Len(b)) : r[i] = IF i <= Len(a) THEN a[i] ELSE b[i - Len(a)]
  BY <1>2, <1>3, ConcatProperties
<1>5. DOMAIN r = 1..Len(r)
  BY <1>4, LenProperties
<1>6. RemoveAt(s, at) = r
  BY DEF RemoveAt, a, b
<1> HIDE DEF r
<1>7. Len(r) = Len(s) - 1
  BY <1>1, <1>2, <1>3, <1>4
<1>8. ASSUME NEW i \in 1..(Len(s) - 1) PROVE r[i] = IF i < at THEN s[i] ELSE s[i + 1]
  <2>1. CASE i < at
    <3>1. i \in 1..(at - 1) /\ i <= Len(a) /\ i \in 1..(Len(a) + Len(b))
      BY <1>1, <1>2, <1>3, <2>1
    <3> QED
      BY <1>2, <1>4, <2>1, <3>1
  <2>2. CASE i >= at
    <3>1. /\ i - Len(a) \in 1..(Len(s) - at) /\ ~(i <= Len(a)) /\ i \in 1..(Len(a) + Len(b))
          /\ at + (i - Len(a)) = i + 1
      BY <1>1, <1>2, <1>3, <2>2
    <3>2. b[i - Len(a)] = s[i + 1]
      BY <1>3, <3>1
    <3>3. ~(i < at)
      BY <1>1, <2>2
    <3> QED
      BY <1>4, <3>1, <3>2, <3>3
  <2> QED
    BY <1>1, <2>1, <2>2
<1>9. DOMAIN r = 1..(Len(s) - 1) /\ Len(s) - 1 \in Nat
  BY <1>1, <1>5, <1>7
<1>10. \A k \in 1..(Len(s) - 1) : r[k] = IF k < at THEN s[k] ELSE s[k + 1]
  BY <1>8
<1>11. r \in Seq(T)
  BY <1>4
<1> QED
  BY <1>6, <1>7, <1>9, <1>10, <1>11

LEMMA MirrorsDequeue ==
  ASSUME NEW n \in Nat, NEW docs \in Seq(1..n), NEW heap, NEW result,
         Mirrors(docs, heap, result), NEW change, change.queueType = "dequeue",
         NEW at \in 1..Len(docs), heap[docs[at]].id = change.docId
  PROVE  Mirrors(RemoveAt(docs, at), heap, After(result, change))
<1> DEFINE r == RemoveAt(docs, at)
           after == After(result, change)
           m == Len(docs) - 1
<1>1. DOMAIN docs = 1..Len(docs) /\ Len(docs) \in Nat
  BY LenProperties
<1>2. /\ Len(r) = m /\ DOMAIN r = 1..m /\ m \in Nat
      /\ \A i \in 1..m : r[i] = IF i < at THEN docs[i] ELSE docs[i + 1]
  BY RemoveAtIs
<1>3. /\ DOMAIN after = DOMAIN result \ {change.docId}
      /\ \A id \in DOMAIN after : after[id] = result[id]
  BY DEF After
<1> DEFINE old(i) == IF i < at THEN i ELSE i + 1
<1>4. \A i \in 1..m : old(i) \in 1..Len(docs) /\ old(i) # at /\ r[i] = docs[old(i)]
  BY <1>1, <1>2
<1>5. \A i, j \in 1..m : old(i) = old(j) => i = j
  BY <1>1
<1>6. \A k \in 1..Len(docs) : k # at => \E i \in 1..m : old(i) = k
  <2> TAKE k \in 1..Len(docs)
  <2> HAVE k # at
  <2>1. CASE k < at
    <3>1. k \in 1..m /\ old(k) = k
      BY <1>1, <2>1
    <3> QED
      BY <3>1
  <2>2. CASE k > at
    <3>1. k - 1 \in 1..m /\ old(k - 1) = k
      BY <1>1, <2>2
    <3> QED
      BY <3>1
  <2> QED
    BY <1>1, <2>1, <2>2
<1> HIDE DEF r, after, old
<1>7. \A k \in 1..Len(docs) : heap[docs[k]].id = change.docId => k = at
  BY <1>1 DEF Mirrors
<1>8. \A i \in DOMAIN r : /\ heap[r[i]].id \in DOMAIN after
                          /\ heap[r[i]].data = after[heap[r[i]].id]
  <2> TAKE i \in DOMAIN r
  <2>1. old(i) \in 1..Len(docs) /\ old(i) # at /\ r[i] = docs[old(i)]
    BY <1>2, <1>4
  <2>2. /\ heap[r[i]].id \in DOMAIN result /\ heap[r[i]].id # change.docId
        /\ heap[r[i]].data = result[heap[r[i]].id]
    BY <1>1, <1>7, <2>1 DEF Mirrors
  <2> QED
    BY <1>3, <2>2
<1>9. \A i, j \in DOMAIN r : heap[r[i]].id = heap[r[j]].id => i = j
  <2> TAKE i, j \in DOMAIN r
  <2>1. /\ old(i) \in 1..Len(docs) /\ r[i] = docs[old(i)]
        /\ old(j) \in 1..Len(docs) /\ r[j] = docs[old(j)]
    BY <1>2, <1>4
  <2>2. heap[docs[old(i)]].id = heap[docs[old(j)]].id => old(i) = old(j)
    BY <1>1, <2>1 DEF Mirrors
  <2> QED
    BY <1>2, <1>5, <2>1, <2>2
<1>10. \A id \in DOMAIN after : \E i \in DOMAIN r : heap[r[i]].id = id
  <2> TAKE id \in DOMAIN after
  <2>1. PICK k \in 1..Len(docs) : heap[docs[k]].id = id
    BY <1>1, <1>3 DEF Mirrors
  <2>2. k # at
    BY <1>3, <2>1
  <2>3. PICK i \in 1..m : old(i) = k
    BY <1>6, <2>2
  <2>4. i \in DOMAIN r /\ r[i] = docs[k]
    BY <1>2, <1>4, <2>3
  <2> QED
    BY <2>1, <2>4
<1> QED
  BY <1>8, <1>9, <1>10 DEF Mirrors, r, after

-----------------------------------------------------------------------------
\* Changes

\* The change carries its document, tells what to update, or that it has left.
Carries(change) == change.sent /\ change.dataType # "remove"

Patches(change) == ~change.sent /\ change.dataType = "update" /\ change.queueType # "enqueue"

Departs(change) ==
  ~change.sent /\ change.dataType \in {"remove", "limit"} /\ change.queueType = "dequeue"

\* Change change is an update of result r, applied to its document as the user is to see.
IsUpdate(change, r, q) ==
  /\ change.dataType = "update" /\ change.queueType = q /\ change.sent = FALSE
  /\ change.docId \in DOMAIN r /\ change.docId \in DocId /\ change.full \in Data
  /\ \A doc \in Doc : PartialUpdate(doc, change) \in Doc
  /\ \A doc \in Doc : doc = [id |-> change.docId, data |-> r[change.docId]]
       => PartialUpdate(doc, change) = [id |-> change.docId, data |-> change.full]

LEMMA UpdatesAre ==
  ASSUME NEW r \in Result, NEW q, NEW change \in Updates(r, q)
  PROVE  IsUpdate(change, r, q)
<1>1. /\ \A id \in DOMAIN r : id \in DocId /\ r[id] \in [Field -> Value \cup {Absent}]
  BY DEF Result, Data
<1>2. ASSUME NEW id \in DOMAIN r, NEW f \in Field, NEW v \in Value \cup {Absent},
             NEW updated, NEW removed, NEW spelling,
             \/ updated = [x \in {f} |-> v] /\ removed = {} /\ v \in Value
             \/ updated = <<>> /\ removed = {f} /\ v = Absent,
             change = Change("update", q, id, [r[id] EXCEPT ![f] = v], FALSE,
                             updated, removed, spelling)
      PROVE  IsUpdate(change, r, q)
  <2>1. /\ change.dataType = "update" /\ change.queueType = q /\ change.sent = FALSE
        /\ change.docId = id /\ change.full = [r[id] EXCEPT ![f] = v]
        /\ change.updated = updated /\ change.removed = removed
    BY <1>2 DEF Change
  <2>2. change.full \in Data
    BY <1>1, <2>1 DEF Data
  <2>3. \A g \in Field : (g \in DOMAIN updated \/ g \in removed) <=> g = f
    <3>1. DOMAIN [x \in {f} |-> v] = {f} /\ DOMAIN <<>> = {}
      OBVIOUS
    <3> QED
      BY <1>2, <3>1
  <2>4. (f \in removed => v = Absent) /\ (f \notin removed => updated[f] = v)
    BY <1>2
  <2>5. ASSUME NEW doc \in Doc
        PROVE  PartialUpdate(doc, change) = [id |-> doc.id, data |-> [doc.data EXCEPT ![f] = v]]
    <3>1. /\ doc = [id |-> doc.id, data |-> doc.data] /\ doc.id \in DocId
          /\ doc.data \in [Field -> Value \cup {Absent}]
      BY DEF Doc, Data
    <3> DEFINE new == [g \in Field |-> IF g \in change.removed THEN Absent
                                      ELSE IF g \in DOMAIN change.updated THEN change.updated[g]
                                      ELSE doc.data[g]]
    <3>2. PartialUpdate(doc, change) = [doc EXCEPT !.data = new]
      BY DEF PartialUpdate
    <3>3. new = [doc.data EXCEPT ![f] = v]
      BY <2>1, <2>3, <2>4, <3>1
    <3> HIDE DEF new
    <3> QED
      BY <3>1, <3>2, <3>3
  <2>6. ASSUME NEW doc \in Doc PROVE PartialUpdate(doc, change) \in Doc
    BY <2>5 DEF Doc, Data
  <2>7. ASSUME NEW doc \in Doc, doc = [id |-> change.docId, data |-> r[change.docId]]
        PROVE  PartialUpdate(doc, change) = [id |-> change.docId, data |-> change.full]
    BY <2>1, <2>5, <2>7
  <2> QED
    BY <1>1, <2>1, <2>2, <2>6, <2>7 DEF IsUpdate
<1>3. ASSUME NEW id \in DOMAIN r, NEW f \in Field, NEW v \in Value,
             change = FieldSet(r, q, id, f, v)
      PROVE  IsUpdate(change, r, q)
  BY <1>2, <1>3 DEF FieldSet
<1>4. ASSUME NEW id \in DOMAIN r, NEW f \in Field, NEW spelling,
             change = FieldRemoved(r, q, id, f, spelling)
      PROVE  IsUpdate(change, r, q)
  BY <1>2, <1>4 DEF FieldRemoved
<1>5. \/ \E id \in DOMAIN r, f \in Field, v \in Value : change = FieldSet(r, q, id, f, v)
      \/ \E id \in DOMAIN r, f \in Field, spelling \in {"removedFields", "RemovedFields"} :
           change = FieldRemoved(r, q, id, f, spelling)
  BY DEF Updates
<1> QED
  BY <1>3, <1>4, <1>5

LEMMA OthersAre ==
  ASSUME NEW r \in Result, NEW change \in Others(r), Legal(r, change)
  PROVE  /\ change.dataType \in {"update", "replace", "add", "remove", "limit"}
         /\ change.queueType \in {"update", "enqueue", "dequeue"}
         /\ change.docId \in DocId /\ change.full \in Data /\ change.sent \in BOOLEAN
         /\ change.queueType = "enqueue" <=> change.docId \notin DOMAIN r
         /\ Carries(change) \/ Invalid(change) \/ Departs(change)
         /\ Departs(change) => change.full = r[change.docId]
<1>1. PICK kind \in Kind \ {<<"init", "init">>, <<"update", "update">>, <<"update", "dequeue">>},
           id \in DocId, full \in Data, sent \in BOOLEAN :
        change = Change(kind[1], kind[2], id, full, sent, <<>>, {}, "removedFields")
  BY DEF Others
<1>2. /\ change.dataType = kind[1] /\ change.queueType = kind[2] /\ change.docId = id
      /\ change.full = full /\ change.sent = sent
  BY <1>1 DEF Change
<1>3. \/ kind[1] = "update" /\ kind[2] = "enqueue"
      \/ kind[1] = "replace" /\ kind[2] \in {"update", "enqueue", "dequeue"}
      \/ kind[1] = "add" /\ kind[2] = "enqueue"
      \/ kind[1] = "remove" /\ kind[2] = "dequeue"
      \/ kind[1] = "limit" /\ kind[2] \in {"enqueue", "dequeue"}
  BY DEF Kind
<1> QED
  BY <1>2, <1>3 DEF Legal, HasDoc, Carries, Invalid, Departs, NeedsDoc

\* What is known of a change that can be made to result r.
WellMade(change, r) ==
  /\ change.dataType \in {"update", "replace", "add", "remove", "limit"}
  /\ change.queueType \in {"update", "enqueue", "dequeue"}
  /\ change.docId \in DocId /\ change.full \in Data /\ change.sent \in BOOLEAN
  /\ change.queueType = "enqueue" <=> change.docId \notin DOMAIN r
  /\ Carries(change) \/ Invalid(change) \/ Patches(change) \/ Departs(change)
  /\ Patches(change) /\ ~Invalid(change) => \E q : IsUpdate(change, r, q)
  /\ Departs(change) => change.full = r[change.docId]

LEMMA ChangeIs ==
  ASSUME NEW r \in Result, NEW change \in Changes(r)
  PROVE  WellMade(change, r)
<1>1. ASSUME NEW q \in {"update", "dequeue"}, change \in Updates(r, q)
      PROVE  WellMade(change, r)
  <2>1. IsUpdate(change, r, q)
    BY <1>1, UpdatesAre
  <2>2. Patches(change) /\ ~Departs(change)
    BY <2>1 DEF IsUpdate, Patches, Departs
  <2>3. change.queueType # "enqueue" /\ change.docId \in DOMAIN r
    BY <2>1 DEF IsUpdate
  <2> QED
    BY <2>1, <2>2, <2>3 DEF IsUpdate, WellMade
<1>2. ASSUME change \in Others(r), Legal(r, change) PROVE WellMade(change, r)
  <2>1. ~Patches(change) \/ Invalid(change)
    BY <1>2, OthersAre DEF Patches, Carries, Departs
  <2> QED
    BY <1>2, <2>1, OthersAre DEF WellMade
<1> QED
  BY <1>1, <1>2 DEF Changes

LEMMA AfterIsResult ==
  ASSUME NEW r \in Result, NEW change \in Changes(r)
  PROVE  After(r, change) \in Result
<1>1. PICK S \in SUBSET DocId : r \in [S -> Data]
  BY DEF Result
<1>2. change.docId \in DocId /\ change.full \in Data
  BY ChangeIs DEF WellMade
<1>3. CASE change.queueType = "dequeue"
  <2>1. After(r, change) \in [S \ {change.docId} -> Data] /\ S \ {change.docId} \in SUBSET DocId
    BY <1>1, <1>3 DEF After
  <2> QED
    BY <2>1 DEF Result
<1>4. CASE change.queueType # "dequeue"
  <2>1. /\ After(r, change) \in [S \cup {change.docId} -> Data]
        /\ S \cup {change.docId} \in SUBSET DocId
    BY <1>1, <1>2, <1>4 DEF After
  <2> QED
    BY <2>1 DEF Result
<1> QED
  BY <1>3, <1>4

-----------------------------------------------------------------------------
\* One pass of the loop

\* The fields of the loop's state, and the types of those that the changes reach.
Local(c) ==
  /\ c = [currentEventId |-> c.currentEventId, currentDocs |-> c.currentDocs,
          docs |-> c.docs, heap |-> c.heap, group |-> c.group, snapshots |-> c.snapshots,
          initEncountered |-> c.initEncountered, dispatched |-> c.dispatched,
          outcome |-> c.outcome]
  /\ c.heap \in Seq(Doc)
  /\ c.docs \in Seq(1..Len(c.heap))

\* What neither switch touches, but for the changes of an INIT_EVENT.
Frame(c, p) ==
  /\ p.initEncountered = c.initEncountered
  /\ p.currentEventId = c.currentEventId /\ p.currentDocs = c.currentDocs
  /\ p.snapshots = c.snapshots /\ p.dispatched = c.dispatched /\ p.outcome = c.outcome

Extends(heap, more) ==
  Len(heap) <= Len(more) /\ \A ref \in 1..Len(heap) : more[ref] = heap[ref]

\* The document of a change.
FullDoc(change) == [id |-> change.docId, data |-> change.full]

\* The first switch gives the change the document ref.
Populates(c, change, p, ref) ==
  /\ Local(p) /\ Frame(c, p) /\ p.docs = c.docs
  /\ Extends(c.heap, p.heap)
  /\ p.group = Append(c.group, [change |-> change, doc |-> ref])
  /\ ref \in 0..Len(p.heap)
  /\ change.queueType = "enqueue" \/ Find(c.docs, c.heap, change.docId) # 0 => ref # 0

Rec(currentEventId, currentDocs, docs, heap, group, snapshots, initEncountered, dispatched,
    outcome) ==
  [currentEventId |-> currentEventId, currentDocs |-> currentDocs, docs |-> docs, heap |-> heap,
   group |-> group, snapshots |-> snapshots, initEncountered |-> initEncountered,
   dispatched |-> dispatched, outcome |-> outcome]

LEMMA LocalIs ==
  ASSUME NEW c, Local(c)
  PROVE  c = Rec(c.currentEventId, c.currentDocs, c.docs, c.heap, c.group, c.snapshots,
                 c.initEncountered, c.dispatched, c.outcome)
BY DEF Local, Rec

LEMMA RecIs ==
  ASSUME NEW c1, NEW c2, NEW c3, NEW c4, NEW c5, NEW c6, NEW c7, NEW c8, NEW c9,
         NEW c, c = Rec(c1, c2, c3, c4, c5, c6, c7, c8, c9)
  PROVE  /\ c.currentEventId = c1 /\ c.currentDocs = c2 /\ c.docs = c3 /\ c.heap = c4
         /\ c.group = c5 /\ c.snapshots = c6 /\ c.initEncountered = c7 /\ c.dispatched = c8
         /\ c.outcome = c9
         /\ c4 \in Seq(Doc) /\ c3 \in Seq(1..Len(c4)) => Local(c)
BY DEF Local, Rec

LEMMA AllocatePopulates ==
  ASSUME NEW c, Local(c), NEW change, NEW doc \in Doc
  PROVE  LET p == Allocate(c, change, doc)
             ref == Len(c.heap) + 1
         IN Populates(c, change, p, ref) /\ p.heap = Append(c.heap, doc) /\ p.heap[ref] = doc
<1> DEFINE heap == Append(c.heap, doc)
           ref == Len(c.heap) + 1
           group == Append(c.group, [change |-> change, doc |-> ref])
           p == [c EXCEPT !.heap = heap, !.group = group]
<1>1. Allocate(c, change, doc) = p
  BY DEF Allocate
<1>2. /\ heap \in Seq(Doc) /\ Len(heap) = Len(c.heap) + 1 /\ Len(c.heap) \in Nat
      /\ \A k \in 1..Len(c.heap) : heap[k] = c.heap[k]
      /\ heap[ref] = doc
  BY AppendProperties, LenProperties DEF Local
<1>3. c.docs \in Seq(1..Len(heap))
  <2>1. 1..Len(c.heap) \subseteq 1..Len(heap)
    BY <1>2
  <2> QED
    BY <2>1, SeqMonotonic DEF Local
<1> HIDE DEF heap, group
<1> DEFINE d == [c EXCEPT !.heap = heap]
           grown == Rec(c.currentEventId, c.currentDocs, c.docs, heap, group, c.snapshots,
                        c.initEncountered, c.dispatched, c.outcome)
<1>4. p = grown
  <2>1. p = [d EXCEPT !.group = group]
    BY DEF Local
  <2>2. c = Rec(c.currentEventId, c.currentDocs, c.docs, c.heap, c.group, c.snapshots,
                c.initEncountered, c.dispatched, c.outcome)
    BY LocalIs
  <2>3. d = Rec(c.currentEventId, c.currentDocs, c.docs, heap, c.group, c.snapshots,
                c.initEncountered, c.dispatched, c.outcome)
    BY <2>2 DEF Rec
  <2> HIDE DEF d, p
  <2>4. [d EXCEPT !.group = group] = grown
    BY <2>3 DEF Rec
  <2> QED
    BY <2>1, <2>4
<1> HIDE DEF p
<1>5. /\ Local(p) /\ Frame(c, p) /\ p.docs = c.docs /\ p.heap = heap /\ p.group = group
  BY <1>2, <1>3, <1>4, RecIs DEF Frame
<1>6. ref \in 0..Len(heap) /\ ref # 0 /\ Extends(c.heap, heap)
  BY <1>2 DEF Extends
<1> HIDE DEF ref
<1>7. Populates(c, change, p, ref) /\ p.heap = heap /\ p.heap[ref] = doc
  BY <1>2, <1>5, <1>6 DEF Populates, group
<1> QED
  BY <1>1, <1>7 DEF ref, heap

LEMMA ReferPopulates ==
  ASSUME NEW c, Local(c), NEW change, NEW ref \in 0..Len(c.heap),
         change.queueType = "enqueue" \/ Find(c.docs, c.heap, change.docId) # 0 => ref # 0
  PROVE  LET p == Refer(c, change, ref)
         IN Populates(c, change, p, ref) /\ p.heap = c.heap
<1> DEFINE group == Append(c.group, [change |-> change, doc |-> ref])
           p == [c EXCEPT !.group = group]
<1>1. Refer(c, change, ref) = p
  BY DEF Refer
<1> HIDE DEF group
<1>2. p = Rec(c.currentEventId, c.currentDocs, c.docs, c.heap, group, c.snapshots,
             c.initEncountered, c.dispatched, c.outcome)
  <2>1. c = Rec(c.currentEventId, c.currentDocs, c.docs, c.heap, c.group, c.snapshots,
                c.initEncountered, c.dispatched, c.outcome)
    BY LocalIs
  <2> QED
    BY <2>1 DEF Rec
<1> HIDE DEF p
<1>3. Local(p) /\ Frame(c, p) /\ p.docs = c.docs /\ p.heap = c.heap /\ p.group = group
  <2>1. c.heap \in Seq(Doc) /\ c.docs \in Seq(1..Len(c.heap))
    BY DEF Local
  <2> QED
    BY <1>2, <2>1, RecIs DEF Frame
<1>4. Extends(c.heap, p.heap)
  BY <1>3, LenProperties DEF Extends, Local
<1>5. Populates(c, change, p, ref) /\ p.heap = c.heap
  BY <1>3, <1>4 DEF Populates, group
<1> QED
  BY <1>1, <1>5

\* The document is the one the change is about if the session is right.
Tells(c, change, r, p) ==
  \E ref : /\ Populates(c, change, p, ref)
           /\ Mirrors(c.docs, c.heap, r) => ref # 0 /\ p.heap[ref] = FullDoc(change)

\* A change that can be used gets a document.
LEMMA PopulateTells ==
  ASSUME NEW c, Local(c), NEW r \in Result, NEW change, WellMade(change, r), ~Invalid(change)
  PROVE  Tells(c, change, r, Populate(c, change))
<1> USE DEF FullDoc, Tells
<1> DEFINE at == Find(c.docs, c.heap, change.docId)
           ref0 == IF at = 0 THEN None ELSE c.docs[at]
           full == [id |-> change.docId, data |-> change.full]
<1>1. full \in Doc
  BY DEF WellMade, Doc
<1>2. /\ Len(c.docs) \in Nat /\ DOMAIN c.docs = 1..Len(c.docs) /\ Len(c.heap) \in Nat
      /\ \A i \in 1..Len(c.docs) : c.docs[i] \in 1..Len(c.heap)
      /\ \A k \in 1..Len(c.heap) : c.heap[k] \in Doc
  BY LenProperties, ElementOfSeq DEF Local
<1>3. /\ at = 0 \/ (at \in 1..Len(c.docs) /\ c.heap[c.docs[at]].id = change.docId)
      /\ Mirrors(c.docs, c.heap, r) /\ change.docId \in DOMAIN r =>
           at \in 1..Len(c.docs) /\ c.heap[c.docs[at]].data = r[change.docId]
  <2>1. at = 0 \/ (at \in 1..Len(c.docs) /\ c.heap[c.docs[at]].id = change.docId)
    BY <1>2, FindIs
  <2>2. Mirrors(c.docs, c.heap, r) /\ change.docId \in DOMAIN r =>
          at \in 1..Len(c.docs) /\ c.heap[c.docs[at]].data = r[change.docId]
    BY <1>2, FindMirrored
  <2> HIDE DEF at
  <2> QED
    BY <2>1, <2>2
<1> HIDE DEF at
<1>4. /\ ref0 \in 0..Len(c.heap) /\ (at # 0 => ref0 # 0)
      /\ ref0 # 0 => c.heap[ref0] \in Doc /\ c.heap[ref0].id = change.docId
      /\ Mirrors(c.docs, c.heap, r) /\ change.docId \in DOMAIN r =>
           ref0 # 0 /\ c.heap[ref0] = [id |-> change.docId, data |-> r[change.docId]]
  <2>1. CASE at = 0
    BY <1>2, <1>3, <2>1 DEF None
  <2>2. CASE at # 0
    <3>1. at \in 1..Len(c.docs) /\ ref0 = c.docs[at] /\ ref0 \in 1..Len(c.heap)
      BY <1>2, <1>3, <2>2
    <3>2. c.heap[ref0] \in Doc /\ c.heap[ref0].id = change.docId
      BY <1>2, <1>3, <3>1
    <3>3. c.heap[ref0] = [id |-> c.heap[ref0].id, data |-> c.heap[ref0].data]
      BY <3>2 DEF Doc
    <3> QED
      BY <1>2, <1>3, <3>1, <3>2, <3>3
  <2> QED
    BY <2>1, <2>2
<1>5. Populate(c, change) =
        IF Carries(change) THEN Allocate(c, change, full)
        ELSE IF NeedsDoc(change) THEN [c EXCEPT !.outcome = "invalid"]
        ELSE IF ref0 # None /\ change.dataType = "update"
        THEN Allocate(c, change, PartialUpdate(c.heap[ref0], change))
        ELSE IF change.dataType \in {"update", "remove", "limit"} THEN Refer(c, change, ref0)
        ELSE Refer(c, change, None)
  BY DEF Populate, Carries, at
<1> HIDE DEF ref0
<1>6. CASE Carries(change)
  BY <1>1, <1>5, <1>6, <1>2, AllocatePopulates
<1>7. CASE ~Carries(change) /\ Patches(change)
  <2>1. PICK q : IsUpdate(change, r, q)
    BY <1>7 DEF WellMade
  <2>2. change.queueType # "enqueue" /\ change.docId \in DOMAIN r
    BY <1>7, <2>1 DEF IsUpdate, Patches
  <2>3. ~NeedsDoc(change) /\ change.dataType = "update"
    BY <1>7 DEF Invalid, Carries, Patches
  <2>4. CASE ref0 # 0
    <3>1. Populate(c, change) = Allocate(c, change, PartialUpdate(c.heap[ref0], change))
      BY <1>5, <1>7, <2>3, <2>4 DEF None
    <3>2. PartialUpdate(c.heap[ref0], change) \in Doc
      BY <1>4, <2>1, <2>4 DEF IsUpdate
    <3>3. Mirrors(c.docs, c.heap, r) => PartialUpdate(c.heap[ref0], change) = full
      BY <1>4, <2>1, <2>2, <2>4 DEF IsUpdate
    <3> QED
      BY <1>2, <3>1, <3>2, <3>3, AllocatePopulates
  <2>5. CASE ref0 = 0
    <3>1. Populate(c, change) = Refer(c, change, ref0)
      BY <1>5, <1>7, <2>3, <2>5 DEF None
    <3>2. change.queueType = "enqueue" \/ at # 0 => ref0 # 0
      BY <1>4, <2>2
    <3>3. Populates(c, change, Populate(c, change), ref0)
      BY <1>4, <3>1, <3>2, ReferPopulates DEF at
    <3> QED
      BY <1>4, <2>2, <2>5, <3>3
  <2> QED
    BY <2>4, <2>5
<1>8. CASE ~Carries(change) /\ Departs(change)
  <2>1. /\ ~NeedsDoc(change) /\ change.dataType \in {"remove", "limit"}
        /\ change.queueType # "enqueue" /\ change.docId \in DOMAIN r
        /\ change.full = r[change.docId]
    BY <1>8 DEF Invalid, Carries, Departs, WellMade
  <2>2. Populate(c, change) = Refer(c, change, ref0)
    BY <1>5, <1>8, <2>1
  <2>3. change.queueType = "enqueue" \/ at # 0 => ref0 # 0
    BY <1>4, <2>1
  <2>4. /\ Populates(c, change, Populate(c, change), ref0)
        /\ Populate(c, change).heap = c.heap
    BY <1>4, <2>2, <2>3, ReferPopulates DEF at
  <2> QED
    BY <1>4, <2>1, <2>4
<1> QED
  BY <1>6, <1>7, <1>8 DEF WellMade

\* The second switch makes of the documents of a result those of the next.
LEMMA QueueTells ==
  ASSUME NEW c, NEW p, NEW ref, NEW r \in Result, NEW change, WellMade(change, r),
         Local(c), c.group \in Seq(Range(c.group)), Populates(c, change, p, ref)
  PROVE  LET q == Queue(p, change) IN
           /\ Local(q) /\ Frame(c, q) /\ q.heap = p.heap /\ q.group = p.group
           /\ Mirrors(c.docs, c.heap, r) /\ ref # 0
              /\ p.heap[ref] = FullDoc(change)
                => Mirrors(q.docs, q.heap, After(r, change))
<1> DEFINE at == Find(p.docs, p.heap, change.docId)
           n == Len(p.heap)
           full == FullDoc(change)
           docs == CASE change.queueType = "enqueue" -> Append(p.docs, ref)
                     [] change.queueType = "dequeue" -> IF at = 0 THEN p.docs ELSE RemoveAt(p.docs, at)
                     [] change.queueType = "update" ->
                          IF at = 0 THEN p.docs ELSE [p.docs EXCEPT ![at] = ref]
<1>1. /\ p.docs = c.docs /\ p.docs \in Seq(1..n) /\ n \in Nat
      /\ Len(p.docs) \in Nat /\ DOMAIN p.docs = 1..Len(p.docs)
      /\ \A i \in 1..Len(p.docs) : p.docs[i] \in 1..Len(c.heap)
      /\ \A i \in 1..Len(p.docs) : p.heap[p.docs[i]] = c.heap[c.docs[i]]
  <2>1. p.docs = c.docs /\ p.docs \in Seq(1..n) /\ c.docs \in Seq(1..Len(c.heap)) /\ n \in Nat
    BY LenProperties DEF Populates, Local
  <2>2. Len(p.docs) \in Nat /\ DOMAIN p.docs = 1..Len(p.docs)
    BY <2>1, LenProperties
  <2>3. \A i \in 1..Len(p.docs) : p.docs[i] \in 1..Len(c.heap)
    BY <2>1, ElementOfSeq
  <2>4. \A i \in 1..Len(p.docs) : p.heap[p.docs[i]] = c.heap[c.docs[i]]
    BY <2>1, <2>3 DEF Populates, Extends
  <2> QED
    BY <2>1, <2>2, <2>3, <2>4
<1>2. at = 0 \/ (at \in 1..Len(p.docs) /\ p.heap[p.docs[at]].id = change.docId)
  <2>1. \/ at = 0 /\ \A i \in 1..Len(p.docs) : p.heap[p.docs[i]].id # change.docId
        \/ at \in 1..Len(p.docs) /\ p.heap[p.docs[at]].id = change.docId
    BY <1>1, FindIs
  <2> QED
    BY <2>1
<1>3. Mirrors(c.docs, c.heap, r) => Mirrors(p.docs, p.heap, r)
  BY <1>1, MirrorsExtended DEF Populates, Local, Extends
<1>4. Mirrors(p.docs, p.heap, r) /\ change.docId \in DOMAIN r => at # 0
  BY <1>1, FindMirrored
<1>5. Find(c.docs, c.heap, change.docId) = 0 => at = 0
  <2> DEFINE old == Find(c.docs, c.heap, change.docId)
  <2>1. \/ old = 0 /\ \A i \in 1..Len(c.docs) : c.heap[c.docs[i]].id # change.docId
        \/ old \in 1..Len(c.docs) /\ c.heap[c.docs[old]].id = change.docId
    BY <1>1, FindIs
  <2> HIDE DEF old, at
  <2>2. at \in 1..Len(p.docs) => p.heap[p.docs[at]] = c.heap[c.docs[at]] /\ p.docs = c.docs
    BY <1>1
  <2>3. old = 0 => at = 0
    <3>1. old \in 1..Len(c.docs) => old # 0
      OBVIOUS
    <3> QED
      BY <1>2, <2>1, <2>2, <3>1
  <2> QED
    BY <2>3 DEF old
<1>6. Last(p.group).doc = ref
  <2> DEFINE g == [change |-> change, doc |-> ref]
  <2>1. p.group = Append(c.group, g) /\ g.doc = ref
    BY DEF Populates
  <2> HIDE DEF g
  <2>2. Len(p.group) = Len(c.group) + 1 /\ p.group[Len(c.group) + 1] = g
    BY <2>1, AppendAny
  <2> QED
    BY <2>1, <2>2 DEF Last
<1>7. Queue(p, change) = [p EXCEPT !.docs = docs]
  <2>1. change.queueType \in {"update", "enqueue", "dequeue"}
    BY DEF WellMade
  <2> HIDE DEF at
  <2>2. CASE change.queueType = "enqueue"
    BY <1>6, <2>2 DEF Queue, at
  <2>3. CASE change.queueType = "dequeue"
    BY <1>6, <2>3 DEF Queue, at
  <2>4. CASE change.queueType = "update"
    BY <1>6, <2>4 DEF Queue, at
  <2> QED
    BY <2>1, <2>2, <2>3, <2>4
<1> HIDE DEF at, n
<1>8. /\ docs \in Seq(1..n)
      /\ Mirrors(p.docs, p.heap, r) /\ ref # 0 /\ p.heap[ref] = full
           => Mirrors(docs, p.heap, After(r, change))
  <2>1. ref # 0 => ref \in 1..n
    BY <1>1 DEF Populates, n
  <2>2. CASE change.queueType = "enqueue"
    <3>1. ref \in 1..n /\ docs = Append(p.docs, ref) /\ change.docId \notin DOMAIN r
      BY <2>1, <2>2 DEF Populates, WellMade
    <3>2. docs \in Seq(1..n)
      <4> HIDE DEF docs
      <4> QED
        BY <1>1, <3>1, AppendProperties
    <3>3. ASSUME Mirrors(p.docs, p.heap, r), p.heap[ref] = full
          PROVE  Mirrors(docs, p.heap, After(r, change))
      <4>1. p.heap[ref].id = change.docId /\ p.heap[ref].data = change.full
        BY <3>3 DEF FullDoc
      <4> HIDE DEF full, docs
      <4> QED
        BY <1>1, <2>2, <3>1, <3>3, <4>1, MirrorsEnqueue
    <3> QED
      BY <3>2, <3>3
  <2>3. CASE change.queueType = "dequeue"
    <3>1. change.docId \in DOMAIN r
      BY <2>3 DEF WellMade
    <3>2. CASE at = 0
      BY <1>1, <1>4, <2>3, <3>1, <3>2
    <3>3. CASE at # 0
      BY <1>1, <1>2, <2>3, <3>3, MirrorsDequeue, RemoveAtIs
    <3> QED
      BY <3>2, <3>3
  <2>4. CASE change.queueType = "update"
    <3>1. change.docId \in DOMAIN r
      BY <2>4 DEF WellMade
    <3>2. CASE at = 0
      BY <1>1, <1>4, <2>4, <3>1, <3>2
    <3>3. CASE at # 0
      <4>1. ref \in 1..n /\ docs = [p.docs EXCEPT ![at] = ref]
        BY <1>5, <2>1, <2>4, <3>3 DEF Populates
      <4>2. docs \in Seq(1..n) /\ at \in 1..Len(p.docs)
        <5> HIDE DEF docs
        <5> QED
          BY <1>1, <1>2, <3>3, <4>1, ExceptSeq
      <4>3. ASSUME Mirrors(p.docs, p.heap, r), p.heap[ref] = full
            PROVE  Mirrors(docs, p.heap, After(r, change))
        <5>1. /\ p.heap[ref].id = change.docId /\ p.heap[ref].data = change.full
              /\ p.heap[p.docs[at]].id = change.docId
          BY <1>2, <3>3, <4>3 DEF FullDoc
        <5> HIDE DEF full, docs
        <5> QED
          BY <1>1, <2>4, <4>1, <4>2, <4>3, <5>1, MirrorsUpdate
      <4> QED
        BY <4>2, <4>3
    <3> QED
      BY <3>2, <3>3
  <2> QED
    BY <2>2, <2>3, <2>4 DEF WellMade
<1> HIDE DEF docs
<1> DEFINE q == [p EXCEPT !.docs = docs]
<1>9. q = Rec(p.currentEventId, p.currentDocs, docs, p.heap, p.group, p.snapshots,
             p.initEncountered, p.dispatched, p.outcome)
  <2>1. Local(p)
    BY DEF Populates
  <2>2. p = Rec(p.currentEventId, p.currentDocs, p.docs, p.heap, p.group, p.snapshots,
                p.initEncountered, p.dispatched, p.outcome)
    BY <2>1, LocalIs
  <2> QED
    BY <2>2 DEF Rec
<1> HIDE DEF q
<1>10. /\ Local(q) /\ Frame(c, q) /\ q.heap = p.heap /\ q.group = p.group /\ q.docs = docs
  <2>1. p.heap \in Seq(Doc) /\ docs \in Seq(1..Len(p.heap))
    BY <1>8 DEF Populates, Local, n
  <2>2. Frame(c, p)
    BY DEF Populates
  <2> QED
    BY <1>9, <2>1, <2>2, RecIs DEF Frame
<1>11. Queue(p, change) = q
  BY <1>7 DEF q
<1> QED
  BY <1>3, <1>8, <1>10, <1>11

-----------------------------------------------------------------------------
\* The loop, on the events of a NEXT_EVENT

\* The state c of the loop for the batch given to the watch w: what was allocated
\* earlier stays, every snapshot is right, and until one is dispatched the session
\* is that of w.
Held(w, c) ==
  /\ Local(c)
  /\ Extends(w.heap, c.heap)
  /\ c.group \in Seq(Range(c.group))
  /\ c.currentEventId \in EventId
  /\ c.snapshots \in Seq(Range(c.snapshots)) /\ c.snapshots # <<>>
  /\ \A k \in DOMAIN c.snapshots : Right(c.snapshots[k], c.heap)
  /\ c.dispatched \in BOOLEAN
  /\ c.dispatched => c.currentDocs = c.docs
  /\ ~c.dispatched => /\ c.currentDocs = w.currentDocs /\ c.snapshots = w.snapshots
                      /\ c.currentEventId = w.currentEventId

\* Between two events.
Boundary(w, c) ==
  /\ c.group = <<>>
  /\ \/ Mirrors(c.docs, c.heap, log[c.currentEventId].result)
     \/ w.failed /\ Stuck(c.currentEventId)

\* After the first of the two changes of event e.
Midway(w, c, e) ==
  LET first == log[e].changes[1] IN
    /\ e \in EventId /\ e = c.currentEventId + 1 /\ Len(log[e].changes) = 2
    /\ ~Invalid(first)
    /\ \E ref \in 0..Len(c.heap) :
         /\ c.group = <<[change |-> first, doc |-> ref]>>
         /\ \/ /\ ref # 0 /\ c.heap[ref] = FullDoc(first)
               /\ Mirrors(c.docs, c.heap, After(log[c.currentEventId].result, first))
            \/ w.failed /\ Stuck(c.currentEventId)

\* After i passes over the batch b.
Stage(w, b, c, i) ==
  \/ /\ c.outcome \in {"done", "rebuild", "thrown"} /\ Boundary(w, c)
     /\ c.outcome = "done" => i = 0 \/ b[i].id <= c.currentEventId
  \/ c.outcome = "done" /\ i # 0 /\ Midway(w, c, b[i].id) /\ ~Ends(b, i)
  \/ c.outcome = "invalid" /\ Stuck(c.currentEventId)

LEMMA RightExtended ==
  ASSUME NEW s, NEW heap \in Seq(Doc), NEW more \in Seq(Doc), Extends(heap, more),
         Right(s, heap)
  PROVE  Right(s, more)
<1>1. Len(heap) \in Nat /\ Len(more) \in Nat /\ Len(heap) <= Len(more)
  BY LenProperties DEF Extends
<1>2. s.docs \in Seq(1..Len(more))
  <2>1. 1..Len(heap) \subseteq 1..Len(more)
    BY <1>1
  <2> QED
    BY <2>1, SeqMonotonic DEF Right
<1>3. Mirrors(s.docs, more, log[s.id].result)
  BY MirrorsExtended DEF Right, Extends
<1>4. \A j \in DOMAIN s.docChanges :
        /\ s.docChanges[j].doc \in 1..Len(more)
        /\ more[s.docChanges[j].doc] = heap[s.docChanges[j].doc]
  BY <1>1 DEF Right, Extends
<1> QED
  BY <1>2, <1>3, <1>4 DEF Right

\* The end of the loop on its way.
LEMMA OutcomeHolds ==
  ASSUME NEW w, NEW c, Held(w, c), NEW outcome
  PROVE  LET d == [c EXCEPT !.outcome = outcome] IN
           /\ Held(w, d) /\ d.outcome = outcome
           /\ d.currentEventId = c.currentEventId /\ d.group = c.group
           /\ d.docs = c.docs /\ d.heap = c.heap
<1> DEFINE d == [c EXCEPT !.outcome = outcome]
<1>1. Local(c)
  BY DEF Held
<1>2. c = Rec(c.currentEventId, c.currentDocs, c.docs, c.heap, c.group, c.snapshots,
              c.initEncountered, c.dispatched, c.outcome)
  BY <1>1, LocalIs
<1>3. d = Rec(c.currentEventId, c.currentDocs, c.docs, c.heap, c.group, c.snapshots,
              c.initEncountered, c.dispatched, outcome)
  BY <1>2 DEF Rec
<1> HIDE DEF d
<1>4. /\ d.currentEventId = c.currentEventId /\ d.group = c.group /\ d.outcome = outcome
      /\ d.docs = c.docs /\ d.heap = c.heap /\ d.currentDocs = c.currentDocs
      /\ d.snapshots = c.snapshots /\ d.dispatched = c.dispatched
      /\ Local(d)
  <2>1. c.heap \in Seq(Doc) /\ c.docs \in Seq(1..Len(c.heap))
    BY <1>1 DEF Local
  <2> QED
    BY <1>3, <2>1, RecIs
<1>5. Held(w, d)
  BY <1>4 DEF Held
<1> QED
  BY <1>4, <1>5 DEF d

\* What a change that can be used makes of the state c: p with its document, then q.
Applied(w, c, r, change, p, q) ==
  /\ p.outcome = c.outcome
  /\ Held(w, q) /\ q.outcome = c.outcome /\ q.currentEventId = c.currentEventId
  /\ Extends(c.heap, q.heap)
  /\ \E ref \in 0..Len(q.heap) :
       /\ q.group = Append(c.group, [change |-> change, doc |-> ref])
       /\ Mirrors(c.docs, c.heap, r) =>
            /\ ref # 0 /\ q.heap[ref] = FullDoc(change)
            /\ Mirrors(q.docs, q.heap, After(r, change))

LEMMA ChangeApplied ==
  ASSUME NEW w, w.heap \in Seq(Doc), NEW c, Held(w, c), NEW r \in Result, NEW change,
         WellMade(change, r), ~Invalid(change)
  PROVE  Applied(w, c, r, change, Populate(c, change),
                 Aliased(Queue(Populate(c, change), change)))
<1> DEFINE p == Populate(c, change)
           s == Queue(p, change)
           q == Aliased(s)
<1>1. Local(c) /\ c.group \in Seq(Range(c.group))
  BY DEF Held
<1>12. Tells(c, change, r, p)
  BY <1>1, PopulateTells
<1> HIDE DEF p
<1>2. PICK ref : /\ Populates(c, change, p, ref)
                 /\ Mirrors(c.docs, c.heap, r) => ref # 0 /\ p.heap[ref] = FullDoc(change)
  BY <1>12 DEF Tells
<1>3. /\ Local(s) /\ Frame(c, s) /\ s.heap = p.heap /\ s.group = p.group
      /\ Mirrors(c.docs, c.heap, r) => Mirrors(s.docs, s.heap, After(r, change))
  <2>1. /\ Local(s) /\ Frame(c, s) /\ s.heap = p.heap /\ s.group = p.group
        /\ Mirrors(c.docs, c.heap, r) /\ ref # 0 /\ p.heap[ref] = FullDoc(change)
             => Mirrors(s.docs, s.heap, After(r, change))
    BY <1>1, <1>2, QueueTells
  <2> HIDE DEF s
  <2> QED
    BY <1>2, <2>1
<1>4. /\ p.outcome = c.outcome /\ Local(p) /\ ref \in 0..Len(p.heap)
      /\ Extends(c.heap, p.heap)
      /\ p.group = Append(c.group, [change |-> change, doc |-> ref])
  BY <1>2 DEF Populates, Frame
<1> HIDE DEF s
<1>5. /\ Local(q) /\ q.docs = s.docs /\ q.heap = s.heap /\ q.group = s.group
      /\ q.snapshots = s.snapshots /\ q.currentEventId = s.currentEventId
      /\ q.dispatched = s.dispatched /\ q.outcome = s.outcome
      /\ s.dispatched => q.currentDocs = s.docs
      /\ ~s.dispatched => q.currentDocs = s.currentDocs
  <2>1. CASE ~s.dispatched
    BY <1>3, <2>1 DEF Aliased
  <2>2. CASE s.dispatched
    <3>1. s = Rec(s.currentEventId, s.currentDocs, s.docs, s.heap, s.group, s.snapshots,
                  s.initEncountered, s.dispatched, s.outcome)
      BY <1>3, LocalIs
    <3>2. q = [s EXCEPT !.currentDocs = s.docs]
      BY <2>2 DEF Aliased
    <3> HIDE DEF q
    <3>3. q = Rec(s.currentEventId, s.docs, s.docs, s.heap, s.group, s.snapshots,
                  s.initEncountered, s.dispatched, s.outcome)
      BY <3>1, <3>2 DEF Rec
    <3>4. s.heap \in Seq(Doc) /\ s.docs \in Seq(1..Len(s.heap))
      BY <1>3 DEF Local
    <3>5. /\ q.currentDocs = s.docs /\ q.docs = s.docs /\ q.heap = s.heap /\ q.group = s.group
          /\ q.snapshots = s.snapshots /\ q.currentEventId = s.currentEventId
          /\ q.dispatched = s.dispatched /\ q.outcome = s.outcome
      BY <3>3, RecIs
    <3>6. Local(q)
      BY <3>3, <3>4, RecIs
    <3> QED
      BY <2>2, <3>5, <3>6
  <2> QED
    BY <2>1, <2>2
<1> HIDE DEF q
<1>6. /\ s.currentEventId = c.currentEventId /\ s.currentDocs = c.currentDocs
      /\ s.snapshots = c.snapshots /\ s.dispatched = c.dispatched /\ s.outcome = c.outcome
  BY <1>3 DEF Frame
<1>7. Extends(c.heap, q.heap) /\ Extends(w.heap, q.heap)
  <2>1. Extends(c.heap, q.heap) /\ Extends(w.heap, c.heap)
    BY <1>3, <1>4, <1>5 DEF Held
  <2>2. Len(w.heap) \in Nat /\ Len(c.heap) \in Nat /\ Len(q.heap) \in Nat
    BY <1>1, <1>5, LenProperties DEF Local
  <2> QED
    BY <2>1, <2>2 DEF Extends
<1>8. q.group \in Seq(Range(q.group))
  <2>1. q.group = Append(c.group, [change |-> change, doc |-> ref])
    BY <1>3, <1>4, <1>5
  <2> QED
    BY <1>1, <2>1, AppendAny
<1>9. \A k \in DOMAIN q.snapshots : Right(q.snapshots[k], q.heap)
  <2>1. c.heap \in Seq(Doc) /\ q.heap \in Seq(Doc)
    BY <1>1, <1>5 DEF Local
  <2> QED
    BY <1>5, <1>6, <1>7, <2>1, RightExtended DEF Held
<1>10. Held(w, q)
  BY <1>5, <1>6, <1>7, <1>8, <1>9 DEF Held
<1>11. /\ ref \in 0..Len(q.heap) /\ q.group = Append(c.group, [change |-> change, doc |-> ref])
       /\ Mirrors(c.docs, c.heap, r) => /\ ref # 0 /\ q.heap[ref] = FullDoc(change)
                                        /\ Mirrors(q.docs, q.heap, After(r, change))
  BY <1>2, <1>3, <1>4, <1>5
<1>13. Applied(w, c, r, change, p, q)
  BY <1>4, <1>5, <1>6, <1>7, <1>10, <1>11 DEF Applied
<1> QED
  BY <1>13 DEF p, q, s
\* Event e is given to the user, whose callback may throw.
Dispatched(c, e, throws, d) ==
  /\ Local(d) /\ d.currentEventId = e /\ d.currentDocs = c.docs /\ d.docs = c.docs
  /\ d.heap = c.heap /\ d.group = <<>> /\ d.dispatched = TRUE
  /\ d.snapshots = Append(c.snapshots, [id |-> e, docs |-> c.docs, docChanges |-> c.group])
  /\ d.outcome = IF e = throws THEN "thrown" ELSE c.outcome

LEMMA DispatchIs ==
  ASSUME NEW c, Local(c), NEW e, NEW throws
  PROVE  Dispatched(c, e, throws, Dispatch(c, e, throws))
<1> DEFINE snapshots == Append(c.snapshots, [id |-> e, docs |-> c.docs, docChanges |-> c.group])
           true == TRUE
           outcome == IF e = throws THEN "thrown" ELSE c.outcome
           d1 == [c EXCEPT !.currentEventId = e]
           d2 == [d1 EXCEPT !.currentDocs = c.docs]
           d3 == [d2 EXCEPT !.dispatched = true]
           d4 == [d3 EXCEPT !.snapshots = snapshots]
           d5 == [d4 EXCEPT !.group = <<>>]
           d == [d5 EXCEPT !.outcome = outcome]
<1>1. c = Rec(c.currentEventId, c.currentDocs, c.docs, c.heap, c.group, c.snapshots,
              c.initEncountered, c.dispatched, c.outcome)
  BY LocalIs
<1>2. Dispatch(c, e, throws) = d
  <2> HIDE DEF snapshots, outcome
  <2>1. Dispatch(c, e, throws) =
          [c EXCEPT !.currentEventId = e, !.currentDocs = c.docs, !.dispatched = true,
                    !.snapshots = snapshots, !.group = <<>>, !.outcome = outcome]
    BY DEF Dispatch, snapshots, outcome
  <2> HIDE DEF true
  <2> QED
    BY <1>1, <2>1 DEF Rec
<1> HIDE DEF snapshots, outcome, true
<1>3. d1 = Rec(e, c.currentDocs, c.docs, c.heap, c.group, c.snapshots,
               c.initEncountered, c.dispatched, c.outcome)
  BY <1>1 DEF Rec
<1> HIDE DEF d1
<1>4. d2 = Rec(e, c.docs, c.docs, c.heap, c.group, c.snapshots,
               c.initEncountered, c.dispatched, c.outcome)
  BY <1>3 DEF Rec
<1> HIDE DEF d2
<1>5. d3 = Rec(e, c.docs, c.docs, c.heap, c.group, c.snapshots,
               c.initEncountered, true, c.outcome)
  BY <1>4 DEF Rec
<1> HIDE DEF d3
<1>6. d4 = Rec(e, c.docs, c.docs, c.heap, c.group, snapshots,
               c.initEncountered, true, c.outcome)
  BY <1>5 DEF Rec
<1> HIDE DEF d4
<1>7. d5 = Rec(e, c.docs, c.docs, c.heap, <<>>, snapshots,
               c.initEncountered, true, c.outcome)
  BY <1>6 DEF Rec
<1> HIDE DEF d5
<1>8. d = Rec(e, c.docs, c.docs, c.heap, <<>>, snapshots, c.initEncountered, true, outcome)
  BY <1>7 DEF Rec
<1> HIDE DEF d
<1>9. /\ d.currentEventId = e /\ d.currentDocs = c.docs /\ d.docs = c.docs /\ d.heap = c.heap
      /\ d.group = <<>> /\ d.snapshots = snapshots /\ d.dispatched = true /\ d.outcome = outcome
  BY <1>8, RecIs
<1>10. Local(d)
  <2>1. c.heap \in Seq(Doc) /\ c.docs \in Seq(1..Len(c.heap))
    BY DEF Local
  <2> QED
    BY <1>8, <2>1, RecIs
<1>11. d.dispatched = TRUE
  BY <1>9 DEF true
<1> QED
  BY <1>2, <1>9, <1>10, <1>11 DEF outcome, snapshots, Dispatched

LEMMA DispatchHolds ==
  ASSUME NEW w, NEW c, Held(w, c), NEW e \in EventId, NEW throws,
         Right([id |-> e, docs |-> c.docs, docChanges |-> c.group], c.heap)
  PROVE  LET d == Dispatch(c, e, throws) IN
           /\ Held(w, d) /\ d.currentEventId = e /\ d.group = <<>>
           /\ d.docs = c.docs /\ d.heap = c.heap
           /\ d.outcome = IF e = throws THEN "thrown" ELSE c.outcome
<1> DEFINE snapshot == [id |-> e, docs |-> c.docs, docChanges |-> c.group]
           snapshots == Append(c.snapshots, snapshot)
           d == Dispatch(c, e, throws)
<1>1. Local(c)
  BY DEF Held
<1>2. /\ Local(d) /\ d.currentEventId = e /\ d.currentDocs = c.docs /\ d.docs = c.docs
      /\ d.heap = c.heap /\ d.group = <<>> /\ d.dispatched = TRUE
      /\ d.snapshots = snapshots
      /\ d.outcome = IF e = throws THEN "thrown" ELSE c.outcome
  <2>1. Dispatched(c, e, throws, d)
    BY <1>1, DispatchIs
  <2> HIDE DEF d
  <2> QED
    BY <2>1 DEF Dispatched
<1>4. /\ snapshots \in Seq(Range(snapshots)) /\ Len(c.snapshots) \in Nat
      /\ DOMAIN snapshots = 1..(Len(c.snapshots) + 1) /\ DOMAIN c.snapshots = 1..Len(c.snapshots)
      /\ \A k \in 1..Len(c.snapshots) : snapshots[k] = c.snapshots[k]
      /\ snapshots[Len(c.snapshots) + 1] = snapshot
  <2>1. c.snapshots \in Seq(Range(c.snapshots))
    BY DEF Held
  <2> HIDE DEF snapshot
  <2> QED
    BY <2>1, AppendAny
<1>5. \A k \in DOMAIN snapshots : Right(snapshots[k], c.heap)
  <2> TAKE k \in DOMAIN snapshots
  <2>1. CASE k = Len(c.snapshots) + 1
    BY <1>4, <2>1
  <2>2. CASE k # Len(c.snapshots) + 1
    <3>1. k \in 1..Len(c.snapshots)
      BY <1>4, <2>2
    <3> HIDE DEF snapshots
    <3> QED
      BY <1>4, <3>1 DEF Held
  <2> QED
    BY <2>1, <2>2
<1>6. snapshots # <<>>
  <2>1. 1 \in DOMAIN snapshots
    BY <1>4
  <2> HIDE DEF snapshots
  <2> QED
    BY <2>1
<1> HIDE DEF snapshots, d
<1>7. Held(w, d)
  <2>1. Extends(w.heap, d.heap)
    BY <1>2 DEF Held
  <2>2. <<>> \in Seq(Range(<<>>)) /\ d.group \in Seq(Range(d.group))
    BY <1>2
  <2>3. d.dispatched \in BOOLEAN /\ d.dispatched
    BY <1>2
  <2> QED
    BY <1>2, <1>4, <1>5, <1>6, <2>1, <2>2, <2>3 DEF Held
<1> QED
  BY <1>2, <1>7 DEF d

\* The position, the end and the documents after the last change of an event.
LEMMA EventComplete ==
  ASSUME NEW w, NEW c, Held(w, c), c.outcome = "done", NEW e \in EventId, NEW throws,
         Mirrors(c.docs, c.heap, log[e].result),
         Len(c.group) = Len(log[e].changes), DOMAIN c.group = 1..Len(c.group),
         \A j \in 1..Len(c.group) :
           /\ c.group[j].change = log[e].changes[j]
           /\ c.group[j].doc \in 1..Len(c.heap)
           /\ c.heap[c.group[j].doc] = FullDoc(log[e].changes[j]),
         NEW b, NEW i, b[i].id = e
  PROVE  LET d == Dispatch(c, e, throws) IN Held(w, d) /\ Stage(w, b, d, i)
<1> DEFINE d == Dispatch(c, e, throws)
           snapshot == [id |-> e, docs |-> c.docs, docChanges |-> c.group]
<1>1. snapshot.id = e /\ snapshot.docs = c.docs /\ snapshot.docChanges = c.group
  OBVIOUS
<1> HIDE DEF snapshot
<1>2. Right(snapshot, c.heap)
  <2>1. c.docs \in Seq(1..Len(c.heap))
    BY DEF Held, Local
  <2> QED
    BY <1>1, <2>1 DEF Right, FullDoc
<1>3. /\ Held(w, d) /\ d.currentEventId = e /\ d.group = <<>>
      /\ d.docs = c.docs /\ d.heap = c.heap
      /\ d.outcome = IF e = throws THEN "thrown" ELSE c.outcome
  BY <1>2, DispatchHolds DEF snapshot
<1> HIDE DEF d
<1>4. d.outcome \in {"done", "thrown"} /\ Boundary(w, d)
  BY <1>3 DEF Boundary
<1>5. e <= e
  BY DEF EventId
<1>6. Stage(w, b, d, i)
  BY <1>3, <1>4, <1>5 DEF Stage
<1> QED
  BY <1>3, <1>6 DEF d
\* An event that cannot be used stops the loop.
LEMMA ChangeInvalid ==
  ASSUME NEW w, NEW c, Held(w, c), NEW change, Invalid(change), c.outcome = "done",
         NEW e \in EventId, e = c.currentEventId + 1,
         NEW j \in DOMAIN log[e].changes, change = log[e].changes[j], NEW b, NEW i
  PROVE  LET p == Populate(c, change) IN
           p.outcome = "invalid" /\ Held(w, p) /\ Stage(w, b, p, i)
<1> DEFINE p == [c EXCEPT !.outcome = "invalid"]
<1>1. Populate(c, change) = p
  BY DEF Populate, Invalid
<1>2. Held(w, p) /\ p.outcome = "invalid" /\ p.currentEventId = c.currentEventId
  BY OutcomeHolds
<1> HIDE DEF p
<1>3. c.currentEventId < Len(log)
  BY DEF EventId, Held
<1>4. Stuck(c.currentEventId)
  BY <1>3 DEF Stuck
<1> QED
  BY <1>1, <1>2, <1>4 DEF Stage

\* Nor is the loop continued beyond a gap.
LEMMA GapFound ==
  ASSUME NEW w, NEW c, Held(w, c), Boundary(w, c), NEW b, NEW i
  PROVE  LET x == [c EXCEPT !.outcome = "rebuild"] IN Held(w, x) /\ Stage(w, b, x, i)
<1> DEFINE x == [c EXCEPT !.outcome = "rebuild"]
<1>1. /\ Held(w, x) /\ x.outcome = "rebuild" /\ x.currentEventId = c.currentEventId
      /\ x.group = c.group /\ x.docs = c.docs /\ x.heap = c.heap
  BY OutcomeHolds
<1> HIDE DEF x
<1>2. Boundary(w, x)
  BY <1>1 DEF Boundary
<1> QED
  BY <1>1, <1>2 DEF Stage, x

\* The first change of the next event.
LEMMA FirstChange ==
  ASSUME History, NEW w, w.heap \in Seq(Doc), NEW c, Held(w, c), c.outcome = "done", Boundary(w, c),
         NEW e \in EventId, e = c.currentEventId + 1, NEW throws,
         NEW change, change = log[e].changes[1],
         NEW b, NEW i \in Nat \ {0}, b[i].id = e,
         \/ Len(log[e].changes) = 1 /\ Ends(b, i)
         \/ Len(log[e].changes) = 2 /\ ~Ends(b, i)
  PROVE  LET p == Populate(c, change)
             q == Aliased(Queue(p, change))
             d == IF p.outcome = "invalid" THEN p
                  ELSE IF Ends(b, i) THEN Dispatch(q, e, throws) ELSE q
         IN Held(w, d) /\ Stage(w, b, d, i)
<1> DEFINE p == Populate(c, change)
           q == Aliased(Queue(p, change))
           r == log[c.currentEventId].result
           d == IF p.outcome = "invalid" THEN p
                ELSE IF Ends(b, i) THEN Dispatch(q, e, throws) ELSE q
<1>1. /\ e # 1 /\ e - 1 = c.currentEventId /\ c.currentEventId \in EventId
      /\ c.currentEventId < Len(log)
  BY DEF EventId, Held
<1>2. /\ Len(log[e].changes) \in {1, 2} /\ DOMAIN log[e].changes = 1..Len(log[e].changes)
      /\ change \in Changes(r) /\ r \in Result
      /\ Len(log[e].changes) = 1 => log[e].result = After(r, change)
  BY <1>1, EventShape DEF History
<1>3. 1 \in DOMAIN log[e].changes
  BY <1>2
<1>4. CASE Invalid(change)
  <2>1. p.outcome = "invalid" /\ Held(w, p) /\ Stage(w, b, p, i)
    BY <1>3, <1>4, ChangeInvalid
  <2> QED
    BY <2>1
<1>5. CASE ~Invalid(change)
  <2> HIDE DEF r
  <2>1. WellMade(change, r)
    BY <1>2, ChangeIs
  <2>8. r \in Result
    BY <1>2
  <2>9. Applied(w, c, r, change, p, q)
    BY <1>5, <2>1, <2>8, ChangeApplied
  <2> HIDE DEF p, q
  <2>2. /\ p.outcome = "done"
        /\ Held(w, q) /\ q.outcome = "done" /\ q.currentEventId = c.currentEventId
    BY <2>9 DEF Applied
  <2>3. PICK ref \in 0..Len(q.heap) :
             /\ q.group = Append(c.group, [change |-> change, doc |-> ref])
             /\ Mirrors(c.docs, c.heap, r) =>
                  /\ ref # 0 /\ q.heap[ref] = FullDoc(change)
                  /\ Mirrors(q.docs, q.heap, After(r, change))
    BY <2>9 DEF Applied
  <2>4. q.group = <<[change |-> change, doc |-> ref]>>
    BY <2>3 DEF Boundary
  <2>5. Mirrors(c.docs, c.heap, r) \/ (w.failed /\ Stuck(c.currentEventId))
    BY DEF Boundary, r
  <2>6. CASE Len(log[e].changes) = 1
    <3>1. ~Stuck(c.currentEventId)
      BY <1>2, <1>5, <2>6 DEF Stuck
    <3>2. ref # 0 /\ q.heap[ref] = FullDoc(change) /\ Mirrors(q.docs, q.heap, log[e].result)
      BY <1>2, <2>3, <2>5, <2>6, <3>1
    <3>3. Len(q.heap) \in Nat
      BY <2>2, LenProperties DEF Held, Local
    <3>4. ref \in 1..Len(q.heap)
      BY <2>3, <3>2, <3>3
    <3>5. /\ Len(q.group) = 1 /\ DOMAIN q.group = 1..1
          /\ q.group[1].change = change /\ q.group[1].doc = ref
      BY <2>4
    <3>6. \A j \in 1..Len(q.group) :
            /\ q.group[j].change = log[e].changes[j]
            /\ q.group[j].doc \in 1..Len(q.heap)
            /\ q.heap[q.group[j].doc] = FullDoc(log[e].changes[j])
      BY <3>2, <3>4, <3>5
    <3> DEFINE x == Dispatch(q, e, throws)
    <3>7. Held(w, x) /\ Stage(w, b, x, i)
      BY <2>2, <2>6, <3>2, <3>5, <3>6, EventComplete
    <3> HIDE DEF x
    <3>8. d = x
      BY <2>2, <2>6 DEF x
    <3> QED
      BY <3>7, <3>8 DEF p, q
  <2>7. CASE Len(log[e].changes) = 2
    <3>1. Midway(w, q, e)
      BY <1>5, <2>2, <2>3, <2>4, <2>5, <2>7 DEF Midway, r
    <3>2. Stage(w, b, q, i)
      BY <2>2, <2>7, <3>1 DEF Stage
    <3>3. d = q
      BY <2>2, <2>7
    <3> QED
      BY <2>2, <3>2, <3>3 DEF p, q
  <2> QED
    BY <1>2, <2>6, <2>7
<1> QED
  BY <1>4, <1>5

\* The second, after which it is complete.
LEMMA SecondChange ==
  ASSUME History, NEW w, w.heap \in Seq(Doc), NEW c, Held(w, c), c.outcome = "done",
         NEW e, Midway(w, c, e), NEW throws,
         NEW change, change = log[e].changes[2], NEW b, NEW i \in Nat \ {0}, b[i].id = e
  PROVE  LET p == Populate(c, change)
             q == Aliased(Queue(p, change))
             d == IF p.outcome = "invalid" THEN p ELSE Dispatch(q, e, throws)
         IN Held(w, d) /\ Stage(w, b, d, i)
<1> DEFINE p == Populate(c, change)
           q == Aliased(Queue(p, change))
           first == log[e].changes[1]
           r == log[c.currentEventId].result
           mid == After(r, first)
           d == IF p.outcome = "invalid" THEN p ELSE Dispatch(q, e, throws)
<1>1. /\ e \in EventId /\ e = c.currentEventId + 1 /\ Len(log[e].changes) = 2 /\ ~Invalid(first)
  BY DEF Midway
<1>2. PICK one \in 0..Len(c.heap) :
         /\ c.group = <<[change |-> first, doc |-> one]>>
         /\ \/ one # 0 /\ c.heap[one] = FullDoc(first) /\ Mirrors(c.docs, c.heap, mid)
            \/ w.failed /\ Stuck(c.currentEventId)
  BY DEF Midway
<1>3. /\ e # 1 /\ e - 1 = c.currentEventId /\ c.currentEventId \in EventId
  BY <1>1 DEF EventId, Held
<1>4. /\ DOMAIN log[e].changes = 1..2 /\ first \in Changes(r) /\ r \in Result
      /\ change \in Changes(mid) /\ log[e].result = After(mid, change)
  BY <1>1, <1>3, EventShape DEF History
<1>5. mid \in Result
  BY <1>4, AfterIsResult
<1>6. CASE Invalid(change)
  <2>1. 2 \in DOMAIN log[e].changes
    BY <1>4
  <2>2. p.outcome = "invalid" /\ Held(w, p) /\ Stage(w, b, p, i)
    BY <1>1, <1>6, <2>1, ChangeInvalid
  <2> QED
    BY <2>2
<1>7. CASE ~Invalid(change)
  <2> HIDE DEF mid
  <2>1. WellMade(change, mid)
    BY <1>4, <1>5, ChangeIs
  <2>13. Applied(w, c, mid, change, p, q)
    BY <1>5, <1>7, <2>1, ChangeApplied
  <2> HIDE DEF p, q
  <2>2. /\ p.outcome = "done"
        /\ Held(w, q) /\ q.outcome = "done" /\ q.currentEventId = c.currentEventId
        /\ Extends(c.heap, q.heap)
    BY <2>13 DEF Applied
  <2>3. PICK ref \in 0..Len(q.heap) :
             /\ q.group = Append(c.group, [change |-> change, doc |-> ref])
             /\ Mirrors(c.docs, c.heap, mid) =>
                  /\ ref # 0 /\ q.heap[ref] = FullDoc(change)
                  /\ Mirrors(q.docs, q.heap, After(mid, change))
    BY <2>13 DEF Applied
  <2>4. \A j \in DOMAIN log[e].changes : j \in {1, 2}
    BY <1>4
  <2>5. ~Stuck(c.currentEventId)
    BY <1>1, <1>3, <1>7, <2>4 DEF Stuck
  <2>6. /\ one # 0 /\ c.heap[one] = FullDoc(first)
        /\ ref # 0 /\ q.heap[ref] = FullDoc(change) /\ Mirrors(q.docs, q.heap, log[e].result)
    BY <1>2, <1>4, <2>3, <2>5
  <2>7. Len(c.heap) \in Nat /\ Len(q.heap) \in Nat
    BY <2>2, LenProperties DEF Held, Local
  <2>8. /\ one \in 1..Len(q.heap) /\ ref \in 1..Len(q.heap)
        /\ q.heap[one] = FullDoc(first)
    BY <2>2, <2>3, <2>6, <2>7 DEF Extends
  <2>9. /\ Len(q.group) = 2 /\ DOMAIN q.group = 1..2
        /\ q.group[1].change = first /\ q.group[1].doc = one
        /\ q.group[2].change = change /\ q.group[2].doc = ref
    <3> DEFINE g == [change |-> first, doc |-> one]
               h == [change |-> change, doc |-> ref]
    <3>1. g.change = first /\ g.doc = one /\ h.change = change /\ h.doc = ref
      OBVIOUS
    <3>2. c.group = <<g>> /\ q.group = Append(c.group, h)
      BY <1>2, <2>3
    <3> HIDE DEF g, h
    <3>3. c.group \in Seq(Range(c.group)) /\ Len(c.group) = 1 /\ c.group[1] = g
      BY <3>2 DEF Held
    <3>4. Len(q.group) = 2 /\ DOMAIN q.group = 1..2 /\ q.group[1] = g /\ q.group[2] = h
      <4>1. /\ Len(q.group) = 1 + 1 /\ DOMAIN q.group = 1..(1 + 1)
            /\ \A k \in 1..1 : q.group[k] = c.group[k]
            /\ q.group[1 + 1] = h
        BY <3>2, <3>3, AppendAny
      <4> QED
        BY <3>3, <4>1
    <3> QED
      BY <3>1, <3>4
  <2>10. \A j \in 1..Len(q.group) :
           /\ q.group[j].change = log[e].changes[j]
           /\ q.group[j].doc \in 1..Len(q.heap)
           /\ q.heap[q.group[j].doc] = FullDoc(log[e].changes[j])
    <3>1. \A j \in 1..Len(q.group) : j \in {1, 2}
      BY <2>9
    <3> QED
      BY <2>6, <2>8, <2>9, <3>1
  <2> DEFINE x == Dispatch(q, e, throws)
  <2>11. Held(w, x) /\ Stage(w, b, x, i)
    BY <1>1, <2>2, <2>6, <2>9, <2>10, EventComplete
  <2> HIDE DEF x
  <2>12. d = x
    BY <2>2 DEF x
  <2> QED
    BY <2>11, <2>12 DEF p, q
<1> QED
  BY <1>6, <1>7
LEMMA LoopStep ==
  ASSUME History, NEW w, w.heap \in Seq(Doc), NEW b, NEW lo \in Nat, NEW hi \in Nat,
         Fits(b, lo, hi), NEW i \in 1..Len(b), NEW c, Held(w, c), Stage(w, b, c, i - 1),
         NEW throws
  PROVE  LET d == HandleChange(c, b, i, throws) IN Held(w, d) /\ Stage(w, b, d, i)
<1> DEFINE e == b[i].id
           change == b[i].change
           p == Populate(c, change)
           q == Aliased(Queue(p, change))
           d == HandleChange(c, b, i, throws)
<1>1. /\ b \in Seq(Item) /\ Len(b) \in Nat /\ i \in Nat \ {0}
      /\ b[i] \in Item /\ Placed(b, i)
      /\ i # 1 => b[i].id \in {b[i - 1].id, b[i - 1].id + 1}
  <2>1. b \in Seq(Item) /\ Len(b) \in Nat
    BY DEF Fits
  <2> QED
    BY <2>1, ElementOfSeq DEF Fits
<1>2. e \in EventId /\ e \in Nat /\ c.currentEventId \in EventId /\ c.currentEventId \in Nat
  <2>1. \A x \in Item : x.id \in EventId
    BY DEF Item
  <2>2. e \in EventId
    BY <1>1, <2>1
  <2>3. c.currentEventId \in EventId
    BY DEF Held
  <2> HIDE DEF e
  <2> QED
    BY <2>2, <2>3 DEF EventId
<1>3. d = IF c.outcome # "done" \/ c.currentEventId >= e THEN c
          ELSE IF c.currentEventId # e - 1 THEN [c EXCEPT !.outcome = "rebuild"]
          ELSE IF p.outcome = "invalid" THEN p
          ELSE IF Ends(b, i) THEN Dispatch(q, e, throws) ELSE q
  BY DEF HandleChange, Ends
<1>4. c.outcome = "done" /\ i # 1 /\ Midway(w, c, b[i - 1].id) /\ ~Ends(b, i - 1)
        => e = b[i - 1].id /\ e = c.currentEventId + 1 /\ ~Begins(b, i)
  <2>1. (i - 1) + 1 = i
    BY <1>1
  <2> QED
    BY <1>1, <2>1 DEF Midway, Ends, Begins
<1>5. (c.outcome = "done" /\ ~Boundary(w, c)) =>
        i # 1 /\ Midway(w, c, b[i - 1].id) /\ ~Ends(b, i - 1)
  <2>1. i - 1 # 0 => i # 1
    BY <1>1
  <2> QED
    BY <2>1 DEF Stage
<1> HIDE DEF d, p, q
<1>6. CASE c.outcome # "done"
  <2>1. d = c
    BY <1>3, <1>6
  <2>2. Stage(w, b, c, i)
    BY <1>6 DEF Stage
  <2> QED
    BY <2>1, <2>2 DEF d
<1>7. CASE c.outcome = "done" /\ c.currentEventId >= e
  <2>1. d = c
    BY <1>3, <1>7
  <2>2. Boundary(w, c)
    BY <1>2, <1>4, <1>5, <1>7
  <2>3. Stage(w, b, c, i)
    BY <1>2, <1>7, <2>2 DEF Stage
  <2> QED
    BY <2>1, <2>3 DEF d
<1>8. CASE c.outcome = "done" /\ c.currentEventId < e /\ c.currentEventId # e - 1
  <2> DEFINE x == [c EXCEPT !.outcome = "rebuild"]
  <2>1. d = x
    BY <1>2, <1>3, <1>8
  <2>2. Boundary(w, c)
    BY <1>2, <1>4, <1>5, <1>8
  <2>3. Held(w, x) /\ Stage(w, b, x, i)
    BY <2>2, GapFound
  <2> QED
    BY <2>1, <2>3 DEF d
<1>9. CASE c.outcome = "done" /\ c.currentEventId < e /\ c.currentEventId = e - 1
  <2>1. e = c.currentEventId + 1
    BY <1>2, <1>9
  <2>2. d = IF p.outcome = "invalid" THEN p
            ELSE IF Ends(b, i) THEN Dispatch(q, e, throws) ELSE q
    BY <1>2, <1>3, <1>9
  <2>3. CASE Begins(b, i)
    <3>1. Boundary(w, c)
      BY <1>4, <1>5, <1>9, <2>3
    <3>2. /\ change = log[e].changes[1]
          /\ \/ Len(log[e].changes) = 1 /\ Ends(b, i)
             \/ Len(log[e].changes) = 2 /\ ~Ends(b, i)
      <4> DEFINE changes == log[e].changes
      <4>1. \/ Len(changes) = 1 /\ change = changes[1] /\ Ends(b, i)
            \/ Len(changes) = 2 /\ change = changes[1] /\ ~Ends(b, i)
        BY <1>1, <2>3 DEF Placed
      <4> HIDE DEF changes
      <4> QED
        BY <4>1 DEF changes
    <3> DEFINE x == IF p.outcome = "invalid" THEN p
                    ELSE IF Ends(b, i) THEN Dispatch(q, e, throws) ELSE q
    <3>3. Held(w, x) /\ Stage(w, b, x, i)
      <4> HIDE DEF e, change
      <4>1. b[i].id = e
        BY DEF e
      <4> QED
        BY <1>1, <1>2, <1>9, <2>1, <3>1, <3>2, <4>1, FirstChange DEF p, q
    <3> HIDE DEF x
    <3>4. d = x
      BY <2>2 DEF x
    <3> QED
      BY <3>3, <3>4 DEF d
  <2>4. CASE ~Begins(b, i)
    <3>1. change = log[e].changes[2] /\ Ends(b, i)
      BY <1>1, <2>4 DEF Placed
    <3>2. i # 1 /\ e = b[i - 1].id
      BY <2>4 DEF Begins
    <3>3. Midway(w, c, e)
      <4>1. CASE Boundary(w, c) /\ ~Midway(w, c, e)
        <5>1. i - 1 = 0 \/ b[i - 1].id <= c.currentEventId
          BY <1>9, <3>2, <4>1 DEF Stage
        <5> QED
          BY <1>1, <1>2, <2>1, <3>2, <5>1
      <4>2. CASE ~Boundary(w, c)
        BY <1>5, <1>9, <3>2, <4>2
      <4> QED
        BY <4>1, <4>2
    <3>4. d = IF p.outcome = "invalid" THEN p ELSE Dispatch(q, e, throws)
      BY <2>2, <3>1
    <3> QED
      BY <1>1, <1>9, <3>1, <3>3, <3>4, SecondChange DEF d, p, q
  <2> QED
    BY <2>3, <2>4
<1> QED
  BY <1>2, <1>6, <1>7, <1>8, <1>9

LEMMA LoopHolds ==
  ASSUME History, NEW w, w.heap \in Seq(Doc), NEW b, NEW lo \in Nat, NEW hi \in Nat,
         Fits(b, lo, hi), NEW throws, Held(w, Start(w)), Stage(w, b, Start(w), 0)
  PROVE  LET end == Loop(w, b, throws)[Len(b)] IN
           /\ Held(w, end)
           /\ \/ Boundary(w, end) /\ end.outcome \in {"done", "rebuild", "thrown"}
              \/ end.outcome = "invalid" /\ Stuck(end.currentEventId)
<1> DEFINE c(i) == Loop(w, b, throws)[i]
           Good(i) == Held(w, c(i)) /\ Stage(w, b, c(i), i)
           S == {i \in Nat : i \in 0..Len(b) /\ ~Good(i)}
<1>1. Len(b) \in Nat \ {0}
  BY DEF Fits
<1>2. c(0) = Start(w) /\ \A i \in 1..Len(b) : c(i) = HandleChange(c(i - 1), b, i, throws)
  BY <1>1, LoopPasses
<1> HIDE DEF c
<1>3. S = {}
  <2> SUFFICES ASSUME S # {} PROVE FALSE
    OBVIOUS
  <2>1. PICK i \in S : \A m \in S : i <= m
    BY LeastNat
  <2>2. i \in 0..Len(b) /\ ~Good(i)
    OBVIOUS
  <2>3. i # 0
    BY <1>2, <2>2
  <2>4. i \in 1..Len(b) /\ i - 1 \in Nat /\ i - 1 \in 0..Len(b) /\ ~(i <= i - 1)
    BY <1>1, <2>2, <2>3
  <2>5. i - 1 \notin S
    <3> HIDE DEF S
    <3> QED
      BY <2>1, <2>4
  <2>6. Good(i - 1)
    BY <2>4, <2>5
  <2>7. c(i) = HandleChange(c(i - 1), b, i, throws)
    BY <1>2, <2>4
  <2>8. Held(w, c(i)) /\ Stage(w, b, c(i), i)
    BY <2>4, <2>6, <2>7, LoopStep
  <2> QED
    BY <2>2, <2>8
<1>4. Good(Len(b))
  <2>1. Len(b) \in Nat /\ Len(b) \in 0..Len(b) /\ Len(b) \notin S
    BY <1>1, <1>3
  <2> QED
    BY <2>1
<1>5. Ends(b, Len(b))
  BY DEF Ends
<1>6. \/ Boundary(w, c(Len(b))) /\ c(Len(b)).outcome \in {"done", "rebuild", "thrown"}
      \/ c(Len(b)).outcome = "invalid" /\ Stuck(c(Len(b)).currentEventId)
  BY <1>4, <1>5 DEF Stage
<1> QED
  BY <1>4, <1>6 DEF c
\* The fields of the watch.
Watch(opened, failed, currentEventId, currentDocs, heap, snapshots) ==
  [opened |-> opened, failed |-> failed, currentEventId |-> currentEventId,
   currentDocs |-> currentDocs, heap |-> heap, snapshots |-> snapshots]

LEMMA WatchIs ==
  ASSUME NEW opened \in BOOLEAN, NEW failed \in BOOLEAN, NEW currentEventId, NEW currentDocs,
         NEW heap \in Seq(Doc), currentDocs \in Seq(1..Len(heap)),
         NEW snapshots, snapshots \in Seq(Range(snapshots)),
         NEW x, x = Watch(opened, failed, currentEventId, currentDocs, heap, snapshots)
  PROVE  /\ Typed(x) /\ x.opened = opened /\ x.failed = failed
         /\ x.currentEventId = currentEventId /\ x.currentDocs = currentDocs
         /\ x.heap = heap /\ x.snapshots = snapshots
<1>1. /\ x.opened = opened /\ x.failed = failed
      /\ x.currentEventId = currentEventId /\ x.currentDocs = currentDocs
      /\ x.heap = heap /\ x.snapshots = snapshots
  BY DEF Watch
<1>2. x = [opened |-> x.opened, failed |-> x.failed, currentEventId |-> x.currentEventId,
           currentDocs |-> x.currentDocs, heap |-> x.heap, snapshots |-> x.snapshots]
  BY DEF Watch
<1> QED
  BY <1>1, <1>2 DEF Typed

LEMMA StartHeld ==
  ASSUME NEW w, Typed(w), Watching(w), NEW b
  PROVE  Held(w, Start(w)) /\ Stage(w, b, Start(w), 0)
<1> DEFINE c == Start(w)
           no == FALSE
<1>1. w.heap \in Seq(Doc) /\ w.currentDocs \in Seq(1..Len(w.heap))
  BY DEF Typed
<1>2. c = Rec(w.currentEventId, w.currentDocs, w.currentDocs, w.heap, <<>>, w.snapshots,
              no, no, "done")
  <2>1. c = [currentEventId |-> w.currentEventId, currentDocs |-> w.currentDocs,
             docs |-> w.currentDocs, heap |-> w.heap, group |-> <<>>, snapshots |-> w.snapshots,
             initEncountered |-> no, dispatched |-> no, outcome |-> "done"]
    BY DEF Start
  <2> HIDE DEF no, c
  <2> QED
    BY <2>1 DEF Rec
<1> HIDE DEF no, c
<1>3. /\ c.currentEventId = w.currentEventId /\ c.currentDocs = w.currentDocs
      /\ c.docs = w.currentDocs /\ c.heap = w.heap /\ c.group = <<>>
      /\ c.snapshots = w.snapshots /\ c.dispatched = no /\ c.outcome = "done"
  BY <1>2, RecIs
<1>4. Local(c)
  BY <1>1, <1>2, RecIs
<1>5. c.dispatched = FALSE
  BY <1>3 DEF no
<1>6. Extends(w.heap, c.heap)
  BY <1>1, <1>3, LenProperties DEF Extends
<1>7. c.group \in Seq(Range(c.group))
  BY <1>3
<1>8. /\ c.currentEventId \in EventId /\ c.snapshots \in Seq(Range(c.snapshots))
      /\ c.snapshots # <<>>
      /\ \A k \in DOMAIN c.snapshots : Right(c.snapshots[k], c.heap)
  BY <1>3 DEF Watching, Typed
<1>9. Held(w, c)
  BY <1>3, <1>4, <1>5, <1>6, <1>7, <1>8 DEF Held
<1>10. Stage(w, b, c, 0)
  BY <1>3 DEF Stage, Boundary, Watching, SessionFits
<1> QED
  BY <1>9, <1>10 DEF c

\* The watch x after the events, when the loop has ended with end.
Handled(w, end, x) ==
  \E failed \in BOOLEAN : \E heap :
    /\ w.failed => failed
    /\ end.outcome = "invalid" => failed
    /\ end.dispatched => heap = end.heap
    /\ ~end.dispatched => heap = w.heap
    /\ x = Watch(w.opened, failed, end.currentEventId, end.currentDocs, heap, end.snapshots)

LEMMA HandledIs ==
  ASSUME NEW w, Typed(w), NEW b, ~\E i \in DOMAIN b : Unreadable(b[i].change), NEW throws
  PROVE  Handled(w, Loop(w, b, throws)[Len(b)], HandleServerEvents(w, b, throws))
<1> DEFINE x == HandleServerEvents(w, b, throws)
           end == Loop(w, b, throws)[Len(b)]
           failed == w.failed \/ end.outcome = "invalid"
           heap == IF end.dispatched THEN end.heap ELSE w.heap
           x1 == [w EXCEPT !.currentEventId = end.currentEventId]
           x2 == [x1 EXCEPT !.currentDocs = end.currentDocs]
           x3 == [x2 EXCEPT !.heap = heap]
           x4 == [x3 EXCEPT !.snapshots = end.snapshots]
           x5 == [x4 EXCEPT !.failed = failed]
<1>1. x = [w EXCEPT !.currentEventId = end.currentEventId,
                    !.currentDocs = end.currentDocs,
                    !.heap = IF end.dispatched THEN end.heap ELSE @,
                    !.snapshots = end.snapshots,
                    !.failed = @ \/ end.outcome = "invalid"]
  BY DEF HandleServerEvents
<1> HIDE DEF x, end
<1>2. x = [w EXCEPT !.currentEventId = end.currentEventId, !.currentDocs = end.currentDocs,
                    !.heap = heap, !.snapshots = end.snapshots, !.failed = failed]
  BY <1>1
<1>12. w = Watch(w.opened, w.failed, w.currentEventId, w.currentDocs, w.heap, w.snapshots)
  BY DEF Typed, Watch
<1>3. failed \in BOOLEAN /\ (w.failed => failed) /\ (end.outcome = "invalid" => failed)
  BY DEF Typed
<1>4. (end.dispatched => heap = end.heap) /\ (~end.dispatched => heap = w.heap)
  OBVIOUS
<1> HIDE DEF heap, failed
<1>5. x = x5
  BY <1>2, <1>12 DEF Watch
<1>6. x1 = Watch(w.opened, w.failed, end.currentEventId, w.currentDocs, w.heap, w.snapshots)
  BY <1>12 DEF Watch
<1> HIDE DEF x1
<1>7. x2 = Watch(w.opened, w.failed, end.currentEventId, end.currentDocs, w.heap, w.snapshots)
  BY <1>6 DEF Watch
<1> HIDE DEF x2
<1>8. x3 = Watch(w.opened, w.failed, end.currentEventId, end.currentDocs, heap, w.snapshots)
  BY <1>7 DEF Watch
<1> HIDE DEF x3
<1>9. x4 = Watch(w.opened, w.failed, end.currentEventId, end.currentDocs, heap, end.snapshots)
  BY <1>8 DEF Watch
<1> HIDE DEF x4
<1>10. x5 = Watch(w.opened, failed, end.currentEventId, end.currentDocs, heap, end.snapshots)
  BY <1>9 DEF Watch
<1> HIDE DEF x5
<1>11. Handled(w, end, x)
  BY <1>3, <1>4, <1>5, <1>10 DEF Handled
<1> QED
  BY <1>11 DEF end, x

LEMMA EventsHandled ==
  ASSUME History, NEW w, Typed(w), Watching(w), NEW b, NEW lo \in Nat, NEW hi \in Nat,
         Fits(b, lo, hi), NEW throws
  PROVE  LET x == HandleServerEvents(w, b, throws) IN
           Typed(x) /\ x.opened = w.opened /\ Watching(x)
<1> DEFINE x == HandleServerEvents(w, b, throws)
           end == Loop(w, b, throws)[Len(b)]
           true == TRUE
<1>5. w = Watch(w.opened, w.failed, w.currentEventId, w.currentDocs, w.heap, w.snapshots)
  BY DEF Typed, Watch
<1>1. /\ w.opened \in BOOLEAN /\ w.failed \in BOOLEAN /\ w.heap \in Seq(Doc)
      /\ w.currentDocs \in Seq(1..Len(w.heap)) /\ w.snapshots \in Seq(Range(w.snapshots))
  BY DEF Typed
<1>2. /\ Held(w, end)
      /\ \/ Boundary(w, end) /\ end.outcome \in {"done", "rebuild", "thrown"}
         \/ end.outcome = "invalid" /\ Stuck(end.currentEventId)
  BY <1>1, StartHeld, LoopHolds
<1> HIDE DEF end
<1>3. CASE \E i \in DOMAIN b : Unreadable(b[i].change)
  <2>1. x = [w EXCEPT !.failed = true]
    BY <1>3 DEF HandleServerEvents
  <2>2. true \in BOOLEAN
    OBVIOUS
  <2> HIDE DEF x, true
  <2>3. x = Watch(w.opened, true, w.currentEventId, w.currentDocs, w.heap, w.snapshots)
    BY <1>5, <2>1 DEF Watch
  <2>4. /\ Typed(x) /\ x.opened = w.opened /\ x.failed = true
        /\ x.currentEventId = w.currentEventId /\ x.currentDocs = w.currentDocs
        /\ x.heap = w.heap /\ x.snapshots = w.snapshots
    BY <1>1, <2>2, <2>3, WatchIs
  <2>7. x.failed
    BY <2>4 DEF true
  <2>5. SessionFits(x)
    BY <2>4, <2>7 DEF SessionFits, Watching
  <2>6. Watching(x)
    BY <2>4, <2>5 DEF Watching
  <2> QED
    BY <2>4, <2>6 DEF x
<1>4. CASE ~\E i \in DOMAIN b : Unreadable(b[i].change)
  <2>2. Handled(w, end, x)
    BY <1>4, HandledIs DEF end
  <2> HIDE DEF x
  <2>3. PICK failed \in BOOLEAN : \E heap :
          /\ w.failed => failed
          /\ end.outcome = "invalid" => failed
          /\ end.dispatched => heap = end.heap
          /\ ~end.dispatched => heap = w.heap
          /\ x = Watch(w.opened, failed, end.currentEventId, end.currentDocs, heap, end.snapshots)
    BY <2>2 DEF Handled
  <2>1. PICK heap :
          /\ w.failed => failed
          /\ end.outcome = "invalid" => failed
          /\ end.dispatched => heap = end.heap
          /\ ~end.dispatched => heap = w.heap
          /\ x = Watch(w.opened, failed, end.currentEventId, end.currentDocs, heap, end.snapshots)
    BY <2>3
  <2>11. /\ end.currentEventId \in EventId /\ end.snapshots # <<>>
         /\ end.snapshots \in Seq(Range(end.snapshots))
         /\ heap \in Seq(Doc) /\ end.currentDocs \in Seq(1..Len(heap))
         /\ \A k \in DOMAIN end.snapshots : Right(end.snapshots[k], heap)
         /\ \/ Mirrors(end.currentDocs, heap, log[end.currentEventId].result)
            \/ failed /\ Stuck(end.currentEventId)
    <3>1. CASE end.dispatched
      <4>1. heap = end.heap /\ end.currentDocs = end.docs
        BY <1>2, <2>1, <3>1 DEF Held
      <4>2. end.heap \in Seq(Doc) /\ end.docs \in Seq(1..Len(end.heap))
        BY <1>2 DEF Held, Local
      <4>3. \/ Mirrors(end.docs, end.heap, log[end.currentEventId].result)
            \/ failed /\ Stuck(end.currentEventId)
        BY <1>2, <2>1 DEF Boundary
      <4> QED
        BY <1>2, <4>1, <4>2, <4>3 DEF Held
    <3>2. CASE ~end.dispatched
      <4>1. /\ heap = w.heap /\ end.currentDocs = w.currentDocs
            /\ end.snapshots = w.snapshots /\ end.currentEventId = w.currentEventId
        BY <1>2, <2>1, <3>2 DEF Held
      <4> QED
        BY <1>1, <2>1, <4>1 DEF Watching, SessionFits
    <3>3. end.dispatched \in BOOLEAN
      BY <1>2 DEF Held
    <3> QED
      BY <3>1, <3>2, <3>3
  <2>12. /\ Typed(x) /\ x.opened = w.opened /\ x.failed = failed
         /\ x.currentEventId = end.currentEventId /\ x.currentDocs = end.currentDocs
         /\ x.heap = heap /\ x.snapshots = end.snapshots
    BY <1>1, <2>1, <2>11, WatchIs
  <2>13. Watching(x)
    BY <2>11, <2>12 DEF Watching, SessionFits
  <2> QED
    BY <2>12, <2>13 DEF x
<1> QED
  BY <1>3, <1>4

-----------------------------------------------------------------------------
\* The loop, on the documents of an INIT_EVENT

\* An order of a set has every element, once.
LEMMA OrderIs ==
  ASSUME NEW S, IsFiniteSet(S), NEW ids \in SetToSeqs(S)
  PROVE  LET n == Cardinality(S) IN
           /\ n \in Nat /\ DOMAIN ids = 1..n
           /\ \A k \in 1..n : ids[k] \in S
           /\ \A j, k \in 1..n : ids[j] = ids[k] => j = k
           /\ \A x \in S : \E k \in 1..n : ids[k] = x
<1> DEFINE n == Cardinality(S)
           T == {ids[k] : k \in 1..n}
<1>1. n \in Nat
  BY FS_CardinalityType
<1>2. ids \in [1..n -> S] /\ \A j, k \in 1..n : ids[j] = ids[k] => j = k
  BY DEF SetToSeqs
<1> HIDE DEF n
<1>3. ids \in Bijection(1..n, T)
  BY <1>2 DEF Bijection, Injection, Surjection, IsInjective
<1>4. IsFiniteSet(1..n) /\ Cardinality(1..n) = n
  BY <1>1, FS_Interval
<1>5. Cardinality(T) = n
  <2>1. ExistsBijection(1..n, T)
    BY <1>3 DEF ExistsBijection
  <2> HIDE DEF T
  <2> QED
    BY <1>4, <2>1, FS_Bijection
<1>6. T \in SUBSET S
  BY <1>2
<1>7. S = T
  <2> HIDE DEF T
  <2> QED
    BY <1>5, <1>6, FS_Subset DEF n
<1> QED
  BY <1>1, <1>2, <1>7 DEF n

\* The changes b that open the watch with result r, as of event e.
Opens(b, ids, r, e, n) ==
  /\ n \in Nat \ {0} /\ Len(b) = n /\ DOMAIN b = 1..n
  /\ \A k \in 1..n :
       /\ b[k].id = e
       /\ b[k].change.dataType = "init" /\ b[k].change.queueType = "init"
       /\ b[k].change.docId = ids[k] /\ b[k].change.full = r[ids[k]]
       /\ b[k].change.sent = TRUE /\ b[k].change.removed = {}
       /\ FullDoc(b[k].change) \in Doc

\* After i passes over them: the documents are in the heap in their order.
Opening(c, b, e, i) ==
  /\ Local(c)
  /\ c.currentEventId = e - 1 /\ c.currentDocs = <<>> /\ c.snapshots = <<>>
  /\ c.outcome = "done" /\ c.dispatched = FALSE
  /\ c.initEncountered \in BOOLEAN /\ (c.initEncountered <=> i # 0)
  /\ c.group \in Seq(Range(c.group))
  /\ Len(c.docs) = i /\ Len(c.heap) = i /\ Len(c.group) = i
  /\ \A k \in 1..i : /\ c.docs[k] = k /\ c.heap[k] = FullDoc(b[k].change)
                     /\ c.group[k] = [change |-> b[k].change, doc |-> k]

LEMMA DocumentQueued ==
  ASSUME NEW c, NEW b, NEW ids, NEW r, NEW e, NEW n, Opens(b, ids, r, e, n),
         NEW i \in 1..n, Opening(c, b, e, i - 1)
  PROVE  LET p == Populate(c, b[i].change) IN
           p.outcome = "done" /\ Opening(Aliased(Queue(p, b[i].change)), b, e, i)
<1> DEFINE change == b[i].change
           full == FullDoc(change)
           p == Populate(c, change)
           q == Queue(p, change)
<1>1. /\ change.sent = TRUE /\ change.dataType = "init" /\ change.queueType = "init"
      /\ full \in Doc /\ i \in Nat /\ n \in Nat
  BY DEF Opens
<1>2. /\ Local(c) /\ Len(c.docs) = i - 1 /\ Len(c.heap) = i - 1 /\ Len(c.group) = i - 1
      /\ c.group \in Seq(Range(c.group)) /\ c.heap \in Seq(Doc) /\ c.docs \in Seq(1..(i - 1))
  BY DEF Opening, Local
<1>3. p = Allocate(c, change, full)
  BY <1>1 DEF Populate, FullDoc
<1> HIDE DEF full
<1>4. Populates(c, change, p, Len(c.heap) + 1) /\ p.heap = Append(c.heap, full)
  <2> HIDE DEF p, change
  <2> QED
    BY <1>1, <1>2, <1>3, AllocatePopulates
<1> HIDE DEF p, change
<1>5. /\ Local(p) /\ Frame(c, p) /\ p.docs = c.docs
      /\ p.group = Append(c.group, [change |-> change, doc |-> i])
  BY <1>1, <1>2, <1>4 DEF Populates
<1>6. /\ p.heap \in Seq(Doc) /\ Len(p.heap) = i
      /\ \A k \in 1..(i - 1) : p.heap[k] = c.heap[k]
      /\ p.heap[i] = full
  BY <1>1, <1>2, <1>4, AppendProperties
<1>7. /\ p.group \in Seq(Range(p.group)) /\ Len(p.group) = i
      /\ \A k \in 1..(i - 1) : p.group[k] = c.group[k]
      /\ p.group[i] = [change |-> change, doc |-> i]
  <2> DEFINE g == [change |-> change, doc |-> i]
  <2>1. p.group = Append(c.group, g)
    BY <1>5
  <2> HIDE DEF g
  <2>2. /\ p.group \in Seq(Range(p.group)) /\ Len(p.group) = Len(c.group) + 1
        /\ \A k \in 1..Len(c.group) : p.group[k] = c.group[k]
        /\ p.group[Len(c.group) + 1] = g
    BY <1>2, <2>1, AppendAny
  <2>3. Len(c.group) + 1 = i
    BY <1>1, <1>2
  <2> QED
    BY <1>2, <2>2, <2>3 DEF g
<1>8. Last(p.group).doc = i
  BY <1>7 DEF Last
<1> DEFINE docs == IF p.initEncountered THEN Append(p.docs, i) ELSE <<i>>
           true == TRUE
           q1 == [p EXCEPT !.docs = docs]
           q2 == [q1 EXCEPT !.initEncountered = true]
<1>9. /\ docs \in Seq(1..i) /\ Len(docs) = i
      /\ \A k \in 1..(i - 1) : docs[k] = c.docs[k]
      /\ docs[i] = i
  <2>1. p.initEncountered = c.initEncountered
    BY <1>5 DEF Frame
  <2>2. CASE i = 1
    <3>1. docs = <<i>>
      BY <2>1, <2>2 DEF Opening
    <3> HIDE DEF docs
    <3> QED
      BY <2>2, <3>1
  <2>3. CASE i # 1
    <3>1. docs = Append(c.docs, i)
      BY <1>1, <1>5, <2>1, <2>3 DEF Opening
    <3>2. c.docs \in Seq(1..i) /\ i \in 1..i
      <4>1. 1..(i - 1) \subseteq 1..i
        BY <1>1
      <4> QED
        BY <1>1, <1>2, <4>1, SeqMonotonic
    <3> HIDE DEF docs
    <3> QED
      BY <1>1, <1>2, <3>1, <3>2, AppendProperties
  <2> QED
    BY <2>2, <2>3
<1>10. q = q2
  <2>1. p = Rec(p.currentEventId, p.currentDocs, p.docs, p.heap, p.group, p.snapshots,
                p.initEncountered, p.dispatched, p.outcome)
    BY <1>5, LocalIs
  <2>2. q = [p EXCEPT !.docs = docs, !.initEncountered = true]
    BY <1>1, <1>8 DEF Queue
  <2> HIDE DEF docs, true, q
  <2> QED
    BY <2>1, <2>2 DEF Rec
<1> HIDE DEF docs, true, q
<1>11. q2 = Rec(p.currentEventId, p.currentDocs, docs, p.heap, p.group, p.snapshots,
                true, p.dispatched, p.outcome)
  <2>1. p = Rec(p.currentEventId, p.currentDocs, p.docs, p.heap, p.group, p.snapshots,
                p.initEncountered, p.dispatched, p.outcome)
    BY <1>5, LocalIs
  <2>2. q1 = Rec(p.currentEventId, p.currentDocs, docs, p.heap, p.group, p.snapshots,
                 p.initEncountered, p.dispatched, p.outcome)
    BY <2>1 DEF Rec
  <2> HIDE DEF q1
  <2> QED
    BY <2>2 DEF Rec
<1> HIDE DEF q2
<1>12. /\ Local(q) /\ q.currentEventId = p.currentEventId /\ q.currentDocs = p.currentDocs
       /\ q.docs = docs /\ q.heap = p.heap /\ q.group = p.group /\ q.snapshots = p.snapshots
       /\ q.initEncountered = true /\ q.dispatched = p.dispatched /\ q.outcome = p.outcome
  <2>1. docs \in Seq(1..Len(p.heap))
    BY <1>6, <1>9
  <2> QED
    BY <1>6, <1>10, <1>11, <2>1, RecIs
<1>13. p.outcome = "done" /\ q.dispatched = FALSE /\ q.initEncountered = TRUE
  BY <1>5, <1>12 DEF Frame, Opening, true
<1>14. Aliased(q) = q
  BY <1>13 DEF Aliased
<1>15. /\ q.currentEventId = e - 1 /\ q.currentDocs = <<>> /\ q.snapshots = <<>>
       /\ q.outcome = "done"
  BY <1>5, <1>12 DEF Frame, Opening
<1>16. ASSUME NEW k \in 1..i
       PROVE  /\ q.docs[k] = k /\ q.heap[k] = FullDoc(b[k].change)
              /\ q.group[k] = [change |-> b[k].change, doc |-> k]
  <2>1. CASE k = i
    BY <1>6, <1>7, <1>9, <1>12, <2>1 DEF full, change
  <2>2. CASE k # i
    <3>1. k \in 1..(i - 1)
      BY <1>1, <2>2
    <3>2. /\ c.docs[k] = k /\ c.heap[k] = FullDoc(b[k].change)
          /\ c.group[k] = [change |-> b[k].change, doc |-> k]
      BY <3>1 DEF Opening
    <3> QED
      BY <1>6, <1>7, <1>9, <1>12, <3>1, <3>2
  <2> QED
    BY <2>1, <2>2
<1>17. q.initEncountered \in BOOLEAN /\ (q.initEncountered <=> i # 0)
  <2>1. i # 0
    BY <1>1
  <2>2. q.initEncountered = TRUE
    BY <1>13
  <2> QED
    BY <2>1, <2>2
<1>18. Opening(q, b, e, i)
  BY <1>6, <1>7, <1>9, <1>12, <1>13, <1>15, <1>16, <1>17 DEF Opening
<1> QED
  BY <1>13, <1>14, <1>18 DEF p, q, change
LEMMA OpeningStart ==
  ASSUME NEW w, w.heap = <<>>, w.currentDocs = <<>>, w.snapshots = <<>>,
         NEW e \in Nat, w.currentEventId = e - 1, NEW b
  PROVE  Opening(Start(w), b, e, 0)
<1> DEFINE c == Start(w)
           no == FALSE
<1>2. c = Rec(e - 1, <<>>, <<>>, <<>>, <<>>, <<>>, no, no, "done")
  <2>1. c = [currentEventId |-> e - 1, currentDocs |-> <<>>,
             docs |-> <<>>, heap |-> <<>>, group |-> <<>>, snapshots |-> <<>>,
             initEncountered |-> no, dispatched |-> no, outcome |-> "done"]
    BY DEF Start
  <2> HIDE DEF no, c
  <2> QED
    BY <2>1 DEF Rec
<1> HIDE DEF no, c
<1>3. /\ c.currentEventId = e - 1 /\ c.currentDocs = <<>>
      /\ c.docs = <<>> /\ c.heap = <<>> /\ c.group = <<>> /\ c.snapshots = <<>>
      /\ c.initEncountered = no /\ c.dispatched = no /\ c.outcome = "done"
  BY <1>2, RecIs
<1>4. Local(c)
  <2>1. c.heap \in Seq(Doc) /\ c.docs \in Seq(1..Len(c.heap))
    BY <1>3
  <2>2. c = Rec(c.currentEventId, c.currentDocs, c.docs, c.heap, c.group, c.snapshots,
                c.initEncountered, c.dispatched, c.outcome)
    BY <1>2, <1>3
  <2> QED
    BY <2>1, <2>2 DEF Local, Rec
<1>5. c.dispatched = FALSE /\ c.initEncountered = FALSE
  BY <1>3 DEF no
<1>6. c.group \in Seq(Range(c.group)) /\ Len(c.docs) = 0 /\ Len(c.heap) = 0 /\ Len(c.group) = 0
  BY <1>3
<1>7. c.initEncountered \in BOOLEAN /\ ~c.initEncountered
  BY <1>5
<1>8. Opening(c, b, e, 0)
  BY <1>3, <1>4, <1>5, <1>6, <1>7 DEF Opening
<1> QED
  BY <1>8 DEF c

\* The loop ends by giving the documents of all its events to onChange.
Presents(w, b, e, n, throws) ==
  \E c : Opening(c, b, e, n) /\ Loop(w, b, throws)[n] = Dispatch(c, e, throws)

LEMMA OpeningLoop ==
  ASSUME NEW w, NEW b, NEW ids, NEW r, NEW e \in Nat, NEW n, Opens(b, ids, r, e, n),
         Opening(Start(w), b, e, 0), NEW throws
  PROVE  Presents(w, b, e, n, throws)
<1> DEFINE c(i) == Loop(w, b, throws)[i]
           q(i) == Aliased(Queue(Populate(c(i - 1), b[i].change), b[i].change))
           S == {i \in Nat : i \in 0..(n - 1) /\ ~Opening(c(i), b, e, i)}
<1>1. n \in Nat \ {0} /\ Len(b) = n /\ \A k \in 1..n : b[k].id = e
  BY DEF Opens
<1>2. c(0) = Start(w) /\ \A i \in 1..n : c(i) = HandleChange(c(i - 1), b, i, throws)
  BY <1>1, LoopPasses
<1> HIDE DEF c
<1>3. ASSUME NEW i \in 1..n, Opening(c(i - 1), b, e, i - 1)
      PROVE  Opening(q(i), b, e, i) /\ c(i) = IF i = n THEN Dispatch(q(i), e, throws) ELSE q(i)
  <2>1. Populate(c(i - 1), b[i].change).outcome = "done" /\ Opening(q(i), b, e, i)
    BY <1>3, DocumentQueued
  <2>2. c(i) = HandleChange(c(i - 1), b, i, throws)
    BY <1>2
  <2>3. /\ c(i - 1).outcome = "done" /\ c(i - 1).currentEventId = e - 1
        /\ ~(e - 1 >= e)
    BY <1>3 DEF Opening
  <2>4. b[i].id = e /\ (i # n => b[i + 1].id = e)
    BY <1>1
  <2> QED
    BY <1>1, <2>1, <2>2, <2>3, <2>4 DEF HandleChange
<1>4. S = {}
  <2> SUFFICES ASSUME S # {} PROVE FALSE
    OBVIOUS
  <2>1. PICK i \in S : \A m \in S : i <= m
    BY LeastNat
  <2>2. i \in Nat /\ i \in 0..(n - 1) /\ ~Opening(c(i), b, e, i)
    OBVIOUS
  <2>3. i # 0
    BY <1>2, <2>2
  <2>4. i \in 1..n /\ i # n /\ i - 1 \in Nat /\ i - 1 \in 0..(n - 1) /\ ~(i <= i - 1)
    BY <1>1, <2>2, <2>3
  <2>5. i - 1 \notin S
    <3> HIDE DEF S
    <3> QED
      BY <2>1, <2>4
  <2>6. Opening(c(i - 1), b, e, i - 1)
    BY <2>4, <2>5
  <2>7. Opening(q(i), b, e, i) /\ c(i) = q(i)
    BY <1>3, <2>4, <2>6
  <2> QED
    BY <2>2, <2>7
<1>5. Opening(c(n - 1), b, e, n - 1)
  <2>1. n - 1 \in Nat /\ n - 1 \in 0..(n - 1)
    BY <1>1
  <2> QED
    BY <1>4, <2>1
<1>6. Opening(q(n), b, e, n) /\ c(n) = Dispatch(q(n), e, throws)
  <2>1. n \in 1..n
    BY <1>1
  <2> QED
    BY <1>3, <1>5, <2>1
<1> QED
  BY <1>6 DEF c, Presents

\* The documents of the INIT_EVENT are those of the result.
LEMMA OpeningRight ==
  ASSUME NEW e \in EventId, NEW r, r = log[e].result, NEW ids, NEW b, NEW n, Opens(b, ids, r, e, n),
         \A j, k \in 1..n : ids[j] = ids[k] => j = k,
         \A k \in 1..n : ids[k] \in DOMAIN r,
         \A x \in DOMAIN r : \E k \in 1..n : ids[k] = x,
         NEW c, Opening(c, b, e, n)
  PROVE  /\ Mirrors(c.docs, c.heap, r)
         /\ Right([id |-> e, docs |-> c.docs, docChanges |-> c.group], c.heap)
<1> DEFINE s == [id |-> e, docs |-> c.docs, docChanges |-> c.group]
<1>1. /\ n \in Nat \ {0} /\ c.docs \in Seq(1..Len(c.heap)) /\ DOMAIN c.docs = 1..n
      /\ Len(c.heap) = n /\ DOMAIN c.group = 1..n
  <2>1. c.docs \in Seq(1..Len(c.heap)) /\ c.group \in Seq(Range(c.group))
    BY DEF Opening, Local
  <2>2. Len(c.docs) = n /\ Len(c.heap) = n /\ Len(c.group) = n /\ n \in Nat \ {0}
    BY DEF Opening, Opens
  <2> QED
    BY <2>1, <2>2, LenProperties
<1>2. \A k \in 1..n : /\ c.docs[k] = k
                      /\ c.heap[k].id = ids[k] /\ c.heap[k].data = r[ids[k]]
  <2> TAKE k \in 1..n
  <2>1. c.docs[k] = k /\ c.heap[k] = FullDoc(b[k].change)
    BY DEF Opening
  <2>2. b[k].change.docId = ids[k] /\ b[k].change.full = r[ids[k]]
    BY DEF Opens
  <2> QED
    BY <2>1, <2>2 DEF FullDoc
<1>3. Mirrors(c.docs, c.heap, r)
  <2>1. \A k \in 1..n : c.heap[c.docs[k]].id = ids[k] /\ c.heap[c.docs[k]].data = r[ids[k]]
    BY <1>2
  <2>2. \A k \in DOMAIN c.docs : /\ c.heap[c.docs[k]].id \in DOMAIN r
                                 /\ c.heap[c.docs[k]].data = r[c.heap[c.docs[k]].id]
    <3> TAKE k \in DOMAIN c.docs
    <3>1. k \in 1..n
      BY <1>1
    <3>2. c.heap[c.docs[k]].id = ids[k] /\ c.heap[c.docs[k]].data = r[ids[k]] /\ ids[k] \in DOMAIN r
      BY <2>1, <3>1
    <3> QED
      BY <3>2
  <2>3. \A j, k \in DOMAIN c.docs : c.heap[c.docs[j]].id = c.heap[c.docs[k]].id => j = k
    <3> TAKE j, k \in DOMAIN c.docs
    <3>1. j \in 1..n /\ k \in 1..n
      BY <1>1
    <3>2. c.heap[c.docs[j]].id = ids[j] /\ c.heap[c.docs[k]].id = ids[k]
      BY <2>1, <3>1
    <3> QED
      BY <3>1, <3>2
  <2>4. \A x \in DOMAIN r : \E k \in DOMAIN c.docs : c.heap[c.docs[k]].id = x
    <3> TAKE x \in DOMAIN r
    <3>1. PICK k \in 1..n : ids[k] = x
      OBVIOUS
    <3>2. k \in DOMAIN c.docs /\ c.heap[c.docs[k]].id = x
      BY <1>1, <2>1, <3>1
    <3> QED
      BY <3>2
  <2> QED
    BY <2>2, <2>3, <2>4 DEF Mirrors
<1>4. \A k \in 1..n : c.group[k].doc = k /\ c.group[k].change.dataType = "init"
  <2> TAKE k \in 1..n
  <2>1. c.group[k] = [change |-> b[k].change, doc |-> k]
    BY DEF Opening
  <2>2. b[k].change.dataType = "init"
    BY DEF Opens
  <2> QED
    BY <2>1, <2>2
<1>5. s.id = e /\ s.docs = c.docs /\ s.docChanges = c.group
  OBVIOUS
<1>6. 1 \in 1..n
  BY <1>1
<1> HIDE DEF s
<1>8. \A k \in DOMAIN s.docChanges : s.docChanges[k].doc \in 1..Len(c.heap)
  <2> TAKE k \in DOMAIN s.docChanges
  <2>1. k \in 1..n /\ Len(c.heap) = n
    BY <1>1, <1>5
  <2>2. s.docChanges[k].doc = k
    BY <1>4, <1>5, <2>1
  <2> QED
    BY <2>1, <2>2
<1>9. s.docChanges[1].change.dataType = "init"
  BY <1>4, <1>5, <1>6
<1>7. Right(s, c.heap)
  BY <1>1, <1>3, <1>5, <1>8, <1>9 DEF Right
<1> QED
  BY <1>3, <1>7 DEF s
\* The changes of an INIT_EVENT.
LEMMA InitChangesOpen ==
  ASSUME History, NEW e \in EventId, NEW changes \in InitChanges(e)
  PROVE  LET r == log[e].result IN
           \/ changes = <<>> /\ DOMAIN r = {}
           \/ /\ changes # <<>>
              /\ \E ids, n :
                   /\ Opens(Tagged(e, changes), ids, r, e, n)
                   /\ \A j, k \in 1..n : ids[j] = ids[k] => j = k
                   /\ \A k \in 1..n : ids[k] \in DOMAIN r
                   /\ \A x \in DOMAIN r : \E k \in 1..n : ids[k] = x
<1> DEFINE r == log[e].result
           D == DOMAIN r
           n == Cardinality(D)
           b == Tagged(e, changes)
           C(id) == Change("init", "init", id, r[id], TRUE, <<>>, {}, "removedFields")
<1>1. PICK S \in SUBSET DocId : r \in [S -> Data]
  <2>1. r \in Result
    BY DEF History
  <2> HIDE DEF r
  <2> QED
    BY <2>1 DEF Result
<1>2. IsFiniteSet(D) /\ D = S
  <2>1. D = S /\ IsFiniteSet(DocId)
    BY <1>1, BoundsAssumption DEF BoundsAssumption
  <2> HIDE DEF D
  <2> QED
    BY <2>1, FS_Subset
<1>3. PICK ids \in SetToSeqs(D) : changes = [k \in DOMAIN ids |-> C(ids[k])]
  BY DEF InitChanges
<1> HIDE DEF D
<1>4. /\ n \in Nat /\ DOMAIN ids = 1..n
      /\ \A k \in 1..n : ids[k] \in D
      /\ \A j, k \in 1..n : ids[j] = ids[k] => j = k
      /\ \A x \in D : \E k \in 1..n : ids[k] = x
  BY <1>2, <1>3, OrderIs
<1> HIDE DEF n, C
<1>5. changes = [k \in 1..n |-> C(ids[k])] /\ DOMAIN changes = 1..n
  BY <1>3, <1>4
<1>6. CASE n = 0
  <2>1. changes = <<>>
    BY <1>5, <1>6
  <2>2. D = {}
    BY <1>4, <1>6
  <2> QED
    BY <2>1, <2>2 DEF D
<1>7. CASE n # 0
  <2>1. changes # <<>>
    <3>1. 1 \in DOMAIN changes
      BY <1>4, <1>5, <1>7
    <3> QED
      BY <3>1
  <2>2. /\ b = [k \in 1..n |-> [id |-> e, change |-> changes[k]]]
        /\ Len(b) = n /\ DOMAIN b = 1..n
    BY <1>4, <1>5 DEF Tagged
  <2>3. ASSUME NEW k \in 1..n
        PROVE  /\ b[k].id = e
               /\ b[k].change.dataType = "init" /\ b[k].change.queueType = "init"
               /\ b[k].change.docId = ids[k] /\ b[k].change.full = r[ids[k]]
               /\ b[k].change.sent = TRUE /\ b[k].change.removed = {}
               /\ FullDoc(b[k].change) \in Doc
    <3> HIDE DEF b
    <3>1. b[k].id = e /\ b[k].change = C(ids[k])
      BY <1>5, <2>2
    <3> DEFINE change == b[k].change
    <3>2. /\ change.dataType = "init" /\ change.queueType = "init"
          /\ change.docId = ids[k] /\ change.full = r[ids[k]]
          /\ change.sent = TRUE /\ change.removed = {}
      BY <3>1 DEF C, Change
    <3> HIDE DEF change, r
    <3>3. ids[k] \in DocId /\ r[ids[k]] \in Data
      BY <1>1, <1>2, <1>4
    <3>4. FullDoc(change) \in Doc
      BY <3>2, <3>3 DEF FullDoc, Doc
    <3> QED
      BY <3>1, <3>2, <3>4 DEF change
  <2>4. Opens(b, ids, r, e, n)
    BY <1>4, <1>7, <2>2, <2>3 DEF Opens
  <2> QED
    BY <1>4, <2>1, <2>4 DEF D
<1> QED
  BY <1>6, <1>7

LEMMA OpenedEmpty ==
  ASSUME History, NEW w, Typed(w), Unopened(w), NEW e \in EventId, DOMAIN log[e].result = {}
  PROVE  LET x == [w EXCEPT !.opened = TRUE, !.currentEventId = e,
                            !.snapshots = <<[id |-> e, docs |-> <<>>, docChanges |-> <<>>]>>]
         IN Typed(x) /\ x.opened /\ Watching(x)
<1> DEFINE s == [id |-> e, docs |-> <<>>, docChanges |-> <<>>]
           true == TRUE
           snapshots == <<s>>
           x1 == [w EXCEPT !.opened = true]
           x2 == [x1 EXCEPT !.currentEventId = e]
           x == [x2 EXCEPT !.snapshots = snapshots]
<1>1. w = Watch(w.opened, w.failed, w.currentEventId, w.currentDocs, w.heap, w.snapshots)
  BY DEF Typed, Watch
<1>2. w.failed \in BOOLEAN /\ w.currentDocs = <<>> /\ w.heap = <<>>
  BY DEF Typed, Unopened
<1>3. s.id = e /\ s.docs = <<>> /\ s.docChanges = <<>>
  OBVIOUS
<1> HIDE DEF s
<1>4. Right(s, <<>>)
  <2>1. Mirrors(<<>>, <<>>, log[e].result)
    BY DEF Mirrors
  <2> QED
    BY <1>3, <2>1 DEF Right
<1>5. /\ snapshots \in Seq(Range(snapshots)) /\ snapshots # <<>>
      /\ \A k \in DOMAIN snapshots : snapshots[k] = s
  <2>1. snapshots \in Seq({s}) /\ Len(snapshots) = 1 /\ snapshots[1] = s
    OBVIOUS
  <2> HIDE DEF snapshots
  <2> QED
    BY <2>1, SeqOfRange
<1>6. [w EXCEPT !.opened = TRUE, !.currentEventId = e, !.snapshots = snapshots] = x
  <2>1. [w EXCEPT !.opened = true, !.currentEventId = e, !.snapshots = snapshots] = x
    <3> HIDE DEF true, snapshots
    <3> QED
      BY <1>1 DEF Watch
  <2> QED
    BY <2>1
<1>7. true \in BOOLEAN
  OBVIOUS
<1> HIDE DEF true, snapshots
<1>8. x1 = Watch(true, w.failed, w.currentEventId, w.currentDocs, w.heap, w.snapshots)
  BY <1>1 DEF Watch
<1> HIDE DEF x1
<1>9. x2 = Watch(true, w.failed, e, w.currentDocs, w.heap, w.snapshots)
  BY <1>8 DEF Watch
<1> HIDE DEF x2
<1>10. x = Watch(true, w.failed, e, w.currentDocs, w.heap, snapshots)
  BY <1>9 DEF Watch
<1> HIDE DEF x
<1>11. w.heap \in Seq(Doc) /\ w.currentDocs \in Seq(1..Len(w.heap))
  BY DEF Typed
<1>12. /\ Typed(x) /\ x.opened = true /\ x.currentEventId = e /\ x.currentDocs = <<>>
       /\ x.heap = <<>> /\ x.snapshots = snapshots
  <2>1. w.failed \in BOOLEAN /\ snapshots \in Seq(Range(snapshots))
    BY <1>2, <1>5
  <2>2. /\ Typed(x) /\ x.opened = true /\ x.currentEventId = e
        /\ x.currentDocs = w.currentDocs /\ x.heap = w.heap /\ x.snapshots = snapshots
    BY <1>7, <1>10, <1>11, <2>1, WatchIs
  <2> QED
    BY <1>2, <2>2
<1>13. SessionFits(x)
  BY <1>12 DEF SessionFits, Mirrors
<1>14. Watching(x)
  BY <1>4, <1>5, <1>12, <1>13 DEF Watching
<1>15. x.opened
  BY <1>12 DEF true
<1> QED
  BY <1>6, <1>12, <1>14, <1>15 DEF snapshots, s


LEMMA OpenedWith ==
  ASSUME History, NEW w, Typed(w), Unopened(w), NEW e \in EventId,
         NEW b, NEW ids, NEW n, Opens(b, ids, log[e].result, e, n),
         \A j, k \in 1..n : ids[j] = ids[k] => j = k,
         \A k \in 1..n : ids[k] \in DOMAIN log[e].result,
         \A x \in DOMAIN log[e].result : \E k \in 1..n : ids[k] = x,
         NEW throws
  PROVE  LET x == HandleServerEvents([w EXCEPT !.opened = TRUE, !.currentEventId = e - 1],
                                     b, throws)
         IN Typed(x) /\ x.opened /\ Watching(x)
<1> DEFINE true == TRUE
           v1 == [w EXCEPT !.opened = true]
           v == [v1 EXCEPT !.currentEventId = e - 1]
           r == log[e].result
           end == Loop(v, b, throws)[n]
           x == HandleServerEvents(v, b, throws)
<1>1. w = Watch(w.opened, w.failed, w.currentEventId, w.currentDocs, w.heap, w.snapshots)
  BY DEF Typed, Watch
<1>2. /\ w.failed \in BOOLEAN /\ w.heap \in Seq(Doc) /\ w.currentDocs \in Seq(1..Len(w.heap))
      /\ w.snapshots \in Seq(Range(w.snapshots))
      /\ w.heap = <<>> /\ w.currentDocs = <<>> /\ w.snapshots = <<>>
  BY DEF Typed, Unopened
<1>3. [w EXCEPT !.opened = TRUE, !.currentEventId = e - 1] = v
  <2>1. [w EXCEPT !.opened = true, !.currentEventId = e - 1] = v
    <3> HIDE DEF true
    <3> QED
      BY <1>1 DEF Watch
  <2> QED
    BY <2>1
<1>4. true \in BOOLEAN
  OBVIOUS
<1> HIDE DEF true
<1>5. v1 = Watch(true, w.failed, w.currentEventId, w.currentDocs, w.heap, w.snapshots)
  BY <1>1 DEF Watch
<1> HIDE DEF v1
<1>6. v = Watch(true, w.failed, e - 1, w.currentDocs, w.heap, w.snapshots)
  BY <1>5 DEF Watch
<1> HIDE DEF v, x
<1>7. /\ Typed(v) /\ v.opened = true /\ v.failed = w.failed /\ v.currentEventId = e - 1
      /\ v.currentDocs = w.currentDocs /\ v.heap = w.heap /\ v.snapshots = w.snapshots
  <2>1. w.failed \in BOOLEAN /\ w.snapshots \in Seq(Range(w.snapshots))
    BY <1>2
  <2>2. w.heap \in Seq(Doc) /\ w.currentDocs \in Seq(1..Len(w.heap))
    BY <1>2
  <2> QED
    BY <1>4, <1>6, <2>1, <2>2, WatchIs
<1>8. n \in Nat \ {0} /\ Len(b) = n /\ ~\E k \in DOMAIN b : Unreadable(b[k].change)
  BY DEF Opens, Unreadable
<1>9. e \in Nat
  BY DEF EventId
<1>10. Opening(Start(v), b, e, 0)
  BY <1>2, <1>7, <1>9, OpeningStart
<1>23. \E c : Opening(c, b, e, n) /\ end = Dispatch(c, e, throws)
  <2>1. Opens(b, ids, r, e, n)
    OBVIOUS
  <2> HIDE DEF r
  <2>2. Presents(v, b, e, n, throws)
    BY <1>9, <1>10, <2>1, OpeningLoop
  <2> QED
    BY <2>2 DEF Presents
<1>11. PICK c : Opening(c, b, e, n) /\ end = Dispatch(c, e, throws)
  BY <1>23
<1> HIDE DEF end
<1> DEFINE s == [id |-> e, docs |-> c.docs, docChanges |-> c.group]
           snapshots == <<s>>
<1>12. Mirrors(c.docs, c.heap, r) /\ Right(s, c.heap)
  BY <1>11, OpeningRight
<1>13. /\ end.currentEventId = e /\ end.currentDocs = c.docs
       /\ end.heap = c.heap /\ end.dispatched = TRUE
       /\ end.snapshots = Append(c.snapshots, s)
       /\ c.heap \in Seq(Doc) /\ c.docs \in Seq(1..Len(c.heap)) /\ c.snapshots = <<>>
  <2>1. Local(c) /\ c.snapshots = <<>>
    BY <1>11 DEF Opening
  <2>2. Dispatched(c, e, throws, end)
    BY <1>11, <2>1, DispatchIs
  <2> QED
    BY <2>1, <2>2 DEF Dispatched, Local
<1> HIDE DEF s
<1>14. end.snapshots = snapshots
  BY <1>13
<1>15. /\ snapshots \in Seq(Range(snapshots)) /\ snapshots # <<>>
       /\ \A k \in DOMAIN snapshots : snapshots[k] = s
  <2>1. snapshots \in Seq({s}) /\ Len(snapshots) = 1 /\ snapshots[1] = s
    OBVIOUS
  <2> HIDE DEF snapshots
  <2> QED
    BY <2>1, SeqOfRange
<1> HIDE DEF snapshots
<1>16. Handled(v, end, x)
  BY <1>7, <1>8, HandledIs DEF end, x
<1>17. PICK failed \in BOOLEAN : \E heap :
         /\ end.dispatched => heap = end.heap
         /\ x = Watch(v.opened, failed, end.currentEventId, end.currentDocs, heap, end.snapshots)
  BY <1>16 DEF Handled
<1>18. x = Watch(true, failed, e, c.docs, c.heap, snapshots)
  BY <1>7, <1>13, <1>14, <1>17
<1>19. /\ Typed(x) /\ x.opened = true /\ x.currentEventId = e /\ x.currentDocs = c.docs
       /\ x.heap = c.heap /\ x.snapshots = snapshots
  <2>1. /\ snapshots \in Seq(Range(snapshots))
        /\ c.heap \in Seq(Doc) /\ c.docs \in Seq(1..Len(c.heap))
    BY <1>13, <1>15
  <2> QED
    BY <1>4, <1>18, <2>1, WatchIs
<1>20. SessionFits(x)
  BY <1>12, <1>19 DEF SessionFits
<1>21. Watching(x)
  BY <1>12, <1>15, <1>19, <1>20 DEF Watching
<1>22. x.opened
  BY <1>19 DEF true
<1> QED
  BY <1>3, <1>19, <1>21, <1>22 DEF x

-----------------------------------------------------------------------------
\* The steps preserve the invariant

\* What the server commits leaves the earlier events as they are.
LEMMA LogGrows ==
  ASSUME IInv, NEW changes, NEW result, Commit(changes, result)
  PROVE  /\ client' = client
         /\ Len(log) \in Nat \ {0} /\ Len(log') = Len(log) + 1
         /\ log' \in Seq(Range(log'))
         /\ EventId = 1..Len(log) /\ EventId' = 1..(Len(log) + 1)
         /\ \A k \in EventId : log'[k] = log[k]
         /\ log'[Len(log) + 1].changes = changes /\ log'[Len(log) + 1].result = result
<1> DEFINE event == [changes |-> changes, result |-> result]
<1>1. log' = Append(log, event) /\ client' = client
  BY DEF Commit
<1>2. log \in Seq(Range(log)) /\ Len(log) > 0
  BY DEF IInv, History
<1>3. event.changes = changes /\ event.result = result
  OBVIOUS
<1> HIDE DEF event
<1>4. /\ Append(log, event) \in Seq(Range(Append(log, event)))
      /\ Len(Append(log, event)) = Len(log) + 1 /\ Len(log) \in Nat
      /\ \A i \in 1..Len(log) : Append(log, event)[i] = log[i]
      /\ Append(log, event)[Len(log) + 1] = event
  BY <1>2, AppendAny
<1>5. EventId = 1..Len(log) /\ EventId' = 1..Len(log')
  BY DEF EventId
<1> QED
  BY <1>1, <1>2, <1>3, <1>4, <1>5

LEMMA CommitKeeps ==
  ASSUME IInv, NEW changes, NEW result \in Result, Commit(changes, result),
         Leads(log[Len(log)].result, changes, result)
  PROVE  IInv'
<1>1. /\ client' = client
      /\ Len(log) \in Nat \ {0} /\ Len(log') = Len(log) + 1
      /\ log' \in Seq(Range(log'))
      /\ EventId = 1..Len(log) /\ EventId' = 1..(Len(log) + 1)
      /\ \A k \in EventId : log'[k] = log[k]
      /\ log'[Len(log) + 1].changes = changes /\ log'[Len(log) + 1].result = result
  BY LogGrows
<1>2. \A k \in EventId' : log'[k].result \in Result
  <2> TAKE k \in EventId'
  <2>1. CASE k = Len(log) + 1
    BY <1>1, <2>1
  <2>2. CASE k # Len(log) + 1
    <3>1. k \in EventId
      BY <1>1, <2>2
    <3>2. log[k].result \in Result
      BY <3>1 DEF IInv, History
    <3> QED
      BY <1>1, <3>1, <3>2
  <2> QED
    BY <2>1, <2>2
<1>3. \A k \in EventId' \ {1} : Leads(log'[k - 1].result, log'[k].changes, log'[k].result)
  <2> TAKE k \in EventId' \ {1}
  <2>1. CASE k = Len(log) + 1
    <3>1. k - 1 = Len(log) /\ Len(log) \in EventId
      BY <1>1, <2>1
    <3>2. log'[k - 1] = log[Len(log)]
      BY <1>1, <3>1
    <3> QED
      BY <1>1, <2>1, <3>2
  <2>2. CASE k # Len(log) + 1
    <3>1. k \in EventId \ {1} /\ k - 1 \in EventId
      BY <1>1, <2>2
    <3>2. Leads(log[k - 1].result, log[k].changes, log[k].result)
      BY <3>1 DEF IInv, History
    <3>3. log'[k] = log[k] /\ log'[k - 1] = log[k - 1]
      BY <1>1, <3>1
    <3> QED
      BY <3>2, <3>3
  <2> QED
    BY <2>1, <2>2
<1>4. History'
  <2>1. log' \in Seq(Range(log')) /\ Len(log') > 0
    BY <1>1
  <2> QED
    BY <1>2, <1>3, <2>1 DEF History
<1>5. Typed(client)'
  BY <1>1 DEF IInv, Typed, Doc, Data
<1>6. CASE ~client.opened
  BY <1>1, <1>4, <1>5, <1>6 DEF IInv, Unopened
<1>7. CASE client.opened
  <2>1. /\ client.currentEventId \in EventId /\ client.snapshots # <<>>
        /\ \A i \in DOMAIN client.snapshots : Right(client.snapshots[i], client.heap)
        /\ SessionFits(client)
    BY <1>7 DEF IInv, Watching
  <2>2. ASSUME NEW i \in DOMAIN client.snapshots
        PROVE  Right(client.snapshots[i], client.heap)'
    <3>1. Right(client.snapshots[i], client.heap)
      BY <2>1
    <3>2. client.snapshots[i].id \in EventId
      BY <3>1 DEF Right
    <3>3. /\ log'[client.snapshots[i].id] = log[client.snapshots[i].id]
          /\ client.snapshots[i].id \in EventId'
      BY <1>1, <3>2
    <3> DEFINE s == client.snapshots[i]
    <3>4. s.docs \in Seq(1..Len(client.heap)) /\ Mirrors(s.docs, client.heap, log[s.id].result)
      BY <3>1 DEF Right
    <3>5. \A j \in DOMAIN s.docChanges : s.docChanges[j].doc \in 1..Len(client.heap)
      BY <3>1 DEF Right
    <3>6. s.docChanges = <<>> \/ s.docChanges[1].change.dataType = "init" \/
            /\ Len(s.docChanges) = Len(log[s.id].changes)
            /\ \A j \in DOMAIN s.docChanges :
                 LET change == log[s.id].changes[j] IN
                   /\ s.docChanges[j].change = change
                   /\ client.heap[s.docChanges[j].doc] = [id |-> change.docId, data |-> change.full]
      BY <3>1 DEF Right
    <3> QED
      BY <1>1, <3>3, <3>4, <3>5, <3>6 DEF Right
  <2>3. SessionFits(client)'
    <3>1. log'[client.currentEventId] = log[client.currentEventId]
      BY <1>1, <2>1
    <3>2. CASE Mirrors(client.currentDocs, client.heap, log[client.currentEventId].result)
      BY <1>1, <3>1, <3>2 DEF SessionFits, Mirrors
    <3>3. CASE client.failed /\ Stuck(client.currentEventId)
      <4> DEFINE p == client.currentEventId
      <4>1. p < Len(log) /\ \E j \in DOMAIN log[p + 1].changes : Invalid(log[p + 1].changes[j])
        BY <3>3 DEF Stuck
      <4>2. p + 1 \in EventId
        BY <1>1, <2>1, <4>1
      <4>3. log'[p + 1] = log[p + 1] /\ p < Len(log')
        BY <1>1, <2>1, <4>1, <4>2
      <4>4. Stuck(client.currentEventId)'
        BY <1>1, <4>1, <4>3 DEF Stuck, Invalid, NeedsDoc
      <4> QED
        BY <1>1, <3>3, <4>4 DEF SessionFits
    <3> QED
      BY <2>1, <3>2, <3>3 DEF SessionFits
  <2>4. client.currentEventId' \in EventId'
    BY <1>1, <2>1
  <2>5. Watching(client)'
    BY <1>1, <2>1, <2>2, <2>3, <2>4 DEF Watching
  <2> QED
    BY <1>1, <1>4, <1>5, <1>7, <2>5 DEF IInv
<1> QED
  BY <1>6, <1>7
LEMMA InitHolds ==
  Init => IInv
<1> SUFFICES ASSUME Init PROVE IInv
  OBVIOUS
<1>1. PICK result \in Result : log = <<[changes |-> <<>>, result |-> result]>>
  BY DEF Init
<1> DEFINE event == [changes |-> <<>>, result |-> result]
           no == FALSE
<1>2. event.result = result
  OBVIOUS
<1> HIDE DEF event
<1>3. log = <<event>>
  BY <1>1 DEF event
<1>4. log \in Seq({event}) /\ Len(log) = 1 /\ log[1] = event
  BY <1>3
<1>5. log \in Seq(Range(log))
  BY <1>4, SeqOfRange
<1>6. EventId = {1}
  BY <1>4 DEF EventId
<1>7. History
  BY <1>2, <1>4, <1>5, <1>6 DEF History
<1>8. client = Watch(no, no, 0, <<>>, <<>>, <<>>)
  BY DEF Init, Watch
<1>9. no \in BOOLEAN
  OBVIOUS
<1> HIDE DEF no
<1>10. /\ Typed(client) /\ client.opened = no
       /\ client.currentEventId = 0 /\ client.currentDocs = <<>>
       /\ client.heap = <<>> /\ client.snapshots = <<>>
  <2> DEFINE none == <<>>
  <2>1. none \in Seq(Doc) /\ none \in Seq(1..Len(none)) /\ none \in Seq(Range(none))
    OBVIOUS
  <2>2. client = Watch(no, no, 0, none, none, none)
    BY <1>8
  <2> HIDE DEF none
  <2>3. /\ Typed(client) /\ client.opened = no
        /\ client.currentEventId = 0 /\ client.currentDocs = none
        /\ client.heap = none /\ client.snapshots = none
    BY <1>9, <2>1, <2>2, WatchIs
  <2> QED
    BY <2>3 DEF none
<1>11. ~client.opened /\ Unopened(client)
  BY <1>10 DEF no, Unopened
<1> QED
  BY <1>7, <1>10, <1>11 DEF IInv

LEMMA CommitOneKeeps ==
  ASSUME IInv, CommitOne
  PROVE  IInv'
<1> DEFINE before == log[Len(log)].result
<1>1. before \in Result
  BY DEF IInv, History, EventId
<1>2. PICK c \in Changes(before) : Commit(<<c>>, After(before, c))
  BY DEF CommitOne
<1> HIDE DEF before
<1>3. After(before, c) \in Result
  BY <1>1, AfterIsResult
<1>4. Leads(before, <<c>>, After(before, c))
  BY DEF Leads
<1> QED
  BY <1>2, <1>3, <1>4, CommitKeeps DEF before

LEMMA CommitTwoKeeps ==
  ASSUME IInv, CommitTwo
  PROVE  IInv'
<1> DEFINE before == log[Len(log)].result
<1>1. before \in Result
  BY DEF IInv, History, EventId
<1>2. PICK c \in Changes(before) : \E d \in Changes(After(before, c)) :
        Commit(<<c, d>>, After(After(before, c), d))
  BY DEF CommitTwo
<1> HIDE DEF before
<1>3. PICK d \in Changes(After(before, c)) : Commit(<<c, d>>, After(After(before, c), d))
  BY <1>2
<1>4. After(After(before, c), d) \in Result
  BY <1>1, AfterIsResult
<1>5. Leads(before, <<c, d>>, After(After(before, c), d))
  BY DEF Leads
<1> QED
  BY <1>3, <1>4, <1>5, CommitKeeps DEF before

\* A step of the watch leaves the server's events as they are.
LEMMA WatchKeeps ==
  ASSUME IInv, UNCHANGED log, NEW x, client' = x, Typed(x), x.opened, Watching(x)
  PROVE  IInv'
<1>1. History'
  BY DEF IInv, History, EventId
<1>2. Typed(client)'
  BY DEF Typed
<1>3. log' = log /\ EventId' = EventId /\ client' = x
  BY DEF EventId
<1>4. /\ x.currentEventId \in EventId /\ x.snapshots # <<>>
      /\ \A i \in DOMAIN x.snapshots : Right(x.snapshots[i], x.heap)
      /\ SessionFits(x)
  BY DEF Watching
<1>5. ASSUME NEW i \in DOMAIN x.snapshots
      PROVE  Right(client.snapshots[i], client.heap)'
  <2>1. Right(x.snapshots[i], x.heap)
    BY <1>4
  <2> QED
    BY <1>3, <2>1 DEF Right
<1>6. SessionFits(client)'
  BY <1>3, <1>4 DEF SessionFits, Stuck
<1>7. Watching(client)'
  BY <1>3, <1>4, <1>5, <1>6 DEF Watching
<1> QED
  BY <1>1, <1>2, <1>3, <1>7 DEF IInv

LEMMA InitReplyKeeps ==
  ASSUME IInv, NEW id \in EventId, NEW throws, InitReply(id, throws)
  PROVE  IInv'
<1>1. ~client.opened /\ UNCHANGED log
  BY DEF InitReply
<1>2. History /\ Typed(client) /\ Unopened(client)
  BY <1>1 DEF IInv
<1>3. PICK changes \in InitChanges(id) :
        client' = CASE changes = <<>> /\ throws = None ->
                         [client EXCEPT !.opened = TRUE, !.currentEventId = id,
                                        !.snapshots = <<[id |-> id, docs |-> <<>>,
                                                         docChanges |-> <<>>]>>]
                    [] changes = <<>> /\ throws # None -> client
                    [] changes # <<>> ->
                         HandleServerEvents([client EXCEPT !.opened = TRUE,
                                                           !.currentEventId = id - 1],
                                            Tagged(id, changes), throws)
  BY DEF InitReply
<1>4. CASE changes = <<>> /\ throws # None
  <2>1. UNCHANGED <<client, log>>
    BY <1>1, <1>3, <1>4
  <2> QED
    BY <1>1, <2>1 DEF IInv, History, EventId, Typed, Unopened
<1>5. CASE changes = <<>> /\ throws = None /\ DOMAIN log[id].result = {}
  <2> DEFINE x == [client EXCEPT !.opened = TRUE, !.currentEventId = id,
                                 !.snapshots = <<[id |-> id, docs |-> <<>>,
                                                  docChanges |-> <<>>]>>]
  <2>1. client' = x
    BY <1>3, <1>5
  <2>2. Typed(x) /\ x.opened /\ Watching(x)
    BY <1>2, <1>5, OpenedEmpty
  <2> HIDE DEF x
  <2> QED
    BY <1>1, <2>1, <2>2, WatchKeeps
<1>6. CASE /\ changes # <<>>
           /\ \E ids, n :
                /\ Opens(Tagged(id, changes), ids, log[id].result, id, n)
                /\ \A j, k \in 1..n : ids[j] = ids[k] => j = k
                /\ \A k \in 1..n : ids[k] \in DOMAIN log[id].result
                /\ \A y \in DOMAIN log[id].result : \E k \in 1..n : ids[k] = y
  <2> DEFINE b == Tagged(id, changes)
             x == HandleServerEvents([client EXCEPT !.opened = TRUE, !.currentEventId = id - 1],
                                     b, throws)
  <2>1. client' = x
    BY <1>3, <1>6
  <2>2. PICK ids, n :
          /\ Opens(b, ids, log[id].result, id, n)
          /\ \A j, k \in 1..n : ids[j] = ids[k] => j = k
          /\ \A k \in 1..n : ids[k] \in DOMAIN log[id].result
          /\ \A y \in DOMAIN log[id].result : \E k \in 1..n : ids[k] = y
    BY <1>6
  <2> HIDE DEF b
  <2>3. Typed(x) /\ x.opened /\ Watching(x)
    BY <1>2, <2>2, OpenedWith
  <2> HIDE DEF x
  <2> QED
    BY <1>1, <2>1, <2>3, WatchKeeps
<1> QED
  BY <1>2, <1>4, <1>5, <1>6, InitChangesOpen

LEMMA NextEventKeeps ==
  ASSUME IInv, NEW lo \in EventId, NEW hi \in EventId, NEW throws, NextEvent(lo, hi, throws)
  PROVE  IInv'
<1> DEFINE b == Batch(lo, hi)
           x == HandleServerEvents(client, b, throws)
<1>1. client.opened /\ 1 < lo /\ lo <= hi /\ client' = x /\ UNCHANGED log
  BY DEF NextEvent
<1>2. History /\ Typed(client) /\ Watching(client)
  BY <1>1 DEF IInv
<1>3. Fits(b, lo, hi)
  BY <1>1, <1>2, BatchFits
<1>4. lo \in Nat /\ hi \in Nat
  BY DEF EventId
<1> HIDE DEF b
<1>5. Typed(x) /\ x.opened = client.opened /\ Watching(x)
  BY <1>2, <1>3, <1>4, EventsHandled
<1> HIDE DEF x
<1>6. x.opened
  BY <1>1, <1>5
<1> QED
  BY <1>1, <1>5, <1>6, WatchKeeps
LEMMA NextKeeps ==
  IInv /\ [Next]_vars => IInv'
<1> SUFFICES ASSUME IInv, [Next]_vars PROVE IInv'
  OBVIOUS
<1>1. CASE CommitOne
  BY <1>1, CommitOneKeeps
<1>2. CASE CommitTwo
  BY <1>2, CommitTwoKeeps
<1>3. CASE \E id \in EventId : \E throws \in {None, id} : InitReply(id, throws)
  <2>1. PICK id \in EventId : \E throws \in {None, id} : InitReply(id, throws)
    BY <1>3
  <2>2. PICK throws \in {None, id} : InitReply(id, throws)
    BY <2>1
  <2> QED
    BY <2>2, InitReplyKeeps
<1>4. CASE \E lo, hi \in EventId : \E throws \in {None} \cup (lo..hi) : NextEvent(lo, hi, throws)
  <2>1. PICK lo \in EventId, hi \in EventId :
          \E throws \in {None} \cup (lo..hi) : NextEvent(lo, hi, throws)
    BY <1>4
  <2>2. PICK throws \in {None} \cup (lo..hi) : NextEvent(lo, hi, throws)
    BY <2>1
  <2> QED
    BY <2>2, NextEventKeeps
<1>5. CASE UNCHANGED vars
  <2>1. UNCHANGED log /\ UNCHANGED client
    BY <1>5 DEF vars
  <2>2. CASE client.opened
    BY <2>1, <2>2, WatchKeeps DEF IInv
  <2>3. CASE ~client.opened
    BY <2>1, <2>3 DEF IInv, History, EventId, Typed, Unopened
  <2> QED
    BY <2>2, <2>3
<1> QED
  BY <1>1, <1>2, <1>3, <1>4, <1>5 DEF Next

-----------------------------------------------------------------------------
\* Theorems

\* The invariant of HandleServerEvents: whatever batches it is given, in whatever
\* order, the session is at the boundary of an event and the snapshots are right.
THEOREM Invariance ==
  Spec => []IInv
<1> QED
  BY InitHolds, NextKeeps, PTL DEF Spec

\* References that are all different and mirror a result are as many as it has
\* documents.
LEMMA MirrorsShows ==
  ASSUME NEW docs \in Seq(Ref), client.heap \in Seq(Doc), NEW result \in Result,
         Mirrors(docs, client.heap, result)
  PROVE  Shows(docs, result)
<1> DEFINE n == Len(docs)
           D == DOMAIN result
           f == [i \in 1..n |-> client.heap[docs[i]].id]
<1>1. n \in Nat /\ DOMAIN docs = 1..n /\ \A i \in 1..n : docs[i] \in 1..Len(client.heap)
  BY DEF Ref
<1>2. /\ \A i \in 1..n : f[i] \in D /\ client.heap[docs[i]].data = result[f[i]]
      /\ \A i, j \in 1..n : f[i] = f[j] => i = j
      /\ \A id \in D : \E i \in 1..n : f[i] = id
  BY <1>1 DEF Mirrors
<1>3. \A i \in 1..n : client.heap[docs[i]] \in Doc /\ f[i] = client.heap[docs[i]].id
  BY <1>1
<1>4. f \in [1..n -> D]
  BY <1>2
<1> HIDE DEF f, D, n
<1>5. f \in Bijection(1..n, D)
  BY <1>2, <1>4 DEF Bijection, Injection, Surjection, IsInjective
<1>6. n = Cardinality(D)
  <2>1. ExistsBijection(1..n, D)
    BY <1>5 DEF ExistsBijection
  <2>2. IsFiniteSet(1..n) /\ Cardinality(1..n) = n
    BY <1>1, FS_Interval
  <2> QED
    BY <2>1, <2>2, FS_Bijection
<1>7. ASSUME NEW id \in D
      PROVE  \E i \in DOMAIN docs : client.heap[docs[i]] = [id |-> id, data |-> result[id]]
  <2>1. PICK i \in 1..n : f[i] = id
    BY <1>2
  <2>2. /\ client.heap[docs[i]] \in Doc
        /\ client.heap[docs[i]].id = id /\ client.heap[docs[i]].data = result[id]
    BY <1>2, <1>3, <2>1
  <2>3. client.heap[docs[i]] = [id |-> id, data |-> result[id]]
    BY <2>2 DEF Doc
  <2> QED
    BY <1>1, <2>3
<1> QED
  BY <1>6, <1>7 DEF Shows, D, n

\* The session and the snapshots hold no reference that leads nowhere.
THEOREM TypeCorrect ==
  Spec => []TypeOK
<1>1. IInv => TypeOK
  <2> SUFFICES ASSUME IInv PROVE TypeOK
    OBVIOUS
  <2>1. /\ client.opened \in BOOLEAN /\ client.failed \in BOOLEAN
        /\ client.heap \in Seq(Doc) /\ client.currentDocs \in Seq(Ref)
    BY DEF IInv, Typed, Ref
  <2>2. Len(log) \in Nat /\ client.currentEventId \in 0..Len(log)
    BY DEF IInv, History, Watching, Unopened, EventId
  <2>3. ASSUME NEW i \in DOMAIN client.snapshots
        PROVE  LET s == client.snapshots[i] IN
                 /\ s.id \in EventId /\ s.docs \in Seq(Ref)
                 /\ \A j \in DOMAIN s.docChanges : s.docChanges[j].doc \in Ref \cup {None}
    <3>1. client.opened
      BY DEF IInv, Unopened
    <3>2. Right(client.snapshots[i], client.heap)
      BY <3>1 DEF IInv, Watching
    <3> QED
      BY <3>2 DEF Right, Ref
  <2> QED
    BY <2>1, <2>2, <2>3 DEF TypeOK
<1> QED
  BY <1>1, Invariance, PTL

\* Every snapshot given to onChange shows, whenever it is read, the result of the
\* query as of its event.
THEOREM Faithful ==
  Spec => []SnapshotsFaithful
<1>1. IInv => SnapshotsFaithful
  <2> SUFFICES ASSUME IInv, NEW i \in DOMAIN client.snapshots
               PROVE  Shows(client.snapshots[i].docs, log[client.snapshots[i].id].result)
    BY DEF SnapshotsFaithful
  <2>1. client.opened /\ client.heap \in Seq(Doc)
    BY DEF IInv, Unopened, Typed
  <2>2. Right(client.snapshots[i], client.heap)
    BY <2>1 DEF IInv, Watching
  <2> DEFINE s == client.snapshots[i]
  <2>3. s.id \in EventId /\ s.docs \in Seq(Ref) /\ Mirrors(s.docs, client.heap, log[s.id].result)
    BY <2>2 DEF Right, Ref
  <2>4. log[s.id].result \in Result
    BY <2>3 DEF IInv, History
  <2> QED
    BY <2>1, <2>3, <2>4, MirrorsShows
<1> QED
  BY <1>1, Invariance, PTL

\* A snapshot tells exactly the changes of its event, each with its document.
THEOREM Complete ==
  Spec => []ChangesComplete
<1>1. IInv => ChangesComplete
  <2> SUFFICES ASSUME IInv, NEW i \in DOMAIN client.snapshots
               PROVE  LET s == client.snapshots[i] IN
                        s.docChanges = <<>> \/ s.docChanges[1].change.dataType = "init" \/
                        /\ Len(s.docChanges) = Len(log[s.id].changes)
                        /\ \A j \in DOMAIN s.docChanges :
                             LET change == log[s.id].changes[j] IN
                               /\ s.docChanges[j].change = change
                               /\ s.docChanges[j].doc # None
                               /\ client.heap[s.docChanges[j].doc]
                                    = [id |-> change.docId, data |-> change.full]
    BY DEF ChangesComplete
  <2>1. client.opened
    BY DEF IInv, Unopened
  <2>2. Right(client.snapshots[i], client.heap)
    BY <2>1 DEF IInv, Watching
  <2>3. \A ref \in 1..Len(client.heap) : ref # None
    BY DEF None
  <2> QED
    BY <2>2, <2>3 DEF Right
<1> QED
  BY <1>1, Invariance, PTL

\* The documents kept for the next batch are the result as of the position that
\* the watch reports, unless it has failed.
THEOREM SessionRight ==
  Spec => []SessionFaithful
<1>1. IInv => SessionFaithful
  <2> SUFFICES ASSUME IInv, client.snapshots # <<>>, ~client.failed
               PROVE  Shows(client.currentDocs, log[client.currentEventId].result)
    BY DEF SessionFaithful
  <2>1. /\ client.opened /\ client.heap \in Seq(Doc) /\ client.currentDocs \in Seq(Ref)
    BY DEF IInv, Unopened, Typed, Ref
  <2>2. /\ client.currentEventId \in EventId
        /\ Mirrors(client.currentDocs, client.heap, log[client.currentEventId].result)
    BY <2>1 DEF IInv, Watching, SessionFits
  <2>3. log[client.currentEventId].result \in Result
    BY <2>2 DEF IInv, History
  <2> QED
    BY <2>1, <2>2, <2>3, MirrorsShows
<1> QED
  BY <1>1, Invariance, PTL
=============================================================================
