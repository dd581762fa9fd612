------------------------- MODULE QueueWriter_proofs -------------------------
(***************************************************************************)
(* Proofs about QueueWriter, for any number of rows and trips, any order   *)
(* of them, and every size of the queue and of a batch.                    *)
(***************************************************************************)
EXTENDS QueueWriter, SequenceTheorems, TLAPS

Running == main \in {"up", "joining"}

\* A turn that reads the queue has room for a row in its batch.
BatchInv == wpc = "get" => Len(pending) < COMMIT_BATCH_SIZE

\* Every row that was produced is somewhere.
Accounted == stored \cup lost \cup Elems(queue) \cup Elems(pending)

\* No row disappears, and what a failed commit left behind is reported.
ConservedInv ==
    /\ Ids \ fresh \subseteq Accounted
    /\ begun \subseteq Trips \ fresh
    /\ tx.rows \subseteq lost

\* A writer that stops has drained the queue of all that was there before: only
\* producers that outlived the stop go on filling it.
StopInv ==
    /\ main \in {"down", "closed"} => pending = <<>>
    /\ main = "down" => queue = <<>>
    /\ Running /\ shouldStop => main = "joining" /\ Elems(queue) \subseteq late
    /\ Running /\ wpc = "done" =>
          main = "joining" /\ Elems(queue) \subseteq late /\ pending = <<>>
    /\ main = "closed" => Elems(queue) \subseteq late

\* The trip of a reading that waits is stored or lost, or waits before it.
OrderInv ==
    /\ \A i \in DOMAIN pending : pending[i] \in Readings =>
          \/ Parent[pending[i]] \in stored \cup lost
          \/ \E j \in 1..i - 1 : pending[j] = Parent[pending[i]]
    /\ \A i \in DOMAIN queue : queue[i] \in Readings =>
          \/ Parent[queue[i]] \in stored \cup lost \cup Elems(pending)
          \/ \E j \in 1..i - 1 : queue[j] = Parent[queue[i]]

\* A trip that may be open in the database was begun by this process, and one
\* that this process has ended is closed, or its end is known to be missed.
TripInv ==
    Running =>
        /\ Trips \cap (stored \cup Volatile) \subseteq begun \cup closed
        /\ begun \subseteq {cur} \cup closed \cup missed

QInv == /\ TypeOK /\ BatchInv /\ ConservedInv /\ StopInv /\ OrderInv /\ TripInv
        /\ OrphansOnlyAfterLoss

-----------------------------------------------------------------------------
(* The elements of a sequence.                                             *)

LEMMA ElemsEmpty == Elems(<<>>) = {}
BY DEF Elems

LEMMA ElemsType == ASSUME NEW S, NEW s \in Seq(S) PROVE Elems(s) \subseteq S
BY LenProperties, ElementOfSeq DEF Elems

LEMMA ElemsAppend ==
    ASSUME NEW S, NEW s \in Seq(S), NEW e \in S
    PROVE  Elems(Append(s, e)) = Elems(s) \cup {e}
<1>1. /\ DOMAIN s = 1..Len(s) /\ Len(s) \in Nat
      /\ DOMAIN Append(s, e) = 1..Len(s) + 1
  BY LenProperties, AppendProperties
<1>2. Append(s, e)[Len(s) + 1] = e /\ \A i \in 1..Len(s) : Append(s, e)[i] = s[i]
  BY AppendProperties
<1> QED
  BY <1>1, <1>2 DEF Elems

LEMMA ElemsTail ==
    ASSUME NEW S, NEW s \in Seq(S), s # <<>>
    PROVE  Elems(s) = {Head(s)} \cup Elems(Tail(s))
<1>1. /\ DOMAIN s = 1..Len(s) /\ Len(s) \in Nat \ {0}
      /\ DOMAIN Tail(s) = 1..Len(s) - 1
  BY LenProperties, HeadTailProperties, EmptySeq
<1>2. Head(s) = s[1] /\ \A i \in 1..Len(s) - 1 : Tail(s)[i] = s[i + 1]
  BY <1>1, HeadTailProperties
<1>3. ASSUME NEW i \in 1..Len(s), i # 1
      PROVE  s[i] \in Elems(Tail(s))
  <2>1. i - 1 \in 1..Len(s) - 1 /\ (i - 1) + 1 = i
    BY <1>1, <1>3
  <2>2. Tail(s)[i - 1] = s[(i - 1) + 1]
    BY <1>2, <2>1
  <2> QED
    BY <1>1, <2>1, <2>2 DEF Elems
<1>4. \A i \in 1..Len(s) : s[i] \in {Head(s)} \cup Elems(Tail(s))
  BY <1>2, <1>3
<1>5. \A i \in 1..Len(s) - 1 : Tail(s)[i] \in Elems(s)
  BY <1>1, <1>2 DEF Elems
<1>6. Head(s) \in Elems(s)
  BY <1>1, <1>2 DEF Elems
<1> QED
  BY <1>1, <1>4, <1>5, <1>6 DEF Elems

-----------------------------------------------------------------------------
(* Types.                                                                  *)

LEMMA Params ==
    /\ NoTrip \notin Trips /\ Trips \cap Readings = {} /\ Ids = Trips \cup Readings
    /\ \A r \in Readings : Parent[r] \in Trips
    /\ QueueSize \in Nat /\ QueueSize > 0
    /\ COMMIT_BATCH_SIZE \in Nat /\ COMMIT_BATCH_SIZE > 0
    /\ MAX_CONSECUTIVE_FLUSH_FAILURES \in Nat /\ MAX_CONSECUTIVE_FLUSH_FAILURES > 0
    /\ MaxBoots \in Nat
BY QueueAssumption DEF Ids

LEMMA NoRows == <<>> \in Seq(Ids) /\ Len(<<>>) = 0
BY EmptySeq

LEMMA NoTxType == NoTx \in [rows : SUBSET Ids, closed : SUBSET Trips] /\ NoTx.rows = {}
BY DEF NoTx

\* The rows of a sequence of ids are ids.
LEMMA RowsType ==
    ASSUME TypeOK
    PROVE  /\ Elems(queue) \subseteq Ids /\ Elems(pending) \subseteq Ids
           /\ Len(queue) \in Nat /\ Len(pending) \in Nat
           /\ DOMAIN queue = 1..Len(queue) /\ DOMAIN pending = 1..Len(pending)
BY ElemsType, LenProperties DEF TypeOK

\* What a row put into the queue, or dropped, changes.
LEMMA EnqueueEffect ==
    ASSUME TypeOK, NEW r \in Ids, Enqueue(r)
    PROVE  /\ queue' \in Seq(Ids) /\ Len(queue') <= QueueSize
           /\ lost' \in SUBSET Ids /\ lost \subseteq lost'
           /\ fresh' = fresh \ {r}
           /\ late' \in SUBSET Ids /\ late \subseteq late' /\ (main # "up" => r \in late')
           /\ r \in Elems(queue') \cup lost'
           /\ Elems(queue) \subseteq Elems(queue')
           /\ Elems(queue') \subseteq Elems(queue) \cup {r}
           /\ DOMAIN queue' \subseteq DOMAIN queue \cup {Len(queue) + 1}
           /\ \A i \in DOMAIN queue : queue'[i] = queue[i]
           /\ Len(queue) + 1 \in DOMAIN queue' => queue'[Len(queue) + 1] = r
<1> USE Params, RowsType DEF Enqueue, TypeOK
<1>1. CASE Len(queue) < QueueSize /\ queue' = Append(queue, r) /\ UNCHANGED lost
  <2>1. /\ queue' \in Seq(Ids) /\ Len(queue') = Len(queue) + 1
        /\ \A i \in 1..Len(queue) : queue'[i] = queue[i]
        /\ queue'[Len(queue) + 1] = r
    BY <1>1, AppendProperties
  <2>2. Elems(queue') = Elems(queue) \cup {r}
    BY <1>1, ElemsAppend
  <2>3. DOMAIN queue' = 1..Len(queue) + 1
    BY <2>1, LenProperties
  <2> QED
    BY <1>1, <2>1, <2>2, <2>3
<1>2. CASE lost' = lost \cup {r} /\ UNCHANGED queue
  BY <1>2
<1> QED
  BY <1>1, <1>2

\* What a get changes: the first row of the queue, if any, moves to the batch.
LEMMA GetEffect ==
    ASSUME TypeOK, Get, queue # <<>>
    PROVE  /\ pending' = Append(pending, Head(queue)) /\ queue' = Tail(queue)
           /\ pending' \in Seq(Ids) /\ Len(pending') = Len(pending) + 1
           /\ queue' \in Seq(Ids) /\ Len(queue') = Len(queue) - 1
           /\ Elems(queue) = {Head(queue)} \cup Elems(queue')
           /\ Elems(pending') = Elems(pending) \cup {Head(queue)}
           /\ Head(queue) \in Ids
<1> USE DEF TypeOK
<1>1. pending' = Append(pending, Head(queue)) /\ queue' = Tail(queue)
  BY DEF Get
<1>2. Head(queue) \in Ids
  BY HeadTailProperties
<1>3. pending' \in Seq(Ids) /\ Len(pending') = Len(pending) + 1
  BY <1>1, <1>2, AppendProperties
<1>4. queue' \in Seq(Ids) /\ Len(queue') = Len(queue) - 1
  BY <1>1, HeadTailProperties
<1> QED
  BY <1>1, <1>2, <1>3, <1>4, ElemsTail, ElemsAppend

\* What a flush changes: the good rows are stored or, like the others, reported
\* lost; an orphan's trip was neither stored nor before it in the batch, unless
\* that trip could not be written either.
LEMMA FlushEffect ==
    ASSUME TypeOK, Flush
    PROVE  \E bad \in SUBSET Elems(pending), orphan \in SUBSET Elems(pending) :
        LET good == (Elems(pending) \ bad) \ orphan IN
        /\ orphan = {pending[i] : i \in {k \in DOMAIN pending : ~HasParent(k, bad)}}
        /\ orphans' = orphans \cup orphan
        /\ \/ /\ Commit(good, {})
              /\ lost' = lost \cup (Elems(pending) \ good)
           \/ /\ CommitFails(good, {})
              /\ lost' = lost \cup Elems(pending)
        /\ failures' \in {0, OneMore(failures)}
<1>1. PICK bad \in SUBSET Elems(pending) :
       LET orphan == {pending[i] : i \in {k \in DOMAIN pending : ~HasParent(k, bad)}}
           good == (Elems(pending) \ bad) \ orphan
       IN  /\ orphans' = orphans \cup orphan
           /\ \/ /\ Commit(good, {})
                 /\ lost' = lost \cup (Elems(pending) \ good)
                 /\ failures' = IF good = {} THEN OneMore(failures) ELSE 0
              \/ /\ good \cup tx.rows \cup tx.closed # {}
                 /\ CommitFails(good, {})
                 /\ lost' = lost \cup Elems(pending)
                 /\ failures' = OneMore(failures)
  BY DEF Flush
<1> DEFINE orphan == {pending[i] : i \in {k \in DOMAIN pending : ~HasParent(k, bad)}}
<1>2. orphan \in SUBSET Elems(pending)
  BY DEF Elems
<1> HIDE DEF orphan
<1>3. orphan = {pending[i] : i \in {k \in DOMAIN pending : ~HasParent(k, bad)}}
  BY DEF orphan
<1>4. /\ orphans' = orphans \cup orphan
      /\ \/ /\ Commit((Elems(pending) \ bad) \ orphan, {})
            /\ lost' = lost \cup (Elems(pending) \ ((Elems(pending) \ bad) \ orphan))
         \/ /\ CommitFails((Elems(pending) \ bad) \ orphan, {})
            /\ lost' = lost \cup Elems(pending)
      /\ failures' \in {0, OneMore(failures)}
  BY <1>1 DEF orphan
<1> QED
  BY <1>2, <1>3, <1>4

LEMMA TypeInit == Init => TypeOK /\ BatchInv
<1> SUFFICES ASSUME Init PROVE TypeOK /\ BatchInv
  OBVIOUS
<1>1. shouldStop \in BOOLEAN
  BY Zenon DEF Init
<1> QED
  BY <1>1, Params, NoRows, NoTxType DEF Init, TypeOK, BatchInv

LEMMA TypeStep == TypeOK /\ BatchInv /\ [Next]_vars => TypeOK' /\ BatchInv'
<1> SUFFICES ASSUME TypeOK, BatchInv, [Next]_vars
             PROVE  TypeOK' /\ BatchInv'
  OBVIOUS
<1> USE Params DEF BatchInv
<1>1. CASE UNCHANGED vars
  BY <1>1 DEF vars, threadVars, history, TypeOK
<1>2. ASSUME NEW t \in Trips, StartTrip(t)
      PROVE  TypeOK' /\ BatchInv'
  <2>1. t \in Ids /\ Enqueue(t)
    BY <1>2 DEF StartTrip
  <2> QED
    BY <1>2, <2>1, EnqueueEffect DEF StartTrip, TypeOK
<1>3. ASSUME NEW r \in Readings, EnqueueRow(r)
      PROVE  TypeOK' /\ BatchInv'
  <2>1. r \in Ids /\ Enqueue(r)
    BY <1>3 DEF EnqueueRow
  <2> QED
    BY <1>3, <2>1, EnqueueEffect DEF EnqueueRow, TypeOK
<1>4. CASE EndTrip
  <2>1. cur \in Trips
    BY <1>4 DEF EndTrip, TypeOK
  <2>2. stored' \in SUBSET Ids /\ closed' \in SUBSET Trips /\ tx' \in [rows : SUBSET Ids, closed : SUBSET Trips]
    <3> DEFINE hit == {cur} \cap View
    <3>1. hit \in SUBSET Trips
      BY <2>1
    <3>2. Commit({}, hit) \/ CommitFails({}, hit) \/ UNCHANGED <<stored, closed, tx>>
      BY <1>4 DEF EndTrip
    <3> HIDE DEF hit
    <3> QED
      BY <3>1, <3>2 DEF Commit, CommitFails, View, NoTx, TypeOK
  <2>3. missed' \in SUBSET Trips
    BY <1>4, <2>1 DEF EndTrip, TypeOK
  <2> QED
    BY <1>4, <2>2, <2>3 DEF EndTrip, TypeOK
<1>5. CASE FlushDue
  BY <1>5 DEF FlushDue, StopRequested, TypeOK, history
<1>6. CASE NoFlush
  BY <1>6, NoRows DEF NoFlush, StopRequested, TypeOK, history
<1>7. CASE Get
  <2>1. CASE queue # <<>>
    BY <1>7, <2>1, GetEffect, RowsType DEF Get, TypeOK, history
  <2>2. CASE queue = <<>>
    BY <1>7, <2>2 DEF Get, TypeOK, history
  <2> QED
    BY <2>1, <2>2
<1>8. CASE Flush
  <2>1. PICK bad \in SUBSET Elems(pending), orphan \in SUBSET Elems(pending) :
            LET good == (Elems(pending) \ bad) \ orphan IN
            /\ orphan = {pending[i] : i \in {k \in DOMAIN pending : ~HasParent(k, bad)}}
            /\ orphans' = orphans \cup orphan
            /\ \/ /\ Commit(good, {})
                  /\ lost' = lost \cup (Elems(pending) \ good)
               \/ /\ CommitFails(good, {})
                  /\ lost' = lost \cup Elems(pending)
            /\ failures' \in {0, OneMore(failures)}
    BY <1>8, FlushEffect
  <2>2. orphan \subseteq Readings
    BY <2>1, RowsType DEF HasParent, Elems
  <2>3. failures' \in 0..MAX_CONSECUTIVE_FLUSH_FAILURES
    BY <2>1 DEF OneMore, TypeOK
  <2>4. stored' \in SUBSET Ids /\ closed' \in SUBSET Trips /\ tx' \in [rows : SUBSET Ids, closed : SUBSET Trips]
    BY <2>1, RowsType DEF Commit, CommitFails, View, NoTx, TypeOK
  <2>5. lost' \in SUBSET Ids /\ orphans' \in SUBSET Readings
    BY <2>1, <2>2, RowsType DEF TypeOK
  <2> QED
    BY <1>8, <2>3, <2>4, <2>5, NoRows DEF Flush, TypeOK
<1>9. CASE Main
  <2>1. CASE Boot
    <3>1. shouldStop' \in BOOLEAN
      BY <2>1, Zenon DEF Boot
    <3> QED
      BY <2>1, <3>1, NoRows, NoTxType, RowsType DEF Boot, TypeOK
  <2>2. CASE Shutdown
    BY <2>2 DEF Shutdown, TypeOK, threadVars, history
  <2>3. CASE Join
    BY <2>3, NoTxType DEF Join, TypeOK, threadVars, history
  <2>4. CASE Die
    <3>1. Volatile \subseteq Ids
      BY RowsType DEF Volatile, TypeOK
    <3> QED
      BY <2>4, <3>1, NoRows, NoTxType DEF Die, TypeOK
  <2> QED
    BY <1>9, <2>1, <2>2, <2>3, <2>4 DEF Main
<1> QED
  BY <1>1, <1>2, <1>3, <1>4, <1>5, <1>6, <1>7, <1>8, <1>9 DEF Next, Producers, Writer

-----------------------------------------------------------------------------
(* No row disappears, and a stop drains the queue.                         *)

LEMMA ConservedInit == Init => ConservedInv /\ StopInv
BY NoTxType, ElemsEmpty DEF Init, ConservedInv, StopInv, Running

LEMMA ConservedStep ==
    TypeOK /\ ConservedInv /\ StopInv /\ [Next]_vars => ConservedInv' /\ StopInv'
<1> SUFFICES ASSUME TypeOK, ConservedInv, StopInv, [Next]_vars
             PROVE  ConservedInv' /\ StopInv'
  OBVIOUS
<1> USE Params DEF ConservedInv, StopInv, Running, Accounted
<1>1. CASE UNCHANGED vars
  BY <1>1 DEF vars, threadVars, history, Elems
<1>2. ASSUME NEW t \in Trips, StartTrip(t)
      PROVE  ConservedInv' /\ StopInv'
  <2>1. t \in Ids /\ Enqueue(t) /\ main # "down" /\ begun' = begun \cup {t}
        /\ UNCHANGED <<main, wpc, shouldStop, pending, stored, tx>>
    BY <1>2 DEF StartTrip, Producing
  <2>2. UNCHANGED Elems(pending)
    BY <2>1 DEF Elems
  <2> QED
    BY <2>1, <2>2, EnqueueEffect
<1>3. ASSUME NEW r \in Readings, EnqueueRow(r)
      PROVE  ConservedInv' /\ StopInv'
  <2>1. r \in Ids /\ Enqueue(r) /\ main # "down"
        /\ UNCHANGED <<main, wpc, shouldStop, pending, begun, stored, tx>>
    BY <1>3 DEF EnqueueRow, Producing
  <2>2. UNCHANGED Elems(pending)
    BY <2>1 DEF Elems
  <2> QED
    BY <2>1, <2>2, EnqueueEffect
<1>4. CASE EndTrip
  <2>1. UNCHANGED <<main, wpc, shouldStop, queue, pending, begun, fresh, late, lost>>
    BY <1>4 DEF EndTrip
  <2>2. stored \subseteq stored'
    BY <1>4 DEF EndTrip, Commit, CommitFails, View
  <2>3. tx'.rows \subseteq lost
    <3>1. \A hit : Commit({}, hit) => tx'.rows \subseteq lost
      BY NoTxType DEF Commit
    <3>2. \A hit : CommitFails({}, hit) => tx'.rows \subseteq lost
      BY NoTxType DEF CommitFails
    <3> QED
      BY <1>4, <3>1, <3>2 DEF EndTrip
  <2> QED
    BY <2>1, <2>2, <2>3 DEF Elems
<1>5. CASE FlushDue \/ NoFlush
  <2>1. /\ UNCHANGED <<main, queue, pending, begun, fresh, late, stored, tx, lost>>
        /\ wpc' = "done" => StopRequested /\ pending = <<>>
    BY <1>5 DEF FlushDue, NoFlush, history
  <2>2. shouldStop' => StopRequested
    BY <1>5, Zenon DEF FlushDue, NoFlush
  <2>3. UNCHANGED <<Elems(queue), Elems(pending)>>
    BY <2>1 DEF Elems
  <2>4. Running /\ (StopRequested => main = "joining" /\ Elems(queue) = {})
    BY <1>5, ElemsEmpty DEF FlushDue, NoFlush, StopRequested
  <2> QED
    BY <2>1, <2>2, <2>3, <2>4
<1>6. CASE Get
  <2>1. UNCHANGED <<main, begun, shouldStop, fresh, late, stored, tx, lost>> /\ wpc' = "top" /\ Running
    BY <1>6 DEF Get, history
  <2>2. CASE queue # <<>>
    <3>1. Accounted' = Accounted
      BY <1>6, <2>1, <2>2, GetEffect
    <3>2. Elems(queue') \subseteq Elems(queue)
      BY <1>6, <2>2, GetEffect
    <3> QED
      BY <2>1, <3>1, <3>2
  <2>3. CASE queue = <<>>
    BY <1>6, <2>1, <2>3 DEF Get, Elems
  <2> QED
    BY <2>2, <2>3
<1>7. CASE Flush
  <2>1. UNCHANGED <<main, queue, begun, shouldStop, fresh, late>> /\ pending' = <<>> /\ Running
        /\ wpc' = IF shouldStop THEN "done" ELSE "get"
    BY <1>7 DEF Flush
  <2>2. stored \subseteq stored' /\ lost \subseteq lost' /\ Elems(pending) \subseteq stored' \cup lost'
        /\ tx'.rows \subseteq lost'
    BY <1>7, FlushEffect, NoTxType DEF Commit, CommitFails, View
  <2> QED
    BY <2>1, <2>2, ElemsEmpty DEF Elems
<1>8. CASE Boot
  <2>1. /\ main' = "up" /\ wpc' = "top" /\ queue' = <<>> /\ pending' = <<>> /\ begun' = {}
        /\ tx' = NoTx /\ lost' = lost \cup Elems(queue) /\ pending = <<>>
        /\ UNCHANGED <<stored, fresh>>
    BY <1>8 DEF Boot
  <2>2. ~shouldStop'
    BY <1>8, Zenon DEF Boot
  <2> QED
    BY <2>1, <2>2, ElemsEmpty, NoTxType
<1>9. CASE Shutdown
  BY <1>9 DEF Shutdown, threadVars, history, Elems
<1>10. CASE Join
  BY <1>10, NoTxType DEF Join, threadVars, history, Elems
<1>11. CASE Die
  BY <1>11, ElemsEmpty, NoTxType DEF Die, Volatile
<1> QED
  BY <1>1, <1>2, <1>3, <1>4, <1>5, <1>6, <1>7, <1>8, <1>9, <1>10, <1>11
     DEF Next, Producers, Writer, Main

-----------------------------------------------------------------------------
(* Trips come before their rows.                                           *)

LEMMA OrderInit == Init => OrderInv /\ OrphansOnlyAfterLoss
<1>1. DOMAIN <<>> = {}
  OBVIOUS
<1> QED
  BY <1>1 DEF Init, OrderInv, OrphansOnlyAfterLoss

\* What a step that leaves the sequences alone keeps.
LEMMA OrderKept ==
    ASSUME OrderInv, OrphansOnlyAfterLoss, UNCHANGED <<queue, pending, orphans>>,
           stored \subseteq stored', lost \subseteq lost'
    PROVE  OrderInv' /\ OrphansOnlyAfterLoss'
<1>1. Elems(pending)' = Elems(pending)
  BY DEF Elems
<1> QED
  BY <1>1 DEF OrderInv, OrphansOnlyAfterLoss

\* A row that is enqueued has its trip somewhere before it.
LEMMA OrderEnqueue ==
    ASSUME TypeOK, ConservedInv, OrderInv, OrphansOnlyAfterLoss, NEW r \in Ids, Enqueue(r),
           r \in Readings => Parent[r] \in begun,
           UNCHANGED <<pending, stored, orphans>>
    PROVE  OrderInv' /\ OrphansOnlyAfterLoss'
<1> USE Params, RowsType, EnqueueEffect
<1>1. Elems(pending)' = Elems(pending)
  BY DEF Elems
<1>2. OrphansOnlyAfterLoss'
  BY DEF OrphansOnlyAfterLoss
<1>3. ASSUME NEW i \in DOMAIN pending', pending'[i] \in Readings
      PROVE  \/ Parent[pending'[i]] \in stored' \cup lost'
             \/ \E j \in 1..i - 1 : pending'[j] = Parent[pending'[i]]
  BY <1>3 DEF OrderInv
<1>4. ASSUME NEW i \in DOMAIN queue', queue'[i] \in Readings
      PROVE  \/ Parent[queue'[i]] \in stored' \cup lost' \cup Elems(pending)'
             \/ \E j \in 1..i - 1 : queue'[j] = Parent[queue'[i]]
  <2>1. CASE i \in DOMAIN queue
    <3>1. queue'[i] = queue[i] /\ i \in 1..Len(queue)
      BY <2>1
    <3>2. CASE Parent[queue[i]] \in stored \cup lost \cup Elems(pending)
      BY <1>1, <3>1, <3>2
    <3>3. CASE \E j \in 1..i - 1 : queue[j] = Parent[queue[i]]
      <4>1. PICK j \in 1..i - 1 : queue[j] = Parent[queue[i]]
        BY <3>3
      <4>2. j \in DOMAIN queue
        BY <3>1, <4>1
      <4> QED
        BY <3>1, <4>1, <4>2
    <3> QED
      BY <1>4, <2>1, <3>1, <3>2, <3>3 DEF OrderInv
  <2>2. CASE i \notin DOMAIN queue
    <3>1. i = Len(queue) + 1 /\ queue'[i] = r /\ Parent[r] \in begun
      BY <1>4, <2>2
    <3>2. Parent[r] \in stored \cup lost \cup Elems(queue) \cup Elems(pending)
      BY <3>1 DEF ConservedInv, Accounted
    <3>3. CASE Parent[r] \in Elems(queue)
      <4>1. PICK j \in DOMAIN queue : queue[j] = Parent[r]
        BY <3>3 DEF Elems
      <4>2. j \in 1..i - 1 /\ queue'[j] = queue[j]
        BY <3>1, <4>1
      <4> QED
        BY <3>1, <4>1, <4>2
    <3> QED
      BY <1>1, <3>1, <3>2, <3>3
  <2> QED
    BY <2>1, <2>2
<1> QED
  BY <1>2, <1>3, <1>4 DEF OrderInv

\* The first row of the queue becomes the last of the batch.
LEMMA OrderGet ==
    ASSUME TypeOK, OrderInv, Get, queue # <<>>
    PROVE  OrderInv'
<1> USE Params, RowsType
<1>1. /\ pending' = Append(pending, Head(queue)) /\ queue' = Tail(queue)
      /\ Head(queue) \in Ids
      /\ Elems(pending') = Elems(pending) \cup {Head(queue)}
      /\ UNCHANGED <<stored, lost>>
  BY GetEffect DEF Get, history
<1>2. /\ DOMAIN pending' = 1..Len(pending) + 1
      /\ \A i \in 1..Len(pending) : pending'[i] = pending[i]
      /\ pending'[Len(pending) + 1] = Head(queue)
  BY <1>1, AppendProperties, LenProperties DEF TypeOK
<1>3. /\ Len(queue) > 0 /\ Head(queue) = queue[1]
      /\ DOMAIN queue' = 1..Len(queue) - 1
      /\ \A i \in 1..Len(queue) - 1 : queue'[i] = queue[i + 1]
  BY <1>1, HeadTailProperties, LenProperties, EmptySeq DEF TypeOK
<1>4. ASSUME NEW i \in DOMAIN pending', pending'[i] \in Readings
      PROVE  \/ Parent[pending'[i]] \in stored' \cup lost'
             \/ \E j \in 1..i - 1 : pending'[j] = Parent[pending'[i]]
  <2>1. CASE i \in DOMAIN pending
    <3>1. pending'[i] = pending[i] /\ \A j \in 1..i - 1 : pending'[j] = pending[j]
      BY <1>2, <2>1
    <3>2. \/ Parent[pending[i]] \in stored \cup lost
          \/ \E j \in 1..i - 1 : pending[j] = Parent[pending[i]]
      BY <1>4, <2>1, <3>1 DEF OrderInv
    <3> QED
      BY <1>1, <3>1, <3>2
  <2>2. CASE i \notin DOMAIN pending
    <3>1. i = Len(pending) + 1 /\ pending'[i] = queue[1] /\ 1 \in DOMAIN queue
      BY <1>2, <1>3, <2>2
    <3>2. Parent[queue[1]] \in stored \cup lost \cup Elems(pending)
      BY <1>4, <3>1 DEF OrderInv
    <3>3. CASE Parent[queue[1]] \in Elems(pending)
      <4>1. PICK j \in DOMAIN pending : pending[j] = Parent[queue[1]]
        BY <3>3 DEF Elems
      <4>2. j \in 1..i - 1 /\ pending'[j] = pending[j]
        BY <1>2, <3>1, <4>1
      <4> QED
        BY <3>1, <4>1, <4>2
    <3> QED
      BY <1>1, <3>1, <3>2, <3>3
  <2> QED
    BY <2>1, <2>2
<1>5. ASSUME NEW i \in DOMAIN queue', queue'[i] \in Readings
      PROVE  \/ Parent[queue'[i]] \in stored' \cup lost' \cup Elems(pending')
             \/ \E j \in 1..i - 1 : queue'[j] = Parent[queue'[i]]
  <2>1. queue'[i] = queue[i + 1] /\ i + 1 \in DOMAIN queue /\ i \in 1..Len(queue) - 1
    BY <1>3
  <2>2. CASE Parent[queue[i + 1]] \in stored \cup lost \cup Elems(pending)
    BY <1>1, <2>1, <2>2
  <2>3. CASE \E j \in 1..(i + 1) - 1 : queue[j] = Parent[queue[i + 1]]
    <3>1. PICK j \in 1..i : queue[j] = Parent[queue[i + 1]]
      BY <2>1, <2>3
    <3>2. CASE j = 1
      BY <1>1, <1>3, <2>1, <3>1, <3>2
    <3>3. CASE j # 1
      <4>1. j - 1 \in 1..i - 1 /\ j - 1 \in 1..Len(queue) - 1 /\ (j - 1) + 1 = j
        BY <2>1, <3>1, <3>3
      <4>2. queue'[j - 1] = queue[(j - 1) + 1]
        BY <1>3, <4>1
      <4> QED
        BY <2>1, <3>1, <4>1, <4>2
    <3> QED
      BY <3>2, <3>3
  <2> QED
    BY <1>5, <2>1, <2>2, <2>3 DEF OrderInv
<1> QED
  BY <1>4, <1>5 DEF OrderInv

\* A row that a flush refuses has a trip that was, or is now, reported lost.
LEMMA OrderFlush ==
    ASSUME TypeOK, OrderInv, OrphansOnlyAfterLoss, Flush
    PROVE  OrderInv' /\ OrphansOnlyAfterLoss'
<1> USE Params, RowsType
<1>1. PICK bad \in SUBSET Elems(pending), orphan \in SUBSET Elems(pending) :
          LET good == (Elems(pending) \ bad) \ orphan IN
          /\ orphan = {pending[i] : i \in {k \in DOMAIN pending : ~HasParent(k, bad)}}
          /\ orphans' = orphans \cup orphan
          /\ \/ /\ Commit(good, {})
                /\ lost' = lost \cup (Elems(pending) \ good)
             \/ /\ CommitFails(good, {})
                /\ lost' = lost \cup Elems(pending)
          /\ failures' \in {0, OneMore(failures)}
  BY FlushEffect
<1>2. pending' = <<>> /\ queue' = queue /\ DOMAIN pending' = {} /\ Elems(pending') = {}
  BY ElemsEmpty DEF Flush
<1>3. /\ stored \subseteq stored' /\ lost \subseteq lost'
      /\ Elems(pending) \subseteq stored' \cup lost'
      /\ bad \subseteq lost'
  BY <1>1 DEF Commit, CommitFails, View
<1>4. OrderInv'
  BY <1>2, <1>3 DEF OrderInv
<1>5. ASSUME NEW r \in orphan
      PROVE  Parent[r] \in lost'
  <2>1. PICK i \in DOMAIN pending : r = pending[i] /\ ~HasParent(i, bad)
    BY <1>1
  <2>2. r \in Readings
    BY <2>1 DEF HasParent, Elems
  <2>3. CASE Parent[r] \in stored \cup lost
    BY <1>3, <2>1, <2>3 DEF HasParent, View
  <2>4. CASE \E j \in 1..i - 1 : pending[j] = Parent[r]
    BY <1>3, <2>1, <2>4 DEF HasParent
  <2> QED
    BY <2>1, <2>2, <2>3, <2>4 DEF OrderInv
<1>6. OrphansOnlyAfterLoss'
  BY <1>1, <1>3, <1>5 DEF OrphansOnlyAfterLoss
<1> QED
  BY <1>4, <1>6

LEMMA OrderStep ==
    /\ TypeOK /\ ConservedInv /\ OrderInv /\ OrphansOnlyAfterLoss
    /\ [Next]_vars
    => OrderInv' /\ OrphansOnlyAfterLoss'
<1> SUFFICES ASSUME TypeOK, ConservedInv, OrderInv, OrphansOnlyAfterLoss, [Next]_vars
             PROVE  OrderInv' /\ OrphansOnlyAfterLoss'
  OBVIOUS
<1>1. CASE UNCHANGED vars
  BY <1>1, OrderKept DEF vars, threadVars, history
<1>2. ASSUME NEW t \in Trips, StartTrip(t)
      PROVE  OrderInv' /\ OrphansOnlyAfterLoss'
  BY <1>2, Params, OrderEnqueue DEF StartTrip
<1>3. ASSUME NEW r \in Readings, EnqueueRow(r)
      PROVE  OrderInv' /\ OrphansOnlyAfterLoss'
  BY <1>3, Params, OrderEnqueue DEF EnqueueRow
<1>4. CASE EndTrip
  <2>1. stored \subseteq stored'
    BY <1>4 DEF EndTrip, Commit, CommitFails, View
  <2> QED
    BY <1>4, <2>1, OrderKept DEF EndTrip
<1>5. CASE FlushDue \/ NoFlush
  BY <1>5, OrderKept DEF FlushDue, NoFlush, history
<1>6. CASE Get
  <2>1. CASE queue = <<>>
    BY <1>6, <2>1, OrderKept DEF Get, history
  <2>2. CASE queue # <<>>
    BY <1>6, <2>2, OrderGet DEF Get, history, OrphansOnlyAfterLoss
  <2> QED
    BY <2>1, <2>2
<1>7. CASE Flush
  BY <1>7, OrderFlush
<1>8. CASE Shutdown \/ Join
  BY <1>8, OrderKept DEF Shutdown, Join, threadVars, history
<1>9. CASE Boot \/ Die
  <2>1. /\ queue' = <<>> /\ pending' = <<>> /\ DOMAIN queue' = {} /\ DOMAIN pending' = {}
        /\ lost \subseteq lost' /\ orphans' = orphans
    BY <1>9 DEF Boot, Die, history
  <2> QED
    BY <2>1 DEF OrderInv, OrphansOnlyAfterLoss
<1> QED
  BY <1>1, <1>2, <1>3, <1>4, <1>5, <1>6, <1>7, <1>8, <1>9 DEF Next, Producers, Writer, Main

-----------------------------------------------------------------------------
(* No trip is open unnoticed.                                              *)

LEMMA TripInit == Init => TripInv
BY DEF Init, TripInv, Running

\* What a step keeps that neither begins nor ends a trip.
LEMMA TripKept ==
    ASSUME TripInv, Running' => Running, UNCHANGED <<cur, begun>>,
           stored' \cup Volatile' \subseteq stored \cup Volatile,
           closed \subseteq closed', missed \subseteq missed'
    PROVE  TripInv'
BY DEF TripInv

LEMMA TripStep == TypeOK /\ ConservedInv /\ TripInv /\ [Next]_vars => TripInv'
<1> SUFFICES ASSUME TypeOK, ConservedInv, TripInv, [Next]_vars
             PROVE  TripInv'
  OBVIOUS
<1> USE Params, NoTxType, ElemsEmpty
<1>1. CASE UNCHANGED vars
  BY <1>1, TripKept DEF vars, threadVars, history, Volatile, Elems, Running
<1>2. ASSUME NEW t \in Trips, StartTrip(t)
      PROVE  TripInv'
  <2>1. /\ t \in Ids /\ Enqueue(t) /\ cur = NoTrip
        /\ cur' = t /\ begun' = begun \cup {t}
        /\ UNCHANGED <<main, pending, stored, closed, tx, missed>>
    BY <1>2 DEF StartTrip
  <2>2. Volatile' \subseteq Volatile \cup {t}
    BY <2>1, EnqueueEffect DEF Volatile, Elems
  <2>3. Running => begun \subseteq closed \cup missed
    BY <2>1 DEF TripInv, ConservedInv
  <2> QED
    BY <2>1, <2>2, <2>3 DEF TripInv, Running
<1>3. ASSUME NEW r \in Readings, EnqueueRow(r)
      PROVE  TripInv'
  <2>1. /\ r \in Ids /\ Enqueue(r)
        /\ UNCHANGED <<main, cur, begun, pending, stored, closed, tx, missed>>
    BY <1>3 DEF EnqueueRow
  <2>2. Volatile' \subseteq Volatile \cup {r}
    BY <2>1, EnqueueEffect DEF Volatile, Elems
  <2> QED
    BY <2>1, <2>2 DEF TripInv, Running
<1>4. CASE EndTrip
  <2>1. /\ cur \in Trips /\ cur' = NoTrip
        /\ UNCHANGED <<main, begun, queue, pending>>
    BY <1>4 DEF EndTrip, TypeOK
  <2>2. PICK hit \in SUBSET {cur} :
            /\ hit = {cur} \cap View
            /\ \/ Commit({}, hit) /\ missed' = missed \cup ({cur} \ hit)
               \/ /\ CommitFails({}, hit) \/ UNCHANGED <<stored, closed, tx>>
                  /\ missed' = missed \cup {cur}
    BY <1>4 DEF EndTrip
  <2>3. closed \subseteq closed' /\ missed \subseteq missed' /\ cur \in closed' \cup missed'
    BY <2>2 DEF Commit, CommitFails
  <2>4. stored' \cup tx'.rows \subseteq stored \cup tx.rows
    BY <2>2 DEF Commit, CommitFails, View
  <2>5. stored' \cup Volatile' \subseteq stored \cup Volatile
    BY <2>1, <2>4 DEF Volatile, Elems
  <2> QED
    BY <2>1, <2>3, <2>5 DEF TripInv, Running
<1>5. CASE FlushDue \/ NoFlush
  BY <1>5, TripKept DEF FlushDue, NoFlush, history, Volatile, Elems, Running
<1>6. CASE Get
  <2>1. UNCHANGED <<main, cur, begun, stored, closed, tx, missed>>
    BY <1>6 DEF Get, history
  <2>2. Volatile' \subseteq Volatile
    <3>1. CASE queue = <<>>
      BY <1>6, <2>1, <3>1 DEF Get, Volatile, Elems
    <3>2. CASE queue # <<>>
      BY <1>6, <2>1, <3>2, GetEffect DEF Volatile
    <3> QED
      BY <3>1, <3>2
  <2> QED
    BY <2>1, <2>2, TripKept DEF Running
<1>7. CASE Flush
  <2>1. pending' = <<>> /\ UNCHANGED <<main, cur, begun, queue, missed>>
    BY <1>7 DEF Flush
  <2>2. PICK good \in SUBSET Elems(pending) : Commit(good, {}) \/ CommitFails(good, {})
    BY <1>7, FlushEffect
  <2>3. closed \subseteq closed'
    BY <2>2 DEF Commit, CommitFails
  <2>4. stored' \cup tx'.rows \subseteq stored \cup tx.rows \cup Elems(pending)
    BY <2>2 DEF Commit, CommitFails, View
  <2>5. stored' \cup Volatile' \subseteq stored \cup Volatile
    BY <2>1, <2>4 DEF Volatile, Elems
  <2> QED
    BY <2>1, <2>3, <2>5, TripKept DEF Running
<1>8. CASE Boot
  <2>1. stored' = stored /\ begun' = {} /\ Volatile' = {} /\ stored \cap Trips \subseteq closed'
    BY <1>8 DEF Boot, Volatile
  <2> QED
    BY <2>1 DEF TripInv
<1>9. CASE Shutdown
  BY <1>9, TripKept DEF Shutdown, threadVars, history, Volatile, Elems, Running
<1>10. CASE Join \/ Die
  BY <1>10 DEF Join, Die, TripInv, Running
<1> QED
  BY <1>1, <1>2, <1>3, <1>4, <1>5, <1>6, <1>7, <1>8, <1>9, <1>10
     DEF Next, Producers, Writer, Main

-----------------------------------------------------------------------------
(* The theorems.                                                           *)

\* The parts of QInv hold together in every state of queue_writer.py.
THEOREM QueueInvariant == Spec => []QInv
<1>1. Init => QInv
  BY TypeInit, ConservedInit, OrderInit, TripInit DEF QInv
<1>2. QInv /\ [Next]_vars => QInv'
  BY TypeStep, ConservedStep, OrderStep, TripStep DEF QInv
<1> QED
  BY <1>1, <1>2, PTL DEF Spec

\* Every variable of the queue writer keeps its type: neither the queue nor a
\* batch exceeds its size.
THEOREM QueueTypeCorrect == Spec => []TypeOK
<1>1. QInv => TypeOK
  BY DEF QInv
<1> QED
  BY <1>1, QueueInvariant, PTL

\* After a clean stop every row is stored or was reported lost, except what
\* producers that outlived the stop have left in the queue.
THEOREM QueueDrainedOnStop == Spec => []DrainedOnStop
<1>1. QInv => DrainedOnStop
  BY ElemsEmpty DEF QInv, StopInv, Running, ConservedInv, Accounted, DrainedOnStop
<1> QED
  BY <1>1, QueueInvariant, PTL

\* A row is refused for want of its trip only if the trip's row was reported lost.
THEOREM QueueOrphansOnlyAfterLoss == Spec => []OrphansOnlyAfterLoss
<1>1. QInv => OrphansOnlyAfterLoss
  BY DEF QInv
<1> QED
  BY <1>1, QueueInvariant, PTL

\* While the process runs, a trip that is open in the database is the current
\* one, or one whose end is known not to have reached it.
THEOREM QueueOpenTripsKnown == Spec => []OpenTripsKnown
<1>1. QInv => OpenTripsKnown
  BY DEF QInv, TripInv, Running, OpenTripsKnown
<1> QED
  BY <1>1, QueueInvariant, PTL
=============================================================================
