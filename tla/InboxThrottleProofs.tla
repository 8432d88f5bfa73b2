------------------------ MODULE InboxThrottleProofs ------------------------
(* The failure budget of an address is exceeded only by the workers past its *)
(* check, and the wait a peer is told frees a row, for any limit, window,    *)
(* number of workers and resolution of the clock.                            *)
(*                                                                           *)
(* The count alone is not inductive: what never grows past the bound is the  *)
(* count with the workers at work added (`Room`).  A wait is compared with   *)
(* the oldest row while the budget is exceeded as far as it can be           *)
(* (`Waits`).                                                                *)
EXTENDS InboxThrottle, FiniteSetTheorems, SequenceTheorems, TLAPS

Full == Limit + Cardinality(Workers) - 1

Sorted(q) == \A i, j \in 1..Len(q) : i <= j => q[j] <= q[i]

Typed ==
  /\ rows \in [Sources -> Seq(Ages)]
  /\ \A s \in Sources : Sorted(rows[s])
  /\ pc \in [Workers -> PCs]
  /\ from \in [Workers -> Sources]
  /\ told \in [Sources -> (0..MaxHint) \cup {NoHint}]

Room ==
  \A s \in Sources :
    IF s \in Unparsed THEN rows[s] = <<>>
    ELSE Len(rows[s]) + Cardinality(AtWork(s)) <= Full

\* While no row can be added the oldest one goes before the told wait is over.
Waits ==
  \A s \in Sources :
    told[s] # NoHint /\ Len(rows[s]) >= Full => Head(rows[s]) + told[s] >= Window

IInv == Typed /\ Room /\ Waits

-----------------------------------------------------------------------------
LEMMA Constants ==
  /\ Limit \in Nat /\ Limit > 0 /\ Window \in Nat /\ Window > 0
  /\ TicksPerSecond \in Nat /\ TicksPerSecond > 0
  /\ EmptyHint \in Nat /\ EmptyHint > 0 /\ NoHint \notin Nat
  /\ Cardinality(Workers) \in Nat /\ Cardinality(Workers) > 0
  /\ Full \in Nat /\ Full > 0
<1>1. Cardinality(Workers) \in Nat /\ Cardinality(Workers) # 0
  BY ThrottleAssumption, FS_CardinalityType, FS_EmptySet
<1> QED
  BY <1>1, ThrottleAssumption DEF Full

LEMMA RoundedUp ==
  ASSUME NEW a \in Nat, a > 0, NEW b \in Nat, b > 0
  PROVE  /\ CeilDiv(a, b) \in Nat /\ CeilDiv(a, b) > 0
         /\ CeilDiv(a, b) * b >= a /\ CeilDiv(a, b) * b < a + b
  BY DEF CeilDiv

LEMMA AtWorkIsFinite ==
  ASSUME NEW s
  PROVE  /\ IsFiniteSet(AtWork(s)) /\ Cardinality(AtWork(s)) \in Nat
         /\ Cardinality(AtWork(s)) <= Cardinality(Workers)
  BY ThrottleAssumption, FS_Subset, FS_CardinalityType DEF AtWork

-----------------------------------------------------------------------------
(* The clock                                                                 *)

\* The rows that go are the oldest, and there is none to go or all that stay
\* grow older by a tick.
LEMMA OlderProperties ==
  ASSUME NEW q \in Seq(Ages), Sorted(q)
  PROVE  /\ Older(q) \in Seq(Ages) /\ Sorted(Older(q))
         /\ Len(Older(q)) <= Len(q)
         /\ Len(Older(q)) = Len(q) /\ q # <<>> => Head(Older(q)) = Head(q) + 1
<1> DEFINE Out == {i \in 1..Len(q) : q[i] = Window - 1}
           out == Cardinality(Out)
<1>1. Len(q) \in Nat /\ \A i \in 1..Len(q) : q[i] \in 0..(Window - 1)
  BY ElementOfSeq, LenProperties DEF Ages
<1>2. /\ IsFiniteSet(1..Len(q)) /\ \A i \in 0..Len(q) : Cardinality(1..i) = i
  BY <1>1, FS_Interval
<1>3. IsFiniteSet(Out) /\ out \in Nat /\ out <= Len(q)
  BY <1>1, <1>2, FS_Subset, FS_CardinalityType
<1>4. \A i \in Out : i <= out
  <2> SUFFICES ASSUME NEW i \in Out PROVE i <= out
    OBVIOUS
  <2>1. \A j \in 1..i : j \in Out
    BY <1>1, Constants DEF Sorted
  <2>2. 1..i \subseteq Out
    BY <2>1
  <2>3. Cardinality(1..i) <= out
    BY <2>2, <1>3, FS_Subset
  <2> QED
    BY <1>1, <1>2, <2>3
<1>5. \A i \in 1..Len(q) : i > out => q[i] + 1 \in Ages
  <2> SUFFICES ASSUME NEW i \in 1..Len(q), i > out PROVE q[i] + 1 \in Ages
    OBVIOUS
  <2>1. i \notin Out
    BY <1>1, <1>3, <1>4
  <2>2. q[i] # Window - 1
    BY <2>1
  <2> QED
    BY <2>2, <1>1, Constants DEF Ages
<1> DEFINE n == Len(q) - out
<1>6. n \in Nat /\ Older(q) = [i \in 1..n |-> q[i + out] + 1]
  BY <1>1, <1>3 DEF Older
<1> HIDE DEF Out, out
<1>7. \A i \in 1..n : i + out \in 1..Len(q) /\ i + out > out
  BY <1>1, <1>3, <1>6
<1>8. Older(q) \in Seq(Ages) /\ Len(Older(q)) = n
  <2>1. \A i \in 1..n : q[i + out] + 1 \in Ages
    BY <1>5, <1>7
  <2>2. Older(q) \in [1..n -> Ages]
    BY <2>1, <1>6
  <2> QED
    BY <2>2, <1>6, SeqDef, LenProperties
<1>9. Sorted(Older(q))
  BY <1>1, <1>3, <1>6, <1>7, <1>8 DEF Sorted, Ages
<1>10. ASSUME Len(Older(q)) = Len(q), q # <<>>
       PROVE  Head(Older(q)) = Head(q) + 1
  <2>1. out = 0 /\ n = Len(q) /\ Len(q) > 0
    BY <1>1, <1>3, <1>8, <1>10, EmptySeq
  <2>2. Older(q)[1] = q[1] + 1
    BY <1>6, <2>1
  <2> QED
    BY <2>1, <2>2, <1>8
<1> QED
  BY <1>1, <1>3, <1>8, <1>9, <1>10
\* Only the rows and the told waits change, and no source's rows grow in number.
LEMMA TickKeeps == IInv /\ Tick => IInv'
<1> SUFFICES ASSUME IInv, Tick PROVE IInv'
  OBVIOUS
<1> USE DEF IInv, Typed
<1>1. \A s \in Sources : rows'[s] = Older(rows[s]) /\ rows[s] \in Seq(Ages)
  BY DEF Tick
<1>2. \A s \in Sources :
        /\ rows'[s] \in Seq(Ages) /\ Sorted(rows'[s])
        /\ Len(rows'[s]) <= Len(rows[s])
        /\ Len(rows'[s]) = Len(rows[s]) /\ rows[s] # <<>>
             => Head(rows'[s]) = Head(rows[s]) + 1
  BY <1>1, OlderProperties
<1>3. \A s \in Sources : Len(rows[s]) \in Nat /\ Len(rows'[s]) \in Nat
  BY <1>1, <1>2, LenProperties
<1>4. UNCHANGED <<pc, from>>
  BY DEF Tick
<1>5. \A s \in Sources : told'[s] = IF told[s] \in {NoHint, 0} THEN told[s]
                                                              ELSE told[s] - 1
  BY DEF Tick
<1>6. \A s \in Sources : told[s] \in 0..MaxHint \/ told[s] = NoHint
  OBVIOUS
<1>7. MaxHint \in Nat
  BY Constants DEF MaxHint, Larger
<1>8. Typed'
  <2>1. told' \in [Sources -> (0..MaxHint) \cup {NoHint}]
    BY <1>5, <1>6, <1>7, Constants DEF Tick
  <2>2. rows' \in [Sources -> Seq(Ages)]
    BY <1>1, <1>2 DEF Tick
  <2> QED
    BY <1>2, <1>4, <2>1, <2>2
<1>9. Room'
  <2> SUFFICES ASSUME NEW s \in Sources
               PROVE  IF s \in Unparsed THEN rows'[s] = <<>>
                      ELSE Len(rows'[s]) + Cardinality(AtWork(s)') <= Full
    BY DEF Room
  <2>1. AtWork(s)' = AtWork(s)
    BY <1>4 DEF AtWork
  <2>2. CASE s \in Unparsed
    <3>1. rows[s] = <<>> /\ Len(rows'[s]) = 0
      BY <1>2, <1>3, <2>2, EmptySeq DEF Room
    <3> QED
      BY <3>1, <2>2, <1>2, EmptySeq
  <2>3. CASE s \notin Unparsed
    BY <1>2, <1>3, <2>1, <2>3, AtWorkIsFinite, Constants DEF Room
  <2> QED
    BY <2>2, <2>3
<1>10. Waits'
  <2> SUFFICES ASSUME NEW s \in Sources, told'[s] # NoHint, Len(rows'[s]) >= Full
               PROVE  Head(rows'[s]) + told'[s] >= Window
    BY DEF Waits, Full
  <2>1. Len(rows[s]) = Len(rows'[s]) /\ rows[s] # <<>>
    <3>1. Len(rows[s]) <= Full
      <4>1. CASE s \in Unparsed
        BY <4>1, Constants, EmptySeq DEF Room
      <4>2. CASE s \notin Unparsed
        BY <4>2, <1>3, AtWorkIsFinite, Constants DEF Room
      <4> QED
        BY <4>1, <4>2
    <3> QED
      BY <3>1, <1>2, <1>3, Constants, EmptySeq
  <2>2. /\ told[s] \in 0..MaxHint
        /\ Head(rows[s]) \in 0..(Window - 1) /\ Head(rows[s]) + told[s] >= Window
    <3>1. told[s] # NoHint
      BY <1>5
    <3>2. Head(rows[s]) \in Ages
      BY <1>1, <2>1, HeadTailProperties
    <3> QED
      BY <3>1, <3>2, <1>6, <2>1 DEF Waits, Ages
  <2>3. told[s] # 0 /\ told[s] # NoHint
    BY <2>2, Constants, <1>7
  <2> QED
    BY <2>1, <2>2, <2>3, <1>2, <1>5, <1>7, Constants
<1> QED
  BY <1>8, <1>9, <1>10

-----------------------------------------------------------------------------
(* The workers                                                               *)

LEMMA IInvInit == Init => IInv
<1> SUFFICES ASSUME Init PROVE IInv
  OBVIOUS
<1>1. <<>> \in Seq(Ages) /\ Len(<<>>) = 0
  BY EmptySeq
<1>2. Typed
  BY <1>1 DEF Init, Typed, Sorted, PCs
<1>3. Room
  <2> SUFFICES ASSUME NEW s \in Sources
               PROVE  rows[s] = <<>> /\ Len(rows[s]) + Cardinality(AtWork(s)) <= Full
    BY DEF Room
  <2>1. AtWork(s) = {}
    BY DEF Init, AtWork
  <2> QED
    BY <2>1, <1>1, FS_EmptySet, Constants DEF Init
<1>4. Waits
  BY DEF Init, Waits
<1> QED
  BY <1>2, <1>3, <1>4 DEF IInv

\* A worker goes to work on a source only below the limit.
LEMMA CheckKeeps ==
  ASSUME IInv, NEW w \in Workers, NEW s \in Sources, Check(w, s)
  PROVE  IInv'
<1> USE DEF IInv, Typed
<1>1. Typed' /\ Waits'
  BY DEF Check, PCs, Waits, Full
<1>2. Room'
  <2> SUFFICES ASSUME NEW t \in Sources
               PROVE  IF t \in Unparsed THEN rows'[t] = <<>>
                      ELSE Len(rows'[t]) + Cardinality(AtWork(t)') <= Full
    BY DEF Room
  <2>1. rows' = rows /\ Len(rows[t]) \in Nat
    BY LenProperties DEF Check
  <2>2. CASE AtWork(t)' = AtWork(t)
    BY <2>1, <2>2 DEF Room, Full
  <2>3. CASE AtWork(t)' # AtWork(t) /\ t \notin Unparsed
    <3>1. t = s /\ ~inbox_blocked(s)
      BY <2>3 DEF Check, AtWork
    <3>2. Len(rows[t]) < Limit
      BY <3>1, <2>1, <2>3, Constants DEF inbox_blocked, CountOf
    <3>3. Cardinality(AtWork(t)') \in Nat
          /\ Cardinality(AtWork(t)') <= Cardinality(Workers)
      <4>1. AtWork(t)' \subseteq Workers
        BY DEF AtWork
      <4> QED
        BY <4>1, ThrottleAssumption, FS_Subset, FS_CardinalityType
    <3> QED
      BY <2>1, <2>3, <3>2, <3>3, Constants DEF Full
  <2>4. CASE t \in Unparsed
    BY <2>1, <2>4 DEF Room
  <2> QED
    BY <2>2, <2>3, <2>4
<1> QED
  BY <1>1, <1>2

LEMMA UncountedKeeps ==
  ASSUME IInv, NEW w \in Workers, Uncounted(w)
  PROVE  IInv'
<1> USE DEF IInv, Typed
<1>1. Typed' /\ Waits'
  BY DEF Uncounted, PCs, Waits, Full
<1>2. Room'
  <2> SUFFICES ASSUME NEW t \in Sources
               PROVE  IF t \in Unparsed THEN rows'[t] = <<>>
                      ELSE Len(rows'[t]) + Cardinality(AtWork(t)') <= Full
    BY DEF Room
  <2>1. rows' = rows /\ Len(rows[t]) \in Nat
    BY LenProperties DEF Uncounted
  <2>2. AtWork(t)' \subseteq AtWork(t)
    BY DEF Uncounted, AtWork
  <2>3. Cardinality(AtWork(t)') \in Nat
        /\ Cardinality(AtWork(t)') <= Cardinality(AtWork(t))
    BY <2>2, AtWorkIsFinite, FS_Subset, FS_CardinalityType
  <2> QED
    BY <2>1, <2>3, AtWorkIsFinite, Constants DEF Room
<1> QED
  BY <1>1, <1>2

\* A row is added for a worker that is at work no longer.
LEMMA RecordFailureKeeps ==
  ASSUME IInv, NEW w \in Workers, RecordFailure(w)
  PROVE  IInv'
<1> USE DEF IInv, Typed
<1>1. CASE from[w] \in Unparsed
  <2>1. UNCHANGED <<rows, told, from>> /\ pc' = [pc EXCEPT ![w] = "idle"]
    BY <1>1 DEF RecordFailure
  <2>2. Uncounted(w)
    BY <2>1 DEF RecordFailure, Uncounted
  <2> QED
    BY <2>2, UncountedKeeps
<1>2. CASE from[w] \notin Unparsed
  <2> DEFINE s == from[w]
             q == rows[s]
  <2>1. s \in Sources /\ q \in Seq(Ages) /\ Len(q) \in Nat /\ Sorted(q)
    BY LenProperties
  <2>2. /\ rows' = [rows EXCEPT ![s] = Append(q, 0)] /\ from' = from
        /\ told' = [told EXCEPT ![s] = NoHint]
        /\ pc' = [pc EXCEPT ![w] = "idle"] /\ pc[w] = "work"
    BY <1>2 DEF RecordFailure, NewRow
  <2>3. 0 \in Ages
    BY Constants DEF Ages
  <2>4. /\ Append(q, 0) \in Seq(Ages) /\ Len(Append(q, 0)) = Len(q) + 1
        /\ \A i \in 1..Len(q) + 1 :
             Append(q, 0)[i] = IF i = Len(q) + 1 THEN 0 ELSE q[i]
    BY <2>1, <2>3
  <2>5. Sorted(Append(q, 0))
    <3>1. \A i \in 1..Len(q) : q[i] \in Nat
      <4>1. \A i \in 1..Len(q) : q[i] \in Ages
        BY <2>1, ElementOfSeq
      <4>2. Ages \subseteq Nat
        BY Constants DEF Ages
      <4> QED
        BY <4>1, <4>2
    <3> QED
      BY <3>1, <2>1, <2>4 DEF Sorted
  <2> HIDE DEF q, s
  <2>6. Typed'
    BY <2>1, <2>2, <2>4, <2>5 DEF PCs
  <2>7. Room'
    <3> SUFFICES ASSUME NEW t \in Sources
                 PROVE  IF t \in Unparsed THEN rows'[t] = <<>>
                        ELSE Len(rows'[t]) + Cardinality(AtWork(t)') <= Full
      BY DEF Room
    <3>1. CASE t # s
      <4>1. rows'[t] = rows[t] /\ AtWork(t)' = AtWork(t)
        BY <2>2, <3>1 DEF AtWork, s
      <4> QED
        BY <4>1 DEF Room, Full
    <3>2. CASE t = s
      <4>1. AtWork(t)' = AtWork(t) \ {w} /\ w \in AtWork(t)
        BY <2>2, <3>2 DEF AtWork, s
      <4>2. Cardinality(AtWork(t)') = Cardinality(AtWork(t)) - 1
        BY <4>1, AtWorkIsFinite, FS_RemoveElement
      <4>3. rows'[t] = Append(q, 0) /\ rows[t] = q /\ t \notin Unparsed
        BY <1>2, <2>1, <2>2, <3>2 DEF q, s
      <4> QED
        BY <4>2, <4>3, <2>1, <2>4, AtWorkIsFinite, Constants DEF Room
    <3> QED
      BY <3>1, <3>2
  <2>8. Waits'
    BY <2>1, <2>2 DEF Waits, Full
  <2> QED
    BY <2>6, <2>7, <2>8
<1> QED
  BY <1>1, <1>2

\* The wait is rounded up, so that it outlasts the oldest row.
LEMMA RetryAfterKeeps ==
  ASSUME IInv, NEW w \in Workers, RetryAfter(w)
  PROVE  IInv'
<1> USE DEF IInv, Typed
<1> DEFINE s == from[w]
           wait == retry_after_seconds(s) * TicksPerSecond
<1>1. s \in Sources /\ rows[s] \in Seq(Ages)
  OBVIOUS
<1>2. /\ told' = [told EXCEPT ![s] = wait] /\ pc' = [pc EXCEPT ![w] = "idle"]
      /\ UNCHANGED <<rows, from>>
  BY DEF RetryAfter
<1>3. /\ MaxHint \in Nat /\ Window + TicksPerSecond <= MaxHint
      /\ EmptyHint * TicksPerSecond \in Nat
      /\ EmptyHint * TicksPerSecond <= MaxHint
  BY Constants DEF MaxHint, Larger
<1> DEFINE Outlasts == Len(rows[s]) = 0 \/ Head(rows[s]) + wait >= Window
<1>4. ASSUME s \in Unparsed \/ rows[s] = <<>>
      PROVE  wait \in 0..MaxHint /\ Outlasts
  <2>1. wait \in {1 * TicksPerSecond, EmptyHint * TicksPerSecond}
    BY <1>4 DEF retry_after_seconds
  <2>2. wait \in 0..MaxHint
    BY <2>1, <1>3, Constants
  <2>3. Len(rows[s]) = 0
    BY <1>4, EmptySeq DEF Room
  <2> QED
    BY <2>2, <2>3
<1>5. ASSUME s \notin Unparsed, rows[s] # <<>>
      PROVE  wait \in 0..MaxHint /\ Outlasts
  <2> DEFINE left == Window - Head(rows[s])
             secs == CeilDiv(left, TicksPerSecond)
  <2>1. Head(rows[s]) \in 0..(Window - 1)
    BY <1>1, <1>5, HeadTailProperties DEF Ages
  <2>2. left \in Nat /\ left > 0 /\ left <= Window
    BY <2>1, Constants
  <2>3. /\ secs \in Nat /\ secs > 0 /\ secs * TicksPerSecond >= left
        /\ secs * TicksPerSecond < left + TicksPerSecond
    BY <2>2, RoundedUp, Constants
  <2>4. retry_after_seconds(s) = Larger(1, secs)
    BY <1>5 DEF retry_after_seconds
  <2> HIDE DEF secs
  <2>5. wait = secs * TicksPerSecond
    BY <2>3, <2>4 DEF Larger
  <2> HIDE DEF wait
  <2> DEFINE product == secs * TicksPerSecond
  <2>6. product \in Nat
    BY <2>3, Constants
  <2> QED
    BY <2>1, <2>2, <2>3, <2>5, <2>6, <1>3, Constants
<1> HIDE DEF wait
<1>6. wait \in 0..MaxHint /\ Outlasts
  BY <1>4, <1>5
<1>7. Typed'
  BY <1>2, <1>6 DEF PCs
<1>8. Waits'
  BY <1>1, <1>2, <1>6, Constants DEF Waits, Full
<1>9. Room'
  <2> SUFFICES ASSUME NEW t \in Sources
               PROVE  IF t \in Unparsed THEN rows'[t] = <<>>
                      ELSE Len(rows'[t]) + Cardinality(AtWork(t)') <= Full
    BY DEF Room
  <2>1. rows' = rows /\ AtWork(t)' = AtWork(t)
    BY <1>2 DEF RetryAfter, AtWork
  <2> QED
    BY <2>1 DEF Room, Full
<1> QED
  BY <1>7, <1>8, <1>9

LEMMA IInvStep == IInv /\ [Next]_vars => IInv'
<1> SUFFICES ASSUME IInv, [Next]_vars PROVE IInv'
  OBVIOUS
<1>1. CASE UNCHANGED vars
  BY <1>1 DEF IInv, Typed, Room, AtWork, Waits, Full, vars
<1> QED
  BY <1>1, CheckKeeps, UncountedKeeps, RecordFailureKeeps, RetryAfterKeeps,
     TickKeeps DEF Next

\* Failures in a window stay within the limit plus the workers that were past
\* the check, and a source that is no address is never counted.
THEOREM FailuresAreBounded == Spec => []FailuresBounded
<1>1. IInv => FailuresBounded
  <2> SUFFICES ASSUME IInv PROVE FailuresBounded
    OBVIOUS
  <2>1. TypeOK
    BY DEF IInv, Typed, TypeOK
  <2>2. ASSUME NEW s \in Sources
        PROVE  IF s \in Unparsed THEN CountOf(s) = 0
               ELSE CountOf(s) + Cardinality(AtWork(s)) <= Full
    BY EmptySeq DEF IInv, Room, CountOf
  <2> QED
    BY <2>1, <2>2 DEF FailuresBounded, Full
<1> QED
  BY <1>1, IInvInit, IInvStep, PTL DEF Spec

\* When a told wait is over and no failure was counted since, a row has gone.
THEOREM ToldWaitsHold == Spec => []ToldWaitFreesARow
<1>1. IInv => ToldWaitFreesARow
  <2> SUFFICES ASSUME IInv, NEW s \in Sources, told[s] = 0
               PROVE  Len(rows[s]) < Full
    BY DEF ToldWaitFreesARow, CountOf, Full
  <2>1. rows[s] \in Seq(Ages) /\ Len(rows[s]) \in Nat
    BY LenProperties DEF IInv, Typed
  <2>2. ASSUME rows[s] # <<>> PROVE Head(rows[s]) < Window
    <3>1. Head(rows[s]) \in Ages
      BY <2>1, <2>2, HeadTailProperties
    <3> QED
      BY <3>1, Constants DEF Ages
  <2>3. ASSUME rows[s] # <<>> PROVE Head(rows[s]) \in Int
    BY <2>1, <2>3, HeadTailProperties, Constants DEF Ages
  <2> QED
    BY <2>1, <2>2, <2>3, Constants, EmptySeq DEF IInv, Waits
<1> QED
  BY <1>1, IInvInit, IInvStep, PTL DEF Spec
=============================================================================
