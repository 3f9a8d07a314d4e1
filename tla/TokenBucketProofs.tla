------------------------- MODULE TokenBucketProofs -------------------------
(***************************************************************************)
(* The pace of a token bucket, for any rate, any capacity and any number   *)
(* of callers.  Pace is not inductive: what was granted so far says        *)
(* nothing about what is left to grant.  The invariant counts both against *)
(* the same allowance.                                                     *)
(***************************************************************************)
EXTENDS TokenBucket, TLAPS

\* A sleeper that wakes finds a whole token.
SleepLongEnough == sleeper # NULL => tokens + idle + left >= Unit

\* What was granted, and what could be granted now.
Budget ==
    window.open =>
       window.granted * Unit + Filled(tokens, idle) <= Full + window.elapsed

IInv == TypeOK /\ SleepLongEnough /\ Budget

\* The bucket never holds more than its capacity, and one tick adds at most
\* one.
LEMMA FilledBounds ==
    ASSUME Parameters, NEW t \in 0 .. Full, NEW i \in 0 .. Full
    PROVE  /\ Filled(t, i) \in 0 .. Full
           /\ Filled(t, 0) = t
           /\ Aged(i) \in 0 .. Full
           /\ Filled(t, Aged(i)) <= Filled(t, i) + 1
           /\ t + Aged(i) >= Unit \/ t + Aged(i) = t + i + 1
  BY DEF Parameters, Filled, Least, Aged

\* Counting a token is adding one to an open window.
LEMMA WindowSteps ==
    ASSUME NEW w \in Window
    PROVE  /\ Counted(w) \in Window
           /\ Watched(w) \in Window
           /\ Counted(w).open = w.open
           /\ Counted(w).elapsed = w.elapsed
           /\ w.open => Counted(w).granted = w.granted + 1
           /\ Watched(w).open => /\ w.open
                                 /\ Watched(w).granted = w.granted
                                 /\ Watched(w).elapsed = w.elapsed + 1
  BY DEF Window, Counted, Watched, Closed

\* One token granted, and one tick.
LEMMA Arithmetic ==
    ASSUME Parameters, NEW g \in Nat, NEW e \in Nat, NEW f \in Nat, NEW h \in Nat,
           g * Unit + f <= Full + e
    PROVE  /\ h + Unit <= f => (g + 1) * Unit + h <= Full + e
           /\ h <= f + 1 => g * Unit + h <= Full + (e + 1)
  <1> USE DEF Parameters
  <1>1. (g + 1) * Unit = g * Unit + Unit
    OBVIOUS
  <1>2. g * Unit \in Nat
    OBVIOUS
  <1> QED
    BY <1>1, <1>2

LEMMA TypeInit ==
    ASSUME Parameters
    PROVE  Init => IInv
  BY FilledBounds DEF Parameters, Init, IInv, TypeOK, Window, Closed, SleepLongEnough, Budget

LEMMA TypeStep ==
    ASSUME Parameters
    PROVE  TypeOK /\ [Next]_vars => TypeOK'
  <1> SUFFICES ASSUME TypeOK, [Next]_vars PROVE TypeOK'
    OBVIOUS
  <1> USE DEF TypeOK, Parameters
  <1>0. /\ Closed \in Window
        /\ Opened \in Window
    BY DEF Window, Closed, Opened
  <1>a. Filled(tokens, idle) \in 0 .. Full
    BY FilledBounds
  <1>1. CASE New
    BY <1>0, <1>1 DEF New
  <1>2. ASSUME NEW c \in Callers, Call(c) PROVE TypeOK'
    BY <1>2 DEF Call
  <1>3. CASE Take
    <2>1. Tail(queue) \in Seq(Callers)
      BY <1>3 DEF Take
    <2>2. Filled(tokens, idle) - Unit \in 0 .. Full
      BY <1>a, <1>3 DEF Take
    <2> QED
      BY <1>3, <2>1, <2>2, WindowSteps DEF Take
  <1>4. CASE Sleep
    <2>1. Head(queue) \in Callers /\ Tail(queue) \in Seq(Callers)
      BY <1>4 DEF Sleep
    <2>2. Unit - Filled(tokens, idle) \in 0 .. Unit
      BY <1>a, <1>4 DEF Sleep
    <2> QED
      BY <1>a, <1>4, <2>1, <2>2 DEF Sleep
  <1>5. CASE Wake
    BY <1>5, WindowSteps DEF Wake
  <1>6. CASE Abandon
    BY <1>6 DEF Abandon
  <1>7. CASE Tick
    BY <1>7, FilledBounds, WindowSteps DEF Tick
  <1>8. CASE Watch
    BY <1>0, <1>8 DEF Watch
  <1>9. CASE UNCHANGED vars
    BY <1>9 DEF vars
  <1> QED
    BY <1>1, <1>2, <1>3, <1>4, <1>5, <1>6, <1>7, <1>8, <1>9 DEF Next

LEMMA SleepStep ==
    ASSUME Parameters
    PROVE  TypeOK /\ SleepLongEnough /\ [Next]_vars => SleepLongEnough'
  <1> SUFFICES ASSUME TypeOK, SleepLongEnough, [Next]_vars PROVE SleepLongEnough'
    OBVIOUS
  <1> USE DEF TypeOK, SleepLongEnough, Parameters
  <1>1. CASE New
    BY <1>1 DEF New
  <1>2. ASSUME NEW c \in Callers, Call(c) PROVE SleepLongEnough'
    BY <1>2 DEF Call
  <1>3. CASE Take
    BY <1>3 DEF Take
  <1>4. CASE Sleep
    <2>1. Filled(tokens, idle) \in 0 .. Full
      BY FilledBounds
    <2>2. /\ tokens' = Filled(tokens, idle)
          /\ idle' = 0
          /\ left' = Unit - Filled(tokens, idle)
      BY <1>4 DEF Sleep
    <2> QED
      BY <2>1, <2>2
  <1>5. CASE Wake \/ Abandon
    BY <1>5 DEF Wake, Abandon
  <1>6. CASE Tick
    <2>1. /\ tokens' = tokens
          /\ idle' = Aged(idle)
          /\ sleeper' = sleeper
          /\ left' = IF left > 0 THEN left - 1 ELSE left
      BY <1>6 DEF Tick
    <2>2. tokens + Aged(idle) >= Unit \/ tokens + Aged(idle) = tokens + idle + 1
      BY FilledBounds
    <2>3. Aged(idle) \in 0 .. Full
      BY FilledBounds
    <2> QED
      BY <2>1, <2>2, <2>3
  <1>7. CASE Watch
    BY <1>7 DEF Watch
  <1>8. CASE UNCHANGED vars
    BY <1>8 DEF vars
  <1> QED
    BY <1>1, <1>2, <1>3, <1>4, <1>5, <1>6, <1>7, <1>8 DEF Next

LEMMA BudgetStep ==
    ASSUME Parameters
    PROVE  TypeOK /\ SleepLongEnough /\ Budget /\ [Next]_vars => Budget'
  <1> SUFFICES ASSUME TypeOK, SleepLongEnough, Budget, [Next]_vars, window'.open
               PROVE  window'.granted * Unit + Filled(tokens', idle')
                         <= Full + window'.elapsed
    BY DEF Budget
  <1> USE DEF TypeOK, Budget, Parameters
  <1>0. /\ window \in Window
        /\ Filled(tokens, idle) \in 0 .. Full
    BY FilledBounds
  <1>1. CASE New
    BY <1>1 DEF New, Closed
  <1>2. ASSUME NEW c \in Callers, Call(c) PROVE Budget'
    BY <1>2 DEF Call
  <1>3. ASSUME window' = Counted(window),
               Filled(tokens', idle') + Unit <= Filled(tokens, idle),
               Filled(tokens', idle') \in Nat
        PROVE  window'.granted * Unit + Filled(tokens', idle') <= Full + window'.elapsed
    <2>1. /\ window.open
          /\ window'.granted = window.granted + 1
          /\ window'.elapsed = window.elapsed
      BY <1>0, <1>3, WindowSteps
    <2>2. window.granted \in Nat /\ window.elapsed \in Nat
      BY <1>0 DEF Window
    <2>3. window.granted * Unit + Filled(tokens, idle) <= Full + window.elapsed
      BY <2>1
    <2>4. Filled(tokens, idle) \in Nat
      BY <1>0
    <2> QED
      BY <1>3, <2>1, <2>2, <2>3, <2>4, Arithmetic
  <1>4. CASE Take
    <2>1. /\ tokens' = Filled(tokens, idle) - Unit
          /\ idle' = 0
          /\ Filled(tokens, idle) >= Unit
          /\ window' = Counted(window)
      BY <1>4 DEF Take
    <2>2. tokens' \in 0 .. Full
      BY <1>0, <2>1
    <2>3. Filled(tokens', idle') = tokens'
      BY <2>1, <2>2, FilledBounds
    <2> QED
      BY <1>0, <1>3, <2>1, <2>2, <2>3
  <1>5. CASE Sleep
    <2>1. Filled(tokens', idle') = Filled(tokens, idle)
      BY <1>0, <1>5, FilledBounds DEF Sleep
    <2> QED
      BY <1>5, <2>1 DEF Sleep
  <1>6. CASE Wake
    <2>1. tokens' = 0 /\ idle' = 0 /\ window' = Counted(window) /\ left = 0
      BY <1>6 DEF Wake
    <2>2. Filled(tokens, idle) >= Unit
      BY <1>6 DEF Wake, SleepLongEnough, Filled, Least
    <2>3. Filled(tokens', idle') = 0
      BY <2>1, FilledBounds
    <2> QED
      BY <1>0, <1>3, <2>1, <2>2, <2>3
  <1>7. CASE Abandon
    BY <1>7 DEF Abandon
  <1>8. CASE Tick
    <2>1. /\ window.open
          /\ window'.granted = window.granted
          /\ window'.elapsed = window.elapsed + 1
      BY <1>0, <1>8, WindowSteps DEF Tick
    <2>2. Filled(tokens', idle') <= Filled(tokens, idle) + 1
      BY <1>8, FilledBounds DEF Tick
    <2>3. window.granted \in Nat /\ window.elapsed \in Nat
      BY <1>0 DEF Window
    <2>4. tokens' \in 0 .. Full /\ idle' \in 0 .. Full
      BY <1>8, FilledBounds DEF Tick
    <2>5. Filled(tokens', idle') \in 0 .. Full
      BY <2>4, FilledBounds
    <2>6. window.granted * Unit + Filled(tokens, idle) <= Full + window.elapsed
      BY <2>1
    <2>7. Filled(tokens, idle) \in Nat /\ Filled(tokens', idle') \in Nat
      BY <1>0, <2>5
    <2> QED
      BY <2>1, <2>2, <2>3, <2>6, <2>7, Arithmetic
  <1>9. CASE Watch
    <2>1. window'.granted = 0 /\ window'.elapsed = 0
      BY <1>9 DEF Watch, Closed, Opened
    <2>2. Filled(tokens', idle') = Filled(tokens, idle)
      BY <1>9 DEF Watch
    <2> QED
      BY <1>0, <2>1, <2>2
  <1>10. CASE UNCHANGED vars
    BY <1>10 DEF vars
  <1> QED
    BY <1>1, <1>2, <1>4, <1>5, <1>6, <1>7, <1>8, <1>9, <1>10 DEF Next

LEMMA Inductive ==
    ASSUME Parameters
    PROVE  IInv /\ [Next]_vars => IInv'
  BY TypeStep, SleepStep, BudgetStep DEF IInv

LEMMA Invariant ==
    ASSUME Parameters
    PROVE  Spec => []IInv
  <1>1. Init => IInv
    BY TypeInit
  <1>2. IInv /\ [Next]_vars => IInv'
    BY Inductive
  <1> QED
    BY <1>1, <1>2, PTL DEF Spec

\* The type invariant of a bucket, for any rate and capacity.
THEOREM TypeCorrect ==
    ASSUME Parameters
    PROVE  Spec => []TypeOK
  <1>1. Spec => []IInv
    BY Invariant
  <1> QED
    BY <1>1, PTL DEF IInv

\* In no stretch of time are more tokens granted than the bucket holds plus
\* what grows meanwhile: acquire() keeps the configured rate.
THEOREM PaceKept ==
    ASSUME Parameters
    PROVE  Spec => []Pace
  <1>1. IInv => Pace
    <2> SUFFICES ASSUME IInv PROVE Pace
      OBVIOUS
    <2> USE DEF Parameters
    <2>1. window \in Window /\ Filled(tokens, idle) \in 0 .. Full
      BY FilledBounds DEF IInv, TypeOK
    <2>2. window.granted \in Nat /\ window.elapsed \in Nat
      BY <2>1 DEF Window
    <2>3. CASE window.open
      <3>1. window.granted * Unit \in Nat
        BY <2>2
      <3> QED
        BY <2>1, <2>2, <2>3, <3>1 DEF IInv, Budget, Pace
    <2>4. CASE ~window.open
      BY <2>1, <2>4 DEF Window, Closed, Pace
    <2> QED
      BY <2>3, <2>4
  <1>2. Spec => []IInv
    BY Invariant
  <1> QED
    BY <1>1, <1>2, PTL
=============================================================================
