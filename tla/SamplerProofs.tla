---------------------------- MODULE SamplerProofs ----------------------------
(* Sampler: type correctness and the hand-over of samples, for every length   *)
(* of the sample, the ring, the button's dead time and the pass that satisfy  *)
(* SamplerAssumption.                                                         *)
EXTENDS MCSampler, Recursion, SequenceTheorems

\* TypeOK alone is not inductive for HandOver: that the ring is safe follows
\* from how young the pending sample is.
IInv == TypeOK /\ PendingIsYoung

\* The invariant holds at first.
LEMMA InitIInv == Init => IInv
BY SamplerAssumption
   DEF Init, ModeInit, IInv, TypeOK, PendingIsYoung, MenuBound, WifiBound, DataBound,
       SkipBound, TakingBound, DataModes, Modes, Early, Taking, Late, NoData, Elapsed, Heading

-----------------------------------------------------------------------------
(* The types.                                                                 *)

\* A tick keeps the types ...
LEMMA TickTypeOK == TypeOK /\ Tick => TypeOK'
<1> SUFFICES ASSUME TypeOK, Tick PROVE TypeOK'
  OBVIOUS
<1>1. /\ count' \in Nat /\ count' < SENSOR_CALC_INTERVAL
      /\ sensor_low' \in 0..count'
      /\ new_data' \in {0, 1}
      /\ sensor_data' \in [0..DATA_AVE_NUMBER -> 0..SENSOR_CALC_INTERVAL]
  <2> USE SamplerAssumption DEF TypeOK
  <2>1. CASE mode \notin DataModes
    BY <2>1 DEF Tick, Sense
  <2>2. CASE mode \in DataModes
    <3>1. PICK low \in 0..1 :
            \/ /\ count + 1 < SENSOR_CALC_INTERVAL
               /\ count' = count + 1
               /\ sensor_low' = sensor_low + low
               /\ UNCHANGED <<new_data, sensor_data>>
            \/ /\ count + 1 >= SENSOR_CALC_INTERVAL
               /\ count' = 0
               /\ sensor_low' = 0
               /\ sensor_data' =
                    [sensor_data EXCEPT ![new_data_ptr] = sensor_low + low]
               /\ new_data' = 1
      BY <2>2 DEF Tick, Sense
    <3>2. sensor_low + low \in 0..SENSOR_CALC_INTERVAL
      OBVIOUS
    <3>3. sensor_data' \in [0..DATA_AVE_NUMBER -> 0..SENSOR_CALC_INTERVAL]
      BY <3>1, <3>2
    <3>4. /\ count' \in Nat /\ count' < SENSOR_CALC_INTERVAL
          /\ sensor_low' \in 0..count'
          /\ new_data' \in {0, 1}
      BY <3>1
    <3> QED
      BY <3>3, <3>4
  <2> QED
    BY <2>1, <2>2
<1>2. mode' \in Modes /\ cooldown' \in 0..FB_TIMER_CD
  BY SamplerAssumption DEF TypeOK, Tick, Poll, Pressed, LongPressed, DataModes, Modes
<1>3. pc' \in Early \cup Taking \cup Late /\ ticks' \in 0..PassTicks
  BY SamplerAssumption DEF TypeOK, Tick, Early
<1>4. new_data_ptr' = DATA_AVE_NUMBER => pc' = "wrap"
  BY DEF TypeOK, Tick
<1> QED
  BY <1>1, <1>2, <1>3, <1>4 DEF TypeOK, Tick

\* ... and so does the main loop.
LEMMA MainTypeOK == TypeOK /\ Main => TypeOK'
<1> SUFFICES ASSUME TypeOK, Main PROVE TypeOK'
  OBVIOUS
<1> USE SamplerAssumption
    DEF TypeOK, Goto, panel, sensing, ring, DataModes, Modes, Early, Taking, Late
<1>1. CASE SeeState
  BY <1>1 DEF SeeState
<1>2. CASE SwitchState
  BY <1>2 DEF SwitchState, SetupDone, ClearData, NoData
<1>3. CASE ExpireButton
  BY <1>3 DEF ExpireButton, Expiry, LongPressed, DataModes
<1>4. CASE CheckPm25 \/ CheckTime \/ CheckNewData \/ TakeData \/ EndPass
  BY <1>4 DEF CheckPm25, CheckTime, CheckNewData, TakeData, EndPass
<1>5. CASE BumpPointer
  BY <1>5 DEF BumpPointer
<1>6. CASE WrapPointer
  BY <1>6 DEF WrapPointer
<1>7. CASE AddSample
  <2>1. i < current_data_number => sensor_data[i] \in Nat
    OBVIOUS
  <2>2. raw' \in Nat /\ i' \in 0..DATA_AVE_NUMBER
    BY <1>7, <2>1 DEF AddSample
  <2> QED
    BY <1>7, <2>2 DEF AddSample
<1>8. CASE PublishMean
  BY <1>8 DEF PublishMean
<1> QED
  BY <1>1, <1>2, <1>3, <1>4, <1>5, <1>6, <1>7, <1>8 DEF Main

-----------------------------------------------------------------------------
(* The age of the pending sample.                                             *)

\* A tick leaves no value pending for long ...
LEMMA TickPendingIsYoung == IInv /\ Tick => PendingIsYoung'
<1> SUFFICES ASSUME IInv, Tick PROVE PendingIsYoung'
  OBVIOUS
<1> USE SamplerAssumption DEF IInv, TypeOK
<1>1. pc \in Taking => count + 1 < SENSOR_CALC_INTERVAL
  BY DEF PendingIsYoung, TakingBound, Elapsed, Taking, Late
<1>2. \/ pc = "pause" /\ pc' = "top" /\ ticks' = 0
      \/ pc # "pause" /\ pc' = pc /\ ticks < PassTicks /\ ticks' = ticks + 1
  BY DEF Tick
<1>3. /\ count' \in Nat
      /\ count' <= count + 1
      /\ mode \notin DataModes => count' = count
      /\ mode \notin DataModes => new_data' = new_data
      /\ new_data' = 1 => new_data = 1 \/ count' = 0
      /\ pc \in Taking => new_data' = new_data
  BY <1>1 DEF Tick, Sense
<1>4. /\ cooldown' \in Nat
      /\ cooldown' >= cooldown - 1
      /\ mode # "menu" /\ mode' = "menu" => cooldown <= 1
      /\ mode = "menu" /\ mode' # "menu" => cooldown' = FB_TIMER_CD
      /\ mode = "wifi" => mode' = "wifi"
      /\ mode # "PM25" /\ mode' = "PM25" => cooldown <= 1 /\ cooldown' = FB_TIMER_CD
  BY DEF Tick, Poll, Pressed, LongPressed, DataModes, Modes
<1>6. MenuBound'
  BY <1>2, <1>3, <1>4
     DEF PendingIsYoung, MenuBound, DataBound, Heading, DataModes, Modes, Elapsed, Late
<1>7. WifiBound'
  <2> SUFFICES ASSUME mode' = "wifi", new_data' = 1
               PROVE  count' <= 4 * PassTicks + 2
    BY DEF WifiBound
  <2>1. CASE mode = "wifi"
    BY <2>1, <1>3 DEF PendingIsYoung, WifiBound, DataModes
  <2>2. CASE mode = "menu"
    BY <2>2, <1>3 DEF PendingIsYoung, MenuBound
  <2>3. CASE mode \in DataModes
    BY <2>3, <1>2, <1>3 DEF PendingIsYoung, DataBound, Heading, Elapsed, Late
  <2> QED
    BY <2>1, <2>2, <2>3 DEF DataModes, Modes
<1>8. DataBound'
  <2> SUFFICES ASSUME Heading', new_data' = 1
               PROVE  /\ count' <= Elapsed' + 2 * PassTicks + 1
                      /\ count' > Elapsed' => cooldown' + Elapsed' >= FB_TIMER_CD
    BY DEF DataBound
  <2>1. CASE mode = "menu"
    <3>1. count' <= 2 * PassTicks + 1 /\ cooldown' = FB_TIMER_CD
      BY <2>1, <1>3, <1>4 DEF Heading, DataModes, PendingIsYoung, MenuBound
    <3> QED
      BY <2>1, <3>1, <1>2, <1>3 DEF Elapsed, DataModes
  <2>2. CASE mode # "menu"
    <3>1. Heading
      BY <2>2, <1>2, <1>4 DEF Heading, DataModes, Modes, Late
    <3>2. \/ count' = 0
          \/ /\ count <= Elapsed + 2 * PassTicks + 1
             /\ count > Elapsed => cooldown + Elapsed >= FB_TIMER_CD
      BY <3>1, <1>3 DEF PendingIsYoung, DataBound
    <3>3. count' <= Elapsed' + 2 * PassTicks + 1
      BY <3>2, <1>2, <1>3 DEF Elapsed, Late
    <3>4. count' > Elapsed' => cooldown' + Elapsed' >= FB_TIMER_CD
      BY <3>2, <1>2, <1>3, <1>4 DEF Elapsed, Late
    <3> QED
      BY <3>3, <3>4
  <2> QED
    BY <2>1, <2>2
<1>10. SkipBound'
  <2> SUFFICES ASSUME pc' = "time", mode' = "PM25"
               PROVE  /\ cooldown' + ticks' >= FB_TIMER_CD
                      /\ new_data' = 1 => count' <= 2 * PassTicks + 1 + ticks'
    BY DEF SkipBound
  <2>1. CASE mode = "PM25"
    <3>1. pc = "time" /\ ticks' = ticks + 1
      BY <1>2
    <3>2. /\ cooldown + ticks >= FB_TIMER_CD
          /\ new_data = 1 => count <= 2 * PassTicks + 1 + ticks
      BY <2>1, <3>1 DEF PendingIsYoung, SkipBound
    <3>3. cooldown' = cooldown - 1 \/ (cooldown = 0 /\ cooldown' = 0)
      BY <2>1 DEF Tick, Poll, Pressed, LongPressed, DataModes
    <3>6. cooldown' + ticks' >= FB_TIMER_CD
      BY <3>1, <3>2, <3>3
    <3>4. new_data' = 1 => count' <= 2 * PassTicks + 1 + ticks'
      BY <3>1, <3>2, <1>3
    <3> QED
      BY <3>4, <3>6
  <2>2. CASE mode = "menu"
    BY <2>2, <1>2, <1>3, <1>4 DEF PendingIsYoung, MenuBound
  <2>3. CASE mode = "TIME"
    <3>1. new_data' = 1 => count' = 0 \/ count <= Elapsed
      BY <2>3, <1>2, <1>3, <1>4
         DEF PendingIsYoung, DataBound, Heading, DataModes, Elapsed, Late
    <3> QED
      BY <2>3, <3>1, <1>2, <1>3, <1>4 DEF Elapsed, Late
  <2> QED
    BY <2>1, <2>2, <2>3, <1>4 DEF DataModes, Modes
<1>9. TakingBound'
  BY <1>2, <1>3 DEF PendingIsYoung, TakingBound, Taking, Elapsed, Late
<1> QED
  BY <1>6, <1>7, <1>8, <1>9, <1>10 DEF PendingIsYoung

\* ... and the main loop takes it in time.
LEMMA MainPendingIsYoung == IInv /\ Main => PendingIsYoung'
<1> SUFFICES ASSUME IInv, Main PROVE PendingIsYoung'
  OBVIOUS
<1> USE SamplerAssumption
    DEF IInv, TypeOK, PendingIsYoung, MenuBound, WifiBound, DataBound,
        SkipBound, TakingBound, Heading, Elapsed, Goto, panel, sensing, ring, DataModes,
        Modes, Early,
        Taking, Late
<1>1. CASE SeeState
  BY <1>1 DEF SeeState
<1>2. CASE SwitchState
  BY <1>2 DEF SwitchState, SetupDone, ClearData
<1>3. CASE ExpireButton
  BY <1>3 DEF ExpireButton, Expiry, LongPressed, DataModes
<1>4. CASE CheckPm25
  BY <1>4 DEF CheckPm25
<1>10. CASE CheckTime
  <2>1. mode = "TIME" \/ mode = "PM25" \/ mode \in {"menu", "wifi"}
    OBVIOUS
  <2> QED
    BY <1>10, <2>1 DEF CheckTime
<1>5. CASE CheckNewData
  BY <1>5 DEF CheckNewData
<1>6. CASE TakeData \/ BumpPointer \/ WrapPointer
  BY <1>6 DEF TakeData, BumpPointer, WrapPointer
<1>7. CASE AddSample
  BY <1>7 DEF AddSample
<1>8. CASE PublishMean
  BY <1>8 DEF PublishMean
<1>9. CASE EndPass
  BY <1>9 DEF EndPass
<1> HIDE DEF IInv, TypeOK, PendingIsYoung
<1> QED
  BY <1>1, <1>2, <1>3, <1>4, <1>5, <1>6, <1>7, <1>8, <1>9, <1>10 DEF Main

\* Every step keeps the invariant.
LEMMA StepIInv == IInv /\ [Next]_vars => IInv'
<1> SUFFICES ASSUME IInv, [Next]_vars PROVE IInv'
  OBVIOUS
<1>1. CASE Tick
  BY <1>1, TickTypeOK, TickPendingIsYoung DEF IInv
<1>2. CASE Main
  BY <1>2, MainTypeOK, MainPendingIsYoung DEF IInv
<1>3. CASE UNCHANGED vars
  BY <1>3 DEF IInv, TypeOK, PendingIsYoung, MenuBound, WifiBound, DataBound,
              SkipBound, TakingBound, Heading, Elapsed, vars
<1> QED
  BY <1>1, <1>2, <1>3 DEF Next

\* It holds for ever.
LEMMA Invariance == Spec => []IInv
<1>1. IInv /\ [Next]_vars => IInv'
  BY StepIInv
<1> QED
  BY InitIInv, <1>1, PTL DEF Spec

-----------------------------------------------------------------------------
(* Every variable keeps its type: the pointer is one past the ring only       *)
(* between ++new_data_ptr and the wrap, and no sample exceeds 1.              *)
THEOREM TypeCorrect == Spec => []TypeOK
BY Invariance, PTL DEF IInv

(* A pending sample is at most 4 * PassTicks + 2 readings old, in every mode. *)
THEOREM PendingStaysYoung == Spec => []PendingIsYoung
BY Invariance, PTL DEF IInv

\* A period completes when the value before it has been taken.
LEMMA StepHandsOver ==
    IInv /\ [Next]_vars => (Completes => new_data = 0 /\ pc \notin Taking)
<1> SUFFICES ASSUME IInv, [Next]_vars, Completes
             PROVE  new_data = 0 /\ pc \notin Taking
  OBVIOUS
<1> USE SamplerAssumption DEF IInv, TypeOK, Completes
<1>1. CASE Tick
  <2>1. count + 1 >= SENSOR_CALC_INTERVAL
    BY <1>1 DEF Tick, Sense
  <2>2. Elapsed <= 2 * PassTicks + 1
    BY DEF Elapsed
  <2> QED
    BY <2>1, <2>2
       DEF PendingIsYoung, DataBound, TakingBound, Heading, DataModes, Elapsed
<1>2. CASE Main
  BY <1>2 DEF DataModes, Main, SeeState, SwitchState, SetupDone, ClearData,
              ExpireButton, CheckPm25, CheckTime,
              CheckNewData, TakeData, BumpPointer, WrapPointer, AddSample,
              PublishMean, EndPass, sensing
<1>3. CASE UNCHANGED vars
  BY <1>3 DEF vars
<1> QED
  BY <1>1, <1>2, <1>3 DEF Next

(* No completed sample is lost to the next one, and none is written through a *)
(* pointer past the ring or under the averaging loop.                         *)
THEOREM HandsOver == Spec => HandOver
<1>1. IInv /\ [Next]_vars =>
        [Completes => new_data = 0 /\ pc \notin Taking]_vars
  BY StepHandsOver
<1> QED
  BY <1>1, Invariance, PTL DEF Spec, HandOver
-----------------------------------------------------------------------------
(* The ring implements the window of SampleWindow.                            *)

\* A total is what any function gives that adds the elements one by one.
LEMMA TotalIs ==
  ASSUME NEW s, Len(s) \in Nat, NEW f,
         f = [n \in 0..Len(s) |-> IF n = 0 THEN 0 ELSE f[n-1] + s[n]]
  PROVE  Window!Total(s) = f[Len(s)]
<1> DEFINE N == Len(s)
           Def(g) == [n \in 0..N |-> IF n = 0 THEN 0 ELSE g[n-1] + s[n]]
<1>1. PICK sum : sum = Def(sum) /\ Window!Total(s) = sum[N]
  <2>1. Window!Total(s) = (CHOOSE g : g = Def(g))[N]
    BY DEF Window!Total
  <2>2. \E g : g = Def(g)
    OBVIOUS
  <2> HIDE DEF Def
  <2> QED
    BY <2>1, <2>2
<1>2. f = Def(f)
  OBVIOUS
<1> HIDE DEF N
<1>3. N \in Nat
  BY DEF N
<1>4. sum[0] = f[0]
  BY <1>1, <1>2, <1>3
<1>5. \A n \in 1..N : sum[n-1] = f[n-1] => sum[n] = f[n]
  <2> SUFFICES ASSUME NEW n \in 1..N, sum[n-1] = f[n-1] PROVE sum[n] = f[n]
    OBVIOUS
  <2>1. n \in 0..N /\ n # 0
    BY <1>3
  <2> HIDE DEF Def
  <2>2. sum[n] = Def(sum)[n] /\ f[n] = Def(f)[n]
    BY <1>1, <1>2
  <2>3. sum[n] = sum[n-1] + s[n] /\ f[n] = f[n-1] + s[n]
    BY <2>1, <2>2 DEF Def
  <2> QED
    BY <2>3
<1> HIDE DEF Def
<1>6. \A n \in 0..N : sum[n] = f[n]
  <2> DEFINE S == {n \in 0..N : sum[n] = f[n]}
  <2>1. 0 \in S
    BY <1>3, <1>4
  <2>2. \A n \in 0..N-1 : n \in S => n + 1 \in S
    <3> SUFFICES ASSUME NEW n \in 0..N-1, n \in S PROVE n + 1 \in S
      OBVIOUS
    <3>1. n + 1 \in 1..N /\ (n + 1) - 1 = n /\ sum[n] = f[n]
      BY <1>3
    <3>2. sum[n+1] = f[n+1]
      BY <1>5, <3>1
    <3>3. n + 1 \in 0..N
      BY <3>1
    <3> QED
      BY <3>2, <3>3
  <2> HIDE DEF S
  <2>3. 0..N \subseteq S
    BY <1>3, <2>1, <2>2, InductionTo
  <2> QED
    BY <2>3 DEF S
<1> QED
  BY <1>1, <1>3, <1>6 DEF N

\* There is such a function.
LEMMA Totals ==
  ASSUME NEW N \in Nat, NEW s, \A n \in 1..N : s[n] \in Nat
  PROVE  \E f : /\ f[0] = 0
                /\ \A n \in 0..N : f[n] \in Nat
                /\ \A n \in 1..N : f[n] = f[n-1] + s[n]
<1> DEFINE step == {p \in (1..N) \X Nat \X Nat : p[3] = p[2] + s[p[1]]}
<1>1. \A n \in 1..N, t, u \in Nat : <<n, t, u>> \in step <=> u = t + s[n]
  OBVIOUS
<1>2. \A n \in 1..N, t \in Nat : \E u \in Nat : <<n, t, u>> \in step
  BY <1>1
<1> HIDE DEF step
<1>3. PICK f : /\ f[0] = 0
               /\ \A n \in 0..N : f[n] \in Nat
               /\ \A n \in 1..N : <<n, f[n-1], f[n]>> \in step
  BY <1>2, Recursion
<1>4. \A n \in 1..N : f[n] = f[n-1] + s[n]
  <2> SUFFICES ASSUME NEW n \in 1..N PROVE f[n] = f[n-1] + s[n]
    OBVIOUS
  <2>1. f[n-1] \in Nat /\ f[n] \in Nat
    BY <1>3
  <2>2. <<n, f[n-1], f[n]>> \in step
    BY <1>3
  <2> QED
    BY <1>1, <2>1, <2>2
<1> QED
  BY <1>3, <1>4

\* The first n slots of a ring, and their total.
First(g, n) == [k \in 1..n |-> g[k-1]]

\* A total is what is added up step by step.
LEMMA TotalOfFirst ==
  ASSUME NEW n \in Nat, NEW g, NEW f, f[0] = 0,
         \A k \in 1..n : f[k] = f[k-1] + g[k-1]
  PROVE  Window!Total(First(g, n)) = f[n]
<1> DEFINE s == First(g, n)
           h == [k \in 0..n |-> f[k]]
<1>1. Len(s) = n /\ \A k \in 1..n : s[k] = g[k-1]
  BY DEF First
<1> HIDE DEF s
<1>2. h = [k \in 0..Len(s) |-> IF k = 0 THEN 0 ELSE h[k-1] + s[k]]
  <2>1. \A k \in 0..n : h[k] = IF k = 0 THEN 0 ELSE h[k-1] + s[k]
    BY <1>1
  <2> QED
    BY <1>1, <2>1
<1>3. h[n] = f[n]
  OBVIOUS
<1> HIDE DEF h
<1>4. Window!Total(s) = h[Len(s)]
  BY <1>1, <1>2, TotalIs
<1> QED
  BY <1>1, <1>3, <1>4 DEF s

\* The total of nothing is 0.
LEMMA TotalOfNone == ASSUME NEW g PROVE Window!Total(First(g, 0)) = 0
<1> DEFINE f == [k \in 0..0 |-> 0]
<1>1. f[0] = 0 /\ 0 \in Nat /\ 1..0 = {}
  OBVIOUS
<1> HIDE DEF f
<1> QED
  BY <1>1, TotalOfFirst

\* The sums of the first values, one value more at each step.
LEMMA TotalsOfFirst ==
  ASSUME NEW n \in Nat, NEW g, \A k \in 0..n-1 : g[k] \in Nat
  PROVE  \E f :
           /\ f[0] = 0
           /\ \A k \in 0..n : f[k] \in Nat
           /\ \A k \in 1..n : f[k] = f[k-1] + g[k-1]
           /\ \A k \in 0..n : Window!Total(First(g, k)) = f[k]
<1> DEFINE s == First(g, n)
<1>1. \A k \in 1..n : s[k] = g[k-1] /\ s[k] \in Nat
  BY DEF First
<1> HIDE DEF s
<1>2. PICK f : /\ f[0] = 0
               /\ \A k \in 0..n : f[k] \in Nat
               /\ \A k \in 1..n : f[k] = f[k-1] + s[k]
  BY <1>1, Totals
<1>3. \A k \in 1..n : f[k] = f[k-1] + g[k-1]
  BY <1>1, <1>2
<1>4. ASSUME NEW m \in 0..n PROVE Window!Total(First(g, m)) = f[m]
  <2>1. m \in Nat /\ \A k \in 1..m : f[k] = f[k-1] + g[k-1]
    BY <1>3
  <2> QED
    BY <1>2, <2>1, TotalOfFirst
<1> QED
  BY <1>2, <1>3, <1>4

\* One value more adds to the total.
LEMMA TotalOfNext ==
  ASSUME NEW n \in Nat, NEW g, \A k \in 0..n : g[k] \in Nat
  PROVE  Window!Total(First(g, n + 1)) = Window!Total(First(g, n)) + g[n]
<1> DEFINE m == n + 1
<1>1. m \in Nat
  OBVIOUS
<1>2. \A k \in 0..m-1 : g[k] \in Nat
  OBVIOUS
<1>3. n \in 0..m /\ m \in 1..m /\ m - 1 = n
  OBVIOUS
<1> HIDE DEF m
<1>4. PICK f :
        /\ f[0] = 0
        /\ \A k \in 0..m : f[k] \in Nat
        /\ \A k \in 1..m : f[k] = f[k-1] + g[k-1]
        /\ \A k \in 0..m : Window!Total(First(g, k)) = f[k]
  BY <1>1, <1>2, TotalsOfFirst
<1>5. Window!Total(First(g, m)) = Window!Total(First(g, n)) + g[n]
  BY <1>3, <1>4
<1> QED
  BY <1>5 DEF m

\* A ring has the same total from whichever slot it is read.
Turned(g, n, r) == [k \in 1..n |-> IF k + r > n THEN g[k + r - n - 1] ELSE g[k + r - 1]]

\* Turning a ring of values leaves their total as it is.
LEMMA TotalOfTurned ==
  ASSUME NEW n \in Nat, NEW r \in 0..n, NEW g, \A k \in 0..n-1 : g[k] \in Nat
  PROVE  Window!Total(Turned(g, n, r)) = Window!Total(First(g, n))
<1> DEFINE t == Turned(g, n, r)
<1>1. /\ Len(t) = n
      /\ \A k \in 1..n : t[k] = IF k + r > n THEN g[k + r - n - 1] ELSE g[k + r - 1]
  BY DEF Turned
<1> HIDE DEF t
<1>2. PICK f :
        /\ f[0] = 0
        /\ \A k \in 0..n : f[k] \in Nat
        /\ \A k \in 1..n : f[k] = f[k-1] + g[k-1]
        /\ \A k \in 0..n : Window!Total(First(g, k)) = f[k]
  BY TotalsOfFirst
<1> DEFINE q == [k \in 0..n |-> IF k + r > n THEN f[n] - f[r] + f[k + r - n] ELSE f[k + r] - f[r]]
<1>3. \A k \in 0..n : q[k] = IF k = 0 THEN 0 ELSE q[k-1] + t[k]
  <2> SUFFICES ASSUME NEW k \in 0..n PROVE q[k] = IF k = 0 THEN 0 ELSE q[k-1] + t[k]
    OBVIOUS
  <2>1. f[r] \in Nat /\ f[n] \in Nat
    BY <1>2
  <2>2. CASE k = 0
    BY <2>1, <2>2
  <2>3. CASE k # 0 /\ k + r <= n
    <3>1. /\ q[k] = f[k + r] - f[r]
          /\ q[k-1] = f[k + r - 1] - f[r]
      BY <2>3
    <3>2. f[k + r] = f[k + r - 1] + g[k + r - 1] /\ t[k] = g[k + r - 1]
      BY <1>1, <1>2, <2>3
    <3>3. f[k + r - 1] \in Nat /\ g[k + r - 1] \in Nat
      BY <1>2, <2>3
    <3> QED
      BY <2>1, <2>3, <3>1, <3>2, <3>3
  <2>4. CASE k # 0 /\ k + r = n + 1
    <3>1. /\ k + r - n = 1 /\ k - 1 + r = n
          /\ q[k] = f[n] - f[r] + f[k + r - n]
          /\ q[k-1] = f[k - 1 + r] - f[r]
      BY <2>4
    <3>2. k + r - n - 1 = 0 /\ 1 \in 1..n
      BY <2>4
    <3>3. f[1] = g[0] /\ t[k] = g[0]
      BY <1>1, <1>2, <2>4, <3>2
    <3>4. g[0] \in Nat
      BY <2>4
    <3> QED
      BY <2>1, <2>4, <3>1, <3>3, <3>4
  <2>5. CASE k # 0 /\ k + r > n + 1
    <3>1. /\ q[k] = f[n] - f[r] + f[k + r - n]
          /\ q[k-1] = f[n] - f[r] + f[k + r - n - 1]
      BY <2>5
    <3>2. f[k + r - n] = f[k + r - n - 1] + g[k + r - n - 1] /\ t[k] = g[k + r - n - 1]
      BY <1>1, <1>2, <2>5
    <3>3. f[k + r - n - 1] \in Nat /\ g[k + r - n - 1] \in Nat
      BY <1>2, <2>5
    <3> QED
      BY <2>1, <2>5, <3>1, <3>2, <3>3
  <2> QED
    BY <2>2, <2>3, <2>4, <2>5
<1>4. q = [k \in 0..Len(t) |-> IF k = 0 THEN 0 ELSE q[k-1] + t[k]]
  BY <1>1, <1>3
<1>5. q[n] = f[n]
  BY <1>2
<1> HIDE DEF q
<1>6. Window!Total(t) = q[Len(t)]
  BY <1>1, <1>4, TotalIs
<1> QED
  BY <1>1, <1>2, <1>5, <1>6 DEF t

\* Until the ring is full the pointer is behind its last sample.
Filled == current_data_number < DATA_AVE_NUMBER => new_data_ptr = current_data_number

\* The loop has added up the slots below i, and nothing touches them meanwhile.
Summed ==
    /\ pc = "sum" => /\ i <= current_data_number
                     /\ raw = Window!Total(First(sensor_data, i))
    /\ pc = "publish" => raw = Window!Total(First(sensor_data, current_data_number))

RingInv == IInv /\ Filled /\ Summed

\* A tick that completes a sample finds none pending and none being taken.
LEMMA TickOnRing ==
  ASSUME IInv, Tick
  PROVE  /\ UNCHANGED ring /\ UNCHANGED new_data
         \/ /\ new_data = 0 /\ pc \notin Taking
            /\ new_data' = 1
            /\ \E s \in 0..SENSOR_CALC_INTERVAL :
                 sensor_data' = [sensor_data EXCEPT ![new_data_ptr] = s]
<1> USE SamplerAssumption DEF IInv, TypeOK
<1>1. UNCHANGED <<new_data_ptr, current_data_number>>
  BY DEF Tick
<1>2. CASE UNCHANGED <<new_data, sensor_data>>
  BY <1>1, <1>2 DEF ring
<1>3. CASE ~UNCHANGED <<new_data, sensor_data>>
  <2>1. mode \in DataModes
    BY <1>3 DEF Tick, Sense
  <2>2. PICK low \in 0..1 :
          /\ count + 1 >= SENSOR_CALC_INTERVAL
          /\ sensor_data' = [sensor_data EXCEPT ![new_data_ptr] = sensor_low + low]
          /\ new_data' = 1
    BY <1>3, <2>1 DEF Tick, Sense
  <2>3. sensor_low + low \in 0..SENSOR_CALC_INTERVAL
    OBVIOUS
  <2>4. new_data = 0 /\ pc \notin Taking
    BY <2>1, <2>2
       DEF PendingIsYoung, DataBound, TakingBound, Heading, DataModes, Elapsed, Taking, Late
  <2> QED
    BY <2>2, <2>3, <2>4
<1> QED
  BY <1>2, <1>3

\* The ring is in order at first ...
LEMMA InitRing == Init => Filled /\ Summed
BY SamplerAssumption DEF Init, Filled, Summed

\* ... and every step keeps it.
LEMMA StepRing == RingInv /\ [Next]_vars => Filled' /\ Summed'
<1> SUFFICES ASSUME RingInv, [Next]_vars PROVE Filled' /\ Summed'
  OBVIOUS
<1> USE SamplerAssumption DEF RingInv, IInv, TypeOK
<1>1. CASE Tick
  <2>1. /\ UNCHANGED <<new_data_ptr, current_data_number, i, raw>>
        /\ pc' = pc \/ pc' = "top"
    BY <1>1 DEF Tick
  <2>2. pc \in Taking => UNCHANGED sensor_data
    BY <1>1, TickOnRing DEF ring
  <2>3. Filled'
    BY <2>1 DEF Filled
  <2>4. Summed'
    BY <2>1, <2>2 DEF Summed, Taking
  <2> QED
    BY <2>3, <2>4
<1>2. CASE BumpPointer
  BY <1>2 DEF BumpPointer, Goto, Filled, Summed
<1>3. CASE WrapPointer
  <2>1. Filled'
    BY <1>3 DEF WrapPointer, Goto, Filled
  <2>2. /\ pc' = "sum" /\ i' = 0 /\ raw' = 0 /\ UNCHANGED <<current_data_number, sensor_data>>
    BY <1>3 DEF WrapPointer, Goto
  <2>3. Summed'
    BY <2>2, TotalOfNone DEF Summed
  <2> QED
    BY <2>1, <2>3
<1>4. CASE AddSample
  <2>1. Filled' /\ UNCHANGED <<current_data_number, sensor_data>> /\ pc = "sum"
    BY <1>4 DEF AddSample, Goto, ring, Filled
  <2>2. CASE i < current_data_number
    <3>1. /\ pc' = "sum" /\ i' = i + 1 /\ raw' = raw + sensor_data[i]
      BY <1>4, <2>2 DEF AddSample, Goto
    <3>2. i \in Nat /\ \A k \in 0..i : sensor_data[k] \in Nat
      BY <2>2
    <3>3. Window!Total(First(sensor_data, i + 1))
            = Window!Total(First(sensor_data, i)) + sensor_data[i]
      BY <3>2, TotalOfNext
    <3>4. i' <= current_data_number
      BY <2>2, <3>1
    <3> QED
      BY <2>1, <3>1, <3>3, <3>4 DEF Summed
  <2>3. CASE i >= current_data_number
    <3>1. pc' = "publish" /\ UNCHANGED raw /\ i = current_data_number
      BY <1>4, <2>1, <2>3 DEF AddSample, Goto, Summed
    <3> QED
      BY <2>1, <3>1 DEF Summed
  <2> QED
    BY <2>2, <2>3
<1>5. CASE SeeState \/ SwitchState \/ ExpireButton \/ CheckPm25 \/ CheckTime \/ CheckNewData
           \/ TakeData \/ PublishMean \/ EndPass
  <2>1. UNCHANGED ring /\ pc' \notin {"sum", "publish"}
    BY <1>5 DEF SeeState, SwitchState, ExpireButton, CheckPm25, CheckTime, CheckNewData, TakeData,
                PublishMean, EndPass, Goto
  <2> QED
    BY <2>1 DEF ring, Filled, Summed
<1>6. CASE UNCHANGED vars
  BY <1>6 DEF vars, Filled, Summed
<1> QED
  BY <1>1, <1>2, <1>3, <1>4, <1>5, <1>6 DEF Next, Main

\* It is in order for ever.
LEMMA RingStays == Spec => []RingInv
<1>1. Init => RingInv
  BY InitIInv, InitRing DEF RingInv
<1>2. RingInv /\ [Next]_vars => RingInv'
  BY StepIInv, StepRing DEF RingInv
<1> QED
  BY <1>1, <1>2, PTL DEF Spec

-----------------------------------------------------------------------------
\* What is published is the mean of the window.
LEMMA TotalOfRecent ==
  ASSUME RingInv, pc = "publish"
  PROVE  Window!Mean(Recent) = <<raw, current_data_number>>
<1> USE SamplerAssumption DEF RingInv, IInv, TypeOK
<1> DEFINE N == DATA_AVE_NUMBER
<1>1. /\ ~NotBumped /\ Newest = new_data_ptr - 1 /\ Number = current_data_number
      /\ new_data_ptr \in 0..N-1 /\ current_data_number \in 0..N
  BY DEF PendingIsYoung, TakingBound, Taking, NotBumped, Newest, Number
<1>2. Len(Recent) = current_data_number
  BY <1>1 DEF Recent
<1>3. Window!Total(Recent) = Window!Total(First(sensor_data, current_data_number))
  <2>1. CASE current_data_number < N
    <3>1. new_data_ptr = current_data_number
      BY <2>1 DEF Filled
    <3>2. \A k \in 1..current_data_number : Slot(k) = k - 1
      BY <1>1, <3>1 DEF Slot
    <3>3. Recent = First(sensor_data, current_data_number)
      BY <1>1, <3>2 DEF Recent, First
    <3> QED
      BY <3>3
  <2>2. CASE current_data_number = N
    <3>1. \A k \in 1..N : Slot(k) = IF k + new_data_ptr > N THEN k + new_data_ptr - N - 1
                                    ELSE k + new_data_ptr - 1
      BY <1>1, <2>2 DEF Slot
    <3>2. Recent = Turned(sensor_data, N, new_data_ptr)
      BY <1>1, <2>2, <3>1 DEF Recent, Turned
    <3>3. N \in Nat /\ new_data_ptr \in 0..N /\ \A k \in 0..N-1 : sensor_data[k] \in Nat
      BY <1>1
    <3> HIDE DEF N
    <3>4. Window!Total(Turned(sensor_data, N, new_data_ptr)) = Window!Total(First(sensor_data, N))
      BY <3>3, TotalOfTurned
    <3> QED
      BY <2>2, <3>2, <3>4
  <2> QED
    BY <1>1, <2>1, <2>2
<1> QED
  BY <1>2, <1>3 DEF Window!Mean, Summed

\* A completed sample is put at the end of the window.
LEMMA ProducesRecent ==
  ASSUME RingInv, RingInv', new_data = 0, pc \notin Taking, pc' \notin Taking, new_data' = 1,
         UNCHANGED <<new_data_ptr, current_data_number>>,
         NEW s \in 0..SENSOR_CALC_INTERVAL,
         sensor_data' = [sensor_data EXCEPT ![new_data_ptr] = s]
  PROVE  Recent' = Window!Window(Append(Recent, s))
<1> DEFINE N == DATA_AVE_NUMBER
           n == current_data_number
           p == new_data_ptr
           T == 0..SENSOR_CALC_INTERVAL
           a == Append(Recent, s)
<1>1. /\ N \in Nat \ {0} /\ p \in 0..N-1 /\ n \in 0..N
      /\ sensor_data \in [0..N -> T]
      /\ n < N => p = n
  <2>1. TypeOK /\ Filled /\ pc # "wrap" /\ N \in Nat \ {0}
    BY SamplerAssumption DEF RingInv, IInv, Taking
  <2>2. /\ p \in 0..N /\ p # N /\ n \in 0..N
        /\ sensor_data \in [0..N -> T]
        /\ n < N => p = n
    BY <2>1 DEF TypeOK, Filled
  <2> QED
    BY <2>1, <2>2
<1>2. /\ Newest = p - 1 /\ Number = n
      /\ Newest' = p
      /\ Number' = IF n < N THEN n + 1 ELSE n
  BY <1>1 DEF NotBumped, Newest, Number, Taking
<1>3. \A k \in 1..n : /\ Slot(k) = IF p - 1 - n + k < 0 THEN p - 1 - n + k + N
                                                        ELSE p - 1 - n + k
                      /\ Slot(k) \in 0..N-1
  <2> SUFFICES ASSUME NEW k \in 1..n
               PROVE  /\ Slot(k) = IF p - 1 - n + k < 0 THEN p - 1 - n + k + N
                                                        ELSE p - 1 - n + k
                      /\ Slot(k) \in 0..N-1
    OBVIOUS
  <2>1. Slot(k) = IF p - 1 - n + k < 0 THEN p - 1 - n + k + N ELSE p - 1 - n + k
    BY <1>2 DEF Slot
  <2> HIDE DEF n, p, N
  <2> QED
    BY <1>1, <2>1
<1>4. Recent = [k \in 1..n |-> sensor_data[Slot(k)]]
  BY <1>2 DEF Recent
<1>5. Recent' = [k \in 1..Number' |-> sensor_data'[Slot(k)']]
  BY DEF Recent
<1>6. \A k \in 1..Number' : Slot(k)' = IF p - Number' + k < 0 THEN p - Number' + k + N
                                                              ELSE p - Number' + k
  BY <1>2 DEF Slot
<1>7. \A k \in 0..N-1 : sensor_data'[k] = IF k = p THEN s ELSE sensor_data[k]
  BY <1>1
<1>8. /\ a \in Seq(T) /\ Len(a) = n + 1
      /\ \A k \in 1..n : a[k] = sensor_data[Slot(k)]
      /\ a[n+1] = s
  <2> DEFINE r == [k \in 1..n |-> sensor_data[Slot(k)]]
  <2>1. \A k \in 1..n : sensor_data[Slot(k)] \in T
    BY <1>1, <1>3
  <2>2. r \in Seq(T) /\ Len(r) = n /\ \A k \in 1..n : r[k] = sensor_data[Slot(k)]
    BY <1>1, <2>1
  <2>3. s \in T /\ a = Append(r, s)
    BY <1>4
  <2> HIDE DEF r, a, T
  <2>4. /\ a \in Seq(T)
        /\ Len(a) = Len(r) + 1
        /\ \A k \in 1..Len(r) : a[k] = r[k]
        /\ a[Len(r)+1] = s
    BY <2>2, <2>3, AppendProperties
  <2> QED
    BY <2>2, <2>4
<1> HIDE DEF a, n, p, N, T
<1>9. CASE n < N
  <2>1. p = n /\ Number' = n + 1
    BY <1>1, <1>2, <1>9
  <2>2. \A k \in 1..n : Slot(k) = k - 1
    BY <1>1, <1>3, <2>1
  <2>3. \A k \in 1..n+1 : Slot(k)' = k - 1
    BY <1>1, <1>6, <2>1
  <2>4. \A k \in 1..n+1 : sensor_data'[k-1] = a[k]
    <3> SUFFICES ASSUME NEW k \in 1..n+1 PROVE sensor_data'[k-1] = a[k]
      OBVIOUS
    <3>1. k - 1 \in 0..N-1
      BY <1>1, <1>9
    <3>2. CASE k = n + 1
      BY <1>1, <1>7, <1>8, <2>1, <3>1, <3>2
    <3>3. CASE k # n + 1
      <4>1. k \in 1..n /\ k - 1 # p
        BY <1>1, <2>1, <3>3
      <4> QED
        BY <1>7, <1>8, <2>2, <3>1, <4>1
    <3> QED
      BY <3>2, <3>3
  <2>5. Recent' = [k \in 1..n+1 |-> a[k]]
    BY <1>5, <2>1, <2>3, <2>4
  <2>6. a = [k \in 1..n+1 |-> a[k]]
    BY <1>8
  <2>7. ~(Len(a) > N)
    BY <1>1, <1>8, <1>9
  <2> QED
    BY <2>5, <2>6, <2>7 DEF Window!Window, a, N
<1>10. CASE n = N
  <2>1. Number' = N
    BY <1>1, <1>2, <1>10
  <2>2. \A k \in 1..N : sensor_data'[Slot(k)'] = a[k+1]
    <3> SUFFICES ASSUME NEW k \in 1..N PROVE sensor_data'[Slot(k)'] = a[k+1]
      OBVIOUS
    <3>1. Slot(k)' = IF p - N + k < 0 THEN p - N + k + N ELSE p - N + k
      BY <1>6, <2>1
    <3>2. CASE k = N
      <4>1. Slot(k)' = p
        BY <1>1, <3>1, <3>2
      <4> QED
        BY <1>1, <1>7, <1>8, <1>10, <3>2, <4>1
    <3>3. CASE k # N
      <4>1. k \in 1..n /\ k + 1 \in 1..n
        BY <1>1, <1>10, <3>3
      <4>2. Slot(k)' = Slot(k+1) /\ Slot(k)' # p
        BY <1>1, <1>3, <1>10, <3>1, <3>3, <4>1
      <4>3. Slot(k+1) \in 0..N-1 /\ a[k+1] = sensor_data[Slot(k+1)]
        BY <1>3, <1>8, <4>1
      <4> QED
        BY <1>7, <4>2, <4>3
    <3> QED
      BY <3>2, <3>3
  <2>3. Recent' = [k \in 1..N |-> a[k+1]]
    BY <1>5, <2>1, <2>2
  <2>4. Window!Window(a) = SubSeq(a, 2, N + 1)
    BY <1>1, <1>8, <1>10 DEF Window!Window, N
  <2>5. SubSeq(a, 2, N + 1) = [k \in 1..N |-> a[k+1]]
    BY <1>1, <1>8, <1>10
  <2> QED
    BY <2>3, <2>4, <2>5 DEF a
<1> QED
  BY <1>1, <1>9, <1>10

\* What the window looks like where nothing of it changes.
LEMMA SameRecent ==
  ASSUME UNCHANGED <<Newest, Number, sensor_data>>
  PROVE  UNCHANGED Recent
BY DEF Recent, Slot

\* Every step is one of the abstract window, or nothing to it.
LEMMA StepWindow == RingInv /\ RingInv' /\ [Next]_vars => [Window!Next]_Window!vars
<1> SUFFICES ASSUME RingInv, RingInv', [Next]_vars PROVE [Window!Next]_Window!vars
  OBVIOUS
<1> USE SamplerAssumption DEF RingInv, IInv, TypeOK
<1>1. CASE Tick
  <2>1. /\ UNCHANGED <<new_data_ptr, current_data_number, current_display_data>>
        /\ pc' = pc \/ (pc = "pause" /\ pc' = "top")
    BY <1>1 DEF Tick
  <2>2. CASE UNCHANGED ring /\ UNCHANGED new_data
    <3>1. UNCHANGED <<Newest, Number, sensor_data>>
      BY <2>1, <2>2 DEF ring, Newest, Number, NotBumped
    <3>2. UNCHANGED (new_data = 1 \/ pc \in Taking)
      BY <2>1, <2>2 DEF Taking
    <3> QED
      BY <2>1, <3>1, <3>2, SameRecent DEF Window!vars
  <2>3. CASE ~(UNCHANGED ring /\ UNCHANGED new_data)
    <3>1. /\ new_data = 0 /\ pc \notin Taking
          /\ new_data' = 1
          /\ \E s \in 0..SENSOR_CALC_INTERVAL :
               sensor_data' = [sensor_data EXCEPT ![new_data_ptr] = s]
      BY <1>1, <2>3, TickOnRing
    <3>2. pc' \notin Taking
      BY <2>1, <3>1 DEF Taking
    <3>3. \E s \in 0..SENSOR_CALC_INTERVAL : Recent' = Window!Window(Append(Recent, s))
      BY <2>1, <3>1, <3>2, ProducesRecent
    <3>4. Window!Produce
      BY <2>1, <3>1, <3>3 DEF Window!Produce, Window!Samples
    <3> QED
      BY <3>4 DEF Window!Next
  <2> QED
    BY <2>2, <2>3
<1>2. CASE SeeState \/ ExpireButton \/ CheckPm25 \/ CheckTime \/ CheckNewData \/ EndPass
  <2>1. /\ UNCHANGED <<new_data, sensor_data, new_data_ptr, current_data_number, current_display_data>>
        /\ pc' # "bump" /\ pc # "bump"
        /\ pc \notin Taking
        /\ pc' \in Taking => new_data = 1
    BY <1>2 DEF SeeState, ExpireButton, CheckPm25, CheckTime, CheckNewData, EndPass, Goto, ring, Taking
  <2>2. UNCHANGED <<Newest, Number, sensor_data>>
    BY <2>1 DEF Newest, Number, NotBumped
  <2>3. UNCHANGED (new_data = 1 \/ pc \in Taking)
    BY <2>1
  <2> QED
    BY <2>1, <2>2, <2>3, SameRecent DEF Window!vars
<1>3. CASE SwitchState
  <2>1. /\ UNCHANGED <<new_data, sensor_data, new_data_ptr, current_data_number>>
        /\ pc = "case" /\ pc' = "fb"
        /\ current_display_data' = <<0, 0>> \/ UNCHANGED current_display_data
    BY <1>3 DEF SwitchState, ClearData, NoData, Goto, ring
  <2>2. UNCHANGED <<Newest, Number, sensor_data>>
    BY <2>1 DEF Newest, Number, NotBumped
  <2>3. UNCHANGED (new_data = 1 \/ pc \in Taking)
    BY <2>1 DEF Taking
  <2> QED
    BY <2>1, <2>2, <2>3, SameRecent
       DEF Window!vars, Window!Next, Window!Withdraw, Window!NoData
<1>4. CASE TakeData
  <2>1. /\ UNCHANGED <<sensor_data, new_data_ptr, current_data_number, current_display_data>>
        /\ pc = "take" /\ pc' = "bump" /\ new_data = 1
    BY <1>4 DEF TakeData, Goto, ring, PendingIsYoung, TakingBound
  <2>2. UNCHANGED <<Newest, Number, sensor_data>>
    BY <2>1 DEF Newest, Number, NotBumped
  <2>3. UNCHANGED (new_data = 1 \/ pc \in Taking)
    BY <2>1 DEF Taking
  <2> QED
    BY <2>1, <2>2, <2>3, SameRecent DEF Window!vars
<1>5. CASE BumpPointer
  <2>1. /\ UNCHANGED <<sensor_data, current_display_data, new_data>>
        /\ pc = "bump" /\ pc' = "wrap" /\ new_data = 0
        /\ new_data_ptr' = new_data_ptr + 1
        /\ current_data_number' = IF current_data_number < DATA_AVE_NUMBER
                                  THEN current_data_number + 1
                                  ELSE current_data_number
    BY <1>5 DEF BumpPointer, Goto, PendingIsYoung, TakingBound, Taking
  <2>2. UNCHANGED <<Newest, Number, sensor_data>>
    BY <2>1 DEF Newest, Number, NotBumped
  <2>3. UNCHANGED (new_data = 1 \/ pc \in Taking)
    BY <2>1 DEF Taking
  <2> QED
    BY <2>1, <2>2, <2>3, SameRecent DEF Window!vars
<1>6. CASE WrapPointer
  <2>1. /\ UNCHANGED <<sensor_data, current_data_number, current_display_data, new_data>>
        /\ pc = "wrap" /\ pc' = "sum" /\ new_data = 0
        /\ new_data_ptr' = IF new_data_ptr >= DATA_AVE_NUMBER THEN 0 ELSE new_data_ptr
    BY <1>6 DEF WrapPointer, Goto, PendingIsYoung, TakingBound, Taking
  <2>2. UNCHANGED <<Number, sensor_data>>
    BY <2>1 DEF Number, NotBumped
  <2>3. UNCHANGED (new_data = 1 \/ pc \in Taking)
    BY <2>1 DEF Taking
  <2>4. Number = current_data_number /\ Newest = new_data_ptr - 1 /\ Newest' = new_data_ptr' - 1
    BY <2>1 DEF Number, Newest, NotBumped
  <2>5. \A k \in 1..Number : Slot(k)' = Slot(k)
    BY <2>1, <2>2, <2>4 DEF Slot, Filled
  <2>6. UNCHANGED Recent
    BY <2>2, <2>5 DEF Recent
  <2> QED
    BY <2>1, <2>3, <2>6 DEF Window!vars
<1>7. CASE AddSample
  <2>1. /\ UNCHANGED <<sensor_data, new_data_ptr, current_data_number, current_display_data, new_data>>
        /\ pc = "sum" /\ pc' \in {"sum", "publish"}
    BY <1>7 DEF AddSample, Goto, ring
  <2>2. UNCHANGED <<Newest, Number, sensor_data>>
    BY <2>1 DEF Newest, Number, NotBumped
  <2>3. UNCHANGED (new_data = 1 \/ pc \in Taking)
    BY <2>1 DEF Taking
  <2> QED
    BY <2>1, <2>2, <2>3, SameRecent DEF Window!vars
<1>8. CASE PublishMean
  <2>1. /\ UNCHANGED <<sensor_data, new_data_ptr, current_data_number, new_data>>
        /\ pc = "publish" /\ pc' = "rest" /\ new_data = 0
        /\ current_display_data' = <<raw, current_data_number>>
    BY <1>8 DEF PublishMean, Goto, ring, PendingIsYoung, TakingBound, Taking
  <2>2. UNCHANGED <<Newest, Number, sensor_data>>
    BY <2>1 DEF Newest, Number, NotBumped
  <2>3. pc \in Taking /\ ~(new_data' = 1 \/ pc' \in Taking)
    BY <2>1 DEF Taking
  <2>4. current_display_data' = Window!Mean(Recent)
    BY <2>1, TotalOfRecent
  <2> QED
    BY <2>2, <2>3, <2>4, SameRecent DEF Window!Next, Window!Publish
<1>9. CASE UNCHANGED vars
  <2>1. UNCHANGED <<sensor_data, new_data_ptr, current_data_number, current_display_data, new_data, pc>>
    BY <1>9 DEF vars
  <2>2. UNCHANGED <<Newest, Number, sensor_data>>
    BY <2>1 DEF Newest, Number, NotBumped
  <2>3. UNCHANGED (new_data = 1 \/ pc \in Taking)
    BY <2>1
  <2> QED
    BY <2>1, <2>2, <2>3, SameRecent DEF Window!vars
<1> QED
  BY <1>1, <1>2, <1>3, <1>4, <1>5, <1>6, <1>7, <1>8, <1>9 DEF Next, Main

\* The two begin alike.
LEMMA InitWindow == Init => Window!Init
<1> SUFFICES ASSUME Init PROVE Window!Init
  OBVIOUS
<1>1. Number = 0 /\ ~(new_data = 1 \/ pc \in Taking)
  BY SamplerAssumption DEF Init, Number, NotBumped, Taking
<1>2. Recent = <<>>
  BY <1>1 DEF Recent
<1> QED
  BY <1>1, <1>2 DEF Init, NoData, Window!Init, Window!NoData

(* The ring, its pointer and its flag implement the sliding window: each sample *)
(* the handler completes is averaged into one publication, which is the mean of  *)
(* the last DATA_AVE_NUMBER samples (main.c:330-378, 1095-1141).                *)
THEOREM RefinesSampleWindow == Spec => ImplementsSampleWindow
<1>1. Init => Window!Init
  BY InitWindow
<1>2. RingInv /\ RingInv' /\ [Next]_vars => [Window!Next]_Window!vars
  BY StepWindow
<1> QED
  BY <1>1, <1>2, RingStays, PTL DEF Spec, ImplementsSampleWindow, Window!Spec

=============================================================================
