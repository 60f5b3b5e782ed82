------------------------------- MODULE LcdProofs -------------------------------
(* Proofs about Lcd.tla: the kernel module undoes what it did, the pages cost   *)
(* the memory they cost, and the panel can be read and shows what display() was  *)
(* last asked for, whatever is drawn over whatever, for every set of readings,   *)
(* texts and icons and any number of views.                                     *)
(*                                                                             *)
(* The last takes most of the module.  A drawing is a sequence of pictures, so   *)
(* it begins with drawing: pictures within the panel, what a sequence of them    *)
(* leaves, and areas, which no drawing leaves (Becomes).  Then what each row of   *)
(* glyphs is read as: numbers, the time, the device id, the address.  Then what   *)
(* each area shows (PanelShows), that each call of display() makes it show what   *)
(* it was asked for, and that what is shown so is what is read.                  *)
EXTENDS Lcd, Recursion, FiniteSetTheorems, SequenceTheorems, TLAPS

\* What loading holds at each of its steps; until its end the pointer is not set.
SpiHolds ==
    /\ stage = "out" => refs = 0 /\ ~added /\ master = 0
    /\ stage \in {"alloc", "err"} => refs = 0 /\ ~added /\ master = 0 /\ ~device
    /\ stage = "add" => refs = 1 /\ ~added /\ master = 0 /\ ~device
    /\ stage \in {"master", "err_unregister"} => refs = 1 /\ added /\ master = 0 /\ ~device
    /\ stage = "slave" => refs = 1 /\ added /\ master = 1 /\ ~device
    /\ stage = "in" => refs = 1 /\ added /\ master = 0 /\ device
    /\ slave <=> stage = "in"

SpiInv == SpiTypeOK /\ SpiHolds

\* display() keeps a record of every area.
Screens ==
    [page : Pages \cup {"welcome"}, label : Units,
     value : [reading : Readings \cup {-1}, unit : Units],
     current_is_data : BOOLEAN, current_is_time : BOOLEAN,
     spinner : BOOLEAN, battery : BatteryStates \cup {Blank}, net : Connections \cup {-1}]

Memory ==
    /\ digits \in BOOLEAN /\ files \in BOOLEAN
    /\ lost \in Nat /\ views \in 0..MaxViews
    /\ LeaksOnPagesOnly

Inv == SpiInv /\ TypeOK /\ screen \in Screens /\ Memory

\* The bounds of the model.
LEMMA Limits == MaxViews \in Nat /\ MaxLate \in Nat
  BY LcdAssumption

-----------------------------------------------------------------------------
\* The kernel module is out at first, and holds nothing ...
LEMMA SpiInvInit == SpiInit => SpiInv
  BY DEF SpiInit, SpiInv, SpiTypeOK, SpiHolds, Probe

\* ... and at each step holds what it has taken.
LEMMA SpiInvNext == SpiInv /\ SpiNext => SpiInv'
  <1> SUFFICES ASSUME SpiInv, SpiNext PROVE SpiInv'
    OBVIOUS
  <1> USE DEF SpiInv, SpiTypeOK, SpiHolds, Probe, At, Unregister
  <1>1. CASE ModprobeDriver
    BY <1>1 DEF ModprobeDriver
  <1>2. CASE Insert
    BY <1>2 DEF Insert
  <1>3. CASE AllocDevice
    BY <1>3 DEF AllocDevice
  <1>4. CASE AddDevice
    <2>1. stage = "add" /\ refs = 1 /\ refs - 1 = 0
      BY <1>4 DEF AddDevice
    <2>2. CASE stage' = "err"
      BY <1>4, <2>1, <2>2 DEF AddDevice
    <2>3. CASE stage' = "master"
      BY <1>4, <2>1, <2>3 DEF AddDevice
    <2> QED BY <1>4, <2>2, <2>3 DEF AddDevice
  <1>5. CASE GetMaster
    BY <1>5 DEF GetMaster
  <1>6. CASE NewSlave
    <2>1. stage = "slave" /\ master = 1 /\ master - 1 = 0
      BY <1>6 DEF NewSlave
    <2>2. CASE stage' = "err_unregister"
      BY <1>6, <2>1, <2>2 DEF NewSlave
    <2>3. CASE stage' = "in"
      BY <1>6, <2>1, <2>3 DEF NewSlave
    <2> QED BY <1>6, <2>2, <2>3 DEF NewSlave
  <1>7. CASE ErrUnregister
    <2>1. stage = "err_unregister" /\ refs = 1 /\ refs - 1 = 0
      BY <1>7 DEF ErrUnregister
    <2> QED BY <1>7, <2>1 DEF ErrUnregister
  <1>8. CASE Cleanup
    <2>1. CASE stage = "err"
      BY <1>8, <2>1 DEF Cleanup
    <2>2. CASE stage = "in"
      <3>1. refs - 1 = 0
        BY <2>2
      <3> QED BY <1>8, <2>2, <3>1 DEF Cleanup
    <2> QED BY <1>8, <2>1, <2>2 DEF Cleanup
  <1> QED
    BY <1>1, <1>2, <1>3, <1>4, <1>5, <1>6, <1>7, <1>8 DEF SpiNext

\* A drawing, whatever is drawn.
LEMMA PaintTypes ==
  ASSUME TypeOK, NEW drawing, Paint(drawing)
  PROVE  prog' \in {"boot", "main", "ended"} /\ late' \in 0..MaxLate
  <1>1. late' \in 0..MaxLate
    <2>1. CASE UNCHANGED late
      BY <2>1 DEF TypeOK
    <2>2. CASE late < MaxLate /\ late' = late + 1
      BY <2>2, Limits DEF TypeOK
    <2> QED BY <2>1, <2>2 DEF Paint
  <1>2. prog' = prog \/ prog' = "ended"
    BY DEF Paint
  <1> QED BY <1>1, <1>2 DEF TypeOK

\* The screen of Screen.tla stays a record of its areas.
LEMMA ShowTypes ==
  ASSUME NEW s \in Screens
  PROVE  /\ \A page \in Pages : ShowPage(s, page) \in Screens
         /\ \A l \in Units, v \in [reading : Readings \cup {-1}, unit : Units] :
              ShowData(s, l, v) \in Screens
         /\ \A l \in Units : ShowUnit(s, l) \in Screens
         /\ ShowTime(s) \in Screens
         /\ \A frame : ShowSpinner(s, frame) \in Screens
         /\ \A icon \in BatteryStates : ShowBattery(s, icon) \in Screens
         /\ \A conn \in Connections : ShowNet(s, conn) \in Screens
  <1>1. \A page \in Pages : ShowPage(s, page) \in Screens
    BY DEF Screens, ShowPage
  <1>2. ASSUME NEW l \in Units, NEW v \in [reading : Readings \cup {-1}, unit : Units]
        PROVE  ShowData(s, l, v) \in Screens
    <2>1. CASE s.current_is_data
      BY <2>1 DEF Screens, ShowData
    <2>2. CASE ~s.current_is_data
      BY <2>2 DEF Screens, ShowData, Pages
    <2> QED BY <2>1, <2>2
  <1>3. \A l \in Units : ShowUnit(s, l) \in Screens
    BY DEF Screens, ShowUnit
  <1>4. ShowTime(s) \in Screens
    BY DEF Screens, ShowTime, Pages
  <1>5. ASSUME NEW frame PROVE ShowSpinner(s, frame) \in Screens
    <2>1. (frame >= 0) \in BOOLEAN
      OBVIOUS
    <2> QED BY <2>1 DEF Screens, ShowSpinner
  <1>6. /\ \A icon \in BatteryStates : ShowBattery(s, icon) \in Screens
        /\ \A conn \in Connections : ShowNet(s, conn) \in Screens
    BY DEF Screens, ShowBattery, ShowNet
  <1> QED BY <1>1, <1>2, <1>3, <1>4, <1>5, <1>6

\* The invariant holds at first.
LEMMA InitInvariant == Init => Inv
  <1> SUFFICES ASSUME Init PROVE Inv
    OBVIOUS
  <1>1. SpiInv
    BY SpiInvInit DEF Init
  <1>2. screen \in Screens
    BY DEF Init, EmptyScreen, NoValue, Screens, Units, Blank
  <1>3. TypeOK
    <2>1. late \in 0..MaxLate /\ views \in 0..MaxViews /\ lost \in Nat
      BY Limits DEF Init
    <2>2. screen.page \in Pages \cup {"welcome"} /\ screen.label \in Units
      BY <1>2 DEF Screens
    <2> QED BY <1>1, <2>1, <2>2 DEF Init, TypeOK, SpiInv
  <1>4. Memory
    BY <1>3, Limits DEF Init, Memory, TypeOK, LeaksOnPagesOnly, Overwritten
  <1> QED BY <1>1, <1>2, <1>3, <1>4 DEF Inv

\* What display() leaves alone but on the pages ID and IP and for the temperature.
Calm == UNCHANGED <<spi, on, files, heap>>

\* It is kept where neither the module nor the memory changes.
LEMMA CalmKeeps ==
  ASSUME Inv, Calm, screen' \in Screens, prog' \in {"boot", "main", "ended"},
         late' \in 0..MaxLate, has_temp' \in BOOLEAN, temp' \in Temperatures \cup {NoDevice}
  PROVE  Inv'
  <1> USE DEF Calm, spi, heap
  <1>1. SpiInv'
    BY DEF Inv, SpiInv, SpiTypeOK, SpiHolds
  <1>2. Memory'
    BY DEF Inv, Memory, LeaksOnPagesOnly, Overwritten
  <1>3. TypeOK'
    BY <1>1, <1>2 DEF Inv, TypeOK, SpiInv, Memory, Screens
  <1> QED BY <1>1, <1>2, <1>3 DEF Inv

\* display() keeps it, whatever is drawn.
LEMMA DisplayKeeps == Inv /\ (FirstPage \/ Display) => Inv'
  <1> SUFFICES ASSUME Inv, FirstPage \/ Display PROVE Inv'
    OBVIOUS
  <1> USE DEF Calm, area
  <1>0. TypeOK /\ screen \in Screens /\ has_temp \in BOOLEAN
          /\ temp \in Temperatures \cup {NoDevice}
    BY DEF Inv, TypeOK
  <1>1. ASSUME NEW page \in {"wait", "setup", "success", "fail"}, DisplayPage(page) PROVE Inv'
    <2>1. screen' \in Screens
      BY <1>0, <1>1, ShowTypes DEF DisplayPage, Pages
    <2> QED BY <1>0, <1>1, <2>1, PaintTypes, CalmKeeps DEF DisplayPage
  <1>2. ASSUME NEW r \in Readings, NEW u \in Units, NEW label \in Units, DisplayData(r, u, label)
        PROVE  Inv'
    <2>1. screen' \in Screens
      BY <1>0, <1>2, ShowTypes DEF DisplayData
    <2> QED BY <1>0, <1>2, <2>1, PaintTypes, CalmKeeps DEF DisplayData
  <1>3. ASSUME NEW r \in Readings, NEW u \in Units, DisplayUnit(r, u) PROVE Inv'
    <2>1. ShowUnit(screen, u) \in Screens
      BY <1>0, ShowTypes
    <2>2. screen' \in Screens
      BY <1>3, <2>1, ShowTypes DEF DisplayUnit
    <2> QED BY <1>0, <1>3, <2>2, PaintTypes, CalmKeeps DEF DisplayUnit
  <1>4. ASSUME NEW time \in Times, DisplayTimePage(time) PROVE Inv'
    <2>1. screen' \in Screens
      BY <1>0, <1>4, ShowTypes DEF DisplayTimePage
    <2> QED BY <1>0, <1>4, <2>1, PaintTypes, CalmKeeps DEF DisplayTimePage
  <1>5. ASSUME NEW page \in {"id", "ip"}, NEW chars, NEW title, NEW drawing,
               DisplayText(page, chars, title, drawing)
        PROVE  Inv'
    <2>1. screen' \in Screens
      BY <1>0, <1>5, ShowTypes DEF DisplayText, Pages
    <2>2. SpiInv'
      BY <1>5 DEF DisplayText, Inv, SpiInv, SpiTypeOK, SpiHolds, spi
    <2>3. Memory'
      <3>1. /\ views < MaxViews /\ views' = views + 1 /\ UNCHANGED files /\ digits' = files
            /\ lost' = lost + Overwritten + (IF files THEN 10 ELSE 0)
        BY <1>5 DEF DisplayText, LoadAndKeep
      <3>2. Memory /\ Overwritten \in {0, 10}
        BY DEF Inv, Overwritten
      <3>3. CASE files
        BY <3>1, <3>2, <3>3, Limits DEF Memory, LeaksOnPagesOnly, Overwritten
      <3>4. CASE ~files
        BY <3>1, <3>2, <3>4, Limits DEF Memory, LeaksOnPagesOnly, Overwritten
      <3> QED BY <3>3, <3>4
    <2>4. TypeOK'
      BY <1>0, <1>5, <2>1, <2>2, <2>3, PaintTypes
      DEF DisplayText, TypeOK, SpiInv, Memory, Screens
    <2> QED BY <2>1, <2>2, <2>3, <2>4 DEF Inv
  <1>6. ASSUME NEW milli \in Temperatures, DisplayTemp(milli) PROVE Inv'
    <2>1. SpiInv' /\ screen' \in Screens
      BY <1>0, <1>6 DEF DisplayTemp, Inv, SpiInv, SpiTypeOK, SpiHolds, spi
    <2>2. Memory'
      <3>1. /\ UNCHANGED <<views, files>> /\ digits' = FALSE /\ lost' = lost + Overwritten
        BY <1>6 DEF DisplayTemp
      <3>2. Memory /\ Overwritten \in {0, 10} /\ Overwritten' = 0
        BY <3>1 DEF Inv, Overwritten
      <3>3. lost' \in Nat /\ lost' + Overwritten' = lost + Overwritten
        BY <3>1, <3>2 DEF Memory
      <3> QED BY <3>1, <3>2, <3>3 DEF Memory, LeaksOnPagesOnly
    <2>3. TypeOK'
      BY <1>0, <1>6, <2>1, <2>2, PaintTypes DEF DisplayTemp, TypeOK, SpiInv, Memory, Screens
    <2> QED BY <2>1, <2>2, <2>3 DEF Inv
  <1>7. CASE DisplayNoTemp
    BY <1>0, <1>7, PaintTypes, CalmKeeps DEF DisplayNoTemp
  <1>8. ASSUME NEW icon \in BatteryStates, DisplayBattery(icon) PROVE Inv'
    <2>1. screen' \in Screens
      BY <1>0, <1>8, ShowTypes DEF DisplayBattery
    <2> QED BY <1>0, <1>8, <2>1, PaintTypes, CalmKeeps DEF DisplayBattery
  <1>9. ASSUME NEW conn \in Connections, DisplayNet(conn) PROVE Inv'
    <2>1. screen' \in Screens
      BY <1>0, <1>9, ShowTypes DEF DisplayNet
    <2> QED BY <1>0, <1>9, <2>1, PaintTypes, CalmKeeps DEF DisplayNet
  <1>10. ASSUME NEW frame \in Frames, DisplaySpinner(frame) PROVE Inv'
    <2>1. screen' \in Screens
      BY <1>0, <1>10, ShowTypes DEF DisplaySpinner
    <2> QED BY <1>0, <1>10, <2>1, PaintTypes, CalmKeeps DEF DisplaySpinner
  <1>11. CASE FirstPage
    BY <1>1, <1>11 DEF FirstPage
  <1>12. CASE DisplayIdPage \/ \E ip \in Addresses : DisplayIpPage(ip)
    BY <1>5, <1>12 DEF DisplayIdPage, DisplayIpPage
  <1> QED
    BY <1>1, <1>2, <1>3, <1>4, <1>6, <1>7, <1>8, <1>9, <1>10, <1>11, <1>12 DEF Display

\* Every step keeps it ...
LEMMA NextKeeps == Inv /\ [Next]_vars => Inv'
  <1> SUFFICES ASSUME Inv, [Next]_vars PROVE Inv'
    OBVIOUS
  <1>1. CASE Module
    <2>1. SpiInv'
      BY <1>1, SpiInvNext DEF Module, Inv
    <2>2. Memory' /\ screen' \in Screens
      BY <1>1 DEF Module, Inv, Memory, LeaksOnPagesOnly, Overwritten, heap
    <2>3. TypeOK'
      BY <1>1, <2>1, <2>2 DEF Module, Inv, TypeOK, SpiInv, Memory, Screens, area
    <2> QED BY <2>1, <2>2, <2>3 DEF Inv
  <1>2. CASE Welcome
    <2>1. SpiInv'
      BY <1>2 DEF Welcome, Inv, SpiInv, SpiTypeOK, SpiHolds, spi
    <2>2. Memory' /\ screen' \in Screens
      BY <1>2 DEF Welcome, Inv, Memory, LeaksOnPagesOnly, Overwritten, heap
    <2>3. on' \in BOOLEAN
      BY <1>2 DEF Welcome
    <2>4. TypeOK'
      BY <1>2, <2>1, <2>2, <2>3 DEF Welcome, Inv, TypeOK, SpiInv, Memory, Screens, area
    <2> QED BY <2>1, <2>2, <2>4 DEF Inv
  <1>3. CASE FirstPage \/ Display
    BY <1>3, DisplayKeeps
  <1>4. CASE RunOut
    <2>1. SpiInv'
      BY <1>4 DEF RunOut, Inv, SpiInv, SpiTypeOK, SpiHolds, spi
    <2>2. Memory' /\ screen' \in Screens
      BY <1>4 DEF RunOut, Inv, Memory, LeaksOnPagesOnly, Overwritten, heap
    <2>3. TypeOK'
      BY <1>4, <2>1, <2>2 DEF RunOut, Inv, TypeOK, SpiInv, Memory, Screens, area
    <2> QED BY <2>1, <2>2, <2>3 DEF Inv
  <1>5. CASE UNCHANGED vars
    <2>1. Calm /\ UNCHANGED <<screen, prog, late, has_temp, temp>>
      BY <1>5 DEF vars, Calm, area
    <2> QED BY <2>1, CalmKeeps DEF Inv, TypeOK
  <1> QED
    BY <1>1, <1>2, <1>3, <1>4, <1>5 DEF Next

\* ... so it holds for ever.
LEMMA Invariance == Spec => []Inv
  BY InitInvariant, NextKeeps, PTL DEF Spec

(* The kernel module, the programs and the flags and counters of display() keep  *)
(* to their types (as-spi-gpio-dev.c:16-102, main.c:596-850).                    *)
THEOREM TypeCorrect == Spec => []TypeOK
  <1>1. Inv => TypeOK
    BY DEF Inv
  <1> QED BY <1>1, Invariance, PTL

(* Loading the kernel module, at whatever step it fails, and unloading it give    *)
(* back every reference taken, once; the node is there exactly while it is in     *)
(* (as-spi-gpio-dev.c:27-91).                                                   *)
THEOREM SpiIsBalanced == Spec => []SpiBalanced
  <1>1. Inv => SpiBalanced
    BY DEF Inv, SpiInv, SpiTypeOK, SpiHolds, SpiBalanced
  <1> QED BY <1>1, Invariance, PTL

(* However many pages, values and temperatures are drawn in whatever order, only  *)
(* the views of the pages ID and IP cost memory, twenty buffers each (lcd.c:      *)
(* 466-530, 548-631).                                                           *)
THEOREM PagesLeak == Spec => []LeaksOnPagesOnly
  <1>1. Inv => LeaksOnPagesOnly
    BY DEF Inv, Memory
  <1> QED BY <1>1, Invariance, PTL

(* The degrees that read_temp() makes of any reading of the thermometer are the   *)
(* nearest whole ones, although it cuts off hundredths before it rounds            *)
(* (main.c:779-798).                                                            *)
THEOREM NearestDegree ==
    \A milli \in Int : Abs(1000 * ReadTemp(milli) - milli) <= 500
  <1>1. ASSUME NEW m \in Nat
        PROVE  LET tenths == m \div 100
                   degrees == tenths \div 10 + (IF tenths % 10 >= 5 THEN 1 ELSE 0)
               IN  degrees \in Nat /\ 1000 * degrees - m \in -499..500
    <2> DEFINE tenths == m \div 100
               whole == tenths \div 10
               rest == tenths % 10
    <2>1. tenths \in Nat /\ 100 * tenths <= m /\ m <= 100 * tenths + 99
      OBVIOUS
    <2> HIDE DEF tenths
    <2>2. whole \in Nat /\ rest \in 0..9 /\ tenths = 10 * whole + rest
      BY <2>1
    <2> HIDE DEF whole, rest
    <2>3. CASE rest >= 5
      BY <2>1, <2>2, <2>3 DEF whole, rest, tenths
    <2>4. CASE ~(rest >= 5)
      BY <2>1, <2>2, <2>4 DEF whole, rest, tenths
    <2> QED BY <2>3, <2>4
  <1>2. ASSUME NEW milli \in Int PROVE Abs(1000 * ReadTemp(milli) - milli) <= 500
    <2>1. CASE milli < 0
      BY <1>1, <2>1 DEF ReadTemp, Abs
    <2>2. CASE milli >= 0
      BY <1>1, <2>2 DEF ReadTemp, Abs
    <2> QED BY <2>1, <2>2
  <1> QED BY <1>2

-----------------------------------------------------------------------------
(* Drawing.                                                                    *)

\* A picture that lies on the panel and is none that was sent wrong.
Neat(p) ==
    /\ p.w \in 1..LCD_W /\ p.h \in 1..LCD_H
    /\ p.x \in 0..(LCD_W - p.w) /\ p.y \in 0..(LCD_H - p.h)
    /\ p.image # Garbled

\* The last block of any picture that has a pixel is neither empty nor too long.
LEMMA LastBlockFits == \A n \in Nat : n > 0 => LastBlock(n) \in 1..BLOCK
<1> SUFFICES ASSUME NEW n \in Nat, n > 0 PROVE LastBlock(n) \in 1..BLOCK
  OBVIOUS
<1>1. CASE n > BLOCK
  <2> DEFINE b == (n - 1) \div 900
  <2>1. b \in Int /\ 900 * b <= n - 1 /\ n - 1 < 900 * b + 900
    OBVIOUS
  <2>2. LastBlock(n) = n - 900 - 900 * b + 900
    BY <1>1 DEF LastBlock, Blocks, BLOCK
  <2> HIDE DEF b
  <2> QED
    BY <2>1, <2>2 DEF BLOCK
<1>2. CASE ~(n > BLOCK)
  BY <1>2 DEF LastBlock, Blocks, BLOCK
<1> QED
  BY <1>1, <1>2

\* A neat picture is accepted and drawn as it is.
LEMMA ShowNeat ==
  ASSUME NEW S, NEW p, Neat(p)
  PROVE  Show(S, p) = {q \in S : ~Inside(q, p)} \cup {p}
<1> DEFINE w == p.w
           h == p.h
           x == p.x
           y == p.y
           n == BPP * w * h
<1>1. /\ w \in 1..160 /\ h \in 1..128
      /\ x \in 0..(160 - w) /\ y \in 0..(128 - h)
  BY DEF Neat, LCD_W, LCD_H
<1>2. Accepts(p)
  <2>1. Accepts(p) <=> p.image = White \/ ((x + w - 1) % 256 <= 159 /\ (y + h - 1) % 256 <= 127)
    BY DEF Accepts, LCD_W, LCD_H
  <2> HIDE DEF w, h, x, y
  <2>2. x + w - 1 \in 0..159 /\ y + h - 1 \in 0..127
    BY <1>1
  <2>3. \A k \in 0..159 : k % 256 = k
    OBVIOUS
  <2> QED
    BY <2>1, <2>2, <2>3
<1>3. n \in Nat /\ n > 0
  <2> HIDE DEF w, h
  <2>1. BPP * w \in Nat /\ BPP * w > 0
    BY <1>1 DEF BPP
  <2>2. \A a, b \in Nat : a > 0 /\ b > 0 => a * b \in Nat /\ a * b > 0
    OBVIOUS
  <2>3. h \in Nat /\ h > 0
    BY <1>1
  <2> QED
    BY <2>1, <2>2, <2>3
<1>4. LastBlock(BPP * p.w * p.h) \in 1..BLOCK
  <2> HIDE DEF n
  <2>1. LastBlock(n) \in 1..BLOCK
    BY <1>3, LastBlockFits
  <2> QED
    BY <2>1 DEF n
<1> QED
  BY <1>2, <1>4 DEF Show

\* What lies on the panel after each picture of a drawing ...
Stages(after, S, drawing, N) ==
    /\ after[0] = S
    /\ \A n \in 1..N : after[n] = Show(after[n-1], drawing[n])
    /\ Drawn(S, drawing) = after[N]

\* ... is well defined.
LEMMA DrawnSteps ==
  ASSUME NEW S, NEW N \in Nat, NEW drawing, Len(drawing) = N
  PROVE  \E after : Stages(after, S, drawing, N)
<1> DEFINE Next1(n, t) == Show(t, drawing[n])
           Def(g) == [n \in 0..N |-> IF n = 0 THEN S ELSE Show(g[n-1], drawing[n])]
           All == S \cup {drawing[n] : n \in 1..N}
                    \cup {[drawing[n] EXCEPT !.image = Garbled] : n \in 1..N}
           T == SUBSET All
           step == {p \in (1..N) \X T \X T : p[3] = Next1(p[1], p[2])}
<1>2. \A n \in 1..N, t \in T : Next1(n, t) \in T
  BY DEF Show
<1> HIDE DEF Next1, T
<1>3. \A n \in 1..N, t, u \in T : <<n, t, u>> \in step <=> u = Next1(n, t)
  OBVIOUS
<1>4. \A n \in 1..N, t \in T : \E u \in T : <<n, t, u>> \in step
  BY <1>2, <1>3
<1>5. S \in T
  BY DEF T
<1> HIDE DEF step
<1>6. PICK f : Follows(f, N, T, S, step)
  BY <1>4, <1>5, Course
<1>7. \A n \in 1..N : f[n] = Next1(n, f[n-1])
  <2> SUFFICES ASSUME NEW n \in 1..N PROVE f[n] = Next1(n, f[n-1])
    OBVIOUS
  <2>1. f[n-1] \in T /\ f[n] \in T
    BY <1>6 DEF Follows
  <2>2. <<n, f[n-1], f[n]>> \in step
    BY <1>6 DEF Follows
  <2> QED
    BY <1>3, <2>1, <2>2
<1> DEFINE g == [n \in 0..N |-> f[n]]
<1>8. g = Def(g)
  <2>1. \A n \in 0..N : g[n] = Def(g)[n]
    BY <1>6, <1>7 DEF Next1, Follows
  <2> QED
    BY <2>1
<1>9. Drawn(S, drawing) = (CHOOSE h : h = Def(h))[N]
  BY DEF Drawn
<1> HIDE DEF g
<1>10. PICK after : after = Def(after) /\ Drawn(S, drawing) = after[N]
  <2> DEFINE c == CHOOSE h : h = Def(h)
  <2>1. c = Def(c)
    BY <1>8
  <2>2. Drawn(S, drawing) = c[N]
    BY <1>9
  <2> HIDE DEF c
  <2> QED
    BY <2>1, <2>2
<1>11. after[0] = S /\ \A n \in 1..N : after[n] = Show(after[n-1], drawing[n])
  BY <1>10
<1> QED
  BY <1>10, <1>11 DEF Stages

\* A drawing is drawn like its parts, one after the other.
LEMMA DrawnParts ==
  ASSUME NEW S, NEW P, NEW c \in Seq(P), NEW e \in Seq(P)
  PROVE  Drawn(S, c \o e) = Drawn(Drawn(S, c), e)
<1> DEFINE d == c \o e
           N == Len(c)
           M == Len(e)
<1>1. /\ N \in Nat /\ M \in Nat /\ Len(d) = N + M
      /\ \A k \in 1..N : d[k] = c[k]
      /\ \A k \in 1..M : d[N + k] = e[k]
  <2>1. N \in Nat /\ M \in Nat
    OBVIOUS
  <2>2. /\ Len(d) = N + M
        /\ \A k \in 1..N+M : d[k] = IF k <= N THEN c[k] ELSE e[k - N]
    BY ConcatProperties
  <2> HIDE DEF d, N, M
  <2>3. \A k \in 1..N : d[k] = c[k]
    BY <2>1, <2>2
  <2>4. ASSUME NEW k \in 1..M PROVE d[N + k] = e[k]
    <3> DEFINE m == N + k
    <3>1. m \in 1..N+M /\ ~(m <= N) /\ m - N = k
      BY <2>1
    <3> HIDE DEF m
    <3>2. d[m] = e[m - N]
      BY <2>2, <3>1
    <3> QED
      BY <3>1, <3>2 DEF m
  <2> QED
    BY <2>1, <2>2, <2>3, <2>4
<1> HIDE DEF d, N, M
<1>2. PICK f : Stages(f, S, c, N)
  <2>1. Len(c) = N
    BY DEF N
  <2> QED
    BY <1>1, <2>1, DrawnSteps
<1>3. PICK g : Stages(g, Drawn(S, c), e, M)
  <2>1. Len(e) = M
    BY DEF M
  <2> QED
    BY <1>1, <2>1, DrawnSteps
<1>4. PICK h : Stages(h, S, d, N + M)
  <2>1. N + M \in Nat
    BY <1>1
  <2> QED
    BY <1>1, <2>1, DrawnSteps
<1>5. h[N] = f[N]
  <2> DEFINE A == {n \in 0..N : h[n] = f[n]}
  <2>1. 0 \in A
    BY <1>1, <1>2, <1>4 DEF Stages
  <2>2. ASSUME NEW n \in 0..N-1, n \in A PROVE n + 1 \in A
    <3>1. n + 1 \in 1..N /\ n + 1 \in 1..N+M /\ n + 1 - 1 = n
      BY <1>1
    <3>2. h[n+1] = Show(h[n], d[n+1]) /\ f[n+1] = Show(f[n], c[n+1]) /\ d[n+1] = c[n+1]
      BY <1>1, <1>2, <1>4, <3>1 DEF Stages
    <3> QED
      BY <2>2, <3>1, <3>2
  <2> HIDE DEF A
  <2>3. 0..N \subseteq A
    BY <1>1, <2>1, <2>2, InductionTo
  <2>4. N \in 0..N
    BY <1>1
  <2> QED
    BY <2>3, <2>4 DEF A
<1>6. h[N+M] = g[M]
  <2> DEFINE A == {n \in 0..M : h[N+n] = g[n]}
  <2>1. 0 \in A
    <3>1. N + 0 = N
      BY <1>1
    <3> QED
      BY <1>1, <1>2, <1>3, <1>5, <3>1 DEF Stages
  <2>2. ASSUME NEW n \in 0..M-1, n \in A PROVE n + 1 \in A
    <3>1. n + 1 \in 1..M /\ N + n + 1 \in 1..N+M /\ N + n + 1 - 1 = N + n /\ n + 1 - 1 = n
          /\ N + (n + 1) = N + n + 1
      BY <1>1
    <3>2. d[N+n+1] = e[n+1]
      <4>1. d[N + (n+1)] = e[n+1]
        BY <1>1, <3>1
      <4> QED
        BY <3>1, <4>1
    <3>3. h[N+n+1] = Show(h[N+n], d[N+n+1])
      <4> DEFINE m == N + n + 1
      <4>1. m \in 1..N+M /\ m - 1 = N + n
        BY <1>1, <3>1
      <4> HIDE DEF m
      <4>2. h[m] = Show(h[m - 1], d[m])
        BY <1>4, <4>1 DEF Stages
      <4> QED
        BY <4>1, <4>2 DEF m
    <3>4. g[n+1] = Show(g[n], e[n+1])
      BY <1>3, <3>1 DEF Stages
    <3> QED
      BY <2>2, <3>1, <3>2, <3>3, <3>4
  <2> HIDE DEF A
  <2>3. 0..M \subseteq A
    BY <1>1, <2>1, <2>2, InductionTo
  <2>4. M \in 0..M
    BY <1>1
  <2> QED
    BY <2>3, <2>4 DEF A
<1> QED
  BY <1>3, <1>4, <1>6 DEF d, Stages

\* Nothing, one picture, and two.
LEMMA DrawnFew ==
  ASSUME NEW S
  PROVE  /\ Drawn(S, <<>>) = S
         /\ \A p : Drawn(S, <<p>>) = Show(S, p)
         /\ \A p, q, d : d = <<p, q>> => Drawn(S, d) = Show(Show(S, p), q)
<1>1. Drawn(S, <<>>) = S
  <2> DEFINE d == <<>>
  <2>1. Len(d) = 0 /\ 0 \in Nat
    OBVIOUS
  <2> HIDE DEF d
  <2>2. PICK f : Stages(f, S, d, 0)
    BY <2>1, DrawnSteps
  <2> QED
    BY <2>2 DEF d, Stages
<1>2. ASSUME NEW p PROVE Drawn(S, <<p>>) = Show(S, p)
  <2> DEFINE d == <<p>>
  <2>1. Len(d) = 1 /\ d[1] = p
    OBVIOUS
  <2> HIDE DEF d
  <2>2. PICK f : Stages(f, S, d, 1)
    BY <2>1, DrawnSteps
  <2>3. f[1] = Show(f[0], d[1])
    BY <2>2 DEF Stages
  <2> QED
    BY <2>1, <2>2, <2>3 DEF d, Stages
<1>3. ASSUME NEW p, NEW q, NEW d, d = <<p, q>> PROVE Drawn(S, d) = Show(Show(S, p), q)
  <2>1. Len(d) = 2 /\ d[1] = p /\ d[2] = q
    BY <1>3
  <2>2. PICK f : Stages(f, S, d, 2)
    BY <2>1, DrawnSteps
  <2>3. f[1] = Show(f[0], d[1])
    BY <2>2 DEF Stages
  <2>4. f[2] = Show(f[1], d[2])
    BY <2>2 DEF Stages
  <2> QED
    BY <2>1, <2>2, <2>3, <2>4 DEF Stages
<1> QED
  BY <1>1, <1>2, <1>3

\* A row of pictures none of which covers another replaces what is inside them.
LEMMA DrawnRow ==
  ASSUME NEW S, NEW N \in Nat, NEW row, Len(row) = N,
         \A k \in 1..N : Neat(row[k]),
         \A j, k \in 1..N : j # k => ~Inside(row[j], row[k])
  PROVE  Drawn(S, row) = {q \in S : \A k \in 1..N : ~Inside(q, row[k])}
                           \cup {row[k] : k \in 1..N}
<1>1. PICK f : Stages(f, S, row, N)
  BY DrawnSteps
<1> DEFINE Rest(n) == {q \in S : \A k \in 1..n : ~Inside(q, row[k])}
           First1(n) == {row[k] : k \in 1..n}
           A == {n \in 0..N : f[n] = Rest(n) \cup First1(n)}
<1>2. 0 \in A
  <2>1. Rest(0) = S /\ First1(0) = {}
    OBVIOUS
  <2> HIDE DEF Rest, First1
  <2> QED
    BY <1>1, <2>1 DEF Stages
<1>3. ASSUME NEW n \in 0..N-1, n \in A PROVE n + 1 \in A
  <2>1. n + 1 \in 1..N /\ n + 1 - 1 = n
    OBVIOUS
  <2>2. f[n+1] = {q \in f[n] : ~Inside(q, row[n+1])} \cup {row[n+1]}
    <3>1. f[n+1] = Show(f[n], row[n+1])
      BY <1>1, <2>1 DEF Stages
    <3>2. Neat(row[n+1])
      BY <2>1
    <3> QED
      BY <3>1, <3>2, ShowNeat
  <2>3. f[n] = Rest(n) \cup First1(n)
    BY <1>3
  <2>4. First1(n+1) = First1(n) \cup {row[n+1]}
    <3>1. 1..n+1 = 1..n \cup {n+1}
      OBVIOUS
    <3> QED
      BY <3>1
  <2>5. Rest(n+1) = {q \in Rest(n) : ~Inside(q, row[n+1])}
    <3>1. 1..n+1 = 1..n \cup {n+1}
      OBVIOUS
    <3> QED
      BY <3>1
  <2>6. \A q \in First1(n) : ~Inside(q, row[n+1])
    <3> SUFFICES ASSUME NEW k \in 1..n PROVE ~Inside(row[k], row[n+1])
      OBVIOUS
    <3>1. k \in 1..N /\ k # n + 1
      OBVIOUS
    <3> QED
      BY <2>1, <3>1
  <2> HIDE DEF Rest, First1
  <2>7. f[n+1] = Rest(n+1) \cup First1(n+1)
    BY <2>2, <2>3, <2>4, <2>5, <2>6
  <2> QED
    BY <2>1, <2>7
<1> HIDE DEF A
<1>4. 0..N \subseteq A
  BY <1>2, <1>3, InductionTo
<1>5. N \in 0..N
  OBVIOUS
<1> QED
  BY <1>1, <1>4, <1>5 DEF A, Stages

-----------------------------------------------------------------------------
(* The areas of the panel.                                                     *)

Area(left, top, width, height) == [x |-> left, y |-> top, w |-> width, h |-> height]

UpperArea == Area(0, 0, 160, 98)
BatteryArea == Area(0, 98, 20, 30)
TempArea == Area(20, 98, 80, 30)
NetArea == Area(100, 98, 30, 30)
SpinnerArea == Area(130, 98, 30, 30)
Areas == {UpperArea, BatteryArea, TempArea, NetArea, SpinnerArea}

\* What Welcome shows; every other picture lies in an area.
Ground == DisplayImg(Image("welcome"), 0, 0)

Part(S, a) == {p \in S : Inside(p, a)}

Laid(S) ==
    /\ Ground \in S
    /\ \A p \in S : Neat(p) /\ (p = Ground \/ \E a \in Areas : Inside(p, a))

\* No two pictures overlap but one inside the other, and no two glyphs.
Tidy(S) ==
    \A p, q \in S : Overlap(p, q) => /\ Inside(p, q) \/ Inside(q, p)
                                     /\ IsGlyph(p) /\ IsGlyph(q) => p = q

\* Legible, of any set of pictures.
Readable(S) == (\A p \in S : Neat(p)) /\ Tidy(S)

\* On a readable panel nothing is cut off or half hidden.
LEMMA ReadableIsLegible ==
  ASSUME Readable(pictures) PROVE Legible
<1> SUFFICES ASSUME NEW p \in pictures
             PROVE  /\ p.x \in 0..(LCD_W - p.w) /\ p.y \in 0..(LCD_H - p.h)
                    /\ p.image # Garbled
                    /\ \A q \in pictures : Overlap(p, q) => Inside(p, q) \/ Inside(q, p)
                    /\ IsGlyph(p) => \A q \in pictures : IsGlyph(q) /\ Overlap(p, q) => p = q
  BY DEF Legible
<1>1. Neat(p)
  BY DEF Readable
<1>2. \A q \in pictures : Overlap(p, q) => /\ Inside(p, q) \/ Inside(q, p)
                                           /\ IsGlyph(p) /\ IsGlyph(q) => p = q
  BY DEF Readable, Tidy
<1>3. p.x \in 0..(LCD_W - p.w) /\ p.y \in 0..(LCD_H - p.h) /\ p.image # Garbled
  BY <1>1 DEF Neat
<1> QED
  BY <1>2, <1>3

\* A box of whole pixels, at least one wide and high.
Boxed(p) == p.x \in Int /\ p.y \in Int /\ p.w \in Nat \ {0} /\ p.h \in Nat \ {0}

\* A neat picture has whole pixels, and one at least.
LEMMA NeatIsBoxed == \A p : Neat(p) => Boxed(p)
<1> SUFFICES ASSUME NEW p, Neat(p) PROVE Boxed(p)
  OBVIOUS
<1> DEFINE w == p.w
           h == p.h
           x == p.x
           y == p.y
<1>1. w \in 1..160 /\ h \in 1..128 /\ x \in 0..(160 - w) /\ y \in 0..(128 - h)
  BY DEF Neat, LCD_W, LCD_H
<1> HIDE DEF w, h, x, y
<1>2. x \in Int /\ y \in Int /\ w \in Nat \ {0} /\ h \in Nat \ {0}
  BY <1>1
<1> QED
  BY <1>2 DEF Boxed, w, h, x, y

\* Inside is an order; what is inside a box overlaps nothing that is beside it.
LEMMA InsideOrder ==
  ASSUME NEW p, NEW q, NEW r, Boxed(p), Boxed(q), Boxed(r)
  PROVE  /\ Inside(p, p)
         /\ Inside(p, q) /\ Inside(q, r) => Inside(p, r)
         /\ Inside(p, q) => Overlap(p, q)
         /\ Inside(p, q) /\ Overlap(p, r) => Overlap(q, r)
         /\ Overlap(p, q) => Overlap(q, p)
<1> DEFINE px == p.x  py == p.y  pw == p.w  ph == p.h
           qx == q.x  qy == q.y  qw == q.w  qh == q.h
           rx == r.x  ry == r.y  rw == r.w  rh == r.h
<1>1. /\ px \in Int /\ py \in Int /\ pw \in Nat \ {0} /\ ph \in Nat \ {0}
      /\ qx \in Int /\ qy \in Int /\ qw \in Nat \ {0} /\ qh \in Nat \ {0}
      /\ rx \in Int /\ ry \in Int /\ rw \in Nat \ {0} /\ rh \in Nat \ {0}
  BY DEF Boxed
<1>2. /\ Inside(p, p) <=> px <= px /\ px + pw <= px + pw /\ py <= py /\ py + ph <= py + ph
      /\ Inside(p, q) <=> qx <= px /\ px + pw <= qx + qw /\ qy <= py /\ py + ph <= qy + qh
      /\ Inside(q, r) <=> rx <= qx /\ qx + qw <= rx + rw /\ ry <= qy /\ qy + qh <= ry + rh
      /\ Inside(p, r) <=> rx <= px /\ px + pw <= rx + rw /\ ry <= py /\ py + ph <= ry + rh
      /\ Overlap(p, q) <=> px < qx + qw /\ qx < px + pw /\ py < qy + qh /\ qy < py + ph
      /\ Overlap(q, p) <=> qx < px + pw /\ px < qx + qw /\ qy < py + ph /\ py < qy + qh
      /\ Overlap(p, r) <=> px < rx + rw /\ rx < px + pw /\ py < ry + rh /\ ry < py + ph
      /\ Overlap(q, r) <=> qx < rx + rw /\ rx < qx + qw /\ qy < ry + rh /\ ry < qy + qh
  BY DEF Inside, Overlap
<1> HIDE DEF px, py, pw, ph, qx, qy, qw, qh, rx, ry, rw, rh
<1> QED
  BY <1>1, <1>2

\* The areas lie on the panel side by side, and none is as large as the panel.
LEMMA AreasApart ==
  /\ \A a \in Areas : Boxed(a) /\ ~Inside(Ground, a)
  /\ \A a, b \in Areas : a # b => ~Overlap(a, b)
<1> USE DEF Areas, UpperArea, BatteryArea, TempArea, NetArea, SpinnerArea, Area
<1>1. ASSUME NEW a \in Areas PROVE Boxed(a)
  BY DEF Boxed
<1>2. Ground.x = 0 /\ Ground.w = 160 /\ Ground.y = 0 /\ Ground.h = 128
  BY DEF Ground, DisplayImg, Place, Size, Image, LCD_W, LCD_H
<1>3. ASSUME NEW a \in Areas PROVE ~Inside(Ground, a)
  BY <1>2 DEF Inside
<1>4. ASSUME NEW a \in Areas, NEW b \in Areas, a # b PROVE ~Overlap(a, b)
  BY <1>4 DEF Overlap
<1> QED
  BY <1>1, <1>3, <1>4

\* Welcome's picture is neat, no glyph, and under every other.
LEMMA GroundIsNeat ==
  /\ Neat(Ground) /\ Boxed(Ground) /\ ~IsGlyph(Ground)
  /\ \A p : Neat(p) => Inside(p, Ground)
<1>1. Ground = [image |-> <<"welcome", 0>>, x |-> 0, y |-> 0, w |-> 160, h |-> 128]
  BY DEF Ground, DisplayImg, Place, Size, Image, LCD_W, LCD_H
<1>2. Neat(Ground)
  <2>1. <<"welcome", 0>> # Garbled
    BY DEF Garbled, Image
  <2> QED
    BY <1>1, <2>1 DEF Neat, LCD_W, LCD_H
<1>3. ~IsGlyph(Ground)
  BY <1>1 DEF IsGlyph
<1>4. ASSUME NEW p, Neat(p) PROVE Inside(p, Ground)
  <2> DEFINE w == p.w
             h == p.h
             x == p.x
             y == p.y
  <2>1. w \in 1..160 /\ h \in 1..128 /\ x \in 0..(160 - w) /\ y \in 0..(128 - h)
    BY <1>4 DEF Neat, LCD_W, LCD_H
  <2> HIDE DEF w, h, x, y
  <2>2. 0 <= x /\ x + w <= 0 + 160 /\ 0 <= y /\ y + h <= 0 + 128
    BY <2>1
  <2> QED
    BY <1>1, <2>2 DEF Inside, w, h, x, y
<1> QED
  BY <1>2, <1>3, <1>4, NeatIsBoxed

\* Pictures in different areas do not meet.
LEMMA PartsApart ==
  ASSUME NEW p, NEW q, Boxed(p), Boxed(q), NEW a \in Areas, NEW b \in Areas, a # b,
         Inside(p, a), Inside(q, b)
  PROVE  ~Overlap(p, q) /\ ~Inside(p, b)
<1>1. Boxed(a) /\ Boxed(b) /\ ~Overlap(a, b)
  BY AreasApart
<1>2. ~Overlap(p, b)
  BY <1>1, InsideOrder
<1>3. ~Inside(p, b)
  BY <1>1, <1>2, InsideOrder
<1>4. ~Overlap(p, q)
  BY <1>1, <1>2, InsideOrder
<1> QED
  BY <1>3, <1>4

\* A panel is readable if each of its areas is.
LEMMA PartsReadable ==
  ASSUME NEW S, Laid(S), \A a \in Areas : Tidy(Part(S, a))
  PROVE  Readable(S)
<1>1. \A p \in S : Neat(p) /\ Boxed(p) /\ Inside(p, Ground)
  BY NeatIsBoxed, GroundIsNeat DEF Laid
<1>2. ASSUME NEW p \in S, NEW q \in S, Overlap(p, q)
      PROVE  /\ Inside(p, q) \/ Inside(q, p)
             /\ IsGlyph(p) /\ IsGlyph(q) => p = q
  <2>1. CASE p = Ground \/ q = Ground
    BY <1>1, <2>1, GroundIsNeat
  <2>2. CASE ~(p = Ground \/ q = Ground)
    <3>1. PICK a \in Areas : Inside(p, a)
      BY <2>2 DEF Laid
    <3>2. PICK b \in Areas : Inside(q, b)
      BY <2>2 DEF Laid
    <3>3. a = b
      BY <1>1, <1>2, <3>1, <3>2, PartsApart
    <3>4. p \in Part(S, a) /\ q \in Part(S, a)
      BY <3>1, <3>2, <3>3 DEF Part
    <3>5. Tidy(Part(S, a))
      OBVIOUS
    <3> QED
      BY <1>2, <3>4, <3>5 DEF Tidy
  <2> QED
    BY <2>1, <2>2
<1> QED
  BY <1>1, <1>2 DEF Readable, Tidy

\* All of an area gives way to fresh pictures, some of which may be the old ones.
Replaces(S, R, a, fresh) ==
    /\ R = {q \in S : ~Inside(q, a)} \cup fresh
    /\ \A p \in fresh : Neat(p) /\ Inside(p, a)

\* From S to R one area is changed, and no other.
Becomes(S, R, a, fresh) ==
    /\ Laid(R) /\ Part(R, a) = fresh
    /\ \A b \in Areas : b # a => Part(R, b) = Part(S, b)

\* What is drawn in an area changes no other.
LEMMA PartDrawn ==
  ASSUME NEW S, Laid(S), NEW a \in Areas, NEW fresh, NEW R, Replaces(S, R, a, fresh)
  PROVE  Becomes(S, R, a, fresh)
<1> USE DEF Replaces
<1>1. Boxed(a) /\ ~Inside(Ground, a)
  BY AreasApart
<1>2. Ground \in R
  BY <1>1 DEF Laid
<1>3. \A p \in R : Neat(p) /\ (p = Ground \/ \E b \in Areas : Inside(p, b))
  BY DEF Laid
<1>4. Part(R, a) = fresh
  BY DEF Part
<1>5. ASSUME NEW b \in Areas, b # a PROVE Part(R, b) = Part(S, b)
  <2>1. \A p \in fresh : ~Inside(p, b)
    BY <1>1, <1>5, AreasApart, NeatIsBoxed, PartsApart
  <2>2. \A p \in S : Inside(p, b) => ~Inside(p, a)
    BY <1>1, <1>5, AreasApart, NeatIsBoxed, PartsApart DEF Laid
  <2> QED
    BY <2>1, <2>2 DEF Part
<1> QED
  BY <1>2, <1>3, <1>4, <1>5 DEF Laid, Becomes

-----------------------------------------------------------------------------
(* Rows of glyphs.                                                             *)

\* The pictures of a row.
Glyphs(row, n) == {row[k] : k \in 1..n}

\* n glyphs side by side in an area, beside what else is in front of its background.
Row(row, n, a, front) ==
    /\ n \in Nat /\ Len(row) = n /\ row \in Seq(Glyphs(row, n))
    /\ \A k \in 1..n : /\ Neat(row[k]) /\ IsGlyph(row[k])
                       /\ Inside(row[k], a) /\ ~Inside(a, row[k])
    /\ \A k \in 1..n : \A f \in front : ~Overlap(f, row[k])
    /\ \A j, k \in 1..n : j # k => ~Overlap(row[j], row[k])

\* A background that fills an area.
Fills(back, a) ==
    /\ back.x = a.x /\ back.y = a.y /\ back.w = a.w /\ back.h = a.h
    /\ Neat(back) /\ ~IsGlyph(back)

\* What is between a background and its glyphs: one picture, or none.
Front(front, a) ==
    /\ \A f \in front : Neat(f) /\ ~IsGlyph(f) /\ Inside(f, a) /\ ~Inside(a, f)
    /\ \A f, g \in front : f = g

\* A background lies where its area does.
LEMMA FillsInside ==
  ASSUME NEW back, NEW a, Fills(back, a)
  PROVE  \A p : (Inside(p, back) <=> Inside(p, a)) /\ (Inside(back, p) <=> Inside(a, p))
                 /\ (Overlap(p, back) <=> Overlap(p, a))
BY DEF Fills, Inside, Overlap

\* Such a part is tidy.
LEMMA TidyPart ==
  ASSUME NEW a \in Areas, NEW back, Fills(back, a), NEW front, Front(front, a),
         NEW row, NEW n, Row(row, n, a, front)
  PROVE  Tidy({back} \cup front \cup Glyphs(row, n))
<1> DEFINE P == {back} \cup front \cup Glyphs(row, n)
<1>1. \A p \in P : Neat(p) /\ Boxed(p) /\ Inside(p, back)
  <2>1. \A p \in P : Neat(p) /\ Boxed(p)
    BY NeatIsBoxed DEF Fills, Front, Row, Glyphs
  <2>2. Inside(back, back)
    BY <2>1, InsideOrder
  <2>3. \A p \in front \cup Glyphs(row, n) : Inside(p, a)
    BY DEF Front, Row, Glyphs
  <2> QED
    BY <2>1, <2>2, <2>3, FillsInside
<1>2. ~IsGlyph(back) /\ \A f \in front : ~IsGlyph(f)
  BY DEF Fills, Front
<1>3. \A p, q \in Glyphs(row, n) : Overlap(p, q) => p = q
  BY DEF Row, Glyphs
<1>4. \A f \in front, p \in Glyphs(row, n) : ~Overlap(f, p) /\ ~Overlap(p, f)
  <2> SUFFICES ASSUME NEW f \in front, NEW p \in Glyphs(row, n)
               PROVE  ~Overlap(f, p) /\ ~Overlap(p, f)
    OBVIOUS
  <2>1. ~Overlap(f, p)
    BY DEF Row, Glyphs
  <2>2. Boxed(f) /\ Boxed(p)
    BY <1>1
  <2> QED
    BY <2>1, <2>2, InsideOrder
<1> SUFFICES ASSUME NEW p \in P, NEW q \in P, Overlap(p, q)
             PROVE  /\ Inside(p, q) \/ Inside(q, p)
                    /\ IsGlyph(p) /\ IsGlyph(q) => p = q
  BY DEF Tidy
<1>5. CASE p = back \/ q = back
  BY <1>1, <1>2, <1>5
<1>6. CASE p # back /\ q # back
  <2>1. p = q
    BY <1>3, <1>4, <1>6 DEF Front
  <2>2. Boxed(p)
    BY <1>1
  <2> QED
    BY <2>1, <2>2, InsideOrder
<1> QED
  BY <1>5, <1>6

\* Of what an area holds a row covers some, and leaves the rest.
Covering(row, n, rest, old) ==
    /\ \A q \in rest, k \in 1..n : ~Inside(q, row[k])
    /\ \A q \in old : \E k \in 1..n : Inside(q, row[k])

\* A row takes the place of what it covers.
LEMMA RowDrawn ==
  ASSUME NEW S, \A q \in S : Neat(q), NEW a \in Areas, NEW front,
         NEW row, NEW n, Row(row, n, a, front),
         NEW kept, NEW old, Part(S, a) = kept \cup old, Covering(row, n, kept, old)
  PROVE  Replaces(S, Drawn(S, row), a, kept \cup Glyphs(row, n))
<1> USE DEF Covering
<1>1. /\ n \in Nat /\ Len(row) = n
      /\ \A k \in 1..n : Neat(row[k]) /\ Inside(row[k], a) /\ Boxed(row[k])
  BY NeatIsBoxed DEF Row
<1>2. \A j, k \in 1..n : j # k => ~Inside(row[j], row[k])
  <2> SUFFICES ASSUME NEW j \in 1..n, NEW k \in 1..n, j # k PROVE ~Inside(row[j], row[k])
    OBVIOUS
  <2>1. ~Overlap(row[j], row[k])
    BY DEF Row
  <2>2. Boxed(row[j]) /\ Boxed(row[k])
    BY <1>1
  <2> QED
    BY <2>1, <2>2, InsideOrder
<1>3. Drawn(S, row) = {q \in S : \A k \in 1..n : ~Inside(q, row[k])} \cup Glyphs(row, n)
  BY <1>1, <1>2, DrawnRow DEF Glyphs
<1>4. ASSUME NEW q \in S
      PROVE  (\A k \in 1..n : ~Inside(q, row[k])) <=> ~Inside(q, a) \/ q \in kept
  <2>1. Boxed(q) /\ Boxed(a)
    BY NeatIsBoxed, AreasApart
  <2>2. CASE ~Inside(q, a)
    BY <1>1, <2>1, <2>2, InsideOrder
  <2>3. CASE Inside(q, a)
    <3>1. q \in kept \cup old
      BY <2>3 DEF Part
    <3> QED
      BY <2>3, <3>1
  <2> QED
    BY <2>2, <2>3
<1>5. kept \subseteq S /\ \A q \in kept : Inside(q, a)
  BY DEF Part
<1> QED
  BY <1>1, <1>3, <1>4, <1>5 DEF Replaces, Glyphs

\* A whole area is drawn afresh: its background, what is in front of it, the row.
LEMMA AreaDrawn ==
  ASSUME NEW S, \A q \in S : Neat(q), NEW a \in Areas, NEW back, Fills(back, a)
  PROVE  /\ Drawn(S, <<back>>) = {q \in S : ~Inside(q, a)} \cup {back}
         /\ \A f : Front({f}, a) =>
              Drawn(S, <<back, f>>) = {q \in S : ~Inside(q, a)} \cup {back, f}
<1> DEFINE rest == {q \in S : ~Inside(q, a)}
<1>1. Show(S, back) = rest \cup {back}
  BY ShowNeat, FillsInside DEF Fills
<1>2. ASSUME NEW f, Front({f}, a)
      PROVE  Show(rest \cup {back}, f) = rest \cup {back, f}
  <2>1. Neat(f) /\ Inside(f, a) /\ ~Inside(a, f) /\ ~Inside(back, f)
    BY <1>2, FillsInside DEF Front
  <2>2. Show(rest \cup {back}, f) = {q \in rest \cup {back} : ~Inside(q, f)} \cup {f}
    BY <2>1, ShowNeat
  <2>3. \A q \in rest : ~Inside(q, f)
    <3> SUFFICES ASSUME NEW q \in S, Inside(q, f) PROVE Inside(q, a)
      OBVIOUS
    <3>1. Boxed(q) /\ Boxed(f) /\ Boxed(a)
      BY <2>1, NeatIsBoxed, AreasApart
    <3> QED
      BY <2>1, <3>1, InsideOrder
  <2> QED
    BY <2>1, <2>2, <2>3
<1>3. Drawn(S, <<back>>) = rest \cup {back}
  BY <1>1, DrawnFew
<1>4. ASSUME NEW f, Front({f}, a) PROVE Drawn(S, <<back, f>>) = rest \cup {back, f}
  <2>1. Drawn(S, <<back, f>>) = Show(Show(S, back), f)
    <3> DEFINE d == <<back, f>>
    <3>1. d = <<back, f>>
      OBVIOUS
    <3> HIDE DEF d
    <3>2. Drawn(S, d) = Show(Show(S, back), f)
      BY <3>1, DrawnFew
    <3> QED
      BY <3>2 DEF d
  <2>2. Show(rest \cup {back}, f) = rest \cup {back, f}
    BY <1>2, <1>4
  <2> QED
    BY <1>1, <2>1, <2>2
<1> QED
  BY <1>3, <1>4

-----------------------------------------------------------------------------
(* Reading a row.                                                              *)

\* Different pictures are counted once each.
LEMMA GlyphsCount ==
  ASSUME NEW n \in Nat, NEW row, \A j, k \in 1..n : row[j] = row[k] => j = k
  PROVE  Cardinality(Glyphs(row, n)) = n
<1> DEFINE G == Glyphs(row, n)
           f == [k \in 1..n |-> row[k]]
<1>1. f \in [1..n -> G]
  BY DEF Glyphs
<1>2. \A j, k \in 1..n : f[j] = f[k] => j = k
  OBVIOUS
<1>3. \A g \in G : \E k \in 1..n : f[k] = g
  BY DEF Glyphs
<1>4. f \in Bijection(1..n, G)
  <2> HIDE DEF f, G
  <2>1. f \in Injection(1..n, G)
    BY <1>1, <1>2 DEF Injection, IsInjective
  <2>2. f \in Surjection(1..n, G)
    BY <1>1, <1>3 DEF Surjection
  <2> QED
    BY <2>1, <2>2 DEF Bijection
<1>5. IsFiniteSet(1..n) /\ Cardinality(1..n) = n
  <2>1. 1 \in Int /\ n \in Int
    OBVIOUS
  <2>2. IsFiniteSet(1..n) /\ Cardinality(1..n) = IF 1 > n THEN 0 ELSE n - 1 + 1
    BY <2>1, FS_Interval
  <2> QED
    BY <2>2
<1>6. ExistsBijection(1..n, G)
  BY <1>4 DEF ExistsBijection
<1> HIDE DEF G
<1>7. Cardinality(G) = Cardinality(1..n)
  BY <1>5, <1>6, FS_Bijection
<1> QED
  BY <1>5, <1>7 DEF G

\* A row in reading order is read in its order.
LEMMA TextIs ==
  ASSUME NEW n \in Nat, NEW row, \A j, k \in 1..n : Before(row[j], row[k]) <=> j < k
  PROVE  Text(Glyphs(row, n)) = [k \in 1..n |-> Character(row[k])]
<1> DEFINE G == Glyphs(row, n)
           Rank(p) == Cardinality({q \in G : Before(q, p)})
<1>1. \A j, k \in 1..n : row[j] = row[k] => j = k
  <2> SUFFICES ASSUME NEW j \in 1..n, NEW k \in 1..n, row[j] = row[k], j # k
               PROVE  FALSE
    OBVIOUS
  <2>1. (Before(row[j], row[k]) <=> j < k) /\ (Before(row[k], row[j]) <=> k < j)
        /\ (Before(row[k], row[k]) <=> k < k)
    OBVIOUS
  <2> QED
    BY <2>1
<1>2. Cardinality(G) = n
  BY <1>1, GlyphsCount
<1>3. ASSUME NEW k \in 1..n PROVE Rank(row[k]) = k - 1
  <2>1. {q \in G : Before(q, row[k])} = Glyphs(row, k - 1)
    <3>1. \A j \in 1..n : Before(row[j], row[k]) <=> j \in 1..k-1
      <4> SUFFICES ASSUME NEW j \in 1..n PROVE Before(row[j], row[k]) <=> j \in 1..k-1
        OBVIOUS
      <4>1. Before(row[j], row[k]) <=> j < k
        OBVIOUS
      <4>2. j < k <=> j \in 1..k-1
        OBVIOUS
      <4> QED
        BY <4>1, <4>2
    <3>2. \A j \in 1..k-1 : j \in 1..n
      OBVIOUS
    <3> QED
      BY <3>1, <3>2 DEF Glyphs
  <2>2. k - 1 \in Nat /\ \A i1, j \in 1..k-1 : row[i1] = row[j] => i1 = j
    <3>1. k - 1 \in Nat /\ \A j \in 1..k-1 : j \in 1..n
      OBVIOUS
    <3> QED
      BY <1>1, <3>1
  <2>3. Cardinality(Glyphs(row, k - 1)) = k - 1
    <3> DEFINE m == k - 1
    <3>1. m \in Nat /\ \A i1, j \in 1..m : row[i1] = row[j] => i1 = j
      BY <2>2
    <3> HIDE DEF m
    <3>2. Cardinality(Glyphs(row, m)) = m
      BY <3>1, GlyphsCount
    <3> QED
      BY <3>2 DEF m
  <2> QED
    BY <2>1, <2>3
<1>4. ASSUME NEW k \in 1..n PROVE Nth(G, k) = row[k]
  <2>1. row[k] \in G /\ Rank(row[k]) = k - 1
    BY <1>3 DEF Glyphs
  <2>2. \A p \in G : Rank(p) = k - 1 => p = row[k]
    <3> SUFFICES ASSUME NEW j \in 1..n, Rank(row[j]) = k - 1 PROVE j = k
      BY DEF Glyphs
    <3>1. Rank(row[j]) = j - 1
      BY <1>3
    <3> QED
      BY <3>1
  <2>3. Nth(G, k) = CHOOSE p \in G : Rank(p) = k - 1
    BY DEF Nth
  <2> HIDE DEF G, Rank
  <2> QED
    BY <2>1, <2>2, <2>3
<1> HIDE DEF G
<1>5. Text(G) = [k \in 1..n |-> Character(Nth(G, k))]
  BY <1>2 DEF Text
<1> QED
  BY <1>4, <1>5 DEF G

\* A row against the reading order is read from its end.
LEMMA TextIsTurned ==
  ASSUME NEW n \in Nat, NEW row, \A j, k \in 1..n : Before(row[j], row[k]) <=> k < j
  PROVE  Text(Glyphs(row, n)) = [k \in 1..n |-> Character(row[n + 1 - k])]
<1> DEFINE turned == [k \in 1..n |-> row[n + 1 - k]]
<1>1. \A k \in 1..n : n + 1 - k \in 1..n /\ n + 1 - (n + 1 - k) = k
  OBVIOUS
<1>2. Glyphs(turned, n) = Glyphs(row, n)
  <2>1. \A k \in 1..n : turned[k] = row[n + 1 - k]
    OBVIOUS
  <2>2. \A k \in 1..n : row[k] = turned[n + 1 - k]
    BY <1>1
  <2> HIDE DEF turned
  <2>3. Glyphs(turned, n) \subseteq Glyphs(row, n)
    BY <1>1, <2>1 DEF Glyphs
  <2>4. Glyphs(row, n) \subseteq Glyphs(turned, n)
    BY <1>1, <2>2 DEF Glyphs
  <2> QED
    BY <2>3, <2>4
<1>3. \A j, k \in 1..n : Before(turned[j], turned[k]) <=> j < k
  <2> SUFFICES ASSUME NEW j \in 1..n, NEW k \in 1..n
               PROVE  Before(turned[j], turned[k]) <=> j < k
    OBVIOUS
  <2> DEFINE a == n + 1 - j
             b == n + 1 - k
  <2>1. a \in 1..n /\ b \in 1..n /\ (b < a <=> j < k)
    OBVIOUS
  <2>2. turned[j] = row[a] /\ turned[k] = row[b]
    OBVIOUS
  <2> HIDE DEF a, b, turned
  <2>3. Before(row[a], row[b]) <=> b < a
    BY <2>1
  <2> QED
    BY <2>1, <2>2, <2>3
<1> DEFINE chars(d) == [k \in 1..n |-> Character(d[k])]
<1>4. chars(turned) = [k \in 1..n |-> Character(row[n + 1 - k])]
  OBVIOUS
<1> HIDE DEF turned
<1>5. Text(Glyphs(turned, n)) = chars(turned)
  BY <1>3, TextIs
<1> QED
  BY <1>2, <1>4, <1>5

-----------------------------------------------------------------------------
(* Numbers.                                                                    *)

\* The sizes numbers are scaled to are sampled inside the images.
LEMMA ScalesFit ==
  \A image : /\ Resized(image, 30, 36) = image
             /\ Resized(image, 20, 24) = image
             /\ Resized(image, 12, 15) = image
<1>1. SamplesInside(30, 30) /\ SamplesInside(36, 36)
  BY DEF SamplesInside, RoundDiv
<1>2. SamplesInside(30, 20) /\ SamplesInside(36, 24)
  BY DEF SamplesInside, RoundDiv
<1>3. SamplesInside(30, 12) /\ SamplesInside(36, 15)
  BY DEF SamplesInside, RoundDiv
<1> QED
  BY <1>1, <1>2, <1>3 DEF Resized, NUM_WIDTH, NUM_HEIGHT

\* What remains of a number when its last digits are taken off ...
Remains(left, a, D) ==
    /\ left[0] = a
    /\ \A i \in 0..D : left[i] \in Nat
    /\ \A i \in 1..D : left[i] = left[i-1] \div 10

SymbolPicture(left, k, negative, place) ==
    Place(Resized(Symbol(left, k - 1, negative), place.w, place.h),
          place.x - (k - 1) * place.w, place.y, place.w, place.h)

\* ... is well defined.
LEMMA IntSteps ==
  ASSUME NEW num \in Int, NEW place, NEW D \in Nat, place.digits = D,
         NEW n \in Int, n = Clip(num, place), NEW a \in Nat, a = Abs(n)
  PROVE  \E left : /\ Remains(left, a, D)
                   /\ DisplayInt(num, place)
                        = [k \in 1..D |-> SymbolPicture(left, k, n < 0, place)]
<1> DEFINE Next1(i, t) == t \div 10
           Def(g) == [i \in 0..D |-> IF i = 0 THEN a ELSE g[i-1] \div 10]
           step == {p \in (1..D) \X Nat \X Nat : p[3] = Next1(p[1], p[2])}
<1>2. \A i \in 1..D, t \in Nat : Next1(i, t) \in Nat
  OBVIOUS
<1> HIDE DEF Next1
<1>3. \A i \in 1..D, t, u \in Nat : <<i, t, u>> \in step <=> u = Next1(i, t)
  OBVIOUS
<1>4. \A i \in 1..D, t \in Nat : \E u \in Nat : <<i, t, u>> \in step
  BY <1>2, <1>3
<1> HIDE DEF step
<1>6. PICK f : Follows(f, D, Nat, a, step)
  BY <1>4, Course
<1>7. \A i \in 1..D : f[i] = f[i-1] \div 10
  <2> SUFFICES ASSUME NEW i \in 1..D PROVE f[i] = f[i-1] \div 10
    OBVIOUS
  <2>1. f[i-1] \in Nat /\ f[i] \in Nat
    BY <1>6 DEF Follows
  <2>2. <<i, f[i-1], f[i]>> \in step
    BY <1>6 DEF Follows
  <2> QED
    BY <1>3, <2>1, <2>2 DEF Next1
<1> DEFINE g == [i \in 0..D |-> f[i]]
<1>8. g = Def(g)
  <2>1. \A i \in 0..D : g[i] = Def(g)[i]
    BY <1>6, <1>7 DEF Follows
  <2> QED
    BY <2>1
<1> DEFINE left == CHOOSE h : h = Def(h)
           Pictures(h) == [k \in 1..D |-> SymbolPicture(h, k, n < 0, place)]
<1>9. DisplayInt(num, place) = Pictures(left)
  BY DEF DisplayInt, SymbolPicture, Abs
<1>10. left = Def(left)
  <2> HIDE DEF g
  <2> QED
    BY <1>8
<1> HIDE DEF left, g
<1>11. left[0] = a /\ \A i \in 1..D : left[i] = left[i-1] \div 10
  BY <1>10
<1>12. \A i \in 0..D : left[i] \in Nat
  <2> DEFINE A == {i \in 0..D : left[i] \in Nat}
  <2>1. 0 \in A
    BY <1>11
  <2>2. ASSUME NEW i \in 0..D-1, i \in A PROVE i + 1 \in A
    <3>1. i + 1 \in 1..D /\ i + 1 - 1 = i
      OBVIOUS
    <3>2. left[i + 1] = left[i] \div 10
      BY <1>11, <3>1
    <3> QED
      BY <2>2, <3>1, <3>2
  <2> HIDE DEF A
  <2>3. 0..D \subseteq A
    BY <2>1, <2>2, InductionTo
  <2> QED
    BY <2>3 DEF A
<1> QED
  BY <1>9, <1>11, <1>12 DEF Remains

\* The symbols are digits, blanks and a minus.
LEMMA SymbolIs ==
  ASSUME NEW left, NEW i, left[i] \in Nat, NEW negative
  PROVE  LET s == Symbol(left, i, negative) IN
         s \in {Num(d) : d \in 0..9} \cup {Image("num_minus"), Image("num_blank")}
<1>1. left[i] % 10 \in 0..9
  OBVIOUS
<1> QED
  BY <1>1 DEF Symbol

\* Each is a glyph, and read as what it is.
LEMMA SymbolsAreGlyphs ==
  ASSUME NEW p,
         p.image \in {Num(d) : d \in 0..9}
                       \cup {Image("num_minus"), Image("num_blank"), Image("time_colon"), White}
  PROVE  /\ IsGlyph(p) /\ p.image # Garbled
         /\ \A d \in 0..9 : p.image = Num(d) => Character(p) = d
         /\ p.image = Image("num_minus") => Character(p) = Minus
         /\ p.image = Image("num_blank") => Character(p) = Space
         /\ p.image = Image("time_colon") => Character(p) = Colon
         /\ p.image = White => Character(p) = Dot
<1> DEFINE image == p.image
<1>1. CASE image = Image("num_minus")
  BY <1>1 DEF IsGlyph, Character, Image, Garbled, White, Num
<1>2. CASE image = Image("num_blank")
  BY <1>2 DEF IsGlyph, Character, Image, Garbled, White, Num
<1>3. CASE image = Image("time_colon")
  BY <1>3 DEF IsGlyph, Character, Image, Garbled, White, Num
<1>4. CASE image = White
  BY <1>4 DEF IsGlyph, Character, Image, Garbled, White, Num
<1>5. ASSUME NEW d \in 0..9, image = Num(d)
      PROVE  /\ IsGlyph(p) /\ p.image # Garbled /\ Character(p) = d
             /\ image # Image("num_minus") /\ image # Image("num_blank")
             /\ image # Image("time_colon") /\ image # White
             /\ \A e \in 0..9 : image = Num(e) => e = d
  BY <1>5 DEF IsGlyph, Character, Image, Garbled, White, Num
<1> QED
  BY <1>1, <1>2, <1>3, <1>4, <1>5

\* The value of a text from its first character to each of the others.
Values(value, chars, D) ==
    /\ value[0] = 0
    /\ \A k \in 1..D : value[k] = IF chars[k] \in 0..9 THEN 10 * value[k - 1] + chars[k]
                                  ELSE value[k - 1]

\* The last of these values is the text's, but for its sign.
ReadBy(value, chars, D) ==
    /\ Values(value, chars, D)
    /\ Value(chars) = IF \E k \in 1..D : chars[k] = Minus THEN -value[D] ELSE value[D]

\* There are such values.
LEMMA ValueSteps ==
  ASSUME NEW D \in Nat, NEW chars, Len(chars) = D, \A k \in 1..D : chars[k] \in Nat
  PROVE  \E value : ReadBy(value, chars, D)
<1> DEFINE Next1(k, t) == IF chars[k] \in 0..9 THEN 10 * t + chars[k] ELSE t
           Def(g) == [k \in 0..D |-> IF k = 0 THEN 0
                                     ELSE IF chars[k] \in 0..9 THEN 10 * g[k-1] + chars[k]
                                     ELSE g[k-1]]
           step == {p \in (1..D) \X Nat \X Nat : p[3] = Next1(p[1], p[2])}
<1>2. \A k \in 1..D, t \in Nat : Next1(k, t) \in Nat
  OBVIOUS
<1> HIDE DEF Next1
<1>3. \A k \in 1..D, t, u \in Nat : <<k, t, u>> \in step <=> u = Next1(k, t)
  OBVIOUS
<1>4. \A k \in 1..D, t \in Nat : \E u \in Nat : <<k, t, u>> \in step
  BY <1>2, <1>3
<1> HIDE DEF step
<1>6. PICK f : Follows(f, D, Nat, 0, step)
  <2>1. 0 \in Nat
    OBVIOUS
  <2> QED
    BY <1>4, <2>1, Course
<1>7. \A k \in 1..D : f[k] = Next1(k, f[k-1])
  <2> SUFFICES ASSUME NEW k \in 1..D PROVE f[k] = Next1(k, f[k-1])
    OBVIOUS
  <2>1. f[k-1] \in Nat /\ f[k] \in Nat
    BY <1>6 DEF Follows
  <2>2. <<k, f[k-1], f[k]>> \in step
    BY <1>6 DEF Follows
  <2> QED
    BY <1>3, <2>1, <2>2
<1> DEFINE g == [k \in 0..D |-> f[k]]
<1>8. g = Def(g)
  <2>1. \A k \in 0..D : g[k] = Def(g)[k]
    BY <1>6, <1>7 DEF Follows, Next1
  <2> QED
    BY <2>1
<1> DEFINE value == CHOOSE h : h = Def(h)
<1>9. Value(chars) = IF \E k \in 1..D : chars[k] = Minus THEN -value[D] ELSE value[D]
  BY DEF Value
<1>10. value = Def(value)
  <2> HIDE DEF g
  <2> QED
    BY <1>8
<1> HIDE DEF value, g
<1>11. value[0] = 0 /\ \A k \in 1..D : value[k] = Def(value)[k]
  BY <1>10
<1>12. Values(value, chars, D)
  <2> SUFFICES ASSUME NEW k \in 1..D
               PROVE  value[k] = IF chars[k] \in 0..9 THEN 10 * value[k - 1] + chars[k]
                                 ELSE value[k - 1]
    BY <1>11 DEF Values
  <2>1. k \in 0..D /\ k # 0
    OBVIOUS
  <2>2. Def(value)[k] = IF chars[k] \in 0..9 THEN 10 * value[k - 1] + chars[k]
                        ELSE value[k - 1]
    BY <2>1
  <2> HIDE DEF Def
  <2>3. value[k] = Def(value)[k]
    BY <1>11
  <2> QED
    BY <2>2, <2>3
<1>13. ReadBy(value, chars, D)
  BY <1>9, <1>12 DEF ReadBy
<1> QED
  BY <1>13

\* Taking the last digit off a number and adding it again.
LEMMA LastDigit ==
  \A r \in Nat : r = 10 * (r \div 10) + (r % 10) /\ r % 10 \in 0..9 /\ r \div 10 \in Nat
OBVIOUS

\* A number's digits from left to right, and a minus in front if there is room.
Spelt(chars, left, D, negative) ==
    \A k \in 1..D :
      chars[k] = IF D - k = 0 \/ left[D - k] # 0 THEN left[D - k] % 10
                 ELSE IF negative /\ (D - k = 1 \/ left[D - k - 1] # 0) THEN Minus
                 ELSE Space

\* The digits of a number, its highest first, say the number.
LEMMA DigitsSay ==
  ASSUME NEW D \in Nat, NEW left, NEW a, Remains(left, a, D), left[D] = 0, NEW negative,
         NEW chars, NEW value, Values(value, chars, D), Spelt(chars, left, D, negative)
  PROVE  value[D] = a
<1> DEFINE A == {k \in 0..D : value[k] = left[D - k]}
<1>1. 0 \in A
  <2>1. D - 0 = D
    OBVIOUS
  <2> QED
    BY <2>1 DEF Values
<1>2. ASSUME NEW k \in 0..D-1, k \in A PROVE k + 1 \in A
  <2> DEFINE m == k + 1
             r == left[D - m]
  <2>1. m \in 1..D /\ D - m \in 0..D /\ D - k \in 1..D /\ m - 1 = k /\ D - k - 1 = D - m
    OBVIOUS
  <2>2. r \in Nat /\ left[D - k] = r \div 10
    <3> DEFINE j == D - k
    <3>1. j \in 1..D /\ j - 1 = D - m
      BY <2>1
    <3> HIDE DEF j, m
    <3>2. left[j] = left[j - 1] \div 10
      BY <3>1 DEF Remains
    <3>3. left[D - m] \in Nat
      BY <2>1 DEF Remains
    <3> QED
      BY <3>1, <3>2, <3>3 DEF j
  <2>3. value[k] = r \div 10
    BY <1>2, <2>2
  <2>4. value[m] = IF chars[m] \in 0..9 THEN 10 * value[k] + chars[m] ELSE value[k]
    BY <2>1 DEF Values
  <2> HIDE DEF r
  <2>5. r = 10 * (r \div 10) + (r % 10) /\ r % 10 \in 0..9 /\ r \div 10 \in Nat
    BY <2>2, LastDigit
  <2>6. CASE D - m = 0 \/ r # 0
    <3>1. chars[m] = r % 10
      BY <2>1, <2>6 DEF r, Spelt
    <3> HIDE DEF m
    <3>2. value[m] = r
      <4>1. value[m] = 10 * value[k] + chars[m]
        BY <2>4, <2>5, <3>1
      <4>2. value[m] = 10 * (r \div 10) + (r % 10)
        BY <2>3, <3>1, <4>1
      <4> QED
        BY <2>5, <4>2
    <3> QED
      BY <2>1, <3>2 DEF m, r
  <2>7. CASE ~(D - m = 0 \/ r # 0)
    <3>1. chars[m] \in {Minus, Space}
      BY <2>1, <2>7 DEF r, Spelt
    <3>2. chars[m] \notin 0..9
      BY <3>1 DEF Minus, Space
    <3> HIDE DEF m
    <3>3. r = 0
      BY <2>7
    <3>4. value[m] = r
      BY <2>3, <2>4, <3>2, <3>3
    <3>5. m \in 0..D /\ value[m] = left[D - m]
      BY <2>1, <3>4 DEF r
    <3> QED
      BY <3>5 DEF m
  <2> QED
    BY <2>6, <2>7
<1> HIDE DEF A
<1>3. 0..D \subseteq A
  BY <1>1, <1>2, InductionTo
<1>4. D \in 0..D /\ D - D = 0
  OBVIOUS
<1>5. value[D] = left[D - D]
  BY <1>3, <1>4 DEF A
<1> QED
  BY <1>4, <1>5 DEF Remains

\* What display_int() draws: the symbols of a number from right to left.
Numbered(row, left, D, negative, X, Y, W, H) ==
    /\ Len(row) = D /\ row \in Seq(Glyphs(row, D))
    /\ \A k \in 1..D :
         /\ row[k].image = Symbol(left, k - 1, negative)
         /\ row[k].x = X - (k - 1) * W /\ row[k].y = Y /\ row[k].w = W /\ row[k].h = H

\* Where it draws, and that a symbol scaled to that size is drawn well.
IsPlace(place, D, X, Y, W, H) ==
    /\ place.digits = D /\ place.x = X /\ place.y = Y /\ place.w = W /\ place.h = H
    /\ \A image : Resized(image, W, H) = image

\* What is left of a number, drawn.
NumberedBy(left, row, a, D, negative, X, Y, W, H) ==
    Remains(left, a, D) /\ Numbered(row, left, D, negative, X, Y, W, H)

\* display_int() draws them.
LEMMA IntDrawn ==
  ASSUME NEW num \in Int, NEW place, NEW D \in Nat, NEW X, NEW Y, NEW W, NEW H,
         IsPlace(place, D, X, Y, W, H),
         NEW n \in Int, n = Clip(num, place), NEW a \in Nat, a = Abs(n),
         NEW negative, negative = (n < 0)
  PROVE  \E left : NumberedBy(left, DisplayInt(num, place), a, D, negative, X, Y, W, H)
<1>0. /\ place.digits = D /\ place.x = X /\ place.y = Y /\ place.w = W /\ place.h = H
      /\ \A image : Resized(image, W, H) = image
  BY DEF IsPlace
<1>1. PICK left : /\ Remains(left, a, D)
                  /\ DisplayInt(num, place)
                       = [k \in 1..D |-> SymbolPicture(left, k, n < 0, place)]
  BY <1>0, IntSteps
<1> DEFINE row == DisplayInt(num, place)
<1>2. Len(row) = D /\ \A k \in 1..D : row[k] = SymbolPicture(left, k, n < 0, place)
  BY <1>1
<1>5. row \in Seq(Glyphs(row, D))
  BY <1>1 DEF Glyphs
<1> HIDE DEF row
<1>3. ASSUME NEW k \in 1..D
      PROVE  /\ row[k].image = Symbol(left, k - 1, n < 0)
             /\ row[k].x = X - (k - 1) * W /\ row[k].y = Y /\ row[k].w = W /\ row[k].h = H
  <2> DEFINE s == Symbol(left, k - 1, n < 0)
             at == X - (k - 1) * W
  <2>1. row[k] = SymbolPicture(left, k, n < 0, place)
    BY <1>2
  <2>2. Resized(s, W, H) = s
    BY <1>0
  <2>3. SymbolPicture(left, k, n < 0, place) = Place(Resized(s, W, H), at, Y, W, H)
    BY <1>0 DEF SymbolPicture
  <2> HIDE DEF s, at
  <2>4. row[k] = Place(s, at, Y, W, H)
    BY <2>1, <2>2, <2>3
  <2>5. row[k].image = s /\ row[k].x = at /\ row[k].y = Y /\ row[k].w = W /\ row[k].h = H
    BY <2>4 DEF Place
  <2> QED
    BY <2>5 DEF s, at
<1>4. Numbered(row, left, D, n < 0, X, Y, W, H)
  BY <1>2, <1>3, <1>5 DEF Numbered
<1>6. NumberedBy(left, row, a, D, negative, X, Y, W, H)
  BY <1>1, <1>4 DEF NumberedBy
<1> QED
  BY <1>6 DEF row

\* The number read is the number drawn, if there is room for it and for its sign.
LEMMA NumberedValue ==
  ASSUME NEW D \in Nat, NEW left, NEW n \in Int, NEW a \in Nat, a = Abs(n),
         Remains(left, a, D), left[D] = 0,
         n < 0 => \E m \in 1..D-1 : left[m] = 0,
         NEW chars, Len(chars) = D, NEW negative, negative = (n < 0),
         Spelt(chars, left, D, negative)
  PROVE  Value(chars) = n
<1>1. \A k \in 1..D : D - k \in 0..D /\ left[D - k] \in Nat /\ left[D - k] % 10 \in 0..9
  <2> SUFFICES ASSUME NEW k \in 1..D
               PROVE  D - k \in 0..D /\ left[D - k] \in Nat /\ left[D - k] % 10 \in 0..9
    OBVIOUS
  <2> DEFINE r == left[D - k]
  <2>1. D - k \in 0..D
    OBVIOUS
  <2>2. r \in Nat
    BY <2>1 DEF Remains
  <2> HIDE DEF r
  <2>3. r % 10 \in 0..9
    BY <2>2
  <2> QED
    BY <2>1, <2>2, <2>3 DEF r
<1>2. ASSUME NEW k \in 1..D
      PROVE  chars[k] \in Nat /\ (chars[k] = Minus => negative)
  <2> DEFINE r == left[D - k]
             s == r % 10
  <2>1. s \in 0..9
    BY <1>1
  <2>2. \/ chars[k] = s
        \/ chars[k] = Minus /\ negative
        \/ chars[k] = Space
    BY DEF Spelt
  <2> HIDE DEF s
  <2> QED
    BY <2>1, <2>2 DEF Minus, Space
<1>3. PICK value : ReadBy(value, chars, D)
  BY <1>2, ValueSteps
<1>4. value[D] = a
  BY <1>3, DigitsSay DEF ReadBy
<1>5. ASSUME negative PROVE \E k \in 1..D : chars[k] = Minus
  <2> DEFINE S == {m \in 1..D-1 : left[m] = 0}
  <2>1. S # {} /\ S \in SUBSET Nat
    <3>1. PICK m \in 1..D-1 : left[m] = 0
      BY <1>5
    <3> QED
      BY <3>1
  <2> HIDE DEF S
  <2>2. PICK m \in S : \A j \in S : m <= j
    BY <2>1, Least
  <2>3. m \in 1..D-1 /\ left[m] = 0
    BY <2>2 DEF S
  <2>4. m = 1 \/ left[m - 1] # 0
    <3> SUFFICES ASSUME m # 1, left[m - 1] = 0 PROVE FALSE
      OBVIOUS
    <3>1. m - 1 \in 1..D-1
      BY <2>3
    <3>2. m - 1 \in S
      BY <3>1 DEF S
    <3> QED
      BY <2>2, <2>3, <3>2
  <2> DEFINE k == D - m
  <2>5. k \in 1..D /\ D - k = m /\ D - k - 1 = m - 1 /\ m # 0
    BY <2>3
  <2> HIDE DEF k
  <2>6. chars[k] = Minus
    BY <1>5, <2>3, <2>4, <2>5 DEF Spelt
  <2> QED
    BY <2>5, <2>6
<1>6. (\E k \in 1..D : chars[k] = Minus) <=> n < 0
  BY <1>2, <1>5
<1>7. Value(chars) = IF n < 0 THEN -a ELSE a
  BY <1>3, <1>4, <1>6 DEF ReadBy
<1> QED
  BY <1>7 DEF Abs

-----------------------------------------------------------------------------
(* What a drawing does to the area it is drawn into.                            *)

\* Each row covers the other, as the numbers on a page do.
Covers(row, old, n) == \A k \in 1..n : Inside(old[k], row[k])

\* A background alone takes the whole area.
LEMMA BackBecomes ==
  ASSUME NEW S, Laid(S), NEW a \in Areas, NEW back, Fills(back, a)
  PROVE  Becomes(S, Drawn(S, <<back>>), a, {back})
<1> DEFINE R == Drawn(S, <<back>>)
<1>1. \A q \in S : Neat(q)
  BY DEF Laid
<1>2. R = {q \in S : ~Inside(q, a)} \cup {back}
  BY <1>1, AreaDrawn
<1>3. Neat(back) /\ Inside(back, a)
  <2>1. Neat(back) /\ Boxed(back)
    BY NeatIsBoxed DEF Fills
  <2>2. Inside(back, back)
    BY <2>1, InsideOrder
  <2> QED
    BY <2>1, <2>2, FillsInside
<1> DEFINE fresh == {back}
<1>4. Replaces(S, R, a, fresh)
  BY <1>2, <1>3 DEF Replaces
<1> HIDE DEF R, fresh
<1>5. Becomes(S, R, a, fresh)
  BY <1>4, PartDrawn
<1> QED
  BY <1>5 DEF R, fresh

\* A picture in front changes its area only.
LEMMA FrontBecomes ==
  ASSUME NEW S, Laid(S), NEW a \in Areas, NEW f, Neat(f), Inside(f, a)
  PROVE  Becomes(S, Drawn(S, <<f>>), a, {q \in Part(S, a) : ~Inside(q, f)} \cup {f})
<1> DEFINE R == Drawn(S, <<f>>)
           fresh == {q \in Part(S, a) : ~Inside(q, f)} \cup {f}
<1>1. R = {q \in S : ~Inside(q, f)} \cup {f}
  <2>1. R = Show(S, f)
    BY DrawnFew
  <2> HIDE DEF R
  <2> QED
    BY <2>1, ShowNeat
<1>2. \A q \in S : Neat(q) /\ Boxed(q)
  BY NeatIsBoxed DEF Laid
<1>3. \A q \in S : Inside(q, f) => Inside(q, a)
  <2>1. Boxed(f) /\ Boxed(a)
    BY NeatIsBoxed, AreasApart
  <2> QED
    BY <1>2, <2>1, InsideOrder
<1>4. R = {q \in S : ~Inside(q, a)} \cup fresh
  BY <1>1, <1>3 DEF Part
<1>5. \A p \in fresh : Neat(p) /\ Inside(p, a)
  BY <1>2 DEF Part
<1> HIDE DEF R, fresh
<1>6. Becomes(S, R, a, fresh)
  <2>1. Replaces(S, R, a, fresh)
    BY <1>4, <1>5 DEF Replaces
  <2> QED
    BY <2>1, PartDrawn
<1> QED
  BY <1>6 DEF R, fresh

\* A row in place of what it covers.
LEMMA RowBecomes ==
  ASSUME NEW S, Laid(S), NEW a \in Areas, NEW front, NEW row, NEW n, Row(row, n, a, front),
         NEW kept, NEW old, Part(S, a) = kept \cup old, Covering(row, n, kept, old)
  PROVE  Becomes(S, Drawn(S, row), a, kept \cup Glyphs(row, n))
<1>1. \A q \in S : Neat(q)
  BY DEF Laid
<1>2. Replaces(S, Drawn(S, row), a, kept \cup Glyphs(row, n))
  BY <1>1, RowDrawn
<1> QED
  BY <1>2, PartDrawn

\* One drawing after the other.
LEMMA BecomesAgain ==
  ASSUME NEW S, NEW a, NEW M, NEW one, Becomes(S, M, a, one),
         NEW R, NEW two, Becomes(M, R, a, two)
  PROVE  Becomes(S, R, a, two)
BY DEF Becomes

\* No background and nothing in front of it lies inside a glyph of the row.
LEMMA BehindRow ==
  ASSUME NEW a \in Areas, NEW back, Fills(back, a), NEW front, Front(front, a),
         NEW row, NEW n, Row(row, n, a, front)
  PROVE  \A q \in {back} \cup front, k \in 1..n : ~Inside(q, row[k])
<1> SUFFICES ASSUME NEW q \in {back} \cup front, NEW k \in 1..n PROVE ~Inside(q, row[k])
  OBVIOUS
<1>1. CASE q = back
  <2>1. ~Inside(a, row[k])
    BY DEF Row
  <2> QED
    BY <1>1, <2>1, FillsInside
<1>2. CASE q \in front
  <2>1. Neat(q) /\ Neat(row[k]) /\ ~Overlap(q, row[k])
    BY <1>2 DEF Row, Front
  <2>2. Boxed(q) /\ Boxed(row[k])
    BY <2>1, NeatIsBoxed
  <2> QED
    BY <2>1, <2>2, InsideOrder
<1> QED
  BY <1>1, <1>2

\* A row on a background that has just been drawn ...
LEMMA AreaAfresh ==
  ASSUME NEW S, Laid(S), NEW a \in Areas, NEW back, Fills(back, a),
         NEW row, NEW n, Row(row, n, a, {})
  PROVE  Becomes(S, Drawn(S, <<back>> \o row), a, {back} \cup Glyphs(row, n))
<1> DEFINE M == Drawn(S, <<back>>)
           R == Drawn(S, <<back>> \o row)
<1>1. R = Drawn(M, row)
  <2> DEFINE c == <<back>>
             P == {back} \cup Glyphs(row, n)
  <2>1. c \in Seq(P) /\ row \in Seq(P)
    BY DEF Row
  <2> HIDE DEF c, P
  <2>2. Drawn(S, c \o row) = Drawn(Drawn(S, c), row)
    BY <2>1, DrawnParts
  <2> QED
    BY <2>2 DEF c
<1>2. Becomes(S, M, a, {back})
  BY BackBecomes
<1>3. Front({}, a)
  BY DEF Front
<1> DEFINE none == {}
<1>4. \A q \in {back}, k \in 1..n : ~Inside(q, row[k])
  BY <1>3, BehindRow
<1> DEFINE kept == {back}
<1>5. Laid(M) /\ Part(M, a) = kept \cup none /\ Row(row, n, a, none)
  BY <1>2 DEF Becomes
<1>8. Covering(row, n, kept, none)
  BY <1>4 DEF Covering
<1> HIDE DEF M, R, kept, none
<1>9. Becomes(M, Drawn(M, row), a, kept \cup Glyphs(row, n))
  BY <1>5, <1>8, RowBecomes
<1>6. Becomes(M, Drawn(M, row), a, {back} \cup Glyphs(row, n))
  BY <1>9 DEF kept
<1>7. Becomes(S, R, a, {back} \cup Glyphs(row, n))
  BY <1>1, <1>2, <1>6, BecomesAgain
<1> QED
  BY <1>7 DEF R

\* ... and with a label or title between them ...
LEMMA AreaAfreshBehind ==
  ASSUME NEW S, Laid(S), NEW a \in Areas, NEW back, Fills(back, a), NEW f, Front({f}, a),
         NEW row, NEW n, Row(row, n, a, {f})
  PROVE  Becomes(S, Drawn(S, <<back, f>> \o row), a, {back, f} \cup Glyphs(row, n))
<1> DEFINE M1 == Drawn(S, <<back>>)
           M == Drawn(M1, <<f>>)
           R == Drawn(S, <<back, f>> \o row)
<1>1. R = Drawn(M, row)
  <2> DEFINE c == <<back, f>>
             P == {back, f} \cup Glyphs(row, n)
             c1 == <<back>>
             c2 == <<f>>
  <2>1. c \in Seq(P) /\ row \in Seq(P) /\ c1 \in Seq(P) /\ c2 \in Seq(P) /\ c = c1 \o c2
    BY DEF Row
  <2> HIDE DEF c, P, c1, c2
  <2>2. Drawn(S, c \o row) = Drawn(Drawn(S, c), row)
    <3>1. c \in Seq(P) /\ row \in Seq(P)
      BY <2>1
    <3> QED
      BY ONLY <3>1, DrawnParts
  <2>3. Drawn(S, c1 \o c2) = Drawn(Drawn(S, c1), c2)
    <3>1. c1 \in Seq(P) /\ c2 \in Seq(P)
      BY <2>1
    <3> QED
      BY ONLY <3>1, DrawnParts
  <2> QED
    BY <2>1, <2>2, <2>3 DEF c, c1, c2
<1>2. Becomes(S, M1, a, {back})
  BY BackBecomes
<1>3. Neat(f) /\ Inside(f, a) /\ ~Inside(back, f)
  BY FillsInside DEF Front
<1>4. Becomes(S, M, a, {back, f})
  <2>1. Laid(M1) /\ Part(M1, a) = {back}
    BY <1>2 DEF Becomes
  <2> HIDE DEF M1
  <2>2. Becomes(M1, M, a, {q \in Part(M1, a) : ~Inside(q, f)} \cup {f})
    BY <1>3, <2>1, FrontBecomes
  <2>3. {q \in Part(M1, a) : ~Inside(q, f)} \cup {f} = {back, f}
    BY <1>3, <2>1
  <2> HIDE DEF M
  <2> QED
    BY <1>2, <2>2, <2>3, BecomesAgain
<1> DEFINE none == {}
           kept == {back, f}
<1>5. kept = {back} \cup {f}
  OBVIOUS
<1>6. \A q \in kept, k \in 1..n : ~Inside(q, row[k])
  BY <1>5, BehindRow
<1>7. Laid(M) /\ Part(M, a) = kept \cup none
  BY <1>4 DEF Becomes
<1>8. Covering(row, n, kept, none)
  BY <1>6 DEF Covering
<1> HIDE DEF M, R, M1, kept, none
<1>9. Becomes(M, Drawn(M, row), a, kept \cup Glyphs(row, n))
  BY <1>7, <1>8, RowBecomes
<1>10. Becomes(S, R, a, kept \cup Glyphs(row, n))
  BY <1>1, <1>4, <1>9, BecomesAgain
<1> QED
  BY <1>10 DEF R, kept

\* ... and over a row of the same places.
LEMMA AreaAgain ==
  ASSUME NEW S, Laid(S), NEW a \in Areas, NEW back, Fills(back, a), NEW front, Front(front, a),
         NEW row, NEW n, Row(row, n, a, front), NEW old, Covers(row, old, n),
         Part(S, a) = ({back} \cup front) \cup Glyphs(old, n)
  PROVE  Becomes(S, Drawn(S, row), a, ({back} \cup front) \cup Glyphs(row, n))
<1> DEFINE kept == {back} \cup front
<1>1. \A q \in kept, k \in 1..n : ~Inside(q, row[k])
  BY BehindRow
<1>2. Covering(row, n, kept, Glyphs(old, n))
  BY <1>1 DEF Covers, Glyphs, Covering
<1> HIDE DEF kept
<1>3. Becomes(S, Drawn(S, row), a, kept \cup Glyphs(row, n))
  BY <1>2, RowBecomes DEF kept
<1> QED
  BY <1>3 DEF kept

-----------------------------------------------------------------------------
(* The numbers on the data page and under it.                                   *)

\* The glyphs of a number, at whole pixels, are neat wherever they fit.
LEMMA GlyphIsNeat ==
  ASSUME NEW p, p.image # Garbled,
         NEW x \in Int, NEW y \in Int, NEW w \in Int, NEW h \in Int,
         p.x = x, p.y = y, p.w = w, p.h = h,
         w > 0, h > 0, 0 <= x, x + w <= 160, 0 <= y, y + h <= 128
  PROVE  Neat(p)
<1>1. w \in 1..160 /\ h \in 1..128 /\ x \in 0..(160 - w) /\ y \in 0..(128 - h)
  OBVIOUS
<1> QED
  BY <1>1 DEF Neat, LCD_W, LCD_H

\* p is drawn into the box b.
DrawnInto(p, b) == p.x = b.x /\ p.y = b.y /\ p.w = b.w /\ p.h = b.h

\* n glyphs, each in its box.
InBoxes(row, n, boxes) ==
    /\ Len(row) = n /\ row \in Seq(Glyphs(row, n))
    /\ \A k \in 1..n : row[k].image # Garbled /\ IsGlyph(row[k]) /\ DrawnInto(row[k], boxes[k])

\* The boxes lie in an area side by side ...
FitIn(a, n, boxes) ==
    /\ \A k \in 1..n : Boxed(boxes[k]) /\ Inside(boxes[k], a) /\ boxes[k].w < a.w
    /\ \A j, k \in 1..n : j # k => ~Overlap(boxes[j], boxes[k])

\* ... and beside what is in front.
Beside(front, n, boxes) == \A f \in front, k \in 1..n : ~Overlap(f, boxes[k])

\* The areas lie on the panel.
LEMMA AreaBounds ==
  \A a \in Areas : /\ a.x \in Int /\ a.y \in Int /\ a.w \in Int /\ a.h \in Int
                   /\ 0 <= a.x /\ a.x + a.w <= 160 /\ 0 <= a.y /\ a.y + a.h <= 128
BY DEF Areas, UpperArea, BatteryArea, TempArea, NetArea, SpinnerArea, Area

\* What is true of a box is true of what is drawn into it.
LEMMA BoxIs ==
  ASSUME NEW p, NEW b, DrawnInto(p, b)
  PROVE  /\ \A q : (Inside(p, q) <=> Inside(b, q)) /\ (Inside(q, p) <=> Inside(q, b))
         /\ \A q : (Overlap(p, q) <=> Overlap(b, q)) /\ (Overlap(q, p) <=> Overlap(q, b))
BY DEF DrawnInto, Inside, Overlap

\* Such glyphs are a row.
LEMMA InBoxesIsRow ==
  ASSUME NEW a \in Areas, NEW front, NEW n \in Nat, NEW row, NEW boxes,
         InBoxes(row, n, boxes), FitIn(a, n, boxes), Beside(front, n, boxes)
  PROVE  Row(row, n, a, front)
<1>1. ASSUME NEW k \in 1..n
      PROVE  /\ Neat(row[k]) /\ IsGlyph(row[k])
             /\ Inside(row[k], a) /\ ~Inside(a, row[k])
             /\ \A f \in front : ~Overlap(f, row[k])
  <2> DEFINE p == row[k]
             b == boxes[k]
             x == b.x
             y == b.y
             w == b.w
             h == b.h
             ax == a.x
             ay == a.y
             aw == a.w
             ah == a.h
  <2>1. /\ p.image # Garbled /\ IsGlyph(p) /\ DrawnInto(p, b)
        /\ Boxed(b) /\ Inside(b, a) /\ w < aw
    BY DEF InBoxes, FitIn
  <2>2. \A f \in front : ~Overlap(f, b)
    BY DEF Beside
  <2>3. /\ ax \in Int /\ ay \in Int /\ aw \in Int /\ ah \in Int
        /\ 0 <= ax /\ ax + aw <= 160 /\ 0 <= ay /\ ay + ah <= 128
        /\ x \in Int /\ y \in Int /\ w \in Nat \ {0} /\ h \in Nat \ {0}
    BY <2>1, AreaBounds DEF Boxed
  <2> HIDE DEF p, b
  <2>4. /\ ax <= x /\ x + w <= ax + aw /\ ay <= y /\ y + h <= ay + ah
        /\ Inside(a, b) <=> x <= ax /\ ax + aw <= x + w /\ y <= ay /\ ay + ah <= y + h
    BY <2>1 DEF Inside
  <2>5. p.x = x /\ p.y = y /\ p.w = w /\ p.h = h
    BY <2>1 DEF DrawnInto
  <2> HIDE DEF x, y, w, h, ax, ay, aw, ah
  <2>6. w > 0 /\ h > 0 /\ 0 <= x /\ x + w <= 160 /\ 0 <= y /\ y + h <= 128
    BY <2>3, <2>4
  <2>7. Neat(p)
    BY <2>1, <2>3, <2>5, <2>6, GlyphIsNeat
  <2>8. ~Inside(a, b)
    BY <2>1, <2>3, <2>4
  <2>9. Inside(p, a) /\ ~Inside(a, p) /\ \A f \in front : ~Overlap(f, p)
    BY <2>1, <2>2, <2>8, BoxIs
  <2> QED
    BY <2>1, <2>7, <2>9 DEF p
<1>2. ASSUME NEW j \in 1..n, NEW k \in 1..n, j # k PROVE ~Overlap(row[j], row[k])
  <2>1. DrawnInto(row[j], boxes[j]) /\ DrawnInto(row[k], boxes[k]) /\ ~Overlap(boxes[j], boxes[k])
    BY <1>2 DEF InBoxes, FitIn
  <2>2. (Overlap(row[j], row[k]) <=> Overlap(boxes[j], row[k]))
        /\ (Overlap(boxes[j], row[k]) <=> Overlap(boxes[j], boxes[k]))
    BY <2>1, BoxIs
  <2> QED
    BY <2>1, <2>2
<1> QED
  BY <1>1, <1>2 DEF Row, InBoxes

\* Glyphs cover any others in the same boxes.
LEMMA InBoxesCovers ==
  ASSUME NEW n \in Nat, NEW a, NEW boxes, FitIn(a, n, boxes),
         NEW row, InBoxes(row, n, boxes), NEW old, InBoxes(old, n, boxes)
  PROVE  Covers(row, old, n)
<1> SUFFICES ASSUME NEW k \in 1..n PROVE Inside(old[k], row[k])
  BY DEF Covers
<1>1. Boxed(boxes[k]) /\ DrawnInto(row[k], boxes[k]) /\ DrawnInto(old[k], boxes[k])
  BY DEF InBoxes, FitIn
<1>2. Inside(boxes[k], boxes[k])
  BY <1>1, InsideOrder
<1>3. Inside(old[k], boxes[k]) /\ (Inside(old[k], row[k]) <=> Inside(old[k], boxes[k]))
  BY <1>1, <1>2, BoxIs
<1> QED
  BY <1>3

\* The boxes of a number's symbols, from right to left.
Places(n, x, y, w, h) == [k \in 1..n |-> Area(x - (k - 1) * w, y, w, h)]

\* A number's symbols are in their boxes.
LEMMA NumberInBoxes ==
  ASSUME NEW D \in Nat, NEW row, NEW left, NEW a, Remains(left, a, D), NEW negative,
         NEW X \in Int, NEW Y \in Int, NEW W \in Nat \ {0}, NEW H \in Int,
         Numbered(row, left, D, negative, X, Y, W, H),
         NEW chars, chars = [k \in 1..D |-> Character(row[D + 1 - k])]
  PROVE  /\ InBoxes(row, D, Places(D, X, Y, W, H))
         /\ Text(Glyphs(row, D)) = chars
         /\ Spelt(chars, left, D, negative)
<1>0. \A j, k \in 1..D : X - (j - 1) * W < X - (k - 1) * W <=> k < j
  <2> SUFFICES ASSUME NEW j \in 1..D, NEW k \in 1..D
               PROVE  X - (j - 1) * W < X - (k - 1) * W <=> k < j
    OBVIOUS
  <2>1. \A p, q \in Nat : p < q => p * W < q * W
    OBVIOUS
  <2> DEFINE p == j - 1
             q == k - 1
  <2>2. p \in Nat /\ q \in Nat /\ (k < j <=> q < p)
    OBVIOUS
  <2> HIDE DEF p, q
  <2>3. (p < q => p * W < q * W) /\ (q < p => q * W < p * W) /\ (p = q => p * W = q * W)
    BY <2>1, <2>2
  <2>4. p * W \in Int /\ q * W \in Int
    BY <2>2
  <2> DEFINE u == p * W
             v == q * W
  <2> HIDE DEF u, v
  <2>5. X - u < X - v <=> q < p
    BY <2>2, <2>3, <2>4 DEF u, v
  <2> QED
    BY <2>2, <2>5 DEF u, v, p, q
<1>1. ASSUME NEW k \in 1..D
      PROVE  /\ IsGlyph(row[k]) /\ row[k].image # Garbled
             /\ Character(row[k]) = IF k - 1 = 0 \/ left[k - 1] # 0 THEN left[k - 1] % 10
                                    ELSE IF negative /\ (k - 1 = 1 \/ left[k - 2] # 0) THEN Minus
                                    ELSE Space
  <2> DEFINE i == k - 1
             r == left[i]
             p == row[k]
  <2>1. i \in 0..D /\ i - 1 = k - 2
    OBVIOUS
  <2>2. r \in Nat
    BY <2>1 DEF Remains
  <2>3. p.image = Symbol(left, i, negative)
    BY DEF Numbered
  <2>4. r % 10 \in 0..9
    <3> HIDE DEF r
    <3> QED
      BY <2>2, LastDigit
  <2> HIDE DEF i, p
  <2>5. p.image \in {Num(d) : d \in 0..9} \cup {Image("num_minus"), Image("num_blank")}
    BY <2>2, <2>3, SymbolIs
  <2>6. /\ IsGlyph(p) /\ p.image # Garbled
        /\ \A d \in 0..9 : p.image = Num(d) => Character(p) = d
        /\ p.image = Image("num_minus") => Character(p) = Minus
        /\ p.image = Image("num_blank") => Character(p) = Space
    BY <2>5, SymbolsAreGlyphs
  <2>7. p.image = IF i = 0 \/ r # 0 THEN Num(r % 10)
                  ELSE IF negative /\ (i = 1 \/ left[i - 1] # 0) THEN Image("num_minus")
                  ELSE Image("num_blank")
    BY <2>3 DEF Symbol
  <2>8. Character(p) = IF i = 0 \/ r # 0 THEN r % 10
                       ELSE IF negative /\ (i = 1 \/ left[i - 1] # 0) THEN Minus
                       ELSE Space
    BY <2>4, <2>6, <2>7
  <2> QED
    BY <2>1, <2>6, <2>8 DEF i, p
<1>2. \A j, k \in 1..D : Before(row[j], row[k]) <=> k < j
  <2> SUFFICES ASSUME NEW j \in 1..D, NEW k \in 1..D
               PROVE  Before(row[j], row[k]) <=> k < j
    OBVIOUS
  <2> DEFINE b == X - (j - 1) * W
             c == X - (k - 1) * W
  <2>1. /\ row[j].x = b /\ row[j].y = Y /\ row[j].h = H
        /\ row[k].x = c /\ row[k].y = Y /\ row[k].h = H
    BY DEF Numbered
  <2>2. b < c <=> k < j
    BY <1>0
  <2> HIDE DEF b, c
  <2>3. Before(row[j], row[k]) <=> b < c
    BY <2>1 DEF Before
  <2> QED
    BY <2>2, <2>3
<1>5. Text(Glyphs(row, D)) = [k \in 1..D |-> Character(row[D + 1 - k])]
  BY <1>2, TextIsTurned
<1>3. InBoxes(row, D, Places(D, X, Y, W, H))
  <2>1. \A k \in 1..D : Places(D, X, Y, W, H)[k] = Area(X - (k - 1) * W, Y, W, H)
    BY DEF Places
  <2>2. ASSUME NEW k \in 1..D PROVE DrawnInto(row[k], Places(D, X, Y, W, H)[k])
    <3> DEFINE b == Places(D, X, Y, W, H)[k]
               x == X - (k - 1) * W
    <3>1. b = Area(x, Y, W, H)
      BY <2>1
    <3>2. row[k].x = x /\ row[k].y = Y /\ row[k].w = W /\ row[k].h = H
      BY DEF Numbered
    <3> HIDE DEF b, x
    <3>3. DrawnInto(row[k], b)
      BY <3>1, <3>2 DEF DrawnInto, Area
    <3> QED
      BY <3>3 DEF b
  <2> QED
    BY <1>1, <2>2 DEF InBoxes, Numbered
<1>4. Spelt(chars, left, D, negative)
  <2> SUFFICES ASSUME NEW k \in 1..D
               PROVE  chars[k] = IF D - k = 0 \/ left[D - k] # 0 THEN left[D - k] % 10
                                 ELSE IF negative /\ (D - k = 1 \/ left[D - k - 1] # 0) THEN Minus
                                 ELSE Space
    BY DEF Spelt
  <2> DEFINE m == D + 1 - k
  <2>1. m \in 1..D /\ m - 1 = D - k /\ m - 2 = D - k - 1
    OBVIOUS
  <2>2. chars[k] = Character(row[m])
    OBVIOUS
  <2> HIDE DEF m
  <2> QED
    BY <1>1, <2>1, <2>2
<1> QED
  BY <1>3, <1>4, <1>5

\* display_num() draws over the label, display_temp() in the area of the temperature.
NumBoxes == Places(5, 120, 20, 30, 36)
TempBoxes == Places(3, 61, 100, 20, 24)

\* There is room for that.
LEMMA NumbersFit ==
  /\ FitIn(UpperArea, 5, NumBoxes)
  /\ \A u : Beside({Label(u)}, 5, NumBoxes)
  /\ FitIn(TempArea, 3, TempBoxes)
<1>1. FitIn(UpperArea, 5, NumBoxes)
  <2>1. ASSUME NEW k \in 1..5
        PROVE  Boxed(NumBoxes[k]) /\ Inside(NumBoxes[k], UpperArea) /\ NumBoxes[k].w < UpperArea.w
    BY DEF Boxed, Inside, NumBoxes, Places, UpperArea, Area
  <2>2. ASSUME NEW j \in 1..5, NEW k \in 1..5, j # k PROVE ~Overlap(NumBoxes[j], NumBoxes[k])
    BY <2>2 DEF Overlap, NumBoxes, Places, Area
  <2> QED
    BY <2>1, <2>2 DEF FitIn
<1>2. ASSUME NEW u PROVE Beside({Label(u)}, 5, NumBoxes)
  <2>1. Label(u).y = 70
    BY DEF Label, DisplayImg, Place
  <2>2. \A k \in 1..5 : NumBoxes[k].y = 20 /\ NumBoxes[k].h = 36
    BY DEF NumBoxes, Places, Area
  <2> QED
    BY <2>1, <2>2 DEF Beside, Overlap
<1>3. FitIn(TempArea, 3, TempBoxes)
  <2>1. ASSUME NEW k \in 1..3
        PROVE  Boxed(TempBoxes[k]) /\ Inside(TempBoxes[k], TempArea) /\ TempBoxes[k].w < TempArea.w
    BY DEF Boxed, Inside, TempBoxes, Places, TempArea, Area
  <2>2. ASSUME NEW j \in 1..3, NEW k \in 1..3, j # k PROVE ~Overlap(TempBoxes[j], TempBoxes[k])
    BY <2>2 DEF Overlap, TempBoxes, Places, Area
  <2> QED
    BY <2>1, <2>2 DEF FitIn
<1> QED
  BY <1>1, <1>2, <1>3

\* No digit is left at the end, and there is room for a minus if there has to be one.
Room(a, D, negative) ==
    \A left : Remains(left, a, D)
                => left[D] = 0 /\ (negative => \E m \in 1..D-1 : left[m] = 0)

\* A number drawn is in its boxes, and is read again as what it is.
LEMMA NumberDrawn ==
  ASSUME NEW num \in Int, NEW place, NEW D \in Nat, NEW X \in Int, NEW Y \in Int,
         NEW W \in Nat \ {0}, NEW H \in Int, IsPlace(place, D, X, Y, W, H),
         NEW n \in Int, n = Clip(num, place), NEW a \in Nat, a = Abs(n),
         NEW negative, negative = (n < 0), Room(a, D, negative),
         NEW row, row = DisplayInt(num, place)
  PROVE  /\ InBoxes(row, D, Places(D, X, Y, W, H))
         /\ Value(Text(Glyphs(row, D))) = n
         /\ Len(Text(Glyphs(row, D))) = D
<1>1. PICK left : NumberedBy(left, row, a, D, negative, X, Y, W, H)
  BY IntDrawn
<1>2. Remains(left, a, D) /\ Numbered(row, left, D, negative, X, Y, W, H)
  BY <1>1 DEF NumberedBy
<1> DEFINE chars == [k \in 1..D |-> Character(row[D + 1 - k])]
<1>3. /\ InBoxes(row, D, Places(D, X, Y, W, H))
      /\ Text(Glyphs(row, D)) = chars
      /\ Spelt(chars, left, D, negative)
  BY <1>2, NumberInBoxes
<1>4. Len(chars) = D
  OBVIOUS
<1>5. left[D] = 0 /\ (n < 0 => \E m \in 1..D-1 : left[m] = 0)
  BY <1>2 DEF Room
<1> HIDE DEF chars
<1>6. Value(chars) = n
  BY <1>2, <1>3, <1>4, <1>5, NumberedValue
<1> QED
  BY <1>3, <1>4, <1>6

\* A tenth of a number has a digit less.
LEMMA Tenths ==
  \A r \in Nat : /\ r <= 99999 => r \div 10 <= 9999
                 /\ r <= 9999 => r \div 10 <= 999
                 /\ r <= 999 => r \div 10 <= 99
                 /\ r <= 99 => r \div 10 <= 9
                 /\ r <= 9 => r \div 10 <= 0
                 /\ r \div 10 \in Nat
OBVIOUS

\* The number on the data page.
LEMMA NumDrawn ==
  ASSUME NEW num \in Nat, NEW row, row = DisplayInt(num, NumPlace)
  PROVE  /\ InBoxes(row, 5, NumBoxes)
         /\ Value(Text(Glyphs(row, 5))) = Clip(num, NumPlace)
<1> DEFINE n == Clip(num, NumPlace)
           D == 5
           negative == n < 0
<1>1. IsPlace(NumPlace, D, 120, 20, 30, 36) /\ D \in Nat
  BY ScalesFit DEF IsPlace, NumPlace, NUM_WIDTH, NUM_HEIGHT
<1>2. n \in 0..99999
  BY DEF Clip, NumPlace
<1>3. n = Clip(num, NumPlace) /\ negative = (n < 0)
  OBVIOUS
<1> HIDE DEF n
<1>4. n = Abs(n) /\ n \in Nat /\ n \in Int /\ n <= 99999 /\ ~negative
  BY <1>2 DEF Abs
<1> HIDE DEF negative
<1>5. Room(n, D, negative)
  <2> SUFFICES ASSUME NEW left, Remains(left, n, D) PROVE left[D] = 0
    BY <1>4 DEF Room
  <2>1. left[0] = n /\ \A i \in 1..D : left[i] = left[i-1] \div 10
    BY DEF Remains
  <2>2. left[1] \in Nat /\ left[1] <= 9999
    BY <1>4, <2>1, Tenths
  <2>3. left[2] \in Nat /\ left[2] <= 999
    BY <2>1, <2>2, Tenths
  <2>4. left[3] \in Nat /\ left[3] <= 99
    BY <2>1, <2>3, Tenths
  <2>5. left[4] \in Nat /\ left[4] <= 9
    BY <2>1, <2>4, Tenths
  <2>6. left[5] \in Nat /\ left[5] <= 0
    BY <2>1, <2>5, Tenths
  <2> QED
    BY <2>6
<1> HIDE DEF D
<1>6. /\ InBoxes(row, D, Places(D, 120, 20, 30, 36))
      /\ Value(Text(Glyphs(row, D))) = n
  BY <1>1, <1>3, <1>4, <1>5, NumberDrawn
<1> QED
  BY <1>3, <1>6 DEF D, NumBoxes

\* A temperature.
LEMMA TempDrawn ==
  ASSUME NEW num \in -99..999, NEW row, row = DisplayInt(num, TempPlace)
  PROVE  /\ InBoxes(row, 3, TempBoxes)
         /\ Value(Text(Glyphs(row, 3))) = num
         /\ Len(Text(Glyphs(row, 3))) = 3
<1> DEFINE D == 3
           negative == num < 0
           a == Abs(num)
<1>1. IsPlace(TempPlace, D, 61, 100, 20, 24) /\ D \in Nat
  BY ScalesFit DEF IsPlace, TempPlace, UPPER_HEIGHT
<1>2. num = Clip(num, TempPlace) /\ num \in Int
  BY DEF Clip, TempPlace
<1>3. a \in Nat /\ a <= 999 /\ (negative => a <= 99)
  BY DEF Abs
<1>4. a = Abs(num) /\ negative = (num < 0)
  OBVIOUS
<1> HIDE DEF a, negative
<1>5. Room(a, D, negative)
  <2> SUFFICES ASSUME NEW left, Remains(left, a, D)
               PROVE  left[D] = 0 /\ (negative => left[2] = 0)
    BY DEF Room
  <2>1. left[0] = a /\ \A i \in 1..D : left[i] = left[i-1] \div 10
    BY DEF Remains
  <2>2. left[1] \in Nat /\ left[1] <= 99 /\ (negative => left[1] <= 9)
    BY <1>3, <2>1, Tenths
  <2>3. left[2] \in Nat /\ left[2] <= 9 /\ (negative => left[2] <= 0)
    BY <2>1, <2>2, Tenths
  <2>4. left[3] \in Nat /\ left[3] <= 0
    BY <2>1, <2>3, Tenths
  <2> QED
    BY <2>3, <2>4
<1> HIDE DEF D
<1>6. /\ InBoxes(row, D, Places(D, 61, 100, 20, 24))
      /\ Value(Text(Glyphs(row, D))) = num
      /\ Len(Text(Glyphs(row, D))) = D
  BY <1>1, <1>2, <1>3, <1>4, <1>5, NumberDrawn
<1> QED
  BY <1>6 DEF D, TempBoxes

-----------------------------------------------------------------------------
(* The texts.                                                                  *)

\* The boxes of the time.
TimeBoxes ==
    [k \in 1..5 |-> Area(IF k = 1 THEN 15 ELSE IF k = 2 THEN 45 ELSE IF k = 3 THEN 75
                         ELSE IF k = 4 THEN 85 ELSE 115, 40, IF k = 3 THEN 10 ELSE 30, 36)]

\* There is room for them.
LEMMA TimeFits == FitIn(UpperArea, 5, TimeBoxes)
<1>1. ASSUME NEW k \in 1..5
      PROVE  Boxed(TimeBoxes[k]) /\ Inside(TimeBoxes[k], UpperArea) /\ TimeBoxes[k].w < UpperArea.w
  BY DEF Boxed, Inside, TimeBoxes, UpperArea, Area
<1>2. ASSUME NEW j \in 1..5, NEW k \in 1..5, j # k PROVE ~Overlap(TimeBoxes[j], TimeBoxes[k])
  BY <1>2 DEF Overlap, TimeBoxes, Area
<1> QED
  BY <1>1, <1>2 DEF FitIn

\* Boxes that stand on one line, from left to right.
Lined(boxes, n) ==
    /\ \E Low \in Int : \A k \in 1..n : boxes[k].x \in Int /\ boxes[k].y + boxes[k].h = Low
    /\ \A j, k \in 1..n : boxes[j].x < boxes[k].x <=> j < k

\* Glyphs in boxes on one line are read from left to right.
LEMMA LineIsRead ==
  ASSUME NEW n \in Nat, NEW boxes, NEW row, InBoxes(row, n, boxes), Lined(boxes, n),
         NEW chars, chars = [k \in 1..n |-> Character(row[k])]
  PROVE  Text(Glyphs(row, n)) = chars
<1>0. PICK Low \in Int : \A k \in 1..n : boxes[k].x \in Int /\ boxes[k].y + boxes[k].h = Low
  BY DEF Lined
<1>1. ASSUME NEW j \in 1..n, NEW k \in 1..n PROVE Before(row[j], row[k]) <=> j < k
  <2> DEFINE b == boxes[j].x
             c == boxes[k].x
  <2>1. row[j].x = b /\ row[j].y + row[j].h = Low /\ row[k].x = c /\ row[k].y + row[k].h = Low
    BY <1>0 DEF InBoxes, DrawnInto
  <2>2. b < c <=> j < k
    BY DEF Lined
  <2> HIDE DEF b, c
  <2>3. Before(row[j], row[k]) <=> b < c
    BY <2>1 DEF Before
  <2> QED
    BY <2>2, <2>3
<1> QED
  BY <1>1, TextIs

\* What is drawn of the time.
TimeX == [k \in 1..5 |-> TimeBoxes[k].x]

\* Its images.
LEMMA TimeImages ==
  /\ \A d \in 0..9 : TimeImage(d) = Num(d)
  /\ TimeImage(Space) = Image("num_blank")
  /\ TimeImage(Colon) = Image("time_colon")
BY DEF TimeImage, Space, Colon

\* The time is drawn into its boxes.
LEMMA TimeSteps ==
  ASSUME NEW time \in Seq(Nat), TimeFormat(time)
  PROVE  DisplayTime(time) = [k \in 1..5 |-> DisplayImg(TimeImage(time[k]), TimeX[k], 40)]
<1>1. Len(time) = 5
  BY DEF TimeFormat
<1>2. /\ \A d \in 0..9 : Size(TimeImage(d)) = <<30, 36>>
      /\ Size(TimeImage(Space)) = <<30, 36>>
      /\ Size(TimeImage(Colon)) = <<10, 36>>
  BY DEF Size, TimeImage, Space, Colon, Num, Image, NUM_WIDTH, NUM_HEIGHT
<1> DEFINE Def(g) == [k \in 1..5 |-> IF k = 1 THEN 15
                                     ELSE g[k - 1] + Size(TimeImage(time[k - 1]))[1]]
<1>3. TimeX = Def(TimeX)
  <2>1. /\ TimeX[1] = 15 /\ TimeX[2] = 45 /\ TimeX[3] = 75 /\ TimeX[4] = 85 /\ TimeX[5] = 115
    BY DEF TimeX, TimeBoxes, Area
  <2>2. /\ Size(TimeImage(time[1]))[1] = 30 /\ Size(TimeImage(time[2]))[1] = 30
        /\ Size(TimeImage(time[3]))[1] = 10 /\ Size(TimeImage(time[4]))[1] = 30
    BY <1>2 DEF TimeFormat
  <2>3. ASSUME NEW k \in 1..5 PROVE TimeX[k] = Def(TimeX)[k]
    <3>1. Def(TimeX)[k] = IF k = 1 THEN 15 ELSE TimeX[k - 1] + Size(TimeImage(time[k - 1]))[1]
      OBVIOUS
    <3>2. k = 1 \/ k = 2 \/ k = 3 \/ k = 4 \/ k = 5
      OBVIOUS
    <3> HIDE DEF Def
    <3>3. CASE k = 1
      BY <2>1, <3>1, <3>3
    <3>4. CASE k = 2
      <4>1. k - 1 = 1
        BY <3>4
      <4> QED
        BY <2>1, <2>2, <3>1, <3>4, <4>1
    <3>5. CASE k = 3
      <4>1. k - 1 = 2
        BY <3>5
      <4> QED
        BY <2>1, <2>2, <3>1, <3>5, <4>1
    <3>6. CASE k = 4
      <4>1. k - 1 = 3
        BY <3>6
      <4> QED
        BY <2>1, <2>2, <3>1, <3>6, <4>1
    <3>7. CASE k = 5
      <4>1. k - 1 = 4
        BY <3>7
      <4> QED
        BY <2>1, <2>2, <3>1, <3>7, <4>1
    <3> QED
      BY <3>2, <3>3, <3>4, <3>5, <3>6, <3>7
  <2>4. TimeX = [k \in 1..5 |-> TimeX[k]]
    BY DEF TimeX
  <2> QED
    BY <2>3, <2>4
<1> DEFINE x == CHOOSE h : h = Def(h)
<1>4. x = Def(x)
  <2> HIDE DEF Def
  <2> QED
    BY <1>3
<1>5. DisplayTime(time) = [k \in 1..5 |-> DisplayImg(TimeImage(time[k]), x[k], 40)]
  BY <1>1 DEF DisplayTime
<1> HIDE DEF x
<1>6. \A k \in 1..5 : x[k] = TimeX[k]
  <2>1. \A k \in 1..5 : x[k] = IF k = 1 THEN 15 ELSE x[k-1] + Size(TimeImage(time[k-1]))[1]
    BY <1>4
  <2>2. \A k \in 1..5 : TimeX[k] = IF k = 1 THEN 15
                                   ELSE TimeX[k-1] + Size(TimeImage(time[k-1]))[1]
    BY <1>3
  <2>3. x[1] = TimeX[1]
    BY <2>1, <2>2
  <2>4. x[2] = TimeX[2]
    BY <2>1, <2>2, <2>3
  <2>5. x[3] = TimeX[3]
    BY <2>1, <2>2, <2>4
  <2>6. x[4] = TimeX[4]
    BY <2>1, <2>2, <2>5
  <2>7. x[5] = TimeX[5]
    BY <2>1, <2>2, <2>6
  <2> QED
    BY <2>3, <2>4, <2>5, <2>6, <2>7
<1> QED
  BY <1>5, <1>6

\* The time drawn is in its boxes, and is read again as what it is.
LEMMA TimeDrawn ==
  ASSUME NEW time \in Seq(Nat), TimeFormat(time), NEW row, row = DisplayTime(time)
  PROVE  InBoxes(row, 5, TimeBoxes) /\ Text(Glyphs(row, 5)) = time
<1>1. row = [k \in 1..5 |-> DisplayImg(TimeImage(time[k]), TimeX[k], 40)]
  BY TimeSteps
<1>2. Len(row) = 5 /\ row \in Seq(Glyphs(row, 5))
  BY <1>1 DEF Glyphs
<1>3. Len(time) = 5 /\ time = [k \in 1..5 |-> time[k]]
  BY DEF TimeFormat
<1>4. ASSUME NEW k \in 1..5
      PROVE  /\ row[k].image # Garbled /\ IsGlyph(row[k]) /\ Character(row[k]) = time[k]
             /\ DrawnInto(row[k], TimeBoxes[k])
  <2> DEFINE c == time[k]
             p == row[k]
             b == TimeBoxes[k]
             w == Size(TimeImage(c))[1]
             h == Size(TimeImage(c))[2]
  <2>1. (k = 3 /\ c = Colon) \/ (k # 3 /\ (c \in 0..9 \/ c = Space))
    BY DEF TimeFormat
  <2>2. p = DisplayImg(TimeImage(c), TimeX[k], 40)
    BY <1>1
  <2>3. TimeX[k] = b.x /\ b.y = 40 /\ b.h = 36 /\ b.w = IF k = 3 THEN 10 ELSE 30
    BY DEF TimeX, TimeBoxes, Area
  <2> HIDE DEF c, p, b
  <2>4. p.image = TimeImage(c) /\ p.x = b.x /\ p.y = 40 /\ p.w = w /\ p.h = h
    BY <2>2, <2>3 DEF DisplayImg, Place
  <2>5. CASE c = Colon
    <3>1. TimeImage(c) = Image("time_colon")
      BY <2>5, TimeImages
    <3>2. w = 10 /\ h = 36
      BY <3>1 DEF Size, Image, NUM_HEIGHT
    <3>3. k = 3
      BY <2>1, <2>5 DEF Colon, Space
    <3>4. IsGlyph(p) /\ p.image # Garbled /\ Character(p) = Colon
      BY <2>4, <3>1, SymbolsAreGlyphs
    <3> QED
      BY <2>3, <2>4, <2>5, <3>2, <3>3, <3>4 DEF DrawnInto, c, p, b
  <2>6. CASE c = Space
    <3>1. TimeImage(c) = Image("num_blank")
      BY <2>6, TimeImages
    <3>2. w = 30 /\ h = 36
      BY <3>1 DEF Size, Image, NUM_WIDTH, NUM_HEIGHT
    <3>3. k # 3
      BY <2>1, <2>6 DEF Colon, Space
    <3>4. IsGlyph(p) /\ p.image # Garbled /\ Character(p) = Space
      BY <2>4, <3>1, SymbolsAreGlyphs
    <3> QED
      BY <2>3, <2>4, <2>6, <3>2, <3>3, <3>4 DEF DrawnInto, c, p, b
  <2>7. CASE c \in 0..9
    <3>1. TimeImage(c) = Num(c)
      BY <2>7, TimeImages
    <3>2. w = 30 /\ h = 36
      BY <3>1 DEF Size, Num, NUM_WIDTH, NUM_HEIGHT
    <3>3. k # 3
      BY <2>1, <2>7 DEF Colon
    <3>4. IsGlyph(p) /\ p.image # Garbled /\ Character(p) = c
      BY <2>4, <2>7, <3>1, SymbolsAreGlyphs
    <3> QED
      BY <2>3, <2>4, <3>2, <3>3, <3>4 DEF DrawnInto, c, p, b
  <2> QED
    BY <2>1, <2>5, <2>6, <2>7
<1>5. InBoxes(row, 5, TimeBoxes)
  BY <1>2, <1>4 DEF InBoxes
<1>6. Text(Glyphs(row, 5)) = time
  <2> DEFINE n == 5
  <2>1. Lined(TimeBoxes, n)
    <3>1. \A k \in 1..5 : TimeBoxes[k].x \in Int /\ TimeBoxes[k].y + TimeBoxes[k].h = 76
      BY DEF TimeBoxes, Area
    <3>2. \A j, k \in 1..5 : TimeBoxes[j].x < TimeBoxes[k].x <=> j < k
      BY DEF TimeBoxes, Area
    <3> QED
      BY <3>1, <3>2 DEF Lined
  <2>2. time = [k \in 1..n |-> Character(row[k])]
    BY <1>3, <1>4
  <2>3. n \in Nat /\ InBoxes(row, n, TimeBoxes)
    BY <1>5
  <2> HIDE DEF n
  <2>4. Text(Glyphs(row, n)) = time
    BY <2>1, <2>2, <2>3, LineIsRead
  <2> QED
    BY <2>4 DEF n
<1> QED
  BY <1>5, <1>6

\* The boxes of the device id's digits: two lines of six.
IdBoxes == [k \in 1..12 |-> Area(20 + ((k - 1) % 6) * 20, 26 + ((k - 1) \div 6) * 34, 20, 24)]

\* The corner of each.
LEMMA IdBoxIs ==
  \A k \in 1..12 :
    /\ k <= 6 => IdBoxes[k] = Area(20 * k, 26, 20, 24)
    /\ k > 6 => IdBoxes[k] = Area(20 * (k - 6), 60, 20, 24)
<1>1. ASSUME NEW k \in 1..12, k <= 6 PROVE IdBoxes[k] = Area(20 * k, 26, 20, 24)
  <2>1. (k - 1) % 6 = k - 1 /\ (k - 1) \div 6 = 0
    BY <1>1
  <2>2. 20 + (k - 1) * 20 = 20 * k /\ 26 + 0 * 34 = 26
    OBVIOUS
  <2>3. IdBoxes[k] = Area(20 + ((k - 1) % 6) * 20, 26 + ((k - 1) \div 6) * 34, 20, 24)
    BY DEF IdBoxes
  <2> QED
    BY <2>1, <2>2, <2>3
<1>2. ASSUME NEW k \in 1..12, k > 6 PROVE IdBoxes[k] = Area(20 * (k - 6), 60, 20, 24)
  <2>1. (k - 1) % 6 = k - 7 /\ (k - 1) \div 6 = 1
    BY <1>2
  <2>2. 20 + (k - 7) * 20 = 20 * (k - 6) /\ 26 + 1 * 34 = 60
    OBVIOUS
  <2>3. IdBoxes[k] = Area(20 + ((k - 1) % 6) * 20, 26 + ((k - 1) \div 6) * 34, 20, 24)
    BY DEF IdBoxes
  <2> QED
    BY <2>1, <2>2, <2>3
<1> QED
  BY <1>1, <1>2

\* In numbers.
LEMMA IdBoxAt ==
  ASSUME NEW k \in 1..12
  PROVE  /\ IdBoxes[k].x = IF k <= 6 THEN 20 * k ELSE 20 * (k - 6)
         /\ IdBoxes[k].y = IF k <= 6 THEN 26 ELSE 60
         /\ IdBoxes[k].w = 20 /\ IdBoxes[k].h = 24
<1>1. CASE k <= 6
  <2>1. IdBoxes[k] = Area(20 * k, 26, 20, 24)
    BY <1>1, IdBoxIs
  <2> QED
    BY <1>1, <2>1 DEF Area
<1>2. CASE ~(k <= 6)
  <2>1. IdBoxes[k] = Area(20 * (k - 6), 60, 20, 24)
    BY <1>2, IdBoxIs
  <2> QED
    BY <1>2, <2>1 DEF Area
<1> QED
  BY <1>1, <1>2

\* There is room for them, under the title.
LEMMA IdFits ==
  ASSUME NEW n \in 0..12
  PROVE  FitIn(UpperArea, n, IdBoxes) /\ Beside({Upper("id_title")}, n, IdBoxes)
<1>1. ASSUME NEW k \in 1..n
      PROVE  Boxed(IdBoxes[k]) /\ Inside(IdBoxes[k], UpperArea) /\ IdBoxes[k].w < UpperArea.w
  BY IdBoxAt DEF Boxed, Inside, UpperArea, Area
<1>2. ASSUME NEW j \in 1..n, NEW k \in 1..n, j # k PROVE ~Overlap(IdBoxes[j], IdBoxes[k])
  <2> DEFINE b == IdBoxes[j]
             c == IdBoxes[k]
  <2>1. /\ b.x = IF j <= 6 THEN 20 * j ELSE 20 * (j - 6)
        /\ b.y = IF j <= 6 THEN 26 ELSE 60
        /\ b.w = 20 /\ b.h = 24
    BY IdBoxAt
  <2>2. /\ c.x = IF k <= 6 THEN 20 * k ELSE 20 * (k - 6)
        /\ c.y = IF k <= 6 THEN 26 ELSE 60
        /\ c.w = 20 /\ c.h = 24
    BY IdBoxAt
  <2> DEFINE bx == b.x  by == b.y  cx == c.x  cy == c.y
  <2>3. Overlap(b, c) => bx < cx + 20 /\ cx < bx + 20 /\ by < cy + 24 /\ cy < by + 24
    BY <2>1, <2>2 DEF Overlap
  <2>4. /\ bx = IF j <= 6 THEN 20 * j ELSE 20 * (j - 6)
        /\ by = IF j <= 6 THEN 26 ELSE 60
        /\ cx = IF k <= 6 THEN 20 * k ELSE 20 * (k - 6)
        /\ cy = IF k <= 6 THEN 26 ELSE 60
    BY <2>1, <2>2
  <2>5. j \in 1..12 /\ k \in 1..12
    OBVIOUS
  <2> HIDE DEF bx, by, cx, cy, b, c
  <2>6. ~(bx < cx + 20 /\ cx < bx + 20 /\ by < cy + 24 /\ cy < by + 24)
    BY <1>2, <2>4, <2>5
  <2> QED
    BY <2>3, <2>6 DEF b, c
<1>3. ASSUME NEW k \in 1..n PROVE ~Overlap(Upper("id_title"), IdBoxes[k])
  <2>1. Upper("id_title").y = 0 /\ Upper("id_title").h = 24
    BY DEF Upper, DisplayImg, Place, Size, Image
  <2>2. IdBoxes[k].y \in {26, 60}
    BY IdBoxAt
  <2> QED
    BY <2>1, <2>2 DEF Overlap
<1> QED
  BY <1>1, <1>2, <1>3 DEF FitIn, Beside

\* How much of an id is drawn.
IdLength(id) == IF Len(id) < 12 THEN Len(id) ELSE 12

\* An id drawn is in its boxes, and is read again as far as it is drawn, with a 0 for
\* what is no digit.
LEMMA IdDrawn ==
  ASSUME NEW id \in Seq(Nat), NEW row, row = DisplayId(id), NEW n, n = IdLength(id)
  PROVE  /\ n \in 0..12 /\ InBoxes(row, n, IdBoxes)
         /\ Text(Glyphs(row, n)) = [k \in 1..n |-> Digit(id[k])]
<1>1. n \in 0..12
  <2> DEFINE l == Len(id)
  <2>1. l \in Nat /\ n = IF l < 12 THEN l ELSE 12
    BY DEF IdLength
  <2> HIDE DEF l
  <2> QED
    BY <2>1
<1> DEFINE Picture(k) == Place(Resized(Num(Digit(id[k])), 20, 24),
                               20 + ((k - 1) % 6) * 20, 26 + ((k - 1) \div 6) * 34, 20, 24)
<1>2. row = [k \in 1..n |-> Picture(k)]
  BY DEF DisplayId, IdLength
<1>3. Len(row) = n /\ row \in Seq(Glyphs(row, n))
  <2> HIDE DEF Picture
  <2>1. n \in Nat
    BY <1>1
  <2>2. Len(row) = n
    BY <1>2, <2>1
  <2>3. \A k \in 1..n : row[k] \in Glyphs(row, n)
    BY DEF Glyphs
  <2>4. row = [k \in 1..n |-> row[k]]
    BY <1>2
  <2>5. row \in [1..n -> Glyphs(row, n)]
    BY <2>3, <2>4
  <2> QED
    BY <2>1, <2>2, <2>5
<1>4. ASSUME NEW k \in 1..n
      PROVE  /\ row[k].image # Garbled /\ IsGlyph(row[k]) /\ Character(row[k]) = Digit(id[k])
             /\ DrawnInto(row[k], IdBoxes[k])
  <2> DEFINE c == Digit(id[k])
             p == row[k]
             x == 20 + ((k - 1) % 6) * 20
             y == 26 + ((k - 1) \div 6) * 34
             b == IdBoxes[k]
  <2>1. c \in 0..9
    BY DEF Digit
  <2>2. p = Place(Resized(Num(c), 20, 24), x, y, 20, 24)
    <3> HIDE DEF c, x, y
    <3> QED
      BY <1>2 DEF c, x, y
  <2>3. b = Area(x, y, 20, 24)
    BY <1>1 DEF IdBoxes
  <2> HIDE DEF c, p, x, y, b
  <2>4. p = Place(Num(c), x, y, 20, 24)
    BY <2>2, ScalesFit
  <2>5. DrawnInto(p, b) /\ p.image = Num(c)
    BY <2>3, <2>4 DEF DrawnInto, Place, Area
  <2>6. IsGlyph(p) /\ p.image # Garbled /\ Character(p) = c
    BY <2>1, <2>5, SymbolsAreGlyphs
  <2> QED
    BY <2>5, <2>6 DEF c, p, b
<1>5. InBoxes(row, n, IdBoxes)
  BY <1>3, <1>4 DEF InBoxes
<1>6. ASSUME NEW j \in 1..n, NEW k \in 1..n PROVE Before(row[j], row[k]) <=> j < k
  <2> DEFINE p == row[j]
             q == row[k]
  <2>1. /\ p.x = IF j <= 6 THEN 20 * j ELSE 20 * (j - 6)
        /\ p.y = IF j <= 6 THEN 26 ELSE 60
        /\ p.h = 24
    <3>1. DrawnInto(p, IdBoxes[j])
      BY <1>4
    <3>2. j \in 1..12
      BY <1>1
    <3> QED
      BY <3>1, <3>2, IdBoxAt DEF DrawnInto
  <2>2. /\ q.x = IF k <= 6 THEN 20 * k ELSE 20 * (k - 6)
        /\ q.y = IF k <= 6 THEN 26 ELSE 60
        /\ q.h = 24
    <3>1. DrawnInto(q, IdBoxes[k])
      BY <1>4
    <3>2. k \in 1..12
      BY <1>1
    <3> QED
      BY <3>1, <3>2, IdBoxAt DEF DrawnInto
  <2> HIDE DEF p, q
  <2>3. Before(p, q) <=> j < k
    BY <1>1, <2>1, <2>2 DEF Before
  <2> QED
    BY <2>3 DEF p, q
<1>7. Text(Glyphs(row, n)) = [k \in 1..n |-> Character(row[k])]
  <2>1. n \in Nat
    BY <1>1
  <2> QED
    BY <1>6, <2>1, TextIs
<1> QED
  BY <1>1, <1>4, <1>5, <1>7

\* Where the characters of an address are drawn.
IpAt(x, ip, n) ==
    /\ \A k \in 1..n : x[k] \in Nat
    /\ n > 0 => x[1] = 10
    /\ \A k \in 2..n : x[k] = x[k - 1] + IpAdvance(ip[k - 1])
    /\ DisplayIp(ip) = [k \in 1..n |->
                          IF ip[k] = Dot
                          THEN Place(White, x[k], 26 + 15 - 2, 2, 2)
                          ELSE Place(Resized(Num(ip[k]), 12, 15), x[k], 26, 12, 15)]

\* An advance is that of a digit or that of a dot.
LEMMA Advances ==
  \A c : IpAdvance(c) \in {2, 12} /\ IpAdvance(c) \in Nat /\ (IpAdvance(c) = 2 <=> c = Dot)
BY DEF IpAdvance

\* There are such places.
LEMMA IpSteps ==
  ASSUME NEW ip, NEW n \in Nat, n = Len(ip)
  PROVE  \E x : IpAt(x, ip, n)
<1> DEFINE Next1(k, t) == IF k = 1 THEN 10 ELSE t + IpAdvance(ip[k - 1])
           Def(g) == [k \in 1..n |-> IF k = 1 THEN 10 ELSE g[k - 1] + IpAdvance(ip[k - 1])]
           step == {p \in (1..n) \X Nat \X Nat : p[3] = Next1(p[1], p[2])}
<1>2. \A k \in 1..n, t \in Nat : Next1(k, t) \in Nat
  BY Advances
<1> HIDE DEF Next1
<1>3. \A k \in 1..n, t, u \in Nat : <<k, t, u>> \in step <=> u = Next1(k, t)
  OBVIOUS
<1>4. \A k \in 1..n, t \in Nat : \E u \in Nat : <<k, t, u>> \in step
  BY <1>2, <1>3
<1> HIDE DEF step
<1>6. PICK f : Follows(f, n, Nat, 0, step)
  <2>1. 0 \in Nat
    OBVIOUS
  <2> QED
    BY <1>4, <2>1, Course
<1>7. \A k \in 1..n : f[k] = Next1(k, f[k-1])
  <2> SUFFICES ASSUME NEW k \in 1..n PROVE f[k] = Next1(k, f[k-1])
    OBVIOUS
  <2>1. f[k-1] \in Nat /\ f[k] \in Nat
    BY <1>6 DEF Follows
  <2>2. <<k, f[k-1], f[k]>> \in step
    BY <1>6 DEF Follows
  <2> QED
    BY <1>3, <2>1, <2>2
<1> DEFINE g == [k \in 1..n |-> f[k]]
<1>8. g = Def(g)
  <2>1. ASSUME NEW k \in 1..n PROVE g[k] = Def(g)[k]
    <3>1. CASE k = 1
      BY <1>7, <3>1 DEF Next1
    <3>2. CASE k # 1
      <4>1. k - 1 \in 1..n /\ g[k - 1] = f[k - 1] /\ g[k] = f[k]
        BY <3>2
      <4>2. f[k] = f[k - 1] + IpAdvance(ip[k - 1])
        BY <1>7, <3>2 DEF Next1
      <4>3. Def(g)[k] = g[k - 1] + IpAdvance(ip[k - 1])
        BY <3>2
      <4> HIDE DEF g, Def
      <4> QED
        BY <4>1, <4>2, <4>3
    <3> QED
      BY <3>1, <3>2
  <2> QED
    BY <2>1
<1> DEFINE x == CHOOSE h : h = Def(h)
           Pictures(h) == [k \in 1..n |->
                          IF ip[k] = Dot
                          THEN Place(White, h[k], 26 + 15 - 2, 2, 2)
                          ELSE Place(Resized(Num(ip[k]), 12, 15), h[k], 26, 12, 15)]
<1>9. DisplayIp(ip) = Pictures(x)
  BY DEF DisplayIp
<1>10. x = Def(x)
  <2> HIDE DEF g
  <2> QED
    BY <1>8
<1> HIDE DEF x, g
<1>11. \A k \in 1..n : x[k] = IF k = 1 THEN 10 ELSE x[k - 1] + IpAdvance(ip[k - 1])
  BY <1>10
<1>12. n > 0 => x[1] = 10
  BY <1>11
<1>13. \A k \in 2..n : x[k] = x[k - 1] + IpAdvance(ip[k - 1])
  BY <1>11
<1>14. \A k \in 1..n : x[k] \in Nat
  <2> DEFINE A == {k \in 0..n : k = 0 \/ x[k] \in Nat}
  <2>1. 0 \in A
    OBVIOUS
  <2>2. ASSUME NEW k \in 0..n-1, k \in A PROVE k + 1 \in A
    <3>1. k + 1 \in 1..n /\ k + 1 - 1 = k
      OBVIOUS
    <3>2. CASE k = 0
      BY <1>12, <3>1, <3>2
    <3>3. CASE k # 0
      <4>1. x[k + 1] = x[k] + IpAdvance(ip[k])
        <5> DEFINE m == k + 1
        <5>1. m \in 2..n /\ m - 1 = k
          BY <3>3
        <5> HIDE DEF m
        <5>2. x[m] = x[k] + IpAdvance(ip[k])
          BY <1>13, <5>1
        <5> QED
          BY <5>2 DEF m
      <4>2. x[k] \in Nat
        BY <2>2, <3>3
      <4>3. IpAdvance(ip[k]) \in Nat
        BY Advances
      <4> QED
        BY <3>1, <4>1, <4>2, <4>3
    <3> QED
      BY <3>2, <3>3
  <2> HIDE DEF A
  <2>3. 0..n \subseteq A
    BY <2>1, <2>2, InductionTo
  <2> QED
    BY <2>3 DEF A
<1>15. IpAt(x, ip, n)
  BY <1>9, <1>12, <1>13, <1>14 DEF IpAt
<1> QED
  BY <1>15

\* One place further there is one member more, or none.
LEMMA CountStep ==
  ASSUME NEW k \in Nat, NEW S
  PROVE  /\ Cardinality((1..k) \cap S) \in Nat
         /\ Cardinality((1..k+1) \cap S)
              = Cardinality((1..k) \cap S) + (IF k + 1 \in S THEN 1 ELSE 0)
<1> DEFINE A == (1..k) \cap S
           B == (1..k+1) \cap S
<1>1. IsFiniteSet(A)
  <2>1. IsFiniteSet(1..k)
    BY FS_Interval
  <2> QED
    BY <2>1, FS_Intersection
<1>2. Cardinality(A) \in Nat
  BY <1>1, FS_CardinalityType
<1>3. CASE k + 1 \in S
  <2>1. B = A \cup {k + 1} /\ k + 1 \notin A
    BY <1>3
  <2> HIDE DEF A, B
  <2>2. Cardinality(B) = Cardinality(A) + 1
    BY <1>1, <2>1, FS_AddElement
  <2> QED
    BY <1>2, <1>3, <2>2 DEF A, B
<1>4. CASE k + 1 \notin S
  <2>1. B = A
    BY <1>4
  <2> HIDE DEF A, B
  <2> QED
    BY <1>2, <1>4, <2>1 DEF A, B
<1> QED
  BY <1>3, <1>4

\* No character ends further right than all before it and itself are wide ...
IpEnds(x, ip, n, Digs, Dots) ==
    \A k \in 1..n : x[k] + IpAdvance(ip[k])
                      = 10 + 12 * Cardinality((1..k) \cap Digs) + 2 * Cardinality((1..k) \cap Dots)

\* The advances add up to that.
LEMMA IpEnd ==
  ASSUME NEW n \in Nat, NEW ip, NEW x, IpAt(x, ip, n),
         NEW Digs, Digs = {k \in 1..n : ip[k] # Dot},
         NEW Dots, Dots = {k \in 1..n : ip[k] = Dot}
  PROVE  IpEnds(x, ip, n, Digs, Dots)
<1> DEFINE I(k) == Cardinality((1..k) \cap Digs)
           J(k) == Cardinality((1..k) \cap Dots)
           e(k) == IF k = 0 THEN 10 ELSE x[k] + IpAdvance(ip[k])
           A == {k \in 0..n : e(k) = 10 + 12 * I(k) + 2 * J(k)}
<1>1. 0 \in A
  <2>1. (1..0) \cap Digs = {} /\ (1..0) \cap Dots = {}
    OBVIOUS
  <2>2. Cardinality({}) = 0
    BY FS_EmptySet
  <2>3. I(0) = 0 /\ J(0) = 0 /\ e(0) = 10
    BY <2>1, <2>2
  <2> HIDE DEF I, J, e
  <2>4. e(0) = 10 + 12 * I(0) + 2 * J(0)
    BY <2>3
  <2> QED
    BY <2>4
<1>2. ASSUME NEW k \in 0..n-1, k \in A PROVE k + 1 \in A
  <2> DEFINE m == k + 1
             d == IpAdvance(ip[m])
             u == e(k)
             v == e(m)
             ik == I(k)
             jk == J(k)
             im == I(m)
             jm == J(m)
  <2>1. m \in 1..n /\ m # 0 /\ k \in Nat
    OBVIOUS
  <2>2. u \in Nat /\ v = u + d
    <3>1. CASE k = 0
      <4>1. m = 1 /\ n > 0 /\ u = 10
        BY <3>1
      <4>2. x[1] = 10
        BY <4>1 DEF IpAt
      <4> QED
        BY <4>1, <4>2
    <3>2. CASE k # 0
      <4>1. m \in 2..n /\ m - 1 = k /\ k \in 1..n
        BY <3>2
      <4>2. u = x[k] + IpAdvance(ip[k]) /\ v = x[m] + d
        BY <2>1, <3>2
      <4> HIDE DEF m, u, v, d
      <4>3. x[m] = x[m - 1] + IpAdvance(ip[m - 1]) /\ x[k] \in Nat /\ x[m] \in Nat
        BY <2>1, <4>1 DEF IpAt
      <4>4. IpAdvance(ip[k]) \in Nat
        BY Advances
      <4> QED
        BY <4>1, <4>2, <4>3, <4>4
    <3> QED
      BY <3>1, <3>2
  <2>3. /\ ik \in Nat /\ im = ik + (IF m \in Digs THEN 1 ELSE 0)
        /\ jk \in Nat /\ jm = jk + (IF m \in Dots THEN 1 ELSE 0)
    BY <2>1, CountStep
  <2>4. (m \in Digs /\ m \notin Dots /\ d = 12) \/ (m \notin Digs /\ m \in Dots /\ d = 2)
    BY <2>1, Advances
  <2>5. u = 10 + 12 * ik + 2 * jk
    BY <1>2
  <2> HIDE DEF d, u, v, ik, jk, im, jm, m
  <2>6. v = 10 + 12 * im + 2 * jm
    BY <2>2, <2>3, <2>4, <2>5
  <2> HIDE DEF I, J, e
  <2>7. m \in 0..n /\ e(m) = 10 + 12 * I(m) + 2 * J(m)
    BY <2>1, <2>6 DEF v, im, jm
  <2>8. m \in A
    BY <2>7
  <2> QED
    BY <2>8 DEF m
<1> HIDE DEF A
<1>3. 0..n \subseteq A
  BY <1>1, <1>2, InductionTo
<1>4. ASSUME NEW k \in 1..n PROVE x[k] + IpAdvance(ip[k]) = 10 + 12 * I(k) + 2 * J(k)
  <2>1. k \in 0..n /\ k # 0
    OBVIOUS
  <2>2. k \in A
    BY <1>3, <2>1
  <2>3. e(k) = 10 + 12 * I(k) + 2 * J(k)
    BY <2>2 DEF A
  <2> QED
    BY <2>1, <2>3
<1> QED
  BY <1>4 DEF IpEnds

\* ... and none begins before those before it have ended.
Onward(x, ip, n) == \A j, k \in 1..n : j < k => x[j] + IpAdvance(ip[j]) <= x[k]

\* They follow one another.
LEMMA IpOnward ==
  ASSUME NEW n \in Nat, NEW ip, NEW x, IpAt(x, ip, n)
  PROVE  Onward(x, ip, n)
<1> DEFINE A == {k \in 0..n : \A j \in 1..k-1 : x[j] + IpAdvance(ip[j]) <= x[k]}
<1>1. 0 \in A
  OBVIOUS
<1>2. ASSUME NEW k \in 0..n-1, k \in A PROVE k + 1 \in A
  <2> DEFINE m == k + 1
  <2>1. m \in 1..n /\ m - 1 = k
    OBVIOUS
  <2> SUFFICES ASSUME NEW j \in 1..m-1 PROVE x[j] + IpAdvance(ip[j]) <= x[m]
    OBVIOUS
  <2>2. j \in 1..k /\ k \in 1..n /\ m \in 2..n /\ j \in 1..n
    BY <2>1
  <2> HIDE DEF m
  <2> DEFINE u == x[k]
             v == x[m]
             d == IpAdvance(ip[k])
             t == x[j]
             c == IpAdvance(ip[j])
  <2>3. u \in Nat /\ v \in Nat /\ d \in Nat /\ v = u + d /\ t \in Nat /\ c \in Nat
    <3>1. x[m] = x[m - 1] + IpAdvance(ip[m - 1])
      BY <2>2 DEF IpAt
    <3>2. x[k] \in Nat /\ x[m] \in Nat /\ x[j] \in Nat
      BY <2>1, <2>2 DEF IpAt
    <3> QED
      BY <2>1, <3>1, <3>2, Advances
  <2>4. j = k \/ (j \in 1..k-1 /\ t + c <= u)
    <3>1. j = k \/ j \in 1..k-1
      BY <2>2
    <3> QED
      BY <1>2, <3>1
  <2>5. j = k => t = u /\ c = d
    OBVIOUS
  <2> HIDE DEF u, v, d, t, c
  <2>6. t + c <= v
    BY <2>3, <2>4, <2>5
  <2> QED
    BY <2>6 DEF t, c, v
<1> HIDE DEF A
<1>3. 0..n \subseteq A
  BY <1>1, <1>2, InductionTo
<1>4. ASSUME NEW j \in 1..n, NEW k \in 1..n, j < k PROVE x[j] + IpAdvance(ip[j]) <= x[k]
  <2>1. k \in 0..n /\ j \in 1..k-1
    BY <1>4
  <2>2. k \in A
    BY <1>3, <2>1
  <2> QED
    BY <2>1, <2>2 DEF A
<1> QED
  BY <1>4 DEF Onward

\* A part of an interval has no more members than the whole.
LEMMA CountPart ==
  ASSUME NEW n \in Nat, NEW k \in 1..n, NEW S, S \subseteq 1..n
  PROVE  /\ Cardinality((1..k) \cap S) \in Nat /\ Cardinality(S) \in Nat
         /\ Cardinality((1..k) \cap S) <= Cardinality(S)
<1>1. IsFiniteSet(1..n)
  BY FS_Interval
<1>2. IsFiniteSet(S)
  BY <1>1, FS_Subset
<1> DEFINE P == (1..k) \cap S
<1>3. P \subseteq S
  OBVIOUS
<1> HIDE DEF P
<1>4. IsFiniteSet(P) /\ Cardinality(P) <= Cardinality(S)
  BY <1>2, <1>3, FS_Subset
<1>5. Cardinality(P) \in Nat /\ Cardinality(S) \in Nat
  BY <1>2, <1>4, FS_CardinalityType
<1> QED
  BY <1>4, <1>5 DEF P

\* The boxes of an address.
IpBoxes(x, ip, n) ==
    [k \in 1..n |-> IF ip[k] = Dot THEN Area(x[k], 39, 2, 2) ELSE Area(x[k], 26, 12, 15)]

\* The longest address there is ends on the panel.
LEMMA IpFits ==
  ASSUME NEW ip, IpFormat(ip), NEW n, n = Len(ip), NEW x, IpAt(x, ip, n),
         NEW boxes, boxes = IpBoxes(x, ip, n)
  PROVE  /\ FitIn(UpperArea, n, boxes) /\ Beside({Upper("ip_title")}, n, boxes)
         /\ Lined(boxes, n)
<1> DEFINE Digs == {k \in 1..n : ip[k] # Dot}
           Dots == {k \in 1..n : ip[k] = Dot}
<1>1. n \in Nat
  BY DEF IpFormat
<1>2. Cardinality(Digs) <= 12 /\ Cardinality(Dots) <= 3
  BY DEF IpFormat
<1>3. IpEnds(x, ip, n, Digs, Dots)
  BY <1>1, IpEnd
<1>4. Digs \subseteq 1..n /\ Dots \subseteq 1..n
  OBVIOUS
<1> HIDE DEF Digs, Dots
<1>5. ASSUME NEW k \in 1..n
      PROVE  /\ x[k] \in Nat /\ 10 <= x[k] /\ x[k] + IpAdvance(ip[k]) <= 160
             /\ boxes[k] = IF ip[k] = Dot THEN Area(x[k], 39, 2, 2) ELSE Area(x[k], 26, 12, 15)
  <2>1. x[k] \in Nat /\ n > 0
    BY <1>1 DEF IpAt
  <2>2. 10 <= x[k]
    <3>1. 1 \in 1..n /\ x[1] = 10
      BY <1>1, <2>1 DEF IpAt
    <3>2. CASE k = 1
      BY <3>1, <3>2
    <3>3. CASE k # 1
      <4>1. 1 < k
        BY <3>3
      <4>2. x[1] + IpAdvance(ip[1]) <= x[k]
        BY <1>1, <3>1, <4>1, IpOnward DEF Onward
      <4>3. IpAdvance(ip[1]) \in Nat
        BY Advances
      <4> QED
        BY <2>1, <3>1, <4>2, <4>3
    <3> QED
      BY <3>2, <3>3
  <2>3. x[k] + IpAdvance(ip[k]) <= 160
    <3> DEFINE e == x[k] + IpAdvance(ip[k])
               ik == Cardinality((1..k) \cap Digs)
               jk == Cardinality((1..k) \cap Dots)
    <3>1. e = 10 + 12 * ik + 2 * jk
      BY <1>3 DEF IpEnds
    <3>2. ik \in Nat /\ ik <= 12
      <4>1. ik \in Nat /\ Cardinality(Digs) \in Nat /\ ik <= Cardinality(Digs)
        BY <1>1, <1>4, CountPart
      <4> HIDE DEF ik
      <4> QED
        BY <1>2, <4>1
    <3>3. jk \in Nat /\ jk <= 3
      <4>1. jk \in Nat /\ Cardinality(Dots) \in Nat /\ jk <= Cardinality(Dots)
        BY <1>1, <1>4, CountPart
      <4> HIDE DEF jk
      <4> QED
        BY <1>2, <4>1
    <3> HIDE DEF e, ik, jk
    <3>4. e <= 160
      BY <3>1, <3>2, <3>3
    <3> QED
      BY <3>4 DEF e
  <2>4. boxes[k] = IF ip[k] = Dot THEN Area(x[k], 39, 2, 2) ELSE Area(x[k], 26, 12, 15)
    BY DEF IpBoxes
  <2> QED
    BY <2>1, <2>2, <2>3, <2>4
<1>6. ASSUME NEW k \in 1..n
      PROVE  \E u \in Nat, w \in {2, 12} :
               /\ u = x[k] /\ w = IpAdvance(ip[k]) /\ 10 <= u /\ u + w <= 160
               /\ boxes[k].x = u /\ boxes[k].w = w
               /\ boxes[k].h \in {2, 15} /\ boxes[k].y + boxes[k].h = 41
               /\ boxes[k].y \in {26, 39}
  <2> DEFINE u == x[k]
             w == IpAdvance(ip[k])
             b == boxes[k]
  <2>0. u \in Nat /\ w \in {2, 12} /\ 10 <= u /\ u + w <= 160
    BY <1>5, Advances
  <2>1. CASE ip[k] = Dot
    <3>1. b = Area(u, 39, 2, 2) /\ w = 2
      BY <1>5, <2>1 DEF IpAdvance
    <3> HIDE DEF u, w, b
    <3>2. b.x = u /\ b.w = w /\ b.h = 2 /\ b.y = 39
      BY <3>1 DEF Area
    <3> QED
      BY <2>0, <3>2 DEF u, w, b
  <2>2. CASE ip[k] # Dot
    <3>1. b = Area(u, 26, 12, 15) /\ w = 12
      BY <1>5, <2>2 DEF IpAdvance
    <3> HIDE DEF u, w, b
    <3>2. b.x = u /\ b.w = w /\ b.h = 15 /\ b.y = 26
      BY <3>1 DEF Area
    <3> QED
      BY <2>0, <3>2 DEF u, w, b
  <2> QED
    BY <2>1, <2>2
<1>7. ASSUME NEW k \in 1..n
      PROVE  /\ Boxed(boxes[k]) /\ Inside(boxes[k], UpperArea) /\ boxes[k].w < UpperArea.w
             /\ ~Overlap(Upper("ip_title"), boxes[k])
             /\ boxes[k].x \in Int /\ boxes[k].y + boxes[k].h = 41
  <2>1. PICK u \in Nat, w \in {2, 12} :
               /\ u = x[k] /\ w = IpAdvance(ip[k]) /\ 10 <= u /\ u + w <= 160
               /\ boxes[k].x = u /\ boxes[k].w = w
               /\ boxes[k].h \in {2, 15} /\ boxes[k].y + boxes[k].h = 41
               /\ boxes[k].y \in {26, 39}
    BY <1>6
  <2>2. Boxed(boxes[k])
    BY <2>1 DEF Boxed
  <2>3. Inside(boxes[k], UpperArea) /\ boxes[k].w < UpperArea.w
    BY <2>1 DEF Inside, UpperArea, Area
  <2>4. Upper("ip_title").y = 0 /\ Upper("ip_title").h = 24
    BY DEF Upper, DisplayImg, Place, Size, Image
  <2>5. ~Overlap(Upper("ip_title"), boxes[k])
    BY <2>1, <2>4 DEF Overlap
  <2> QED
    BY <2>1, <2>2, <2>3, <2>5
<1>8. ASSUME NEW j \in 1..n, NEW k \in 1..n, j < k
      PROVE  /\ boxes[j].x < boxes[k].x
             /\ ~Overlap(boxes[j], boxes[k]) /\ ~Overlap(boxes[k], boxes[j])
  <2>1. PICK u \in Nat, w \in {2, 12} :
          u = x[j] /\ w = IpAdvance(ip[j]) /\ boxes[j].x = u /\ boxes[j].w = w
    BY <1>6
  <2>2. PICK v \in Nat : v = x[k] /\ boxes[k].x = v
    BY <1>6
  <2>3. u + w <= v
    BY <1>1, <1>8, <2>1, <2>2, IpOnward DEF Onward
  <2>4. u < v /\ ~(v < u + w)
    BY <2>3
  <2> QED
    BY <2>1, <2>2, <2>4 DEF Overlap
<1>9. FitIn(UpperArea, n, boxes)
  <2>1. ASSUME NEW j \in 1..n, NEW k \in 1..n, j # k PROVE ~Overlap(boxes[j], boxes[k])
    <3>1. j < k \/ k < j
      BY <1>1, <2>1
    <3> QED
      BY <1>8, <3>1
  <2> QED
    BY <1>7, <2>1 DEF FitIn
<1>10. Beside({Upper("ip_title")}, n, boxes)
  BY <1>7 DEF Beside
<1>11. Lined(boxes, n)
  <2>1. ASSUME NEW j \in 1..n, NEW k \in 1..n PROVE boxes[j].x < boxes[k].x <=> j < k
    <3> DEFINE b == boxes[j].x
               c == boxes[k].x
    <3>1. b \in Int /\ c \in Int
      BY <1>7
    <3>2. (j < k => b < c) /\ (k < j => c < b) /\ (j = k => b = c)
      BY <1>8
    <3> HIDE DEF b, c
    <3>3. b < c <=> j < k
      BY <1>1, <3>1, <3>2
    <3> QED
      BY <3>3 DEF b, c
  <2>2. \A k \in 1..n : boxes[k].x \in Int /\ boxes[k].y + boxes[k].h = 41
    BY <1>7
  <2>3. \E Low \in Int : \A k \in 1..n : boxes[k].x \in Int /\ boxes[k].y + boxes[k].h = Low
    <3> WITNESS 41 \in Int
    <3> QED
      BY <2>2
  <2> QED
    BY <2>1, <2>3 DEF Lined
<1> QED
  BY <1>9, <1>10, <1>11

\* An address drawn is a row under its title, and is read again as what it is.
LEMMA IpDrawn ==
  ASSUME NEW ip, IpFormat(ip), NEW n, n = Len(ip), NEW row, row = DisplayIp(ip)
  PROVE  Row(row, n, UpperArea, {Upper("ip_title")}) /\ Text(Glyphs(row, n)) = ip
<1>1. n \in Nat /\ ip = [k \in 1..n |-> ip[k]] /\ \A k \in 1..n : ip[k] \in 0..9 \cup {Dot}
  BY DEF IpFormat
<1>2. PICK x : IpAt(x, ip, n)
  BY <1>1, IpSteps
<1> DEFINE boxes == IpBoxes(x, ip, n)
           Picture(k) == IF ip[k] = Dot
                         THEN Place(White, x[k], 26 + 15 - 2, 2, 2)
                         ELSE Place(Resized(Num(ip[k]), 12, 15), x[k], 26, 12, 15)
<1>3. row = [k \in 1..n |-> Picture(k)]
  BY <1>2 DEF IpAt
<1>4. Len(row) = n /\ row \in Seq(Glyphs(row, n))
  <2> HIDE DEF Picture
  <2>1. Len(row) = n
    BY <1>1, <1>3
  <2>2. \A k \in 1..n : row[k] \in Glyphs(row, n)
    BY DEF Glyphs
  <2>3. row = [k \in 1..n |-> row[k]]
    BY <1>3
  <2>4. row \in [1..n -> Glyphs(row, n)]
    BY <2>2, <2>3
  <2> QED
    BY <1>1, <2>1, <2>4
<1>5. ASSUME NEW k \in 1..n
      PROVE  /\ row[k].image # Garbled /\ IsGlyph(row[k]) /\ Character(row[k]) = ip[k]
             /\ DrawnInto(row[k], boxes[k])
  <2> DEFINE c == ip[k]
             u == x[k]
             p == row[k]
             b == boxes[k]
  <2>1. c \in 0..9 \cup {Dot}
    BY <1>1
  <2>2. p = IF c = Dot THEN Place(White, u, 26 + 15 - 2, 2, 2)
            ELSE Place(Resized(Num(c), 12, 15), u, 26, 12, 15)
    BY <1>3
  <2>3. b = IF c = Dot THEN Area(u, 39, 2, 2) ELSE Area(u, 26, 12, 15)
    BY DEF IpBoxes
  <2> HIDE DEF c, u, p, b
  <2>4. CASE c = Dot
    <3>1. p = Place(White, u, 39, 2, 2)
      BY <2>2, <2>4
    <3>2. p.image = White /\ DrawnInto(p, b)
      BY <2>3, <2>4, <3>1 DEF Place, Area, DrawnInto
    <3>3. IsGlyph(p) /\ p.image # Garbled /\ Character(p) = c
      BY <2>4, <3>2, SymbolsAreGlyphs
    <3> QED
      BY <3>2, <3>3 DEF c, p, b
  <2>5. CASE c # Dot
    <3>1. p = Place(Num(c), u, 26, 12, 15)
      BY <2>2, <2>5, ScalesFit
    <3>2. p.image = Num(c) /\ DrawnInto(p, b)
      BY <2>3, <2>5, <3>1 DEF Place, Area, DrawnInto
    <3>3. c \in 0..9
      BY <2>1, <2>5
    <3>4. IsGlyph(p) /\ p.image # Garbled /\ Character(p) = c
      BY <3>2, <3>3, SymbolsAreGlyphs
    <3> QED
      BY <3>2, <3>4 DEF c, p, b
  <2> QED
    BY <2>4, <2>5
<1> HIDE DEF boxes
<1>6. InBoxes(row, n, boxes)
  BY <1>4, <1>5 DEF InBoxes
<1>7. FitIn(UpperArea, n, boxes) /\ Beside({Upper("ip_title")}, n, boxes) /\ Lined(boxes, n)
  BY <1>2, IpFits DEF boxes
<1>8. Row(row, n, UpperArea, {Upper("ip_title")})
  <2>1. UpperArea \in Areas
    BY DEF Areas
  <2> QED
    BY <1>1, <1>6, <1>7, <2>1, InBoxesIsRow
<1>9. ip = [k \in 1..n |-> Character(row[k])]
  BY <1>1, <1>5
<1>10. Text(Glyphs(row, n)) = ip
  BY <1>1, <1>6, <1>7, <1>9, LineIsRead
<1> QED
  BY <1>8, <1>10

-----------------------------------------------------------------------------
(* What each area shows.                                                       *)

Blanked == Upper("upper_blank")
TempBack == DisplayImg(Image("temp_bg"), 20, 98)
TempBlank == DisplayImg(Image("temp_blank"), 20, 98)

\* A stored image lies at its place, as large as it is.
LEMMA ImgIs ==
  ASSUME NEW image, NEW x, NEW y, NEW w, NEW h, Size(image) = <<w, h>>,
         NEW p, p = DisplayImg(image, x, y)
  PROVE  p.image = image /\ p.x = x /\ p.y = y /\ p.w = w /\ p.h = h
BY DEF DisplayImg, Place

\* The sizes of the images that are no glyphs.
LEMMA Sizes ==
  /\ \A name \in {"please_wait", "please_setup", "setup_success", "setup_fail", "upper_blank"} :
       Size(Image(name)) = <<160, 98>>
  /\ \A name \in {"unit_pcs", "unit_ug"} : Size(Image(name)) = <<160, 20>>
  /\ \A name \in {"id_title", "ip_title"} : Size(Image(name)) = <<28, 24>>
  /\ \A name \in {"temp_bg", "temp_blank"} : Size(Image(name)) = <<80, 30>>
  /\ \A name \in {"bat_f", "bat_h", "bat_l", "bat_c", "bat_b"} : Size(Image(name)) = <<20, 30>>
  /\ \A name \in {"net_connected", "net_disconnected", "net_blank", "spinner_blank"} :
       Size(Image(name)) = <<30, 30>>
  /\ \A k : Size(<<"spinner", k>>) = <<30, 30>>
BY DEF Size, Image, LCD_W, UPPER_HEIGHT

\* They are none, and neither wrong nor Welcome's.
LEMMA NoGlyphs ==
  /\ \A name \in {"please_wait", "please_setup", "setup_success", "setup_fail", "upper_blank",
                  "unit_pcs", "unit_ug", "id_title", "ip_title", "temp_bg", "temp_blank",
                  "bat_f", "bat_h", "bat_l", "bat_c", "bat_b", "net_connected",
                  "net_disconnected", "net_blank", "spinner_blank"} :
       /\ \A p : p.image = Image(name) => ~IsGlyph(p)
       /\ Image(name) # Garbled /\ Image(name) # Image("welcome")
  /\ \A p, k : p.image = <<"spinner", k>> => ~IsGlyph(p)
  /\ \A k : <<"spinner", k>> # Garbled
BY DEF IsGlyph, Image, Garbled

\* The backgrounds of the pages.
LEMMA UpperFills ==
  ASSUME NEW name \in {"please_wait", "please_setup", "setup_success", "setup_fail", "upper_blank"}
  PROVE  /\ Fills(Upper(name), UpperArea) /\ Upper(name).image = Image(name)
         /\ Image(name) # Image("welcome")
<1> DEFINE p == Upper(name)
<1>1. p.image = Image(name) /\ p.x = 0 /\ p.y = 0 /\ p.w = 160 /\ p.h = 98
  <2>1. p = DisplayImg(Image(name), 0, 0)
    BY DEF Upper
  <2>2. Size(Image(name)) = <<160, 98>>
    BY Sizes
  <2> HIDE DEF p
  <2> QED
    BY <2>1, <2>2, ImgIs
<1> HIDE DEF p
<1>2. ~IsGlyph(p) /\ Image(name) # Garbled /\ Image(name) # Image("welcome")
  BY <1>1, NoGlyphs
<1>3. Neat(p)
  BY <1>1, <1>2 DEF Neat, LCD_W, LCD_H
<1>4. Fills(p, UpperArea)
  BY <1>1, <1>2, <1>3 DEF Fills, UpperArea, Area
<1> QED
  BY <1>1, <1>2, <1>4 DEF p

\* The labels and titles in front of them.
LEMMA UpperFronts ==
  /\ \A u : Front({Label(u)}, UpperArea) /\ Label(u).image # Image("welcome")
  /\ \A name \in {"id_title", "ip_title"} :
       Front({Upper(name)}, UpperArea) /\ Upper(name).image # Image("welcome")
<1>1. ASSUME NEW u PROVE Front({Label(u)}, UpperArea) /\ Label(u).image # Image("welcome")
  <2> DEFINE p == Label(u)
             name == IF u = "pcs" THEN "unit_pcs" ELSE "unit_ug"
  <2>0. name \in {"unit_pcs", "unit_ug"}
    OBVIOUS
  <2>1. p = DisplayImg(Image(name), 0, 70)
    BY DEF Label
  <2> HIDE DEF name, p
  <2>2. Size(Image(name)) = <<160, 20>>
    BY <2>0, Sizes
  <2>3. p.image = Image(name) /\ p.x = 0 /\ p.y = 70 /\ p.w = 160 /\ p.h = 20
    BY <2>1, <2>2, ImgIs
  <2>4. ~IsGlyph(p) /\ Image(name) # Garbled /\ Image(name) # Image("welcome")
    BY <2>0, <2>3, NoGlyphs
  <2>5. Neat(p)
    BY <2>3, <2>4 DEF Neat, LCD_W, LCD_H
  <2>6. Inside(p, UpperArea) /\ ~Inside(UpperArea, p)
    BY <2>3 DEF Inside, UpperArea, Area
  <2>7. Front({p}, UpperArea)
    BY <2>4, <2>5, <2>6 DEF Front
  <2> QED
    BY <2>3, <2>4, <2>7 DEF p
<1>2. ASSUME NEW name \in {"id_title", "ip_title"}
      PROVE  Front({Upper(name)}, UpperArea) /\ Upper(name).image # Image("welcome")
  <2> DEFINE p == Upper(name)
  <2>1. p = DisplayImg(Image(name), 0, 0)
    BY DEF Upper
  <2>2. Size(Image(name)) = <<28, 24>>
    BY Sizes
  <2> HIDE DEF p
  <2>3. p.image = Image(name) /\ p.x = 0 /\ p.y = 0 /\ p.w = 28 /\ p.h = 24
    BY <2>1, <2>2, ImgIs
  <2>4. ~IsGlyph(p) /\ Image(name) # Garbled /\ Image(name) # Image("welcome")
    BY <2>3, NoGlyphs
  <2>5. Neat(p)
    BY <2>3, <2>4 DEF Neat, LCD_W, LCD_H
  <2>6. Inside(p, UpperArea) /\ ~Inside(UpperArea, p)
    BY <2>3 DEF Inside, UpperArea, Area
  <2>7. Front({p}, UpperArea)
    BY <2>4, <2>5, <2>6 DEF Front
  <2> QED
    BY <2>3, <2>4, <2>7 DEF p
<1> QED
  BY <1>1, <1>2

\* The area of the temperature.
LEMMA TempFills == Fills(TempBack, TempArea) /\ Fills(TempBlank, TempArea)
<1>1. ASSUME NEW name \in {"temp_bg", "temp_blank"}, NEW p, p = DisplayImg(Image(name), 20, 98)
      PROVE  Fills(p, TempArea)
  <2>1. Size(Image(name)) = <<80, 30>>
    BY Sizes
  <2>2. p.image = Image(name) /\ p.x = 20 /\ p.y = 98 /\ p.w = 80 /\ p.h = 30
    BY <1>1, <2>1, ImgIs
  <2>3. ~IsGlyph(p) /\ Image(name) # Garbled
    BY <2>2, NoGlyphs
  <2>4. Neat(p)
    BY <2>2, <2>3 DEF Neat, LCD_W, LCD_H
  <2> QED
    BY <2>2, <2>3, <2>4 DEF Fills, TempArea, Area
<1> QED
  BY <1>1 DEF TempBack, TempBlank

\* The icons.
LEMMA IconFills ==
  /\ \A icon : Fills(DisplayImg(BatteryImage(icon), 0, 98), BatteryArea)
  /\ \A conn : Fills(DisplayImg(NetImage(conn), 100, 98), NetArea)
  /\ \A frame : Fills(DisplayImg(SpinnerImage(frame), 130, 98), SpinnerArea)
<1>1. ASSUME NEW icon PROVE Fills(DisplayImg(BatteryImage(icon), 0, 98), BatteryArea)
  <2> DEFINE p == DisplayImg(BatteryImage(icon), 0, 98)
  <2>1. PICK name \in {"bat_f", "bat_h", "bat_l", "bat_c", "bat_b"} :
          BatteryImage(icon) = Image(name)
    BY DEF BatteryImage
  <2>2. Size(Image(name)) = <<20, 30>>
    BY Sizes
  <2>3. p = DisplayImg(Image(name), 0, 98)
    BY <2>1
  <2> HIDE DEF p
  <2>4. p.image = Image(name) /\ p.x = 0 /\ p.y = 98 /\ p.w = 20 /\ p.h = 30
    BY <2>2, <2>3, ImgIs
  <2>5. ~IsGlyph(p) /\ Image(name) # Garbled
    BY <2>4, NoGlyphs
  <2>6. Neat(p)
    BY <2>4, <2>5 DEF Neat, LCD_W, LCD_H
  <2>7. Fills(p, BatteryArea)
    BY <2>4, <2>5, <2>6 DEF Fills, BatteryArea, Area
  <2> QED
    BY <2>7 DEF p
<1>2. ASSUME NEW conn PROVE Fills(DisplayImg(NetImage(conn), 100, 98), NetArea)
  <2> DEFINE p == DisplayImg(NetImage(conn), 100, 98)
  <2>1. PICK name \in {"net_connected", "net_disconnected", "net_blank"} :
          NetImage(conn) = Image(name)
    BY DEF NetImage
  <2>2. Size(Image(name)) = <<30, 30>>
    BY Sizes
  <2>3. p = DisplayImg(Image(name), 100, 98)
    BY <2>1
  <2> HIDE DEF p
  <2>4. p.image = Image(name) /\ p.x = 100 /\ p.y = 98 /\ p.w = 30 /\ p.h = 30
    BY <2>2, <2>3, ImgIs
  <2>5. ~IsGlyph(p) /\ Image(name) # Garbled
    BY <2>4, NoGlyphs
  <2>6. Neat(p)
    BY <2>4, <2>5 DEF Neat, LCD_W, LCD_H
  <2>7. Fills(p, NetArea)
    BY <2>4, <2>5, <2>6 DEF Fills, NetArea, Area
  <2> QED
    BY <2>7 DEF p
<1>3. ASSUME NEW frame PROVE Fills(DisplayImg(SpinnerImage(frame), 130, 98), SpinnerArea)
  <2> DEFINE image == SpinnerImage(frame)
             p == DisplayImg(image, 130, 98)
  <2>1. Size(image) = <<30, 30>>
    BY Sizes DEF SpinnerImage
  <2>2. image # Garbled /\ \A q : q.image = image => ~IsGlyph(q)
    BY NoGlyphs DEF SpinnerImage
  <2>3. p = DisplayImg(image, 130, 98)
    OBVIOUS
  <2> HIDE DEF image, p
  <2>4. p.image = image /\ p.x = 130 /\ p.y = 98 /\ p.w = 30 /\ p.h = 30
    BY <2>1, <2>3, ImgIs
  <2>5. Neat(p) /\ ~IsGlyph(p)
    BY <2>2, <2>4 DEF Neat, LCD_W, LCD_H
  <2>6. Fills(p, SpinnerArea)
    BY <2>4, <2>5 DEF Fills, SpinnerArea, Area
  <2> QED
    BY <2>6 DEF p, image
<1> QED
  BY <1>1, <1>2, <1>3

\* The upper area shows the page asked for and its text.
UpperShows(S, s, chars) ==
    \/ s.page = "welcome" /\ S = {}
    \/ s.page \in {"wait", "setup", "success", "fail"} /\ S = {Upper(UpperImage(s.page))}
    \/ /\ s.page = "data" /\ s.value.reading \in Readings
       /\ \E num \in DataConvert(s.value.reading, s.value.unit) :
            S = ({Blanked} \cup {Label(s.label)}) \cup Glyphs(DisplayInt(num, NumPlace), 5)
    \/ /\ s.page = "time" /\ chars \in Times
       /\ S = {Blanked} \cup Glyphs(DisplayTime(chars), 5)
    \/ /\ s.page = "id" /\ chars = DeviceId
       /\ S = {Blanked, Upper("id_title")} \cup Glyphs(DisplayId(chars), IdLength(chars))
    \/ /\ s.page = "ip" /\ chars \in Addresses
       /\ S = {Blanked, Upper("ip_title")} \cup Glyphs(DisplayIp(chars), Len(chars))

\* Under it there is the temperature, or there is none.
TempShows(S, has, t) ==
    \/ ~has /\ t = NoDevice /\ S \subseteq {TempBlank}
    \/ /\ has /\ t \in Temperatures
       /\ S = {TempBack} \cup Glyphs(DisplayInt(ReadTemp(t), TempPlace), 3)

\* An icon fills its area, or none was drawn yet.
IconShows(S, a) == (\A p \in S : Fills(p, a)) /\ (\A p, q \in S : p = q)

Icons == {BatteryArea, NetArea, SpinnerArea}

\* The whole panel.
PanelShows(P, s, chars, has, t) ==
    /\ Laid(P)
    /\ UpperShows(Part(P, UpperArea), s, chars)
    /\ TempShows(Part(P, TempArea), has, t)
    /\ \A a \in Icons : IconShows(Part(P, a), a)

\* display()'s two flags.
Flags(s) ==
    /\ s.current_is_data <=> s.page = "data"
    /\ s.current_is_time <=> s.page = "time"

PanelInv ==
    /\ Readable(pictures)
    /\ prog = "main" /\ files /\ slave => PanelShows(pictures, screen, text, has_temp, temp)
    /\ on => slave
    /\ prog = "boot" => ~on /\ screen.page = "welcome" /\ ~has_temp /\ temp = NoDevice
    /\ Flags(screen)

-----------------------------------------------------------------------------
(* What the constants are, one by one.                                         *)

\* Readings are natural numbers.
LEMMA ReadingsAre == Readings \subseteq Nat
BY LcdAssumption

\* The device id is a text.
LEMMA IdIs == DeviceId \in Seq(Nat)
BY LcdAssumption

\* An address is what ifconfig prints.
LEMMA AddressesAre == \A ip \in Addresses : IpFormat(ip)
BY LcdAssumption

\* A time is what display_time() takes.
LEMMA TimesAre == \A time \in Times : time \in Seq(Nat) /\ TimeFormat(time)
BY LcdAssumption

\* A temperature is one that the thermometer measures.
LEMMA TemperaturesAre ==
  \A milli \in Temperatures : milli \in Int /\ -55000 <= milli /\ milli <= 125000
BY LcdAssumption

-----------------------------------------------------------------------------
\* What is drawn of a page: a background, at most a picture in front, a row of glyphs.
Composed(S, a, back, front, row, n) ==
    /\ Fills(back, a) /\ Front(front, a) /\ Row(row, n, a, front)
    /\ S = ({back} \cup front) \cup Glyphs(row, n)

\* There may be no row, and nothing in front.
LEMMA NoRow ==
  ASSUME NEW a, NEW front
  PROVE  Row(<<>>, 0, a, front) /\ Glyphs(<<>>, 0) = {} /\ Front({}, a)
BY DEF Row, Glyphs, Front

\* What data_convert() makes of a reading is a number, and one too small at most.
LEMMA Converted ==
  ASSUME NEW reading \in Nat, NEW unit, NEW num \in DataConvert(reading, unit),
         NEW exact, exact = reading \div (IF unit = "pcs" THEN 1 ELSE 20)
  PROVE  exact \in Nat /\ num \in Nat /\ num \in (exact - 1)..exact
<1> DEFINE scale == IF unit = "pcs" THEN 1 ELSE 20
<1>1. exact \in Nat
  <2>1. reading \div 1 \in Nat /\ reading \div 20 \in Nat
    OBVIOUS
  <2>2. unit = "pcs" => exact = reading \div 1
    OBVIOUS
  <2>3. unit # "pcs" => exact = reading \div 20
    OBVIOUS
  <2> QED
    BY <2>1, <2>2, <2>3
<1>2. num = exact \/ (exact > 0 /\ num = exact - 1)
  BY DEF DataConvert
<1> QED
  BY <1>1, <1>2

\* The data page.
LEMMA DataComposed ==
  ASSUME NEW num \in Nat, NEW u, NEW row, row = DisplayInt(num, NumPlace)
  PROVE  Composed(({Blanked} \cup {Label(u)}) \cup Glyphs(row, 5),
                  UpperArea, Blanked, {Label(u)}, row, 5)
<1> DEFINE front == {Label(u)}
<1>1. Fills(Blanked, UpperArea)
  BY UpperFills DEF Blanked
<1>2. Front(front, UpperArea)
  BY UpperFronts
<1>3. Row(row, 5, UpperArea, front)
  <2> DEFINE n == 5
  <2>1. InBoxes(row, n, NumBoxes)
    BY NumDrawn
  <2>2. FitIn(UpperArea, n, NumBoxes) /\ Beside(front, n, NumBoxes)
    BY NumbersFit
  <2>3. n \in Nat /\ UpperArea \in Areas
    BY DEF Areas
  <2> HIDE DEF n, front
  <2>4. Row(row, n, UpperArea, front)
    BY <2>1, <2>2, <2>3, InBoxesIsRow
  <2> QED
    BY <2>4 DEF n
<1> HIDE DEF front
<1>4. Composed(({Blanked} \cup front) \cup Glyphs(row, 5), UpperArea, Blanked, front, row, 5)
  BY <1>1, <1>2, <1>3 DEF Composed
<1> QED
  BY <1>4 DEF front

\* The time.
LEMMA TimeComposed ==
  ASSUME NEW time \in Times, NEW row, row = DisplayTime(time)
  PROVE  Composed({Blanked} \cup Glyphs(row, 5), UpperArea, Blanked, {}, row, 5)
<1> DEFINE front == {}
<1>1. Fills(Blanked, UpperArea)
  BY UpperFills DEF Blanked
<1>2. Front(front, UpperArea)
  BY NoRow
<1>3. Row(row, 5, UpperArea, front)
  <2> DEFINE n == 5
  <2>0. time \in Seq(Nat) /\ TimeFormat(time)
    BY TimesAre
  <2>1. InBoxes(row, n, TimeBoxes)
    BY <2>0, TimeDrawn
  <2>2. FitIn(UpperArea, n, TimeBoxes) /\ Beside(front, n, TimeBoxes)
    BY TimeFits DEF Beside
  <2>3. n \in Nat /\ UpperArea \in Areas
    BY DEF Areas
  <2> HIDE DEF n, front
  <2>4. Row(row, n, UpperArea, front)
    BY <2>1, <2>2, <2>3, InBoxesIsRow
  <2> QED
    BY <2>4 DEF n
<1>4. ({Blanked} \cup front) \cup Glyphs(row, 5) = {Blanked} \cup Glyphs(row, 5)
  OBVIOUS
<1> HIDE DEF front
<1>5. Composed({Blanked} \cup Glyphs(row, 5), UpperArea, Blanked, front, row, 5)
  BY <1>1, <1>2, <1>3, <1>4 DEF Composed
<1> QED
  BY <1>5 DEF front

\* The device id.
LEMMA IdComposed ==
  ASSUME NEW id, id = DeviceId, NEW row, row = DisplayId(id), NEW n, n = IdLength(id)
  PROVE  Composed({Blanked, Upper("id_title")} \cup Glyphs(row, n),
                  UpperArea, Blanked, {Upper("id_title")}, row, n)
<1> DEFINE front == {Upper("id_title")}
<1>1. Fills(Blanked, UpperArea)
  BY UpperFills DEF Blanked
<1>2. Front(front, UpperArea)
  BY UpperFronts
<1>3. Row(row, n, UpperArea, front)
  <2>0. id \in Seq(Nat)
    BY IdIs
  <2>1. n \in 0..12 /\ InBoxes(row, n, IdBoxes)
    BY <2>0, IdDrawn
  <2>2. FitIn(UpperArea, n, IdBoxes) /\ Beside(front, n, IdBoxes)
    BY <2>1, IdFits
  <2>3. n \in Nat /\ UpperArea \in Areas
    BY <2>1 DEF Areas
  <2> HIDE DEF front
  <2> QED
    BY <2>1, <2>2, <2>3, InBoxesIsRow
<1>4. ({Blanked} \cup front) \cup Glyphs(row, n) = {Blanked, Upper("id_title")} \cup Glyphs(row, n)
  OBVIOUS
<1> HIDE DEF front
<1>5. Composed({Blanked, Upper("id_title")} \cup Glyphs(row, n), UpperArea, Blanked, front, row, n)
  BY <1>1, <1>2, <1>3, <1>4 DEF Composed
<1> QED
  BY <1>5 DEF front

\* The address.
LEMMA IpComposed ==
  ASSUME NEW ip, IpFormat(ip), NEW row, row = DisplayIp(ip), NEW n, n = Len(ip)
  PROVE  Composed({Blanked, Upper("ip_title")} \cup Glyphs(row, n),
                  UpperArea, Blanked, {Upper("ip_title")}, row, n)
<1> DEFINE front == {Upper("ip_title")}
<1>1. Fills(Blanked, UpperArea)
  BY UpperFills DEF Blanked
<1>2. Front(front, UpperArea)
  BY UpperFronts
<1>3. Row(row, n, UpperArea, front)
  BY IpDrawn
<1>4. ({Blanked} \cup front) \cup Glyphs(row, n) = {Blanked, Upper("ip_title")} \cup Glyphs(row, n)
  OBVIOUS
<1> HIDE DEF front
<1>5. Composed({Blanked, Upper("ip_title")} \cup Glyphs(row, n), UpperArea, Blanked, front, row, n)
  BY <1>1, <1>2, <1>3, <1>4 DEF Composed
<1> QED
  BY <1>5 DEF front

\* A number of degrees this near to one the thermometer measures has three digits,
\* or two and a minus.
LEMMA FewDegrees ==
  ASSUME NEW r \in Int, NEW t \in Int, -55000 <= t, t <= 125000, Abs(1000 * r - t) <= 500
  PROVE  r \in -99..999
<1> DEFINE d == 1000 * r - t
<1>1. d \in Int /\ 1000 * r = d + t
  OBVIOUS
<1>2. d <= 500 /\ -d <= 500
  <2> HIDE DEF d
  <2> QED
    BY <1>1, Abs(d) <= 500 DEF Abs
<1> HIDE DEF d
<1>3. 1000 * r <= 125500 /\ -55500 <= 1000 * r
  BY <1>1, <1>2
<1> QED
  BY <1>3

\* So every temperature fits, and is rounded to the nearest degree.
LEMMA Degrees ==
  ASSUME NEW t \in Temperatures
  PROVE  t \in Int /\ ReadTemp(t) \in -99..999 /\ Abs(1000 * ReadTemp(t) - t) <= 500
<1>2. t \in Int /\ -55000 <= t /\ t <= 125000
  BY TemperaturesAre
<1>1. ReadTemp(t) \in Int
  BY <1>2 DEF ReadTemp
<1>3. ReadTemp(t) \in Int /\ Abs(1000 * ReadTemp(t) - t) <= 500
  BY <1>1, <1>2, NearestDegree
<1> QED
  BY <1>2, <1>3, FewDegrees

\* The temperature.
LEMMA TempComposed ==
  ASSUME NEW t \in Temperatures, NEW row, row = DisplayInt(ReadTemp(t), TempPlace)
  PROVE  Composed({TempBack} \cup Glyphs(row, 3), TempArea, TempBack, {}, row, 3)
<1> DEFINE front == {}
<1>1. Fills(TempBack, TempArea)
  BY TempFills
<1>2. Front(front, TempArea)
  BY NoRow
<1>3. Row(row, 3, TempArea, front)
  <2> DEFINE n == 3
  <2>1. InBoxes(row, n, TempBoxes)
    BY Degrees, TempDrawn
  <2>2. FitIn(TempArea, n, TempBoxes) /\ Beside(front, n, TempBoxes)
    BY NumbersFit DEF Beside
  <2>3. n \in Nat /\ TempArea \in Areas
    BY DEF Areas
  <2> HIDE DEF n, front
  <2>4. Row(row, n, TempArea, front)
    BY <2>1, <2>2, <2>3, InBoxesIsRow
  <2> QED
    BY <2>4 DEF n
<1>4. ({TempBack} \cup front) \cup Glyphs(row, 3) = {TempBack} \cup Glyphs(row, 3)
  OBVIOUS
<1> HIDE DEF front
<1>5. Composed({TempBack} \cup Glyphs(row, 3), TempArea, TempBack, front, row, 3)
  BY <1>1, <1>2, <1>3, <1>4 DEF Composed
<1> QED
  BY <1>5 DEF front

\* What is so composed is tidy.
LEMMA ComposedTidy ==
  ASSUME NEW S, NEW a \in Areas, NEW back, NEW front, NEW row, NEW n,
         Composed(S, a, back, front, row, n)
  PROVE  Tidy(S)
BY TidyPart DEF Composed

\* One background is tidy, and nothing at all is.
LEMMA OneIsTidy ==
  ASSUME NEW S, NEW a, NEW back, Fills(back, a), S \subseteq {back}
  PROVE  Tidy(S)
<1>1. Neat(back) /\ Boxed(back)
  BY NeatIsBoxed DEF Fills
<1>2. Inside(back, back)
  BY <1>1, InsideOrder
<1> QED
  BY <1>2 DEF Tidy

-----------------------------------------------------------------------------
(* What the upper area shows is composed, so it is tidy.                        *)

\* Of the upper area.
LEMMA UpperIsTidy ==
  ASSUME NEW S, NEW s, NEW chars, UpperShows(S, s, chars)
  PROVE  Tidy(S)
<1>0. UpperArea \in Areas
  BY DEF Areas
<1>1. CASE S = {}
  BY <1>1 DEF Tidy
<1>2. CASE s.page \in {"wait", "setup", "success", "fail"} /\ S = {Upper(UpperImage(s.page))}
  <2>1. PICK name \in {"please_wait", "please_setup", "setup_success", "setup_fail", "upper_blank"} :
          UpperImage(s.page) = name
    BY DEF UpperImage
  <2>2. Fills(Upper(name), UpperArea)
    BY UpperFills
  <2> QED
    BY <1>2, <2>1, <2>2, OneIsTidy
<1>3. CASE /\ s.page = "data" /\ s.value.reading \in Readings
           /\ \E num \in DataConvert(s.value.reading, s.value.unit) :
                S = ({Blanked} \cup {Label(s.label)}) \cup Glyphs(DisplayInt(num, NumPlace), 5)
  <2>1. s.value.reading \in Nat
    BY <1>3, ReadingsAre
  <2>2. PICK num \in DataConvert(s.value.reading, s.value.unit) :
          S = ({Blanked} \cup {Label(s.label)}) \cup Glyphs(DisplayInt(num, NumPlace), 5)
    BY <1>3
  <2> DEFINE row == DisplayInt(num, NumPlace)
             reading == s.value.reading
             unit == s.value.unit
             l == s.label
  <2>3. num \in Nat
    <3> HIDE DEF reading, unit
    <3>1. num \in DataConvert(reading, unit)
      BY <2>2 DEF reading, unit
    <3>2. reading \in Nat
      BY <2>1 DEF reading
    <3> QED
      BY <3>1, <3>2, Converted
  <2> HIDE DEF l
  <2>4. Composed(({Blanked} \cup {Label(l)}) \cup Glyphs(row, 5), UpperArea, Blanked, {Label(l)}, row, 5)
    BY <2>3, DataComposed
  <2> HIDE DEF row
  <2>5. Composed(S, UpperArea, Blanked, {Label(l)}, row, 5)
    BY <2>2, <2>4 DEF row, l
  <2> QED
    BY <1>0, <2>5, ComposedTidy
<1>4. CASE chars \in Times /\ S = {Blanked} \cup Glyphs(DisplayTime(chars), 5)
  <2> DEFINE row == DisplayTime(chars)
  <2>1. Composed({Blanked} \cup Glyphs(row, 5), UpperArea, Blanked, {}, row, 5)
    BY <1>4, TimeComposed
  <2> HIDE DEF row
  <2>2. Composed(S, UpperArea, Blanked, {}, row, 5)
    BY <1>4, <2>1 DEF row
  <2> QED
    BY <1>0, <2>2, ComposedTidy
<1>5. CASE /\ chars = DeviceId
           /\ S = {Blanked, Upper("id_title")} \cup Glyphs(DisplayId(chars), IdLength(chars))
  <2> DEFINE row == DisplayId(chars)
             n == IdLength(chars)
  <2>1. Composed({Blanked, Upper("id_title")} \cup Glyphs(row, n), UpperArea, Blanked,
                 {Upper("id_title")}, row, n)
    BY <1>5, IdComposed
  <2> HIDE DEF row, n
  <2>2. Composed(S, UpperArea, Blanked, {Upper("id_title")}, row, n)
    BY <1>5, <2>1 DEF row, n
  <2> QED
    BY <1>0, <2>2, ComposedTidy
<1>6. CASE /\ chars \in Addresses
           /\ S = {Blanked, Upper("ip_title")} \cup Glyphs(DisplayIp(chars), Len(chars))
  <2> DEFINE row == DisplayIp(chars)
             n == Len(chars)
  <2>0. IpFormat(chars)
    BY <1>6, AddressesAre
  <2>1. Composed({Blanked, Upper("ip_title")} \cup Glyphs(row, n), UpperArea, Blanked,
                 {Upper("ip_title")}, row, n)
    BY <2>0, IpComposed
  <2> HIDE DEF row, n
  <2>2. Composed(S, UpperArea, Blanked, {Upper("ip_title")}, row, n)
    BY <1>6, <2>1 DEF row, n
  <2> QED
    BY <1>0, <2>2, ComposedTidy
<1> QED
  BY <1>1, <1>2, <1>3, <1>4, <1>5, <1>6 DEF UpperShows

\* Of the area of the temperature.
LEMMA TempIsTidy ==
  ASSUME NEW S, NEW has, NEW t, TempShows(S, has, t)
  PROVE  Tidy(S)
<1>0. TempArea \in Areas
  BY DEF Areas
<1>1. CASE S \subseteq {TempBlank}
  BY <1>1, TempFills, OneIsTidy
<1>2. CASE t \in Temperatures /\ S = {TempBack} \cup Glyphs(DisplayInt(ReadTemp(t), TempPlace), 3)
  <2> DEFINE row == DisplayInt(ReadTemp(t), TempPlace)
  <2>1. Composed({TempBack} \cup Glyphs(row, 3), TempArea, TempBack, {}, row, 3)
    BY <1>2, TempComposed
  <2> HIDE DEF row
  <2>2. Composed(S, TempArea, TempBack, {}, row, 3)
    BY <1>2, <2>1 DEF row
  <2> QED
    BY <1>0, <2>2, ComposedTidy
<1> QED
  BY <1>1, <1>2 DEF TempShows

\* Of the icons.
LEMMA IconIsTidy ==
  ASSUME NEW S, NEW a, IconShows(S, a)
  PROVE  Tidy(S)
<1>1. CASE S = {}
  BY <1>1 DEF Tidy
<1>2. ASSUME NEW p \in S PROVE Tidy(S)
  <2>1. Fills(p, a) /\ S \subseteq {p}
    BY DEF IconShows
  <2> QED
    BY <2>1, OneIsTidy
<1> QED
  BY <1>1, <1>2

\* So a panel that shows what it was asked for can be read.
LEMMA ShownIsReadable ==
  ASSUME NEW P, NEW s, NEW chars, NEW has, NEW t, PanelShows(P, s, chars, has, t)
  PROVE  Readable(P)
<1>1. Tidy(Part(P, UpperArea))
  BY UpperIsTidy DEF PanelShows
<1>2. Tidy(Part(P, TempArea))
  BY TempIsTidy DEF PanelShows
<1>3. \A a \in Icons : Tidy(Part(P, a))
  BY IconIsTidy DEF PanelShows
<1>4. \A a \in Areas : Tidy(Part(P, a))
  BY <1>1, <1>2, <1>3 DEF Areas, Icons
<1> QED
  BY <1>4, PartsReadable DEF PanelShows

-----------------------------------------------------------------------------
(* What each call of display() makes of a panel.                                *)

\* From P to R the upper area is changed, and shows a page now.
UpperBecomes(P, R, s, chars) ==
    /\ Laid(R) /\ UpperShows(Part(R, UpperArea), s, chars)
    /\ \A b \in Areas : b # UpperArea => Part(R, b) = Part(P, b)

\* The rest of the panel is as it was.
LEMMA UpperChanges ==
  ASSUME NEW P, NEW s, NEW chars, NEW has, NEW t, PanelShows(P, s, chars, has, t),
         NEW R, NEW new, NEW text2, UpperBecomes(P, R, new, text2)
  PROVE  PanelShows(R, new, text2, has, t)
<1>1. /\ TempArea \in Areas /\ TempArea # UpperArea
      /\ \A a \in Icons : a \in Areas /\ a # UpperArea
  BY DEF Areas, Icons, UpperArea, TempArea, BatteryArea, NetArea, SpinnerArea, Area
<1>2. Part(R, TempArea) = Part(P, TempArea) /\ \A a \in Icons : Part(R, a) = Part(P, a)
  BY <1>1 DEF UpperBecomes
<1> QED
  BY <1>2 DEF PanelShows, UpperBecomes

\* Only the area of the temperature changes.
LEMMA TempChanges ==
  ASSUME NEW P, NEW s, NEW chars, NEW has, NEW t, PanelShows(P, s, chars, has, t),
         NEW R, NEW fresh, Becomes(P, R, TempArea, fresh),
         NEW has2, NEW t2, TempShows(fresh, has2, t2)
  PROVE  PanelShows(R, s, chars, has2, t2)
<1>1. /\ UpperArea \in Areas /\ TempArea # UpperArea
      /\ \A a \in Icons : a \in Areas /\ a # TempArea
  BY DEF Areas, Icons, UpperArea, TempArea, BatteryArea, NetArea, SpinnerArea, Area
<1>2. Part(R, UpperArea) = Part(P, UpperArea) /\ \A a \in Icons : Part(R, a) = Part(P, a)
  BY <1>1 DEF Becomes
<1>3. Laid(R) /\ Part(R, TempArea) = fresh
  BY DEF Becomes
<1> QED
  BY <1>2, <1>3 DEF PanelShows

\* What the page is, of two screens that differ in the icons.
SamePage(s, new) == new.page = s.page /\ new.label = s.label /\ new.value = s.value

\* Only the area of an icon changes.
LEMMA IconChanges ==
  ASSUME NEW P, NEW s, NEW chars, NEW has, NEW t, PanelShows(P, s, chars, has, t),
         NEW a \in Icons, NEW back, Fills(back, a), NEW new, SamePage(s, new)
  PROVE  PanelShows(Drawn(P, <<back>>), new, chars, has, t)
<1> DEFINE R == Drawn(P, <<back>>)
           fresh == {back}
<1>0. /\ UpperArea \in Areas /\ TempArea \in Areas /\ a \in Areas
      /\ UpperArea # a /\ TempArea # a /\ \A b \in Icons : b \in Areas
  BY DEF Areas, Icons, UpperArea, TempArea, BatteryArea, NetArea, SpinnerArea, Area
<1>1. Becomes(P, R, a, fresh)
  BY <1>0, BackBecomes DEF PanelShows
<1>2. IconShows(fresh, a)
  BY DEF IconShows
<1> HIDE DEF R, fresh
<1>3. /\ Laid(R) /\ Part(R, a) = fresh
      /\ \A b \in Areas : b # a => Part(R, b) = Part(P, b)
  BY <1>1 DEF Becomes
<1>4. \A b \in Icons : IconShows(Part(R, b), b)
  BY <1>0, <1>2, <1>3 DEF PanelShows
<1>5. Part(R, UpperArea) = Part(P, UpperArea) /\ Part(R, TempArea) = Part(P, TempArea)
  BY <1>0, <1>3
<1>6. UpperShows(Part(R, UpperArea), new, chars)
  BY <1>5 DEF PanelShows, UpperShows, SamePage
<1>7. PanelShows(R, new, chars, has, t)
  BY <1>3, <1>4, <1>5, <1>6 DEF PanelShows
<1> QED
  BY <1>7 DEF R

\* A change of the upper area that shows the page.
LEMMA BecomesUpper ==
  ASSUME NEW P, NEW R, NEW fresh, Becomes(P, R, UpperArea, fresh),
         NEW s, NEW chars, UpperShows(fresh, s, chars)
  PROVE  UpperBecomes(P, R, s, chars)
BY DEF Becomes, UpperBecomes

\* The pages without a text.
LEMMA PageShown ==
  ASSUME NEW P, Laid(P), NEW s \in Screens, NEW page \in {"wait", "setup", "success", "fail"},
         NEW chars
  PROVE  UpperBecomes(P, Drawn(P, <<Upper(UpperImage(page))>>), ShowPage(s, page), chars)
<1> DEFINE back == Upper(UpperImage(page))
           new == ShowPage(s, page)
           fresh == {back}
<1>1. new.page = page
  BY DEF ShowPage, Screens
<1>2. Fills(back, UpperArea)
  <2>1. PICK name \in {"please_wait", "please_setup", "setup_success", "setup_fail", "upper_blank"} :
          UpperImage(page) = name
    BY DEF UpperImage
  <2> QED
    BY <2>1, UpperFills
<1>3. UpperArea \in Areas
  BY DEF Areas
<1>4. UpperShows(fresh, new, chars)
  BY <1>1 DEF UpperShows
<1> HIDE DEF new, back
<1>5. Becomes(P, Drawn(P, <<back>>), UpperArea, fresh)
  BY <1>2, <1>3, BackBecomes
<1> HIDE DEF fresh
<1>6. UpperBecomes(P, Drawn(P, <<back>>), new, chars)
  BY <1>4, <1>5, BecomesUpper
<1> QED
  BY <1>6 DEF new, back

\* The blank, and a row on it, behind a title or a label.
LEMMA TitledShown ==
  ASSUME NEW P, Laid(P), NEW f, NEW row, NEW n,
         NEW fresh, fresh = {Blanked, f} \cup Glyphs(row, n),
         Front({f}, UpperArea), Row(row, n, UpperArea, {f})
  PROVE  Becomes(P, Drawn(P, <<Blanked, f>> \o row), UpperArea, fresh)
<1>1. UpperArea \in Areas
  BY DEF Areas
<1>2. Fills(Blanked, UpperArea)
  BY UpperFills DEF Blanked
<1> QED
  BY <1>1, <1>2, AreaAfreshBehind

-----------------------------------------------------------------------------
(* The data page.                                                              *)

\* What a number drawn of a reading lies in.
LEMMA DataRow ==
  ASSUME NEW num \in Nat, NEW u, NEW row, row = DisplayInt(num, NumPlace)
  PROVE  /\ Row(row, 5, UpperArea, {Label(u)}) /\ Front({Label(u)}, UpperArea)
         /\ Fills(Blanked, UpperArea) /\ UpperArea \in Areas
         /\ row \in Seq(Glyphs(row, 5))
<1>1. Composed(({Blanked} \cup {Label(u)}) \cup Glyphs(row, 5), UpperArea, Blanked, {Label(u)}, row, 5)
  BY DataComposed
<1> QED
  BY <1>1 DEF Composed, Areas, Row

\* The screen after a reading.
DataOn(new, l, num) ==
    /\ new.page = "data" /\ new.label = l /\ new.value.reading \in Readings
    /\ num \in DataConvert(new.value.reading, new.value.unit)

\* What is drawn then.
DataShows(S, l, num) == S = ({Blanked} \cup {Label(l)}) \cup Glyphs(DisplayInt(num, NumPlace), 5)

\* The number drawn of a reading is not negative.
LEMMA NumberIsNat ==
  ASSUME NEW new, NEW l, NEW num, DataOn(new, l, num)
  PROVE  num \in Nat
<1> DEFINE reading == new.value.reading
           unit == new.value.unit
<1>1. reading \in Nat /\ num \in DataConvert(reading, unit)
  BY ReadingsAre DEF DataOn
<1> HIDE DEF reading, unit
<1> QED
  BY <1>1, Converted

\* That is the page.
LEMMA DataIsUpper ==
  ASSUME NEW S, NEW new, NEW l, NEW num, DataOn(new, l, num), DataShows(S, l, num), NEW chars
  PROVE  UpperShows(S, new, chars)
BY DEF DataOn, DataShows, UpperShows

\* The page is that.
LEMMA UpperIsData ==
  ASSUME NEW S, NEW s, NEW chars, UpperShows(S, s, chars), s.page = "data"
  PROVE  \E num : DataOn(s, s.label, num) /\ DataShows(S, s.label, num)
<1>1. /\ s.value.reading \in Readings
      /\ \E num \in DataConvert(s.value.reading, s.value.unit) :
           S = ({Blanked} \cup {Label(s.label)}) \cup Glyphs(DisplayInt(num, NumPlace), 5)
  BY DEF UpperShows
<1> QED
  BY <1>1 DEF DataOn, DataShows

\* It is drawn afresh ...
LEMMA DataAfresh ==
  ASSUME NEW P, Laid(P), NEW new, NEW l, NEW num, DataOn(new, l, num), NEW chars,
         NEW row, row = DisplayInt(num, NumPlace)
  PROVE  UpperBecomes(P, Drawn(P, <<Blanked, Label(l)>> \o row), new, chars)
<1>1. num \in Nat
  BY NumberIsNat
<1> DEFINE f == Label(l)
           fresh == {Blanked, f} \cup Glyphs(row, 5)
<1>2. Row(row, 5, UpperArea, {f}) /\ Front({f}, UpperArea)
  BY <1>1, DataRow
<1>3. DataShows(fresh, l, num)
  BY DEF DataShows
<1>4. UpperShows(fresh, new, chars)
  BY <1>3, DataIsUpper
<1> HIDE DEF f
<1>5. Becomes(P, Drawn(P, <<Blanked, f>> \o row), UpperArea, fresh)
  BY <1>2, TitledShown
<1> HIDE DEF fresh
<1>6. UpperBecomes(P, Drawn(P, <<Blanked, f>> \o row), new, chars)
  BY <1>4, <1>5, BecomesUpper
<1> QED
  BY <1>6 DEF f

\* ... or over the number that is up ...
LEMMA DataAgain ==
  ASSUME NEW P, Laid(P), NEW s, NEW before, UpperShows(Part(P, UpperArea), s, before),
         s.page = "data", NEW l, l = s.label,
         NEW new, NEW num, DataOn(new, l, num), NEW chars,
         NEW row, row = DisplayInt(num, NumPlace)
  PROVE  UpperBecomes(P, Drawn(P, row), new, chars)
<1>1. num \in Nat
  BY NumberIsNat
<1>2. PICK last : DataOn(s, l, last) /\ DataShows(Part(P, UpperArea), l, last)
  BY UpperIsData
<1>3. last \in Nat
  BY <1>2, NumberIsNat
<1> DEFINE old == DisplayInt(last, NumPlace)
           n == 5
           front == {Label(l)}
           fresh == ({Blanked} \cup front) \cup Glyphs(row, n)
<1>4. /\ Row(row, n, UpperArea, front) /\ Front(front, UpperArea)
      /\ Fills(Blanked, UpperArea) /\ UpperArea \in Areas
  BY <1>1, DataRow
<1>5. InBoxes(row, n, NumBoxes) /\ InBoxes(old, n, NumBoxes) /\ FitIn(UpperArea, n, NumBoxes)
  BY <1>1, <1>3, NumDrawn, NumbersFit
<1>6. Part(P, UpperArea) = ({Blanked} \cup front) \cup Glyphs(old, n)
  BY <1>2 DEF DataShows
<1>7. DataShows(fresh, l, num)
  BY DEF DataShows
<1>8. UpperShows(fresh, new, chars)
  BY <1>7, DataIsUpper
<1>9. n \in Nat
  OBVIOUS
<1> HIDE DEF old, n, front
<1>10. Covers(row, old, n)
  BY <1>5, <1>9, InBoxesCovers
<1>11. Becomes(P, Drawn(P, row), UpperArea, fresh)
  BY <1>4, <1>6, <1>10, AreaAgain
<1> HIDE DEF fresh
<1> QED
  BY <1>8, <1>11, BecomesUpper

\* Both labels take the same room.
LEMMA LabelAt ==
  \A u : Label(u).x = 0 /\ Label(u).y = 70 /\ Label(u).w = 160 /\ Label(u).h = 20
<1> SUFFICES ASSUME NEW u
             PROVE  Label(u).x = 0 /\ Label(u).y = 70 /\ Label(u).w = 160 /\ Label(u).h = 20
  OBVIOUS
<1> DEFINE p == Label(u)
           name == IF u = "pcs" THEN "unit_pcs" ELSE "unit_ug"
<1>1. p = DisplayImg(Image(name), 0, 70) /\ name \in {"unit_pcs", "unit_ug"}
  BY DEF Label
<1> HIDE DEF name, p
<1>2. Size(Image(name)) = <<160, 20>>
  BY <1>1, Sizes
<1>3. p.x = 0 /\ p.y = 70 /\ p.w = 160 /\ p.h = 20
  BY <1>1, <1>2, ImgIs
<1> QED
  BY <1>3 DEF p

\* ... and its label is replaced by the other unit's.
LEMMA LabelShown ==
  ASSUME NEW P, Laid(P), NEW s \in Screens, NEW chars, UpperShows(Part(P, UpperArea), s, chars),
         s.page = "data", NEW u
  PROVE  UpperBecomes(P, Drawn(P, <<Label(u)>>), ShowUnit(s, u), chars)
<1> DEFINE l == s.label
           new == ShowUnit(s, u)
<1>1. PICK num : DataOn(s, l, num) /\ DataShows(Part(P, UpperArea), l, num)
  BY UpperIsData
<1>2. num \in Nat
  BY <1>1, NumberIsNat
<1> DEFINE row == DisplayInt(num, NumPlace)
           f == Label(u)
           fresh == {q \in Part(P, UpperArea) : ~Inside(q, f)} \cup {f}
<1>3. /\ Row(row, 5, UpperArea, {f}) /\ Front({f}, UpperArea)
      /\ Fills(Blanked, UpperArea) /\ UpperArea \in Areas
  BY <1>2, DataRow
<1>4. DataOn(new, u, num)
  BY <1>1 DEF DataOn, ShowUnit, Screens
<1>5. Inside(Label(l), f)
  <2>1. \A w : Label(w).x = 0 /\ Label(w).y = 70 /\ Label(w).w = 160 /\ Label(w).h = 20
    BY LabelAt
  <2> QED
    BY <2>1 DEF Inside
<1>6. Neat(f) /\ Inside(f, UpperArea) /\ ~Inside(Blanked, f)
  <2>1. Neat(f) /\ Inside(f, UpperArea) /\ ~Inside(UpperArea, f)
    BY <1>3 DEF Front
  <2> QED
    BY <1>3, <2>1, FillsInside
<1>7. \A k \in 1..5 : ~Inside(row[k], f)
  <2> SUFFICES ASSUME NEW k \in 1..5 PROVE ~Inside(row[k], f)
    OBVIOUS
  <2> DEFINE p == row[k]
  <2>1. Neat(p) /\ ~Overlap(f, p)
    BY <1>3 DEF Row
  <2> HIDE DEF p, f
  <2>2. Boxed(p) /\ Boxed(f)
    BY <1>6, <2>1, NeatIsBoxed
  <2>3. ~Inside(p, f)
    BY <2>1, <2>2, InsideOrder
  <2> QED
    BY <2>3 DEF p
<1>8. fresh = ({Blanked} \cup {f}) \cup Glyphs(row, 5)
  <2>1. Part(P, UpperArea) = ({Blanked} \cup {Label(l)}) \cup Glyphs(row, 5)
    BY <1>1 DEF DataShows
  <2>2. \A q \in Glyphs(row, 5) : ~Inside(q, f)
    BY <1>7 DEF Glyphs
  <2> HIDE DEF f, row, l
  <2> QED
    BY <1>5, <1>6, <2>1, <2>2
<1>9. UpperShows(fresh, new, chars)
  <2>1. DataShows(fresh, u, num)
    BY <1>8 DEF DataShows
  <2> HIDE DEF fresh, new
  <2> QED
    BY <1>4, <2>1, DataIsUpper
<1>10. Becomes(P, Drawn(P, <<f>>), UpperArea, fresh)
  BY <1>3, <1>6, FrontBecomes
<1> HIDE DEF fresh, new, f
<1>11. UpperBecomes(P, Drawn(P, <<f>>), new, chars)
  BY <1>9, <1>10, BecomesUpper
<1> QED
  BY <1>11 DEF f, new

\* A reading is shown, whatever page was up.
LEMMA DataShown ==
  ASSUME NEW P, Laid(P), NEW s \in Screens, NEW before, UpperShows(Part(P, UpperArea), s, before),
         s.current_is_data <=> s.page = "data",
         NEW reading \in Readings, NEW unit, NEW l, NEW num \in DataConvert(reading, unit),
         NEW new, new = ShowData(s, l, [reading |-> reading, unit |-> unit]), NEW chars,
         NEW bg, bg = IF s.current_is_data THEN <<>> ELSE <<Blanked, Label(l)>>
  PROVE  UpperBecomes(P, Drawn(P, bg \o DisplayInt(num, NumPlace)), new, chars)
<1> DEFINE row == DisplayInt(num, NumPlace)
           m == IF s.current_is_data THEN s.label ELSE l
<1>1. DataOn(new, m, num)
  <2>1. /\ new.page = IF s.current_is_data THEN s.page ELSE "data"
        /\ new.label = m /\ new.value = [reading |-> reading, unit |-> unit]
    BY DEF ShowData, Screens
  <2>2. new.page = "data"
    BY <2>1
  <2> HIDE DEF m
  <2> QED
    BY <2>1, <2>2 DEF DataOn
<1>2. CASE s.current_is_data
  <2>1. m = s.label /\ s.page = "data" /\ bg = <<>>
    BY <1>2
  <2>2. num \in Nat
    BY <1>1, NumberIsNat
  <2>3. row \in Seq(Glyphs(row, 5))
    BY <2>2, DataRow
  <2> HIDE DEF row, m
  <2>4. bg \o row = row
    BY <2>1, <2>3
  <2>5. UpperBecomes(P, Drawn(P, row), new, chars)
    BY <1>1, <2>1, DataAgain DEF row
  <2> QED
    BY <2>4, <2>5 DEF row
<1>3. CASE ~s.current_is_data
  <2>1. m = l /\ bg = <<Blanked, Label(l)>>
    BY <1>3
  <2> HIDE DEF m
  <2>2. DataOn(new, l, num)
    BY <1>1, <2>1
  <2>3. UpperBecomes(P, Drawn(P, <<Blanked, Label(l)>> \o row), new, chars)
    BY <2>2, DataAfresh
  <2> QED
    BY <2>1, <2>3
<1> QED
  BY <1>2, <1>3

\* One drawing in the upper area and then another.
LEMMA UpperAgain ==
  ASSUME NEW P, NEW M, \A b \in Areas : b # UpperArea => Part(M, b) = Part(P, b),
         NEW R, NEW s, NEW chars, UpperBecomes(M, R, s, chars)
  PROVE  UpperBecomes(P, R, s, chars)
BY DEF UpperBecomes

\* Sequences end to end.
LEMMA EndToEnd ==
  ASSUME NEW G, NEW c \in Seq(G), NEW b \in Seq(G), NEW r \in Seq(G)
  PROVE  b \o r \in Seq(G) /\ (c \o b) \o r = c \o (b \o r)
BY ConcatProperties, ConcatAssociative

\* A reading in the other unit is shown, whatever page was up.
LEMMA UnitShown ==
  ASSUME NEW P, Laid(P), NEW s \in Screens, NEW before, UpperShows(Part(P, UpperArea), s, before),
         s.current_is_data <=> s.page = "data",
         NEW reading \in Readings, NEW unit \in Units, NEW num \in DataConvert(reading, unit),
         NEW new, new = ShowData(ShowUnit(s, unit), unit, [reading |-> reading, unit |-> unit]),
         NEW chars,
         NEW bg, bg = IF s.current_is_data THEN <<>> ELSE <<Blanked, Label(unit)>>
  PROVE  UpperBecomes(P, Drawn(P, <<Label(unit)>> \o bg \o DisplayInt(num, NumPlace)), new, chars)
<1> DEFINE row == DisplayInt(num, NumPlace)
           f == Label(unit)
           M == Drawn(P, <<f>>)
           mid == ShowUnit(s, unit)
           G == {Blanked, f} \cup Glyphs(row, 5)
           rest == bg \o row
<1>0. num \in Nat
  <2>1. reading \in Nat
    BY ReadingsAre
  <2> QED
    BY <2>1, Converted
<1>1. row \in Seq(Glyphs(row, 5)) /\ Neat(f) /\ Inside(f, UpperArea) /\ UpperArea \in Areas
  BY <1>0, DataRow DEF Front
<1>2. Drawn(P, <<f>> \o bg \o row) = Drawn(M, rest)
  <2> DEFINE c == <<f>>
  <2>1. row \in Seq(G) /\ c \in Seq(G) /\ bg \in Seq(G)
    <3>1. Glyphs(row, 5) \subseteq G /\ f \in G /\ Blanked \in G
      OBVIOUS
    <3>2. bg = <<>> \/ bg = <<Blanked, f>>
      OBVIOUS
    <3> HIDE DEF row, G, f
    <3>3. row \in Seq(G)
      BY <1>1, <3>1
    <3>4. bg \in Seq(G)
      BY <3>1, <3>2
    <3> QED
      BY <3>1, <3>3, <3>4
  <2> HIDE DEF row, G, c, f
  <2>2. rest \in Seq(G) /\ c \o bg \o row = c \o rest
    <3>1. bg \o row \in Seq(G) /\ (c \o bg) \o row = c \o (bg \o row)
      BY ONLY <2>1, EndToEnd
    <3> QED
      BY <3>1 DEF rest
  <2> HIDE DEF rest
  <2>3. Drawn(P, c \o rest) = Drawn(Drawn(P, c), rest)
    <3>1. c \in Seq(G) /\ rest \in Seq(G)
      BY <2>1, <2>2
    <3> QED
      BY ONLY <3>1, DrawnParts
  <2> QED
    BY <2>2, <2>3 DEF c
<1>3. /\ mid \in Screens /\ mid.page = s.page /\ mid.current_is_data = s.current_is_data
  BY ShowTypes DEF ShowUnit, Screens
<1>4. Laid(M) /\ \A b \in Areas : b # UpperArea => Part(M, b) = Part(P, b)
  <2> HIDE DEF f
  <2>1. Becomes(P, M, UpperArea, {q \in Part(P, UpperArea) : ~Inside(q, f)} \cup {f})
    BY <1>1, FrontBecomes
  <2> HIDE DEF M
  <2> QED
    BY <2>1 DEF Becomes
<1>5. UpperBecomes(M, Drawn(M, rest), new, chars)
  <2>1. CASE s.current_is_data
    <3>1. UpperBecomes(P, M, mid, before)
      BY <2>1, LabelShown
    <3> HIDE DEF M, mid
    <3>2. UpperShows(Part(M, UpperArea), mid, before)
      BY <3>1 DEF UpperBecomes
    <3>3. new = ShowData(mid, unit, [reading |-> reading, unit |-> unit])
      BY DEF mid
    <3>4. bg = (IF mid.current_is_data THEN <<>> ELSE <<Blanked, Label(unit)>>)
          /\ (mid.current_is_data <=> mid.page = "data")
      BY <1>3
    <3> QED
      BY <1>3, <1>4, <3>2, <3>3, <3>4, DataShown
  <2>2. CASE ~s.current_is_data
    <3>1. DataOn(new, unit, num) /\ rest = <<Blanked, f>> \o row
      <4>1. /\ new.page = "data" /\ new.label = unit
            /\ new.value = [reading |-> reading, unit |-> unit]
        BY <1>3, <2>2 DEF ShowData, Screens
      <4> QED
        BY <2>2, <4>1 DEF DataOn
    <3> HIDE DEF M, rest
    <3>2. UpperBecomes(M, Drawn(M, <<Blanked, Label(unit)>> \o row), new, chars)
      BY <1>4, <3>1, DataAfresh
    <3> QED
      BY <3>1, <3>2
  <2> QED
    BY <2>1, <2>2
<1> HIDE DEF M, rest
<1>6. UpperBecomes(P, Drawn(M, rest), new, chars)
  BY <1>4, <1>5, UpperAgain
<1> QED
  BY <1>2, <1>6

-----------------------------------------------------------------------------
(* The other pages, and the areas under them.                                   *)

\* A row in the same boxes is up, on the same background.
RowIsUp(P, a, back, n, boxes) ==
    \E old : InBoxes(old, n, boxes) /\ Part(P, a) = {back} \cup Glyphs(old, n)

\* A row over another, or on a background of its own.
LEMMA RowShown ==
  ASSUME NEW P, Laid(P), NEW a \in Areas, NEW back, Fills(back, a), NEW n \in Nat,
         NEW boxes, FitIn(a, n, boxes), NEW row, InBoxes(row, n, boxes),
         NEW up, up => RowIsUp(P, a, back, n, boxes),
         NEW bg, bg = IF up THEN <<>> ELSE <<back>>
  PROVE  Becomes(P, Drawn(P, bg \o row), a, {back} \cup Glyphs(row, n))
<1> DEFINE front == {}
<1>1. Front(front, a) /\ Beside(front, n, boxes)
  BY DEF Front, Beside
<1>2. \A old : ({back} \cup front) \cup Glyphs(old, n) = {back} \cup Glyphs(old, n)
  OBVIOUS
<1>3. row \in Seq(Glyphs(row, n))
  BY DEF InBoxes
<1>4. CASE ~up
  <2>1. Row(row, n, a, {})
    BY <1>1, InBoxesIsRow
  <2>2. Becomes(P, Drawn(P, <<back>> \o row), a, {back} \cup Glyphs(row, n))
    BY <2>1, AreaAfresh
  <2> QED
    BY <1>4, <2>2
<1>5. CASE up
  <2>1. PICK old : InBoxes(old, n, boxes) /\ Part(P, a) = {back} \cup Glyphs(old, n)
    BY <1>5 DEF RowIsUp
  <2>2. Part(P, a) = ({back} \cup front) \cup Glyphs(old, n)
    BY <1>2, <2>1
  <2> HIDE DEF front
  <2>3. Row(row, n, a, front)
    BY <1>1, InBoxesIsRow
  <2>4. Covers(row, old, n)
    BY <2>1, InBoxesCovers
  <2>5. Becomes(P, Drawn(P, row), a, ({back} \cup front) \cup Glyphs(row, n))
    BY <1>1, <2>2, <2>3, <2>4, AreaAgain
  <2>6. bg \o row = row
    BY <1>3, <1>5
  <2> QED
    BY <1>2, <2>5, <2>6
<1> QED
  BY <1>4, <1>5

\* The time.
LEMMA TimeShown ==
  ASSUME NEW P, Laid(P), NEW s \in Screens, NEW before, UpperShows(Part(P, UpperArea), s, before),
         s.current_is_time <=> s.page = "time", NEW time \in Times,
         NEW bg, bg = IF s.current_is_time THEN <<>> ELSE <<Blanked>>
  PROVE  UpperBecomes(P, Drawn(P, bg \o DisplayTime(time)), ShowTime(s), time)
<1> DEFINE row == DisplayTime(time)
           new == ShowTime(s)
           fresh == {Blanked} \cup Glyphs(row, 5)
           n == 5
           up == s.page = "time"
           R == Drawn(P, bg \o row)
<1>1. UpperArea \in Areas /\ Fills(Blanked, UpperArea) /\ n \in Nat
  BY UpperFills DEF Areas, Blanked
<1>2. InBoxes(row, n, TimeBoxes) /\ FitIn(UpperArea, n, TimeBoxes)
  BY TimesAre, TimeDrawn, TimeFits
<1>3. up => RowIsUp(P, UpperArea, Blanked, n, TimeBoxes)
  <2> SUFFICES ASSUME up PROVE RowIsUp(P, UpperArea, Blanked, n, TimeBoxes)
    OBVIOUS
  <2> DEFINE old == DisplayTime(before)
  <2>1. before \in Times /\ Part(P, UpperArea) = {Blanked} \cup Glyphs(old, n)
    BY DEF UpperShows
  <2>2. InBoxes(old, n, TimeBoxes)
    BY <2>1, TimesAre, TimeDrawn
  <2> HIDE DEF old, n
  <2> QED
    BY <2>1, <2>2 DEF RowIsUp
<1>4. bg = IF up THEN <<>> ELSE <<Blanked>>
  OBVIOUS
<1>5. new.page = "time"
  BY DEF ShowTime, Screens
<1>6. UpperShows(fresh, new, time)
  BY <1>5 DEF UpperShows
<1>7. Becomes(P, R, UpperArea, fresh)
  <2> HIDE DEF row, n, up
  <2>1. Becomes(P, Drawn(P, bg \o row), UpperArea, {Blanked} \cup Glyphs(row, n))
    BY <1>1, <1>2, <1>3, <1>4, RowShown
  <2> QED
    BY <2>1 DEF n
<1> HIDE DEF R, fresh, new
<1>8. UpperBecomes(P, R, new, time)
  BY <1>6, <1>7, BecomesUpper
<1> QED
  BY <1>8 DEF R, new

\* The device id.
LEMMA IdShown ==
  ASSUME NEW P, Laid(P), NEW s \in Screens
  PROVE  UpperBecomes(P, Drawn(P, <<Blanked, Upper("id_title")>> \o DisplayId(DeviceId)),
                      ShowPage(s, "id"), DeviceId)
<1> DEFINE row == DisplayId(DeviceId)
           n == IdLength(DeviceId)
           f == Upper("id_title")
           fresh == {Blanked, f} \cup Glyphs(row, n)
           new == ShowPage(s, "id")
<1>1. Composed(fresh, UpperArea, Blanked, {f}, row, n)
  BY IdComposed
<1>2. new.page = "id"
  BY DEF ShowPage, Screens
<1>3. UpperShows(fresh, new, DeviceId)
  BY <1>2 DEF UpperShows
<1> HIDE DEF row, n, f
<1>4. Becomes(P, Drawn(P, <<Blanked, f>> \o row), UpperArea, fresh)
  <2>1. Front({f}, UpperArea) /\ Row(row, n, UpperArea, {f})
    BY <1>1 DEF Composed
  <2> QED
    BY <2>1, TitledShown
<1> HIDE DEF fresh, new
<1>5. UpperBecomes(P, Drawn(P, <<Blanked, f>> \o row), new, DeviceId)
  BY <1>3, <1>4, BecomesUpper
<1> QED
  BY <1>5 DEF new, row, f

\* The address.
LEMMA IpShown ==
  ASSUME NEW P, Laid(P), NEW s \in Screens, NEW ip \in Addresses
  PROVE  UpperBecomes(P, Drawn(P, <<Blanked, Upper("ip_title")>> \o DisplayIp(ip)),
                      ShowPage(s, "ip"), ip)
<1> DEFINE row == DisplayIp(ip)
           n == Len(ip)
           f == Upper("ip_title")
           fresh == {Blanked, f} \cup Glyphs(row, n)
           new == ShowPage(s, "ip")
<1>0. IpFormat(ip)
  BY AddressesAre
<1>1. Composed(fresh, UpperArea, Blanked, {f}, row, n)
  BY <1>0, IpComposed
<1>2. new.page = "ip"
  BY DEF ShowPage, Screens
<1>3. UpperShows(fresh, new, ip)
  BY <1>2 DEF UpperShows
<1> HIDE DEF row, n, f
<1>4. Becomes(P, Drawn(P, <<Blanked, f>> \o row), UpperArea, fresh)
  <2>1. Front({f}, UpperArea) /\ Row(row, n, UpperArea, {f})
    BY <1>1 DEF Composed
  <2> QED
    BY <2>1, TitledShown
<1> HIDE DEF fresh, new
<1>5. UpperBecomes(P, Drawn(P, <<Blanked, f>> \o row), new, ip)
  BY <1>3, <1>4, BecomesUpper
<1> QED
  BY <1>5 DEF new, row, f

\* The temperature.
LEMMA TempShown ==
  ASSUME PanelShows(pictures, screen, text, has_temp, temp),
         NEW t \in Temperatures, NEW bg, bg = IF has_temp THEN <<>> ELSE <<TempBack>>
  PROVE  PanelShows(Drawn(pictures, bg \o DisplayInt(ReadTemp(t), TempPlace)),
                    screen, text, TRUE, t)
<1> DEFINE row == DisplayInt(ReadTemp(t), TempPlace)
           fresh == {TempBack} \cup Glyphs(row, 3)
           n == 3
           R == Drawn(pictures, bg \o row)
<1>1. TempArea \in Areas /\ Fills(TempBack, TempArea) /\ n \in Nat
  BY TempFills DEF Areas
<1>2. InBoxes(row, n, TempBoxes) /\ FitIn(TempArea, n, TempBoxes)
  BY Degrees, TempDrawn, NumbersFit
<1>3. has_temp => RowIsUp(pictures, TempArea, TempBack, n, TempBoxes)
  <2> SUFFICES ASSUME has_temp PROVE RowIsUp(pictures, TempArea, TempBack, n, TempBoxes)
    OBVIOUS
  <2> DEFINE old == DisplayInt(ReadTemp(temp), TempPlace)
  <2>1. temp \in Temperatures /\ Part(pictures, TempArea) = {TempBack} \cup Glyphs(old, n)
    BY DEF PanelShows, TempShows
  <2>2. InBoxes(old, n, TempBoxes)
    BY <2>1, Degrees, TempDrawn
  <2> HIDE DEF old, n
  <2> QED
    BY <2>1, <2>2 DEF RowIsUp
<1>4. TempShows(fresh, TRUE, t)
  BY DEF TempShows
<1>5. Becomes(pictures, R, TempArea, fresh)
  <2>0. Laid(pictures)
    BY DEF PanelShows
  <2> HIDE DEF row, n
  <2>1. Becomes(pictures, Drawn(pictures, bg \o row), TempArea, {TempBack} \cup Glyphs(row, n))
    BY <1>1, <1>2, <1>3, <2>0, RowShown
  <2> QED
    BY <2>1 DEF n
<1> HIDE DEF R, fresh
<1>6. PanelShows(R, screen, text, TRUE, t)
  BY <1>4, <1>5, TempChanges
<1> QED
  BY <1>6 DEF R

\* No thermometer.
LEMMA NoTempShown ==
  ASSUME PanelShows(pictures, screen, text, has_temp, temp),
         NEW bg, bg = IF has_temp THEN <<TempBlank>> ELSE <<>>
  PROVE  PanelShows(Drawn(pictures, bg), screen, text, FALSE, NoDevice)
<1>1. CASE has_temp
  <2> DEFINE fresh == {TempBlank}
  <2>1. Laid(pictures) /\ TempArea \in Areas /\ Fills(TempBlank, TempArea)
    BY TempFills DEF Areas, PanelShows
  <2>2. Becomes(pictures, Drawn(pictures, <<TempBlank>>), TempArea, fresh)
    BY <2>1, BackBecomes
  <2>3. TempShows(fresh, FALSE, NoDevice)
    BY DEF TempShows
  <2> HIDE DEF fresh
  <2> QED
    BY <1>1, <2>2, <2>3, TempChanges
<1>2. CASE ~has_temp
  <2>1. Drawn(pictures, bg) = pictures
    BY <1>2, DrawnFew
  <2>2. temp = NoDevice /\ TempShows(Part(pictures, TempArea), FALSE, NoDevice)
    BY <1>2 DEF PanelShows, TempShows
  <2> QED
    BY <2>1, <2>2 DEF PanelShows
<1> QED
  BY <1>1, <1>2

-----------------------------------------------------------------------------
(* The panel shows what it was asked for, at every step.                        *)

\* display()'s flags say which page is up, whatever is shown.
LEMMA FlagsKept ==
  ASSUME NEW s \in Screens, Flags(s)
  PROVE  /\ \A page \in {"wait", "setup", "success", "fail", "id", "ip"} : Flags(ShowPage(s, page))
         /\ \A l, v : Flags(ShowData(s, l, v))
         /\ \A u, l, v : Flags(ShowData(ShowUnit(s, u), l, v))
         /\ Flags(ShowTime(s))
         /\ \A icon : Flags(ShowBattery(s, icon)) /\ SamePage(s, ShowBattery(s, icon))
         /\ \A conn : Flags(ShowNet(s, conn)) /\ SamePage(s, ShowNet(s, conn))
         /\ \A frame : Flags(ShowSpinner(s, frame)) /\ SamePage(s, ShowSpinner(s, frame))
<1>1. \A page \in {"wait", "setup", "success", "fail", "id", "ip"} : Flags(ShowPage(s, page))
  BY DEF Flags, ShowPage, Screens
<1>2. \A l, v : Flags(ShowData(s, l, v))
  BY DEF Flags, ShowData, Screens
<1>3. \A u, l, v : Flags(ShowData(ShowUnit(s, u), l, v))
  BY DEF Flags, ShowData, ShowUnit, Screens
<1>4. Flags(ShowTime(s))
  BY DEF Flags, ShowTime, Screens
<1>5. \A icon : Flags(ShowBattery(s, icon)) /\ SamePage(s, ShowBattery(s, icon))
  BY DEF Flags, SamePage, ShowBattery, Screens
<1>6. \A conn : Flags(ShowNet(s, conn)) /\ SamePage(s, ShowNet(s, conn))
  BY DEF Flags, SamePage, ShowNet, Screens
<1>7. \A frame : Flags(ShowSpinner(s, frame)) /\ SamePage(s, ShowSpinner(s, frame))
  BY DEF Flags, SamePage, ShowSpinner, Screens
<1> QED
  BY <1>1, <1>2, <1>3, <1>4, <1>5, <1>6, <1>7

\* A drawing that makes of the panel what is asked for keeps it so; one that
\* fails leaves the panel as it is.
LEMMA Painted ==
  ASSUME PanelInv, prog = "main", NEW drawing, Paint(drawing), UNCHANGED <<spi, on, files>>,
         Flags(screen'),
         files /\ PanelShows(pictures, screen, text, has_temp, temp)
           => PanelShows(Drawn(pictures, drawing), screen', text', has_temp', temp')
  PROVE  PanelInv'
<1>1. files' = files /\ slave' = slave /\ on' = on
  BY DEF spi
<1>2. prog' \in {"main", "ended"} /\ (pictures' = pictures \/ (files /\ slave))
  BY DEF Paint
<1>3. CASE files /\ slave
  <2>1. PanelShows(pictures, screen, text, has_temp, temp)
    BY <1>3 DEF PanelInv
  <2>2. pictures' = Drawn(pictures, drawing)
    <3>1. CASE drawing = <<>>
      BY <1>3, <3>1, DrawnFew DEF Paint
    <3>2. CASE drawing # <<>>
      BY <1>3, <3>2 DEF Paint
    <3> QED
      BY <3>1, <3>2
  <2>3. PanelShows(pictures', screen', text', has_temp', temp')
    BY <1>3, <2>1, <2>2
  <2>4. Readable(pictures')
    BY <2>3, ShownIsReadable
  <2> QED
    BY <1>1, <1>2, <2>3, <2>4 DEF PanelInv
<1>4. CASE ~(files /\ slave)
  <2>1. Readable(pictures')
    BY <1>2, <1>4 DEF PanelInv
  <2> QED
    BY <1>1, <1>2, <1>4, <2>1 DEF PanelInv
<1> QED
  BY <1>3, <1>4

\* So does one of the upper area.
LEMMA PaintedUpper ==
  ASSUME PanelInv, prog = "main", NEW drawing, Paint(drawing), UNCHANGED <<spi, on, files, area>>,
         Flags(screen'),
         files /\ Laid(pictures) /\ UpperShows(Part(pictures, UpperArea), screen, text)
           => UpperBecomes(pictures, Drawn(pictures, drawing), screen', text')
  PROVE  PanelInv'
<1> DEFINE R == Drawn(pictures, drawing)
<1>1. has_temp' = has_temp /\ temp' = temp
  BY DEF area
<1>2. ASSUME files /\ PanelShows(pictures, screen, text, has_temp, temp)
      PROVE  PanelShows(R, screen', text', has_temp', temp')
  <2>1. UpperBecomes(pictures, R, screen', text')
    BY <1>2 DEF PanelShows
  <2> HIDE DEF R
  <2> QED
    BY <1>1, <1>2, <2>1, UpperChanges
<1> QED
  BY <1>2, Painted

\* display() keeps the panel so.
LEMMA DisplayShows == Inv /\ PanelInv /\ (FirstPage \/ Display) => PanelInv'
<1> SUFFICES ASSUME Inv, PanelInv, FirstPage \/ Display PROVE PanelInv'
  OBVIOUS
<1>0. prog = "main" /\ screen \in Screens /\ Flags(screen)
  BY DEF FirstPage, Display, Inv, PanelInv
<1>1. ASSUME NEW page \in {"wait", "setup", "success", "fail"}, DisplayPage(page) PROVE PanelInv'
  <2> DEFINE drawing == <<Upper(UpperImage(page))>>
  <2>1. Laid(pictures) => UpperBecomes(pictures, Drawn(pictures, drawing), screen', text')
    BY <1>0, <1>1, PageShown DEF DisplayPage
  <2>2. Paint(drawing) /\ UNCHANGED <<spi, on, files, area>> /\ Flags(screen')
    BY <1>0, <1>1, FlagsKept DEF DisplayPage
  <2> HIDE DEF drawing
  <2> QED
    BY <1>0, <2>1, <2>2, PaintedUpper
<1>2. ASSUME NEW r \in Readings, NEW u \in Units, NEW label \in Units, DisplayData(r, u, label)
      PROVE  PanelInv'
  <2>1. PICK n \in DataConvert(r, u) : Paint(DataBackground(label) \o DisplayInt(n, NumPlace))
    BY <1>2 DEF DisplayData
  <2> DEFINE bg == DataBackground(label)
             drawing == bg \o DisplayInt(n, NumPlace)
  <2>2. /\ screen' = ShowData(screen, label, [reading |-> r, unit |-> u])
        /\ UNCHANGED <<spi, on, files, area>> /\ Flags(screen')
    BY <1>0, <1>2, FlagsKept DEF DisplayData
  <2>3. bg = IF screen.current_is_data THEN <<>> ELSE <<Blanked, Label(label)>>
    BY DEF DataBackground, Blanked
  <2> HIDE DEF bg
  <2>4. Laid(pictures) /\ UpperShows(Part(pictures, UpperArea), screen, text)
          => UpperBecomes(pictures, Drawn(pictures, drawing), screen', text')
    BY <1>0, <2>2, <2>3, DataShown DEF Flags
  <2>5. Paint(drawing)
    BY <2>1 DEF bg
  <2> HIDE DEF drawing
  <2> QED
    BY <1>0, <2>2, <2>4, <2>5, PaintedUpper
<1>3. ASSUME NEW r \in Readings, NEW u \in Units, DisplayUnit(r, u) PROVE PanelInv'
  <2>1. PICK n \in DataConvert(r, u) :
          Paint(<<Label(u)>> \o DataBackground(u) \o DisplayInt(n, NumPlace))
    BY <1>3 DEF DisplayUnit
  <2> DEFINE bg == DataBackground(u)
             drawing == <<Label(u)>> \o bg \o DisplayInt(n, NumPlace)
  <2>2. /\ screen' = ShowData(ShowUnit(screen, u), u, [reading |-> r, unit |-> u])
        /\ UNCHANGED <<spi, on, files, area>> /\ Flags(screen')
    BY <1>0, <1>3, FlagsKept DEF DisplayUnit
  <2>3. bg = IF screen.current_is_data THEN <<>> ELSE <<Blanked, Label(u)>>
    BY DEF DataBackground, Blanked
  <2> HIDE DEF bg
  <2>4. Laid(pictures) /\ UpperShows(Part(pictures, UpperArea), screen, text)
          => UpperBecomes(pictures, Drawn(pictures, drawing), screen', text')
    BY <1>0, <2>2, <2>3, UnitShown DEF Flags
  <2>5. Paint(drawing)
    BY <2>1 DEF bg
  <2> HIDE DEF drawing
  <2> QED
    BY <1>0, <2>2, <2>4, <2>5, PaintedUpper
<1>4. ASSUME NEW time \in Times, DisplayTimePage(time) PROVE PanelInv'
  <2> DEFINE bg == IF screen.current_is_time THEN <<>> ELSE <<Upper("upper_blank")>>
             drawing == bg \o DisplayTime(time)
  <2>1. Paint(drawing)
    BY <1>4 DEF DisplayTimePage
  <2>2. /\ screen' = ShowTime(screen) /\ text' = time
        /\ UNCHANGED <<spi, on, files, area>> /\ Flags(screen')
    BY <1>0, <1>4, FlagsKept DEF DisplayTimePage
  <2>3. bg = IF screen.current_is_time THEN <<>> ELSE <<Blanked>>
    BY DEF Blanked
  <2> HIDE DEF bg
  <2>4. Laid(pictures) /\ UpperShows(Part(pictures, UpperArea), screen, text)
          => UpperBecomes(pictures, Drawn(pictures, drawing), screen', text')
    BY <1>0, <2>2, <2>3, TimeShown DEF Flags
  <2> HIDE DEF drawing
  <2> QED
    BY <1>0, <2>1, <2>2, <2>4, PaintedUpper
<1>5. CASE DisplayIdPage
  <2> DEFINE drawing == <<Upper("upper_blank"), Upper("id_title")>> \o DisplayId(DeviceId)
  <2>1. /\ Paint(drawing) /\ screen' = ShowPage(screen, "id") /\ text' = DeviceId
        /\ UNCHANGED <<spi, on, files, area>> /\ Flags(screen')
    BY <1>0, <1>5, FlagsKept DEF DisplayIdPage, DisplayText
  <2>2. Laid(pictures) => UpperBecomes(pictures, Drawn(pictures, drawing), screen', text')
    BY <1>0, <2>1, IdShown DEF Blanked
  <2> HIDE DEF drawing
  <2> QED
    BY <1>0, <2>1, <2>2, PaintedUpper
<1>6. ASSUME NEW address \in Addresses, DisplayIpPage(address) PROVE PanelInv'
  <2> DEFINE ip == IF files THEN address ELSE <<>>
             drawing == <<Upper("upper_blank"), Upper("ip_title")>> \o DisplayIp(ip)
  <2>1. /\ Paint(drawing) /\ screen' = ShowPage(screen, "ip") /\ text' = ip
        /\ UNCHANGED <<spi, on, files, area>> /\ Flags(screen')
    BY <1>0, <1>6, FlagsKept DEF DisplayIpPage, DisplayText
  <2>2. files => ip \in Addresses
    OBVIOUS
  <2> HIDE DEF ip
  <2>3. files /\ Laid(pictures)
          => UpperBecomes(pictures, Drawn(pictures, drawing), screen', text')
    BY <1>0, <2>1, <2>2, IpShown DEF Blanked
  <2> HIDE DEF drawing
  <2> QED
    BY <1>0, <2>1, <2>3, PaintedUpper
<1>7. ASSUME NEW milli \in Temperatures, DisplayTemp(milli) PROVE PanelInv'
  <2> DEFINE bg == IF has_temp THEN <<>> ELSE <<DisplayImg(Image("temp_bg"), 20, 98)>>
             drawing == bg \o DisplayInt(ReadTemp(milli), TempPlace)
  <2>1. /\ Paint(drawing) /\ has_temp' = TRUE /\ temp' = milli
        /\ UNCHANGED <<spi, on, files, text, screen>>
    BY <1>7 DEF DisplayTemp
  <2>2. bg = IF has_temp THEN <<>> ELSE <<TempBack>>
    BY DEF TempBack
  <2> HIDE DEF bg
  <2>3. PanelShows(pictures, screen, text, has_temp, temp)
          => PanelShows(Drawn(pictures, drawing), screen, text, TRUE, milli)
    <3> SUFFICES ASSUME PanelShows(pictures, screen, text, has_temp, temp)
                 PROVE  PanelShows(Drawn(pictures, drawing), screen, text, TRUE, milli)
      OBVIOUS
    <3> QED
      BY <2>2, TempShown
  <2>4. PanelShows(pictures, screen, text, has_temp, temp)
          => PanelShows(Drawn(pictures, drawing), screen', text', has_temp', temp')
    BY <2>1, <2>3
  <2> HIDE DEF drawing
  <2> QED
    BY <1>0, <2>1, <2>4, Painted
<1>8. CASE DisplayNoTemp
  <2> DEFINE drawing == IF has_temp THEN <<DisplayImg(Image("temp_blank"), 20, 98)>> ELSE <<>>
  <2>1. /\ Paint(drawing) /\ has_temp' = FALSE /\ temp' = NoDevice
        /\ UNCHANGED <<spi, on, files, text, screen>>
    BY <1>8 DEF DisplayNoTemp
  <2>2. drawing = IF has_temp THEN <<TempBlank>> ELSE <<>>
    BY DEF TempBlank
  <2> HIDE DEF drawing
  <2>3. PanelShows(pictures, screen, text, has_temp, temp)
          => PanelShows(Drawn(pictures, drawing), screen, text, FALSE, NoDevice)
    <3> SUFFICES ASSUME PanelShows(pictures, screen, text, has_temp, temp)
                 PROVE  PanelShows(Drawn(pictures, drawing), screen, text, FALSE, NoDevice)
      OBVIOUS
    <3> QED
      BY <2>2, NoTempShown
  <2>4. PanelShows(pictures, screen, text, has_temp, temp)
          => PanelShows(Drawn(pictures, drawing), screen', text', has_temp', temp')
    BY <2>1, <2>3
  <2> QED
    BY <1>0, <2>1, <2>4, Painted
<1>9. ASSUME NEW a \in Icons, NEW back, Fills(back, a), Paint(<<back>>), SamePage(screen, screen'),
             UNCHANGED <<spi, on, files, area, text>>, Flags(screen')
      PROVE  PanelInv'
  <2>1. PanelShows(pictures, screen, text, has_temp, temp)
          => PanelShows(Drawn(pictures, <<back>>), screen', text', has_temp', temp')
    BY <1>9, IconChanges DEF area
  <2> DEFINE drawing == <<back>>
  <2>2. Paint(drawing)
    BY <1>9
  <2> HIDE DEF drawing
  <2> QED
    BY <1>0, <1>9, <2>1, <2>2, Painted DEF drawing
<1>10. ASSUME NEW icon \in BatteryStates, DisplayBattery(icon) PROVE PanelInv'
  <2>1. Fills(DisplayImg(BatteryImage(icon), 0, 98), BatteryArea) /\ BatteryArea \in Icons
    BY IconFills DEF Icons
  <2> QED
    BY <1>0, <1>9, <1>10, <2>1, FlagsKept DEF DisplayBattery
<1>11. ASSUME NEW conn \in Connections, DisplayNet(conn) PROVE PanelInv'
  <2>1. Fills(DisplayImg(NetImage(conn), 100, 98), NetArea) /\ NetArea \in Icons
    BY IconFills DEF Icons
  <2> QED
    BY <1>0, <1>9, <1>11, <2>1, FlagsKept DEF DisplayNet
<1>12. ASSUME NEW frame \in Frames, DisplaySpinner(frame) PROVE PanelInv'
  <2>1. Fills(DisplayImg(SpinnerImage(frame), 130, 98), SpinnerArea) /\ SpinnerArea \in Icons
    BY IconFills DEF Icons
  <2> QED
    BY <1>0, <1>9, <1>12, <2>1, FlagsKept DEF DisplaySpinner
<1>13. CASE FirstPage
  BY <1>1, <1>13 DEF FirstPage
<1> QED
  BY <1>1, <1>2, <1>3, <1>4, <1>5, <1>6, <1>7, <1>8, <1>10, <1>11, <1>12, <1>13 DEF Display

\* Welcome's picture is all there is then.
LEMMA WelcomeShown ==
  ASSUME NEW s, s.page = "welcome", NEW chars
  PROVE  PanelShows({Ground}, s, chars, FALSE, NoDevice)
<1> DEFINE P == {Ground}
<1>1. Neat(Ground) /\ \A a \in Areas : ~Inside(Ground, a)
  BY GroundIsNeat, AreasApart
<1>2. Laid(P) /\ \A a \in Areas : Part(P, a) = {}
  BY <1>1 DEF Laid, Part
<1>3. UpperArea \in Areas /\ TempArea \in Areas /\ \A a \in Icons : a \in Areas
  BY DEF Areas, Icons
<1> HIDE DEF P
<1>4. UpperShows(Part(P, UpperArea), s, chars) /\ TempShows(Part(P, TempArea), FALSE, NoDevice)
  BY <1>2, <1>3 DEF UpperShows, TempShows
<1>5. \A a \in Icons : IconShows(Part(P, a), a)
  BY <1>2, <1>3 DEF IconShows
<1>6. PanelShows(P, s, chars, FALSE, NoDevice)
  BY <1>2, <1>4, <1>5 DEF PanelShows
<1> QED
  BY <1>6 DEF P

\* Nothing is shown at first.
LEMMA InitShows == Init => PanelInv
<1> SUFFICES ASSUME Init PROVE PanelInv
  OBVIOUS
<1>1. Readable(pictures)
  BY DEF Init, Readable, Tidy
<1>2. screen.page = "welcome" /\ ~screen.current_is_data /\ ~screen.current_is_time
  BY DEF Init, EmptyScreen
<1> QED
  BY <1>1, <1>2 DEF Init, PanelInv, Flags

\* Every step keeps the panel so.
LEMMA NextShows == Inv /\ PanelInv /\ [Next]_vars => PanelInv'
<1> SUFFICES ASSUME Inv, PanelInv, [Next]_vars PROVE PanelInv'
  OBVIOUS
<1>1. CASE Module
  BY <1>1 DEF Module, PanelInv, area
<1>2. CASE Welcome
  <2>1. /\ prog = "boot" /\ prog' = "main" /\ on' = (slave /\ Configured) /\ slave' = slave
        /\ pictures' = (IF slave THEN {Ground} ELSE {})
        /\ UNCHANGED <<files, has_temp, temp, text, screen>>
    BY <1>2 DEF Welcome, spi, area, Ground
  <2>2. screen.page = "welcome" /\ ~has_temp /\ temp = NoDevice /\ Flags(screen)
    BY <2>1 DEF PanelInv
  <2>3. has_temp = FALSE
    BY <2>2 DEF Inv, TypeOK
  <2>4. on' => slave'
    BY <2>1
  <2>5. CASE slave
    <3>1. PanelShows({Ground}, screen, text, FALSE, NoDevice)
      BY <2>2, WelcomeShown
    <3>2. pictures' = {Ground} /\ Readable({Ground})
      BY <2>1, <2>5, <3>1, ShownIsReadable
    <3>3. PanelShows(pictures', screen', text', has_temp', temp')
      BY <2>1, <2>2, <2>3, <3>1, <3>2
    <3> QED
      BY <2>1, <2>2, <2>4, <3>2, <3>3 DEF PanelInv
  <2>6. CASE ~slave
    <3>1. pictures' = {} /\ Readable({})
      BY <2>1, <2>6 DEF Readable, Tidy
    <3> QED
      BY <2>1, <2>2, <2>4, <2>6, <3>1 DEF PanelInv
  <2> QED
    BY <2>5, <2>6
<1>3. CASE FirstPage \/ Display
  BY <1>3, DisplayShows
<1>4. CASE RunOut
  <2>1. files' = FALSE /\ UNCHANGED <<prog, on, slave, screen, pictures>> /\ prog = "main"
    BY <1>4 DEF RunOut, spi
  <2> QED
    BY <2>1 DEF PanelInv
<1>5. CASE UNCHANGED vars
  BY <1>5 DEF vars, spi, area, PanelInv
<1> QED
  BY <1>1, <1>2, <1>3, <1>4, <1>5 DEF Next

\* So it is shown for ever.
LEMMA Shown == Spec => [](Inv /\ PanelInv)
<1>1. Init => Inv /\ PanelInv
  BY InitInvariant, InitShows
<1>2. Inv /\ PanelInv /\ [Next]_vars => (Inv /\ PanelInv)'
  BY NextKeeps, NextShows
<1> QED
  BY <1>1, <1>2, PTL DEF Spec

(* Whatever is drawn over whatever, nothing is ever cut off or half hidden on the  *)
(* panel, and no glyph lies on another: every call leaves the panel to be read     *)
(* (img.h:4-75, lcd.c:188-228, img.c:151-186).                                  *)
THEOREM StaysLegible == Spec => []Legible
<1>1. PanelInv => Legible
  BY ReadableIsLegible DEF PanelInv
<1> QED
  BY <1>1, Shown, PTL

-----------------------------------------------------------------------------
(* What can be read.                                                           *)

\* The glyphs of a part, and what else is in it.
Glyphic(S) == {p \in S : IsGlyph(p)}
Plain(S) == {p \in S : ~IsGlyph(p) /\ p.image # Image("welcome")}

\* What lies in the upper area, and what under it.
LEMMA AreaOf ==
  ASSUME NEW P, Laid(P), NEW p \in P
  PROVE  /\ Inside(p, UpperArea) <=> InUpper(p) /\ p # Ground
         /\ ~InUpper(p) <=> \E a \in Icons \cup {TempArea} : Inside(p, a)
<1> DEFINE y == p.y
           h == p.h
<1>1. Neat(p) /\ (p = Ground \/ \E a \in Areas : Inside(p, a))
  BY DEF Laid
<1>2. y \in Int /\ h \in Int /\ h > 0
  BY <1>1, NeatIsBoxed DEF Boxed
<1>3. Inside(p, UpperArea) => InUpper(p)
  <2>1. Inside(p, UpperArea) => y + h <= 98
    BY DEF Inside, UpperArea, Area
  <2> HIDE DEF y, h
  <2>2. Inside(p, UpperArea) => y < 98
    BY <1>2, <2>1
  <2> QED
    BY <2>2 DEF y, InUpper, UPPER_HEIGHT
<1>4. \A a \in Icons \cup {TempArea} : Inside(p, a) => ~InUpper(p)
  <2>1. \A a \in Icons \cup {TempArea} : a.y = 98
    BY DEF Icons, TempArea, BatteryArea, NetArea, SpinnerArea, Area
  <2>2. \A a \in Icons \cup {TempArea} : Inside(p, a) => 98 <= y
    BY <2>1 DEF Inside
  <2> HIDE DEF y
  <2>3. 98 <= y => ~(y < 98)
    BY <1>2
  <2> QED
    BY <2>2, <2>3 DEF y, InUpper, UPPER_HEIGHT
<1>5. p = Ground => InUpper(p)
  <2>1. Ground.y = 0
    BY DEF Ground, DisplayImg, Place
  <2> QED
    BY <2>1 DEF InUpper, UPPER_HEIGHT
<1>6. p = Ground => ~Inside(p, UpperArea)
  BY AreasApart DEF Areas
<1>7. Areas = {UpperArea} \cup (Icons \cup {TempArea})
  BY DEF Areas, Icons
<1> QED
  BY <1>1, <1>3, <1>4, <1>5, <1>6, <1>7

\* Of what is composed, the row is read, on its background.
LEMMA ComposedReads ==
  ASSUME NEW S, NEW a, NEW back, NEW front, NEW row, NEW n, Composed(S, a, back, front, row, n),
         \A p \in {back} \cup front : p.image # Image("welcome")
  PROVE  Glyphic(S) = Glyphs(row, n) /\ Plain(S) = {back} \cup front
<1>1. \A p \in {back} \cup front : ~IsGlyph(p)
  BY DEF Composed, Fills, Front
<1>2. \A p \in Glyphs(row, n) : IsGlyph(p)
  BY DEF Composed, Row, Glyphs
<1>3. S = ({back} \cup front) \cup Glyphs(row, n)
  BY DEF Composed
<1> QED
  BY <1>1, <1>2, <1>3 DEF Glyphic, Plain

\* There is nothing to read where there is no glyph.
LEMMA NoText == Text({}) = <<>>
<1>1. Cardinality({}) = 0
  BY FS_EmptySet
<1>2. 1..0 = {}
  OBVIOUS
<1> QED
  BY <1>1, <1>2 DEF Text

\* What a page has in front of its background.
FrontOf(s) ==
    CASE s.page = "data" -> {Label(s.label)}
      [] s.page = "id" -> {Upper("id_title")}
      [] s.page = "ip" -> {Upper("ip_title")}
      [] OTHER -> {}

\* The number on the data page.
SaysReading(chars, s) ==
    LET exact == Clip(s.value.reading \div (IF s.value.unit = "pcs" THEN 1 ELSE 20), NumPlace)
    IN  Value(chars) \in (exact - 1)..exact

\* What is read from the upper area.
UpperSays(S, s, chars) ==
    /\ Plain(S) = {Upper(UpperImage(s.page))} \cup FrontOf(s)
    /\ s.page \in {"ip", "time"} => Text(Glyphic(S)) = chars
    /\ s.page = "id" => Text(Glyphic(S)) = [k \in 1..IdLength(chars) |-> Digit(chars[k])]
    /\ s.page \notin {"data", "id", "ip", "time"} => Text(Glyphic(S)) = <<>>
    /\ s.page = "data" => SaysReading(Text(Glyphic(S)), s)

\* Numbers one apart stay so when they are cut to what fits.
LEMMA ClipNear ==
  ASSUME NEW num \in Nat, NEW exact \in Nat, num \in (exact - 1)..exact
  PROVE  Clip(num, NumPlace) \in (Clip(exact, NumPlace) - 1)..Clip(exact, NumPlace)
<1>1. \A n \in Nat : Clip(n, NumPlace) = IF n > 99999 THEN 99999 ELSE n
  BY DEF Clip, NumPlace
<1> QED
  BY <1>1

\* The data page says the reading.
LEMMA DataIsRead ==
  ASSUME NEW S, NEW s, NEW num, DataOn(s, s.label, num), DataShows(S, s.label, num)
  PROVE  Plain(S) = {Blanked} \cup {Label(s.label)} /\ SaysReading(Text(Glyphic(S)), s)
<1> DEFINE l == s.label
           row == DisplayInt(num, NumPlace)
           reading == s.value.reading
           unit == s.value.unit
           exact == reading \div (IF unit = "pcs" THEN 1 ELSE 20)
<1>1. num \in Nat /\ reading \in Nat /\ num \in DataConvert(reading, unit)
  BY NumberIsNat, ReadingsAre DEF DataOn
<1>2. Composed(S, UpperArea, Blanked, {Label(l)}, row, 5)
  <2>1. S = ({Blanked} \cup {Label(l)}) \cup Glyphs(row, 5)
    BY DEF DataShows
  <2> HIDE DEF l, row
  <2>2. Composed(({Blanked} \cup {Label(l)}) \cup Glyphs(row, 5), UpperArea, Blanked, {Label(l)}, row, 5)
    BY <1>1, DataComposed DEF row
  <2> QED
    BY <2>1, <2>2
<1>3. Blanked.image # Image("welcome") /\ Label(l).image # Image("welcome")
  BY UpperFills, UpperFronts DEF Blanked
<1>4. Glyphic(S) = Glyphs(row, 5) /\ Plain(S) = {Blanked} \cup {Label(l)}
  <2> DEFINE front == {Label(l)}
  <2>1. \A p \in {Blanked} \cup front : p.image # Image("welcome")
    BY <1>3
  <2>2. Composed(S, UpperArea, Blanked, front, row, 5)
    BY <1>2
  <2> HIDE DEF front, row
  <2>3. Glyphic(S) = Glyphs(row, 5) /\ Plain(S) = {Blanked} \cup front
    BY <2>1, <2>2, ComposedReads
  <2> QED
    BY <2>3 DEF front
<1>5. Value(Text(Glyphs(row, 5))) = Clip(num, NumPlace)
  BY <1>1, NumDrawn
<1>6. exact \in Nat /\ num \in (exact - 1)..exact
  <2> HIDE DEF reading, unit
  <2>1. \A e : e = exact => e \in Nat /\ num \in (e - 1)..e
    BY <1>1, Converted
  <2> HIDE DEF exact
  <2> QED
    BY <2>1
<1>7. SaysReading(Text(Glyphic(S)), s)
  <2> DEFINE c == Clip(exact, NumPlace)
  <2> HIDE DEF exact
  <2>1. Clip(num, NumPlace) \in (c - 1)..c
    BY <1>1, <1>6, ClipNear
  <2>2. Value(Text(Glyphic(S))) = Clip(num, NumPlace)
    BY <1>4, <1>5
  <2> HIDE DEF row
  <2>3. Value(Text(Glyphic(S))) \in (c - 1)..c
    BY <2>1, <2>2
  <2>4. c = Clip(s.value.reading \div (IF s.value.unit = "pcs" THEN 1 ELSE 20), NumPlace)
    BY DEF exact
  <2> HIDE DEF c
  <2> QED
    BY <2>3, <2>4 DEF SaysReading
<1> QED
  BY <1>4, <1>7

\* Every page says what it is to say.
LEMMA UpperReads ==
  ASSUME NEW S, NEW s, s.page # "welcome", NEW chars, UpperShows(S, s, chars)
  PROVE  UpperSays(S, s, chars)
<1>1. CASE s.page \in {"wait", "setup", "success", "fail"} /\ S = {Upper(UpperImage(s.page))}
  <2> DEFINE back == Upper(UpperImage(s.page))
             row == <<>>
             front == {}
  <2>1. Fills(back, UpperArea) /\ back.image # Image("welcome")
    <3>1. PICK name \in {"please_wait", "please_setup", "setup_success", "setup_fail", "upper_blank"} :
            UpperImage(s.page) = name
      BY DEF UpperImage
    <3> QED
      BY <3>1, UpperFills
  <2>2. FrontOf(s) = {}
    BY <1>1 DEF FrontOf
  <2>3. Plain(S) = {back} /\ Glyphic(S) = {}
    BY <1>1, <2>1 DEF Plain, Glyphic, Fills
  <2>4. Text(Glyphic(S)) = <<>>
    BY <2>3, NoText
  <2> HIDE DEF back
  <2>5. Plain(S) = {back} \cup FrontOf(s)
    BY <2>2, <2>3
  <2> QED
    BY <1>1, <2>4, <2>5 DEF UpperSays, back
<1>2. CASE s.page = "data"
  <2>1. PICK num : DataOn(s, s.label, num) /\ DataShows(S, s.label, num)
    BY <1>2, UpperIsData
  <2>2. Plain(S) = {Blanked} \cup {Label(s.label)} /\ SaysReading(Text(Glyphic(S)), s)
    BY <2>1, DataIsRead
  <2>3. FrontOf(s) = {Label(s.label)} /\ Upper(UpperImage(s.page)) = Blanked
    BY <1>2 DEF FrontOf, UpperImage, Blanked
  <2> QED
    BY <1>2, <2>2, <2>3 DEF UpperSays
<1>3. CASE s.page = "time"
  <2> DEFINE row == DisplayTime(chars)
             front == {}
  <2>1. chars \in Times /\ S = {Blanked} \cup Glyphs(row, 5)
    BY <1>3 DEF UpperShows
  <2>2. Composed(S, UpperArea, Blanked, front, row, 5)
    BY <2>1, TimeComposed
  <2>3. Text(Glyphs(row, 5)) = chars
    BY <2>1, TimesAre, TimeDrawn
  <2>4. FrontOf(s) = front /\ Upper(UpperImage(s.page)) = Blanked
    BY <1>3 DEF FrontOf, UpperImage, Blanked
  <2>5. \A p \in {Blanked} \cup front : p.image # Image("welcome")
    BY UpperFills DEF Blanked
  <2> HIDE DEF front, row
  <2>6. Glyphic(S) = Glyphs(row, 5) /\ Plain(S) = {Blanked} \cup front
    BY <2>2, <2>5, ComposedReads
  <2>7. Text(Glyphic(S)) = chars
    BY <2>3, <2>6
  <2> QED
    BY <1>3, <2>4, <2>6, <2>7 DEF UpperSays
<1>4. CASE s.page = "id"
  <2> DEFINE row == DisplayId(chars)
             n == IdLength(chars)
             front == {Upper("id_title")}
  <2>1. chars = DeviceId /\ S = {Blanked, Upper("id_title")} \cup Glyphs(row, n)
    BY <1>4 DEF UpperShows
  <2>2. Composed(S, UpperArea, Blanked, front, row, n)
    BY <2>1, IdComposed
  <2>3. Text(Glyphs(row, n)) = [k \in 1..n |-> Digit(chars[k])]
    BY <2>1, IdIs, IdDrawn
  <2>4. FrontOf(s) = front /\ Upper(UpperImage(s.page)) = Blanked
    BY <1>4 DEF FrontOf, UpperImage, Blanked
  <2>5. \A p \in {Blanked} \cup front : p.image # Image("welcome")
    BY UpperFills, UpperFronts DEF Blanked
  <2> HIDE DEF front, row, n
  <2>6. Glyphic(S) = Glyphs(row, n) /\ Plain(S) = {Blanked} \cup front
    BY <2>2, <2>5, ComposedReads
  <2>7. Text(Glyphic(S)) = [k \in 1..IdLength(chars) |-> Digit(chars[k])]
    BY <2>3, <2>6 DEF n
  <2> QED
    BY <1>4, <2>4, <2>6, <2>7 DEF UpperSays
<1>5. CASE s.page = "ip"
  <2> DEFINE row == DisplayIp(chars)
             n == Len(chars)
             front == {Upper("ip_title")}
  <2>1. chars \in Addresses /\ S = {Blanked, Upper("ip_title")} \cup Glyphs(row, n)
    BY <1>5 DEF UpperShows
  <2>0. IpFormat(chars)
    BY <2>1, AddressesAre
  <2>2. Composed(S, UpperArea, Blanked, front, row, n)
    BY <2>0, <2>1, IpComposed
  <2>3. Text(Glyphs(row, n)) = chars
    BY <2>0, IpDrawn
  <2>4. FrontOf(s) = front /\ Upper(UpperImage(s.page)) = Blanked
    BY <1>5 DEF FrontOf, UpperImage, Blanked
  <2>5. \A p \in {Blanked} \cup front : p.image # Image("welcome")
    BY UpperFills, UpperFronts DEF Blanked
  <2> HIDE DEF front, row, n
  <2>6. Glyphic(S) = Glyphs(row, n) /\ Plain(S) = {Blanked} \cup front
    BY <2>2, <2>5, ComposedReads
  <2>7. Text(Glyphic(S)) = chars
    BY <2>3, <2>6
  <2> QED
    BY <1>5, <2>4, <2>6, <2>7 DEF UpperSays
<1> QED
  BY <1>1, <1>2, <1>3, <1>4, <1>5 DEF UpperShows

\* The temperature says what it is to say.
LEMMA TempReads ==
  ASSUME NEW S, NEW has, NEW t, TempShows(S, has, t)
  PROVE  /\ t # NoDevice => /\ Len(Text(Glyphic(S))) = 3
                            /\ Abs(1000 * Value(Text(Glyphic(S))) - t) <= 500
         /\ t = NoDevice => Text(Glyphic(S)) = <<>>
<1>1. CASE t = NoDevice /\ S \subseteq {TempBlank}
  <2>1. Glyphic(S) = {}
    BY <1>1, TempFills DEF Glyphic, Fills
  <2> QED
    BY <1>1, <2>1, NoText
<1>2. CASE t \in Temperatures /\ S = {TempBack} \cup Glyphs(DisplayInt(ReadTemp(t), TempPlace), 3)
  <2> DEFINE row == DisplayInt(ReadTemp(t), TempPlace)
             degrees == ReadTemp(t)
  <2>1. t \in Int /\ -55000 <= t /\ degrees \in -99..999 /\ Abs(1000 * degrees - t) <= 500
    BY <1>2, Degrees, TemperaturesAre
  <2>2. Value(Text(Glyphs(row, 3))) = degrees /\ Len(Text(Glyphs(row, 3))) = 3
    <3> HIDE DEF degrees
    <3>1. row = DisplayInt(degrees, TempPlace)
      BY DEF degrees
    <3>2. degrees \in -99..999
      BY <2>1
    <3> HIDE DEF row
    <3> QED
      BY ONLY <3>1, <3>2, TempDrawn
  <2>3. Composed({TempBack} \cup Glyphs(row, 3), TempArea, TempBack, {}, row, 3)
    BY <1>2, TempComposed
  <2> HIDE DEF row
  <2>4. S = {TempBack} \cup Glyphs(row, 3)
    BY <1>2 DEF row
  <2>5. Glyphic(S) = Glyphs(row, 3)
    BY <2>3, <2>4 DEF Composed, Fills, Row, Glyphs, Glyphic
  <2>6. t # NoDevice
    BY <2>1 DEF NoDevice
  <2> QED
    BY <2>1, <2>2, <2>5, <2>6
<1> QED
  BY <1>1, <1>2 DEF TempShows

\* What is read on the panel is read in its areas.
LEMMA PanelReads ==
  ASSUME PanelShows(pictures, screen, text, has_temp, temp)
  PROVE  /\ {p \in pictures : InUpper(p) /\ ~IsGlyph(p) /\ p.image # Image("welcome")}
              = Plain(Part(pictures, UpperArea))
         /\ UpperText = Text(Glyphic(Part(pictures, UpperArea)))
         /\ TempText = Text(Glyphic(Part(pictures, TempArea)))
<1>0. Laid(pictures)
  BY DEF PanelShows
<1>1. Ground.image = Image("welcome") /\ ~IsGlyph(Ground)
  BY GroundIsNeat DEF Ground, DisplayImg, Place
<1>2. \A p \in pictures : Inside(p, UpperArea) <=> InUpper(p) /\ p # Ground
  BY <1>0, AreaOf
<1>3. {p \in pictures : InUpper(p) /\ ~IsGlyph(p) /\ p.image # Image("welcome")}
        = Plain(Part(pictures, UpperArea))
  BY <1>1, <1>2 DEF Plain, Part
<1>4. {p \in pictures : IsGlyph(p) /\ InUpper(p)} = Glyphic(Part(pictures, UpperArea))
  BY <1>1, <1>2 DEF Glyphic, Part
<1>5. \A p \in pictures : ~InUpper(p) <=> \E a \in Icons \cup {TempArea} : Inside(p, a)
  BY <1>0, AreaOf
<1>6. \A p \in pictures, a \in Icons : Inside(p, a) => ~IsGlyph(p)
  BY DEF PanelShows, IconShows, Part, Fills
<1>7. {p \in pictures : IsGlyph(p) /\ ~InUpper(p)} = Glyphic(Part(pictures, TempArea))
  BY <1>5, <1>6 DEF Glyphic, Part
<1> QED
  BY <1>3, <1>4, <1>7 DEF UpperText, TempText

\* While the device works, the panel shows what it was asked for.
LEMMA WorksShows ==
  ASSUME PanelInv, Works
  PROVE  PanelShows(pictures, screen, text, has_temp, temp)
BY DEF PanelInv, Works

(* Whatever pages, readings and units are drawn, in whatever order, what can be     *)
(* read in the upper area is the page display() was last asked for, its background,  *)
(* label and title, and its text to the character, and nothing of the pages before  *)
(* it: drawing over what the flags say is up leaves nothing behind (main.c:596-704,  *)
(* lcd.c:312-690).                                                              *)
THEOREM PageIsShown == Spec => []ShowsPage
<1>1. PanelInv => ShowsPage
  <2> SUFFICES ASSUME PanelInv, Works, screen.page # "welcome" PROVE ShowsPage
    BY DEF ShowsPage
  <2> DEFINE S == Part(pictures, UpperArea)
             backs == {p \in pictures : InUpper(p) /\ ~IsGlyph(p) /\ p.image # Image("welcome")}
  <2>1. PanelShows(pictures, screen, text, has_temp, temp)
    BY WorksShows
  <2>2. backs = Plain(S) /\ UpperText = Text(Glyphic(S))
    BY <2>1, PanelReads
  <2>3. UpperSays(S, screen, text)
    BY <2>1, UpperReads DEF PanelShows
  <2> HIDE DEF S
  <2>4. /\ backs = {Upper(UpperImage(screen.page))} \cup FrontOf(screen)
        /\ screen.page \in {"ip", "time"} => UpperText = text
        /\ screen.page = "id" => UpperText = [k \in 1..IdLength(text) |-> Digit(text[k])]
        /\ screen.page \notin {"data", "id", "ip", "time"} => UpperText = <<>>
    BY <2>2, <2>3 DEF UpperSays
  <2> QED
    BY <2>4 DEF ShowsPage, FrontOf, IdLength
<1> QED
  BY <1>1, Shown, PTL

(* The number read back from the data page is the reading in the unit asked for,     *)
(* cut to five digits, and one too small at most; under it is the temperature, to    *)
(* within half a degree, or nothing: neither an old digit nor a sign is left over    *)
(* where a shorter number follows (main.c:540-560, 755-800; lcd.c:333-398).          *)
THEOREM NumbersAreShown == Spec => []ShowsNumbers
<1>1. PanelInv => ShowsNumbers
  <2> SUFFICES ASSUME PanelInv, Works PROVE ShowsNumbers
    BY DEF ShowsNumbers
  <2> DEFINE U == Part(pictures, UpperArea)
             T == Part(pictures, TempArea)
  <2>1. PanelShows(pictures, screen, text, has_temp, temp)
    BY WorksShows
  <2>2. UpperText = Text(Glyphic(U)) /\ TempText = Text(Glyphic(T))
    BY <2>1, PanelReads
  <2>3. ASSUME screen.page = "data" PROVE SaysReading(UpperText, screen)
    <3>1. UpperSays(U, screen, text)
      BY <2>1, <2>3, UpperReads DEF PanelShows
    <3> QED
      BY <2>2, <2>3, <3>1 DEF UpperSays
  <2>4. /\ temp # NoDevice => Len(TempText) = 3 /\ Abs(1000 * Value(TempText) - temp) <= 500
        /\ temp = NoDevice => TempText = <<>>
    <3>1. TempShows(T, has_temp, temp)
      BY <2>1 DEF PanelShows
    <3> QED
      BY <2>2, <3>1, TempReads
  <2>5. Len(TempText) = 3 => TempText # <<>>
    OBVIOUS
  <2> QED
    BY <2>3, <2>4, <2>5 DEF ShowsNumbers, SaysReading
<1> QED
  BY <1>1, Shown, PTL
=============================================================================
