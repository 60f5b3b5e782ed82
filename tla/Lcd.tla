---------------------------------- MODULE Lcd ----------------------------------
(* The display: the kernel module that makes the LCD's device node, the program *)
(* Welcome that switches the panel on, and display() of the main program, which  *)
(* composes the screen of images.  Screen.tla says what display() promises; here *)
(* are the pictures, the buffers they are drawn from, and what becomes of them   *)
(* when the node is gone or no file can be opened any more.                     *)
EXTENDS Screen, SpiDev, Images

CONSTANTS
    Readings,       \* published means, in 60000ths of a sensor that is always low
    DeviceId,       \* characters of the device id
    Addresses,      \* addresses ifconfig may name; <<>>: none
    Times,          \* texts strftime() may make
    Temperatures,   \* what the thermometer may say, in thousandths of a degree
    BatteryStates,  \* battery icons drawn, of "f", "h", "l", "c" and "b"
    Connections,    \* network icons drawn: -1 blank, 0, 1
    Frames,         \* spinner frames drawn; -1: blank
    MaxViews,       \* most views of the pages ID and IP
    MaxLate         \* most calls of display() without a descriptor left

ASSUME LcdAssumption ==
    /\ Readings \subseteq Nat
    /\ DeviceId \in Seq(Nat)
    /\ \A ip \in Addresses : IpFormat(ip)
    /\ \A time \in Times : time \in Seq(Nat) /\ TimeFormat(time)
    /\ \A milli \in Temperatures :        \* what the 1-wire thermometer measures
         milli \in Int /\ -55000 <= milli /\ milli <= 125000
    /\ BatteryStates \subseteq {"f", "h", "l", "c", "b"}
    /\ Connections \subseteq -1..1
    /\ Frames \subseteq -1..5
    /\ MaxViews \in Nat /\ MaxLate \in Nat

VARIABLES
    prog,       \* "boot": none yet; "main": AirSniffer runs; "ended": by exit(1)
    on,         \* the panel is initialised
    files,      \* the program has a descriptor left to open a file
    late,       \* calls of display() since it has none
    digits,     \* image_num[0..9] keep their buffers
    lost,       \* buffers nothing points to any more
    views,      \* pages ID and IP drawn so far
    has_temp,   \* display()'s current_has_temp
    temp,       \* the temperature asked for
    text,       \* the text of the page
    screen,     \* what display() was asked for, as in Screen.tla
    pictures    \* what is on the panel

heap == <<digits, lost, views>>
area == <<has_temp, temp>>
vars == <<spi, prog, on, files, late, heap, area, text, screen, pictures>>

NoDevice == -128000     \* TEMP_NO_DEVICE, in thousandths

Init ==
    /\ SpiInit
    /\ prog = "boot" /\ on = FALSE
    /\ files = TRUE /\ late = 0
    /\ digits = FALSE /\ lost = 0 /\ views = 0
    /\ has_temp = FALSE /\ temp = NoDevice
    /\ text = <<>>
    /\ screen = [EmptyScreen EXCEPT !.page = "welcome"]
    /\ pictures = {}
-----------------------------------------------------------------------------
(* Drawing.                                                                    *)

\* A picture is drawn from a buffer that is held already, or loaded now.
Held(p) == p.image = White \/ (digits /\ p.image[1] = "num" /\ p.w = NUM_WIDTH)

\* load_image() without a descriptor leaves the picture out; uwrite() without a
\* descriptor or a node ends the process.
Paint(drawing) ==
    LET shown == IF files THEN drawing ELSE SelectSeq(drawing, Held)
    IN  /\ \/ files /\ UNCHANGED late
           \/ ~files /\ late < MaxLate /\ late' = late + 1
        /\ \/ shown = <<>> /\ UNCHANGED <<prog, pictures>>
           \/ /\ shown # <<>> /\ files /\ slave
              /\ pictures' = Drawn(pictures, shown)
              /\ UNCHANGED prog
           \/ /\ shown # <<>> /\ ~(files /\ slave)
              /\ prog' = "ended"
              /\ UNCHANGED pictures

\* LCD_Init(): the registers' values lie one behind the other in InitData.
RegLengths == <<3, 3, 6, 1, 3, 1, 2, 2, 2, 1, 1, 1, 1>>
RegOffsets == <<0, 3, 6, 12, 13, 16, 17, 19, 21, 23, 24, 25, 26>>

Configured ==
    /\ \A k \in 1..12 : RegOffsets[k + 1] = RegOffsets[k] + RegLengths[k]
    /\ RegOffsets[13] + RegLengths[13] = 27

\* The program Welcome; AirSniffer starts after it, however it ended.
Welcome ==
    /\ prog = "boot" /\ stage \in {"out", "in"}
    /\ prog' = "main"
    /\ on' = (slave /\ Configured)
    /\ pictures' = IF slave THEN {DisplayImg(Image("welcome"), 0, 0)} ELSE {}
    /\ UNCHANGED <<spi, files, late, heap, area, text, screen>>

Upper(name) == DisplayImg(Image(name), 0, 0)

UpperImage(page) ==
    CASE page = "wait" -> "please_wait"
      [] page = "setup" -> "please_setup"
      [] page = "success" -> "setup_success"
      [] page = "fail" -> "setup_fail"
      [] OTHER -> "upper_blank"

\* DISPLAY_TYPE_PLEASE_WAIT, _PLEASE_SETUP, _SETUP_SUCC, _SETUP_FAIL.
DisplayPage(page) ==
    /\ Paint(<<Upper(UpperImage(page))>>)
    /\ screen' = ShowPage(screen, page)
    /\ text' = <<>>
    /\ UNCHANGED <<spi, on, files, heap, area>>

\* data_convert(): exact in 60000ths, but computed with doubles and cut off, so
\* that a whole number may come out one too small.
DataConvert(reading, unit) ==
    LET scale == IF unit = "pcs" THEN 1 ELSE 20
        exact == reading \div scale
    IN  IF reading % scale = 0 /\ exact > 0 THEN {exact - 1, exact} ELSE {exact}

Label(unit) ==
    DisplayImg(Image(IF unit = "pcs" THEN "unit_pcs" ELSE "unit_ug"), 0, 70)

\* Mutant: the blank is left out when the page was another one.
DataBackground_NoBlank(label) ==
    IF screen.current_is_data THEN <<>> ELSE <<Label(label)>>

\* DISPLAY_TYPE_DATA: the background only if the data page is not up.
DataBackground(label) ==
    IF screen.current_is_data THEN <<>> ELSE <<Upper("upper_blank"), Label(label)>>

DisplayData(reading, unit, label) ==
    /\ \E n \in DataConvert(reading, unit) :
         Paint(DataBackground(label) \o DisplayInt(n, NumPlace))
    /\ screen' = ShowData(screen, label, [reading |-> reading, unit |-> unit])
    /\ text' = <<>>
    /\ UNCHANGED <<spi, on, files, heap, area>>

\* DISPLAY_TYPE_UNIT is only used with DISPLAY_TYPE_DATA after it.
DisplayUnit(reading, unit) ==
    /\ \E n \in DataConvert(reading, unit) :
         Paint(<<Label(unit)>> \o DataBackground(unit) \o DisplayInt(n, NumPlace))
    /\ screen' = ShowData(ShowUnit(screen, unit), unit,
                          [reading |-> reading, unit |-> unit])
    /\ text' = <<>>
    /\ UNCHANGED <<spi, on, files, heap, area>>

\* DISPLAY_TYPE_TIME.
DisplayTimePage(time) ==
    /\ Paint((IF screen.current_is_time THEN <<>> ELSE <<Upper("upper_blank")>>)
               \o DisplayTime(time))
    /\ screen' = ShowTime(screen)
    /\ text' = time
    /\ UNCHANGED <<spi, on, files, heap, area>>

\* Loading the ten numbers over buffers they keep loses these.
Overwritten == IF digits THEN 10 ELSE 0

\* display_id() and display_ip() scale the numbers into ten buffers more, and free
\* none of the twenty.
LoadAndKeep ==
    /\ views < MaxViews
    /\ views' = views + 1
    /\ lost' = lost + Overwritten + (IF files THEN 10 ELSE 0)
    /\ digits' = files

\* DISPLAY_TYPE_ID, _IP: without a descriptor there are no digits either.
DisplayText(page, chars, title, drawing) ==
    /\ LoadAndKeep
    /\ Paint(<<Upper("upper_blank"), Upper(title)>> \o drawing)
    /\ screen' = ShowPage(screen, page)
    /\ text' = chars
    /\ UNCHANGED <<spi, on, files, area>>

DisplayIdPage == DisplayText("id", DeviceId, "id_title", DisplayId(DeviceId))

\* read_ip(): popen() needs a descriptor.
DisplayIpPage(address) ==
    LET ip == IF files THEN address ELSE <<>>
    IN  DisplayText("ip", ip, "ip_title", DisplayIp(ip))

\* Mutant: truncated instead of rounded.
ReadTemp_Truncated(milli) == IF milli < 0 THEN -((-milli) \div 1000) ELSE milli \div 1000

\* read_temp(): tenths are cut off first, then rounded, both away from the sign.
ReadTemp(milli) ==
    LET tenths == (IF milli < 0 THEN -milli ELSE milli) \div 100
        degrees == tenths \div 10 + (IF tenths % 10 >= 5 THEN 1 ELSE 0)
    IN  IF milli < 0 THEN -degrees ELSE degrees

\* Mutants: display_temp() keeps the numbers it has loaded; a thermometer that is
\* lost leaves its last temperature up.
DisplayTemp_Keeps(milli) ==
    /\ milli # NoDevice /\ files
    /\ Paint((IF has_temp THEN <<>> ELSE <<DisplayImg(Image("temp_bg"), 20, 98)>>)
               \o DisplayInt(ReadTemp(milli), TempPlace))
    /\ has_temp' = TRUE /\ temp' = milli
    /\ digits' = TRUE /\ lost' = lost + Overwritten
    /\ UNCHANGED <<spi, on, files, views, text, screen>>

\* DISPLAY_TYPE_TEMP of a temperature: all buffers are freed in the end.
DisplayTemp(milli) ==
    /\ milli # NoDevice /\ files
    /\ Paint((IF has_temp THEN <<>> ELSE <<DisplayImg(Image("temp_bg"), 20, 98)>>)
               \o DisplayInt(ReadTemp(milli), TempPlace))
    /\ has_temp' = TRUE /\ temp' = milli
    /\ digits' = FALSE /\ lost' = lost + Overwritten
    /\ UNCHANGED <<spi, on, files, views, text, screen>>

\* Mutant: the area is blanked at the first reading without a thermometer only.
DisplayNoTemp_Late ==
    /\ Paint(IF ~has_temp THEN <<DisplayImg(Image("temp_blank"), 20, 98)>> ELSE <<>>)
    /\ has_temp' = FALSE /\ temp' = NoDevice
    /\ UNCHANGED <<spi, on, files, heap, text, screen>>

\* DISPLAY_TYPE_TEMP without a thermometer, or without a descriptor for popen().
DisplayNoTemp ==
    /\ Paint(IF has_temp THEN <<DisplayImg(Image("temp_blank"), 20, 98)>> ELSE <<>>)
    /\ has_temp' = FALSE /\ temp' = NoDevice
    /\ UNCHANGED <<spi, on, files, heap, text, screen>>

BatteryImage(icon) ==
    Image(CASE icon = "f" -> "bat_f" [] icon = "h" -> "bat_h" [] icon = "l" -> "bat_l"
            [] icon = "c" -> "bat_c" [] OTHER -> "bat_b")

DisplayBattery(icon) ==
    /\ Paint(<<DisplayImg(BatteryImage(icon), 0, 98)>>)
    /\ screen' = ShowBattery(screen, icon)
    /\ UNCHANGED <<spi, on, files, heap, area, text>>

NetImage(conn) ==
    Image(CASE conn = 1 -> "net_connected" [] conn = 0 -> "net_disconnected"
            [] OTHER -> "net_blank")

DisplayNet(conn) ==
    /\ Paint(<<DisplayImg(NetImage(conn), 100, 98)>>)
    /\ screen' = ShowNet(screen, conn)
    /\ UNCHANGED <<spi, on, files, heap, area, text>>

SpinnerImage(frame) ==
    IF frame >= 0 THEN <<"spinner", frame>> ELSE Image("spinner_blank")

DisplaySpinner(frame) ==
    /\ Paint(<<DisplayImg(SpinnerImage(frame), 130, 98)>>)
    /\ screen' = ShowSpinner(screen, frame)
    /\ UNCHANGED <<spi, on, files, heap, area, text>>

\* display(): the page "wait" first, then in any order; FrontPanel.tla has the order.
FirstPage == prog = "main" /\ screen.page = "welcome" /\ DisplayPage("wait")

Display ==
    /\ prog = "main" /\ screen.page # "welcome"
    /\ \/ \E page \in {"wait", "setup", "success", "fail"} : DisplayPage(page)
       \/ \E r \in Readings, u, label \in Units : DisplayData(r, u, label)
       \/ \E r \in Readings, u \in Units : DisplayUnit(r, u)
       \/ \E time \in Times : DisplayTimePage(time)
       \/ DisplayIdPage
       \/ \E ip \in Addresses : DisplayIpPage(ip)
       \/ \E milli \in Temperatures : DisplayTemp(milli)
       \/ DisplayNoTemp
       \/ \E icon \in BatteryStates : DisplayBattery(icon)
       \/ \E conn \in Connections : DisplayNet(conn)
       \/ \E frame \in Frames : DisplaySpinner(frame)

\* Sockets that are never closed (Upload.tla) leave no descriptor in the end.
RunOut ==
    /\ prog = "main"
    /\ files' = FALSE
    /\ UNCHANGED <<spi, prog, on, late, heap, area, text, screen, pictures>>

\* Nothing unloads the module once Welcome has been started.
Module ==
    /\ prog = "boot" /\ SpiNext
    /\ UNCHANGED <<prog, on, files, late, heap, area, text, screen, pictures>>

Next == Module \/ Welcome \/ FirstPage \/ Display \/ RunOut

Spec == Init /\ [][Next]_vars
-----------------------------------------------------------------------------
TypeOK ==
    /\ SpiTypeOK
    /\ prog \in {"boot", "main", "ended"}
    /\ on \in BOOLEAN /\ files \in BOOLEAN /\ digits \in BOOLEAN /\ has_temp \in BOOLEAN
    /\ late \in 0..MaxLate /\ lost \in Nat /\ views \in 0..MaxViews
    /\ temp \in Temperatures \cup {NoDevice}
    /\ screen.page \in Pages \cup {"welcome"} /\ screen.label \in Units

\* The device works, and everything asked for so far could be drawn.
Works == prog = "main" /\ on /\ files

InUpper(p) == p.y < UPPER_HEIGHT

\* What is read: numbers, blanks, minus, colons and dots.
IsGlyph(p) == p.image[1] \in {"num", "num_blank", "num_minus", "time_colon", "white"}

Character(p) ==
    CASE p.image = White -> Dot
      [] p.image[1] = "num" -> p.image[2]
      [] p.image[1] = "num_blank" -> Space
      [] p.image[1] = "num_minus" -> Minus
      [] p.image[1] = "time_colon" -> Colon

\* In reading order: by the lower edge, then from left to right.
Before(p, q) == p.y + p.h < q.y + q.h \/ (p.y + p.h = q.y + q.h /\ p.x < q.x)

Nth(glyphs, n) ==
    CHOOSE p \in glyphs : Cardinality({q \in glyphs : Before(q, p)}) = n - 1

Text(glyphs) == [n \in 1..Cardinality(glyphs) |-> Character(Nth(glyphs, n))]

UpperText == Text({p \in pictures : IsGlyph(p) /\ InUpper(p)})
TempText == Text({p \in pictures : IsGlyph(p) /\ ~InUpper(p)})

\* The number a text of digits, blanks and a minus says.
Value(chars) ==
    LET value[k \in 0..Len(chars)] ==
            IF k = 0 THEN 0
            ELSE IF chars[k] \in 0..9 THEN 10 * value[k - 1] + chars[k]
            ELSE value[k - 1]
        n == value[Len(chars)]
    IN  IF \E k \in 1..Len(chars) : chars[k] = Minus THEN -n ELSE n

Abs(n) == IF n < 0 THEN -n ELSE n

(* What can be read on the panel is the page display() was last asked for and    *)
(* nothing of the pages before it: its background, label and title, and its text, *)
(* character by character (main.c:596-704, lcd.c:312-690).                       *)
ShowsPage ==
    Works /\ screen.page # "welcome" =>
        LET page == screen.page
            backs == {p \in pictures : InUpper(p) /\ ~IsGlyph(p)
                                         /\ p.image # Image("welcome")}
            front == CASE page = "data" -> {Label(screen.label)}
                       [] page = "id" -> {Upper("id_title")}
                       [] page = "ip" -> {Upper("ip_title")}
                       [] OTHER -> {}
        IN  /\ backs = {Upper(UpperImage(page))} \cup front
            /\ page \in {"ip", "time"} => UpperText = text
            /\ page = "id" =>
                 UpperText = [k \in 1..(IF Len(text) < 12 THEN Len(text) ELSE 12)
                                |-> Digit(text[k])]
            /\ page \notin {"data", "id", "ip", "time"} => UpperText = <<>>

(* The numbers read back from the panel are the reading in the unit asked for,   *)
(* short of what does not fit in five digits and to within one, as data_convert() *)
(* cuts off; and the temperature to within half a degree, or none (main.c:         *)
(* 540-560, 755-800).                                                            *)
ShowsNumbers ==
    Works =>
        /\ screen.page = "data" =>
             LET exact == Clip(screen.value.reading
                                 \div (IF screen.value.unit = "pcs" THEN 1 ELSE 20),
                               NumPlace)
             IN  Value(UpperText) \in (exact - 1)..exact
        /\ temp # NoDevice =>
             TempText # <<>> /\ Abs(1000 * Value(TempText) - temp) <= 500
        /\ temp = NoDevice => TempText = <<>>

(* Every picture lies on the panel as it was drawn, and no two overlap unless one *)
(* is drawn into the other: nothing is cut off or half hidden (img.h:4-75,        *)
(* lcd.c:188-228, img.c:151-186).                                               *)
Legible ==
    \A p \in pictures :
        /\ p.x \in 0..(LCD_W - p.w) /\ p.y \in 0..(LCD_H - p.h)
        /\ p.image # Garbled
        /\ \A q \in pictures : Overlap(p, q) => Inside(p, q) \/ Inside(q, p)
        /\ IsGlyph(p) => \A q \in pictures : IsGlyph(q) /\ Overlap(p, q) => p = q

(* Only the pages ID and IP cost memory, and each view twenty buffers: whatever   *)
(* else is drawn, the numbers they left loaded are used, freed or lost but once  *)
(* (lcd.c:495-557, 571-644).                                                     *)
LeaksOnPagesOnly ==
    /\ lost + Overwritten <= 20 * views
    /\ files => lost + Overwritten = 20 * views
=============================================================================
