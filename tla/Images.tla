-------------------------------- MODULE Images --------------------------------
(* The pictures the LCD is composed of: img.h's layout of the panel, img.c's    *)
(* table of images and its scaling, lcd.c's drawing of numbers and texts.  A    *)
(* picture is an image at a place; a drawing is a sequence of pictures.         *)
EXTENDS Integers, Sequences, FiniteSets

LCD_W == 160
LCD_H == 128
UPPER_HEIGHT == 98
NUM_WIDTH == 30
NUM_HEIGHT == 36
BPP == 2                \* bytes per pixel
BLOCK == 900            \* bytes per write() of LCD_BlockWrite()

\* Characters of a text: a digit is itself.
Dot == 10
Colon == 11
Space == 12
Minus == 13
Letter == 14

\* An image is a C variable, and the index into it where it is an array.
Image(name) == <<name, 0>>
Num(d) == <<"num", d>>
White == Image("white")         \* LCD_Fill()
Garbled == Image("garbled")

Size(image) ==
    LET name == image[1]
    IN  CASE name = "welcome" -> <<LCD_W, LCD_H>>
          [] name \in {"num", "num_blank", "num_minus"} -> <<NUM_WIDTH, NUM_HEIGHT>>
          [] name = "time_colon" -> <<10, NUM_HEIGHT>>
          [] name \in {"unit_pcs", "unit_ug"} -> <<LCD_W, 20>>
          [] name \in {"bat_f", "bat_h", "bat_l", "bat_c", "bat_b"} -> <<20, 30>>
          [] name \in {"temp_bg", "temp_blank"} -> <<80, 30>>
          [] name \in {"net_connected", "net_disconnected", "net_blank", "spinner",
                       "spinner_blank"} -> <<30, 30>>
          [] name \in {"id_title", "ip_title"} -> <<28, 24>>
          [] OTHER -> <<LCD_W, UPPER_HEIGHT>>

Place(image, x, y, w, h) == [image |-> image, x |-> x, y |-> y, w |-> w, h |-> h]

\* display_img() of an image as it is stored.
DisplayImg(image, x, y) == Place(image, x, y, Size(image)[1], Size(image)[2])
-----------------------------------------------------------------------------
(* resize_image().                                                             *)

RoundDiv(dividend, divisor) == (dividend + (divisor \div 2)) \div divisor

\* get_pixel() fails outside the source, and the pixel drawn is then a stale one.
SamplesInside(from, to) == \A x \in 0..(to - 1) : RoundDiv(x * from, to) < from

\* A number image scaled to w by h.
Resized(image, w, h) ==
    IF SamplesInside(NUM_WIDTH, w) /\ SamplesInside(NUM_HEIGHT, h)
    THEN image
    ELSE Garbled
-----------------------------------------------------------------------------
(* Numbers and texts.                                                          *)

\* Where display_int() draws: the last digit's corner, and the digits' size.
NumPlace ==
    [digits |-> 5, max |-> 99999, min |-> 0, x |-> 4 * NUM_WIDTH, y |-> 20,
     w |-> NUM_WIDTH, h |-> NUM_HEIGHT]

TempPlace ==
    [digits |-> 3, max |-> 999, min |-> -99, x |-> 61, y |-> UPPER_HEIGHT + 2,
     w |-> 20, h |-> 24]

Clip(n, place) ==
    IF n > place.max THEN place.max ELSE IF n < place.min THEN place.min ELSE n

\* Mutant: the minus takes the place of the first digit.
Symbol_EarlyMinus(left, i, negative) ==
    IF negative /\ i > 0 /\ left[i] < 10 THEN Image("num_minus")
    ELSE IF i = 0 \/ left[i] # 0 THEN Num(left[i] % 10)
    ELSE Image("num_blank")

\* The i-th place from the right, when left[i] of the number remains: a digit,
\* the minus once no digit is left, then blanks.
Symbol(left, i, negative) ==
    IF i = 0 \/ left[i] # 0 THEN Num(left[i] % 10)
    ELSE IF negative /\ (i = 1 \/ left[i - 1] # 0) THEN Image("num_minus")
    ELSE Image("num_blank")

\* display_int(): from right to left.
DisplayInt(num, place) ==
    LET n == Clip(num, place)
        left[i \in 0..place.digits] ==
            IF i = 0 THEN (IF n < 0 THEN -n ELSE n) ELSE left[i - 1] \div 10
    IN  [k \in 1..place.digits |->
           Place(Resized(Symbol(left, k - 1, n < 0), place.w, place.h),
                 place.x - (k - 1) * place.w, place.y, place.w, place.h)]

\* What is no digit is drawn as 0.
Digit(c) == IF c \in 0..9 THEN c ELSE 0

\* display_id(): two lines of six.
DisplayId(id) ==
    [k \in 1..(IF Len(id) < 12 THEN Len(id) ELSE 12) |->
       Place(Resized(Num(Digit(id[k])), 20, 24),
             20 + ((k - 1) % 6) * 20, 26 + ((k - 1) \div 6) * 34, 20, 24)]

\* Mutant: the widths of dot and digit are swapped.
IpAdvance_Swapped(c) == IF c = Dot THEN 12 ELSE 2

IpAdvance(c) == IF c = Dot THEN 2 ELSE 12

\* What ifconfig prints for an address, if any: four numbers below 256 and the dots
\* between them.
IpFormat(ip) ==
    /\ ip \in Seq(0..9 \cup {Dot})
    /\ Cardinality({k \in 1..Len(ip) : ip[k] # Dot}) <= 12
    /\ Cardinality({k \in 1..Len(ip) : ip[k] = Dot}) <= 3

\* display_ip(): a dot is filled in by two pixels.
DisplayIp(ip) ==
    LET x[k \in 1..Len(ip)] == IF k = 1 THEN 10 ELSE x[k - 1] + IpAdvance(ip[k - 1])
    IN  [k \in 1..Len(ip) |->
           IF ip[k] = Dot
           THEN Place(White, x[k], 26 + 15 - 2, 2, 2)
           ELSE Place(Resized(Num(ip[k]), 12, 15), x[k], 26, 12, 15)]

TimeImage(c) ==
    CASE c \in 0..9 -> Num(c)
      [] c = Space -> Image("num_blank")
      [] c = Colon -> Image("time_colon")

\* display_time() draws nothing in another format.
TimeFormat(time) ==
    /\ Len(time) = 5
    /\ time[1] \in 0..9 \cup {Space} /\ time[2] \in 0..9
    /\ time[3] = Colon
    /\ time[4] \in 0..9 /\ time[5] \in 0..9

DisplayTime(time) ==
    LET x[k \in 1..Len(time)] ==
            IF k = 1 THEN 15 ELSE x[k - 1] + Size(TimeImage(time[k - 1]))[1]
    IN  IF TimeFormat(time)
        THEN [k \in 1..5 |-> DisplayImg(TimeImage(time[k]), x[k], 40)]
        ELSE <<>>
-----------------------------------------------------------------------------
(* Onto the panel.  What is shown is a set of pictures, smaller ones lying on   *)
(* top of those they are drawn into.                                           *)

Inside(p, q) ==
    /\ q.x <= p.x /\ p.x + p.w <= q.x + q.w
    /\ q.y <= p.y /\ p.y + p.h <= q.y + q.h

Overlap(p, q) ==
    /\ p.x < q.x + q.w /\ q.x < p.x + p.w
    /\ p.y < q.y + q.h /\ q.y < p.y + p.h

\* The last write() of LCD_BlockWrite(), after its loop over whole blocks.
Blocks(n) == IF n > BLOCK THEN (n - 1) \div BLOCK ELSE 0
LastBlock(n) == (n - BLOCK) - BLOCK * Blocks(n) + BLOCK

\* LCD_ShowImageRaw(): the far corner is computed in eight bits and has to lie on
\* the panel; LCD_Fill() does not look.
Accepts(p) ==
    \/ p.image = White
    \/ (p.x + p.w - 1) % 256 <= LCD_W - 1 /\ (p.y + p.h - 1) % 256 <= LCD_H - 1

Show(drawn, p) ==
    IF ~Accepts(p) THEN drawn
    ELSE {q \in drawn : ~Inside(q, p)}
           \cup {IF LastBlock(BPP * p.w * p.h) \in 1..BLOCK THEN p
                 ELSE [p EXCEPT !.image = Garbled]}

\* One picture after the other.
Drawn(drawn, drawing) ==
    LET after[k \in 0..Len(drawing)] ==
            IF k = 0 THEN drawn ELSE Show(after[k - 1], drawing[k])
    IN  after[Len(drawing)]
=============================================================================
