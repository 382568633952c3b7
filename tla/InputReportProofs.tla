-------------------------- MODULE InputReportProofs -------------------------
(***************************************************************************)
(* Whatever a browser says of its gamepad, the words and reports stay      *)
(* within their widths, a part of a report is torn only if it was written  *)
(* to meanwhile, and a report read in a quiet moment shows the last frame. *)
(***************************************************************************)
EXTENDS InputReport, SequenceTheorems, TLAPS

Axes == [h : 0..StickMax, v : 0..StickMax]

-----------------------------------------------------------------------------
(* The mapping.                                                            *)

\* A quotient is within a bound if the dividend is.
LEMMA QuotientBound ==
  ASSUME NEW n \in Nat, NEW d \in Nat \ {0}, NEW k \in Nat, n < (k + 1) * d
  PROVE  n \div d \in 0..k
OBVIOUS

LEMMA StickRange ==
  ASSUME NEW v \in Int
  PROVE  axis_to_stick(v) \in 0..StickMax
<1> USE UnitAssumption
<1> DEFINE x == Clamp(v) + Unit
           n == x * StickMax + Unit
           d == 2 * Unit
<1>1. x \in Nat /\ x <= 2 * Unit
  BY DEF Clamp
<1>2. axis_to_stick(v) = n \div d
  BY DEF axis_to_stick
<1> HIDE DEF x
<1>3. n \in Nat /\ d \in Nat \ {0} /\ StickMax \in Nat /\ n < (StickMax + 1) * d
  BY <1>1 DEF StickMax
<1> HIDE DEF n, d
<1>4. n \div d \in 0..StickMax
  BY <1>3, QuotientBound
<1>5. QED
  BY <1>2, <1>4

LEMMA MappedRange ==
  ASSUME NEW v \in Int
  PROVE  Mapped(v) \in 0..StickMax
<1> DEFINE n == IF v < 0 THEN 0 ELSE v \div Unit
<1>1. n \in Int /\ n >= 0
  <2>1. CASE v < 0
    BY <2>1
  <2>2. CASE ~(v < 0)
    <3>1. v \in Nat /\ Unit \in Nat \ {0} /\ v < (v + 1) * Unit
      BY <2>2, UnitAssumption
    <3>2. v \div Unit \in 0..v
      BY <3>1, QuotientBound
    <3>3. QED
      BY <2>2, <3>2
  <2>3. QED
    BY <2>1, <2>2
<1>2. Mapped(v) = IF n > StickMax THEN StickMax ELSE n
  BY DEF Mapped
<1> HIDE DEF n
<1>3. QED
  BY <1>1, <1>2 DEF StickMax

LEMMA MapAxesRange ==
  ASSUME NEW axes \in Seq(Int)
  PROVE  map_axes(axes).l \in Axes /\ map_axes(axes).r \in Axes
<1>1. \A i \in Nat : AxisAt(axes, i) \in Int /\ -AxisAt(axes, i) \in Int
  BY DEF AxisAt
<1>2. \A i \in Nat : /\ axis_to_stick(AxisAt(axes, i)) \in 0..StickMax
                     /\ axis_to_stick(-AxisAt(axes, i)) \in 0..StickMax
                     /\ Mapped(AxisAt(axes, i)) \in 0..StickMax
                     /\ StickMax - Mapped(AxisAt(axes, i)) \in 0..StickMax
  <2>1. \A n \in 0..StickMax : StickMax - n \in 0..StickMax
    BY DEF StickMax
  <2>2. QED
    BY <1>1, <2>1, StickRange, MappedRange
<1>3. QED
  BY <1>2 DEF map_axes, Stick, Axes

LEMMA MapButtonsRange ==
  ASSUME NEW web
  PROVE  map_buttons(web) \in SUBSET Bits
<1>1. DOMAIN WebOrder = 1..18
  BY DEF WebOrder
<1>2. \A i \in 1..18 : SwitchButton[WebOrder[i]] \in Bits
  BY DEF WebOrder, SwitchButton, Bits
<1>3. QED
  BY <1>1, <1>2 DEF map_buttons

-----------------------------------------------------------------------------
(* Packing.                                                                *)

LEMMA FlgMaxNat == FlgMax \in Nat
BY DEF FlgMax, Word

LEMMA Widths == FlgMax = 4096 * 4096 - 1
BY DEF FlgMax, Word

LEMMA WithinWidth == \A w \in Nat : w <= FlgMax => w <= 4096 * 4096 - 1
BY Widths

LEMMA StickTypes ==
  ASSUME NEW s \in Axes
  PROVE  /\ s = [h |-> s.h, v |-> s.v]
         /\ s.h \in Nat /\ s.v \in Nat /\ s.h < 4096 /\ s.v < 4096
         /\ Pack(s) = s.h + s.v * 4096
<1>1. s = [h |-> s.h, v |-> s.v] /\ s.h \in 0..StickMax /\ s.v \in 0..StickMax
  BY DEF Axes
<1>2. \A k \in 0..StickMax : k \in Nat /\ k < 4096
  BY DEF StickMax
<1>3. s.h \in Nat /\ s.v \in Nat /\ s.h < 4096 /\ s.v < 4096
  BY <1>1, <1>2
<1>4. Pack(s) = s.h + s.v * 4096
  BY <1>3 DEF Pack, Word
<1>5. QED
  BY <1>1, <1>3, <1>4

LEMMA PackRange ==
  ASSUME NEW s \in Axes
  PROVE  Pack(s) \in 0..FlgMax
<1> DEFINE h == s.h
           v == s.v
           p == Pack(s)
<1>1. /\ h \in Nat /\ v \in Nat /\ h < 4096 /\ v < 4096
      /\ p = h + v * 4096
  BY StickTypes
<1> HIDE DEF h, v, p
<1>2. p \in Nat /\ p <= 4096 * 4096 - 1
  BY <1>1
<1>3. p \in Nat /\ p <= FlgMax
  BY <1>2, Widths
<1>4. p \in 0..FlgMax
  BY <1>3, FlgMaxNat
<1>5. QED
  BY <1>4 DEF p

\* The three bytes of a stick are bytes, and say what was packed.
LEMMA BytesOfStick ==
  ASSUME NEW w \in 0..FlgMax
  PROVE  LET s == Unpack(StickByte(w, 1), StickByte(w, 2), StickByte(w, 3))
         IN  s \in Axes /\ Pack(s) = w /\ \A k \in 1..3 : StickByte(w, k) \in 0..255
<1> DEFINE a == w % 256
           b == (w \div 256) % 256
           c == (w \div 65536) % 256
<1>0. w \in Nat /\ w <= 4096 * 4096 - 1
  <2>1. w \in Nat /\ w <= FlgMax
    BY FlgMaxNat
  <2>2. QED
    BY <2>1, WithinWidth
<1>1. StickByte(w, 1) = a /\ StickByte(w, 2) = b /\ StickByte(w, 3) = c
  <2>1. <<1, 256, 65536>>[1] = 1 /\ <<1, 256, 65536>>[2] = 256 /\ <<1, 256, 65536>>[3] = 65536
    OBVIOUS
  <2>2. w \div 1 = w
    BY <1>0
  <2>3. QED
    BY <2>1, <2>2 DEF StickByte
<1>2. a \in 0..255 /\ b \in 0..255 /\ c \in 0..255 /\ w = a + 256 * b + 65536 * c
  BY <1>0
<1> HIDE DEF a, b, c
<1> DEFINE lo == b % 16
           hi == b \div 16
<1>3. lo \in 0..15 /\ hi \in 0..15 /\ b = lo + 16 * hi
  BY <1>2
<1> DEFINE h == a + 256 * lo
           v == hi + 16 * c
<1>4. Unpack(a, b, c) = [h |-> h, v |-> v]
  BY DEF Unpack, Stick
<1> HIDE DEF lo, hi
<1>5. h + v * 4096 = w
  BY <1>2, <1>3
<1>6. Unpack(a, b, c) \in Axes /\ Pack(Unpack(a, b, c)) = w
  <2>1. h \in 0..StickMax /\ v \in 0..StickMax
    BY <1>2, <1>3 DEF StickMax
  <2> HIDE DEF h, v
  <2>2. Unpack(a, b, c) \in Axes
    BY <1>4, <2>1 DEF Axes
  <2>3. Pack(Unpack(a, b, c)) = h + v * 4096
    BY <1>4 DEF Pack, Word
  <2>4. QED
    BY <1>5, <2>2, <2>3
<1>7. QED
  BY <1>1, <1>2, <1>6

\* Which byte of which word comes next.
LEMMA Places ==
  \A n \in 0..8 : /\ n + 1 \in 1..9
                  /\ n \in 0..2 => n + 1 \in 1..3
                  /\ n \in 3..5 => n \notin 0..2 /\ n - 2 \in 1..3
                  /\ n \in 6..8 => n \notin 0..2 /\ n \notin 3..5 /\ n - 5 \in 1..3
                  /\ n \in 0..2 \/ n \in 3..5 \/ n \in 6..8
                  /\ n + 1 <= 3 <=> n \in 0..2
OBVIOUS

\* The three bytes of the buttons hold every bit.
LEMMA BytesOfButtons ==
  ASSUME NEW w \in SUBSET Bits
  PROVE  /\ \A k \in 1..3 : ButtonByte(w, k) \in SUBSET Bits
         /\ ButtonByte(w, 1) \cup ButtonByte(w, 2) \cup ButtonByte(w, 3) = w
<1>1. \A k \in 1..3 : ButtonByte(w, k) \in SUBSET Bits
  BY DEF ButtonByte
<1>2. ButtonByte(w, 1) = w \cap (0..7) /\ ButtonByte(w, 2) = w \cap (8..15) /\ ButtonByte(w, 3) = w \cap (16..23)
  BY DEF ButtonByte
<1>3. \A b \in w : b \in 0..7 \/ b \in 8..15 \/ b \in 16..23
  BY DEF Bits
<1>4. QED
  BY <1>1, <1>2, <1>3

-----------------------------------------------------------------------------
(* The invariant.                                                          *)

\* What has been read of a word that was not written to is what it holds.
JoyExact ==
    /\ joy \in Seq((SUBSET Bits) \cup (0..255))
    /\ \A k \in 1..3 : /\ (Len(joy) >= k /\ "button" \notin touched) =>
                                joy[k] = ButtonByte(button_flg, k)
                       /\ (Len(joy) >= k + 3 /\ "stick_l" \notin touched) =>
                                joy[k + 3] = StickByte(stick_l_flg, k)
                       /\ (Len(joy) >= k + 6 /\ "stick_r" \notin touched) =>
                                joy[k + 6] = StickByte(stick_r_flg, k)

IRInv == IRTypeOK /\ JoyExact

LEMMA FrameTypes ==
  ASSUME NEW p \in Pads
  PROVE  Frame(p) \in Seq(Commands) /\ Len(Frame(p)) = 3
<1>1. p.button_status \in {<<>>} \cup [1..1 -> SUBSET Bits] /\ p.axes \in Seq(Int)
  BY PadsAssumption
<1> DEFINE mask == IF p.button_status = <<>> THEN map_buttons(p.buttons) ELSE p.button_status[1]
<1>2. mask \in SUBSET Bits
  BY <1>1, MapButtonsRange
<1> DEFINE l == map_axes(p.axes).l
           r == map_axes(p.axes).r
<1>3. l \in Axes /\ r \in Axes
  BY <1>1, MapAxesRange
<1>4. Frame(p) = <<[cmd |-> "button", mask |-> mask], [cmd |-> "stick_l", stick |-> l],
                   [cmd |-> "stick_r", stick |-> r]>>
  BY DEF Frame
<1> HIDE DEF mask, l, r
<1>5. /\ [cmd |-> "button", mask |-> mask] \in Commands
      /\ [cmd |-> "stick_l", stick |-> l] \in Commands
      /\ [cmd |-> "stick_r", stick |-> r] \in Commands
  BY <1>2, <1>3 DEF Commands, Axes
<1>6. QED
  BY <1>4, <1>5

LEMMA IRInvInit == IRInit => IRInv
<1> SUFFICES ASSUME IRInit PROVE IRInv
  OBVIOUS
<1>1. Centre \in Axes
  BY DEF Centre, Stick, Axes, StickMax
<1>2. Pack(Centre) \in 0..FlgMax
  BY <1>1, PackRange
<1>3. Len(<<>>) = 0 /\ <<>> \in Seq(Commands) /\ <<>> \in Seq((SUBSET Bits) \cup (0..255))
  OBVIOUS
<1>4. IRTypeOK
  BY <1>1, <1>2, <1>3, InputBoundsAssumption DEF IRInit, IRTypeOK, Axes
<1>5. JoyExact
  BY <1>3 DEF IRInit, JoyExact
<1>6. QED
  BY <1>4, <1>5 DEF IRInv

LEMMA IRInvStep == IRInv /\ [IRNext]_irvars => IRInv'
<1> SUFFICES ASSUME IRInv, [IRNext]_irvars PROVE IRInv'
  OBVIOUS
<1> USE DEF IRInv
<1>1. ASSUME NEW p \in Pads, GamepadState(p) PROVE IRInv'
  <2>1. queue' = queue \o Frame(p) /\ Len(queue) + 3 <= MaxQueue /\ pad' = p
        /\ UNCHANGED <<flags, joy, touched, shown>>
    BY <1>1 DEF GamepadState
  <2>2. queue' \in Seq(Commands) /\ Len(queue') <= MaxQueue
    <3>1. queue \in Seq(Commands) /\ Frame(p) \in Seq(Commands) /\ Len(Frame(p)) = 3
      BY FrameTypes DEF IRTypeOK
    <3> DEFINE F == Frame(p)
    <3>2. queue \in Seq(Commands) /\ F \in Seq(Commands) /\ Len(F) = 3 /\ queue' = queue \o F
      BY <2>1, <3>1
    <3> HIDE DEF F
    <3>3. queue' \in Seq(Commands) /\ Len(queue') = Len(queue) + Len(F)
      BY <3>2, ConcatProperties
    <3>4. QED
      BY <2>1, <3>2, <3>3, InputBoundsAssumption
  <2>3. IRTypeOK'
    BY <2>1, <2>2 DEF IRTypeOK, flags
  <2>4. JoyExact'
    BY <2>1 DEF JoyExact, flags
  <2>5. QED
    BY <2>3, <2>4
<1>2. CASE Worker
  <2>1. PICK cmd \in {"button", "stick_l", "stick_r"} : Takes(cmd)
    BY <1>2 DEF Worker, send_button, send_stick_l, send_stick_r
  <2>2. /\ queue \in Seq(Commands) /\ queue # <<>> /\ Head(queue).cmd = cmd /\ queue' = Tail(queue)
        /\ UNCHANGED <<pad, joy, shown>> /\ Len(queue) <= MaxQueue
        /\ touched' = IF joy = <<>> THEN {} ELSE touched \cup {cmd}
    BY <2>1 DEF Takes, IRTypeOK
  <2>3. queue' \in Seq(Commands) /\ Len(queue') <= MaxQueue
    BY <2>2, InputBoundsAssumption
  <2>4. Head(queue) \in Commands
    BY <2>2
  <2>5. CASE send_button
    <3>1. button_flg' = Head(queue).mask /\ UNCHANGED <<stick_l_flg, stick_r_flg>> /\ cmd = "button"
      BY <2>2, <2>5 DEF send_button, Takes
    <3>2. button_flg' \in SUBSET Bits
      BY <2>2, <2>4, <3>1 DEF Commands
    <3>3. IRTypeOK'
      BY <2>2, <2>3, <3>1, <3>2 DEF IRTypeOK
    <3>4. JoyExact'
      BY <2>2, <3>1 DEF JoyExact
    <3>5. QED
      BY <3>3, <3>4
  <2>6. CASE send_stick_l
    <3>1. stick_l_flg' = Pack(Head(queue).stick) /\ UNCHANGED <<button_flg, stick_r_flg>> /\ cmd = "stick_l"
      BY <2>2, <2>6 DEF send_stick_l, Takes
    <3>2. Head(queue).stick \in Axes
      BY <2>2, <2>4, <3>1 DEF Commands, Axes
    <3>3. stick_l_flg' \in 0..FlgMax
      BY <3>1, <3>2, PackRange
    <3>4. IRTypeOK'
      BY <2>2, <2>3, <3>1, <3>3 DEF IRTypeOK
    <3>5. JoyExact'
      BY <2>2, <3>1 DEF JoyExact
    <3>6. QED
      BY <3>4, <3>5
  <2>7. CASE send_stick_r
    <3>1. stick_r_flg' = Pack(Head(queue).stick) /\ UNCHANGED <<button_flg, stick_l_flg>> /\ cmd = "stick_r"
      BY <2>2, <2>7 DEF send_stick_r, Takes
    <3>2. Head(queue).stick \in Axes
      BY <2>2, <2>4, <3>1 DEF Commands, Axes
    <3>3. stick_r_flg' \in 0..FlgMax
      BY <3>1, <3>2, PackRange
    <3>4. IRTypeOK'
      BY <2>2, <2>3, <3>1, <3>3 DEF IRTypeOK
    <3>5. JoyExact'
      BY <2>2, <3>1 DEF JoyExact
    <3>6. QED
      BY <3>4, <3>5
  <2>8. QED
    BY <1>2, <2>5, <2>6, <2>7 DEF Worker
<1>3. CASE ReadByte
  <2>a. Len(joy) < 9 /\ joy' = Append(joy, NextByte) /\ UNCHANGED <<pad, queue, flags, touched, shown>>
    BY <1>3 DEF ReadByte
  <2>b. joy \in Seq((SUBSET Bits) \cup (0..255))
    BY DEF JoyExact
  <2>c. Len(joy) \in 0..8
    <3>1. Len(joy) \in Nat
      BY <2>b
    <3>2. \A k \in Nat : k < 9 => k \in 0..8
      OBVIOUS
    <3>3. QED
      BY <2>a, <3>1, <3>2
  <2>1. Len(joy) \in 0..8 /\ joy' = Append(joy, NextByte) /\ UNCHANGED <<pad, queue, flags, touched, shown>>
        /\ joy \in Seq((SUBSET Bits) \cup (0..255))
    BY <2>a, <2>b, <2>c
  <2> DEFINE n == Len(joy)
  <2>0. n \in 0..8
    BY <2>1
  <2>2. /\ n \in 0..2 => NextByte = ButtonByte(button_flg, n + 1) /\ NextByte \in SUBSET Bits
        /\ n \in 3..5 => NextByte = StickByte(stick_l_flg, n - 2) /\ NextByte \in 0..255
        /\ n \in 6..8 => NextByte = StickByte(stick_r_flg, n - 5) /\ NextByte \in 0..255
    <3>1. stick_l_flg \in 0..FlgMax /\ stick_r_flg \in 0..FlgMax
          /\ button_flg \in SUBSET Bits
      BY DEF IRTypeOK
    <3> DEFINE Bytes == 0..255
    <3>2. \A k \in 1..3 : /\ ButtonByte(button_flg, k) \in SUBSET Bits
                          /\ StickByte(stick_l_flg, k) \in Bytes /\ StickByte(stick_r_flg, k) \in Bytes
      BY <3>1, BytesOfStick, BytesOfButtons
    <3> HIDE DEF Bytes
    <3>3. n \in 0..2 => NextByte = ButtonByte(button_flg, n + 1) /\ n + 1 \in 1..3
      BY <2>0, Places DEF NextByte
    <3>4. n \in 3..5 => NextByte = StickByte(stick_l_flg, n - 2) /\ n - 2 \in 1..3
      <4>1. n \in 3..5 => n \notin 0..2 /\ n - 2 \in 1..3
        BY <2>0, Places
      <4>2. QED
        BY <4>1 DEF NextByte
    <3>5. n \in 6..8 => NextByte = StickByte(stick_r_flg, n - 5) /\ n - 5 \in 1..3
      <4>1. n \in 6..8 => n \notin 0..2 /\ n \notin 3..5 /\ n - 5 \in 1..3
        BY <2>0, Places
      <4>2. QED
        BY <4>1 DEF NextByte
    <3>6. n \in 0..2 => NextByte \in SUBSET Bits
      BY <3>2, <3>3
    <3>7. n \in 3..5 => NextByte \in Bytes
      BY <3>2, <3>4
    <3>8. n \in 6..8 => NextByte \in Bytes
      BY <3>2, <3>5
    <3>9. QED
      BY <3>3, <3>4, <3>5, <3>6, <3>7, <3>8 DEF Bytes
  <2> DEFINE B == NextByte
  <2> HIDE DEF B
  <2>3. B \in (SUBSET Bits) \cup (0..255)
    BY <2>1, <2>2 DEF B
  <2>4. /\ joy' \in Seq((SUBSET Bits) \cup (0..255)) /\ Len(joy') = n + 1 /\ joy'[n + 1] = B
        /\ \A i \in 1..n : joy'[i] = joy[i]
    BY <2>1, <2>3 DEF B
  <2>5. IRTypeOK'
    <3>1. ASSUME NEW i \in 1..(n + 1)
          PROVE  IF i <= 3 THEN joy'[i] \subseteq Bits ELSE joy'[i] \in 0..255
      <4>1. CASE i \in 1..n
        <5>1. i \in DOMAIN joy /\ joy'[i] = joy[i]
          BY <2>1, <2>4, <4>1
        <5>2. IF i <= 3 THEN joy[i] \subseteq Bits ELSE joy[i] \in 0..255
          BY <5>1 DEF IRTypeOK
        <5>3. QED
          BY <5>1, <5>2
      <4>2. CASE i = n + 1
        <5>1. joy'[i] = NextByte
          BY <2>4, <4>2 DEF B
        <5>2. i <= 3 => n \in 0..2
          BY <2>0, <4>2, Places
        <5>3. ~(i <= 3) => n \in 3..5 \/ n \in 6..8
          BY <2>0, <4>2, Places
        <5>4. QED
          BY <2>2, <5>1, <5>2, <5>3
      <4>3. i \in 1..n \/ i = n + 1
        BY <2>0
      <4>4. QED
        BY <4>1, <4>2, <4>3
    <3>2. DOMAIN joy' = 1..(n + 1) /\ Len(joy') <= 9
      <4>1. DOMAIN joy' = 1..Len(joy')
        BY <2>4
      <4>2. \A k \in 1..9 : k <= 9
        OBVIOUS
      <4>3. n + 1 \in 1..9
        BY <2>0, Places
      <4>4. QED
        BY <2>4, <4>1, <4>2, <4>3
    <3>3. QED
      BY <2>1, <3>1, <3>2 DEF IRTypeOK, flags
  <2>6. JoyExact'
    <3>1. UNCHANGED <<button_flg, stick_l_flg, stick_r_flg, touched>>
      BY <2>1 DEF flags
    <3>3. ASSUME NEW k \in 1..3
          PROVE  /\ (Len(joy') >= k /\ "button" \notin touched) => joy'[k] = ButtonByte(button_flg, k)
                 /\ (Len(joy') >= k + 3 /\ "stick_l" \notin touched) => joy'[k + 3] = StickByte(stick_l_flg, k)
                 /\ (Len(joy') >= k + 6 /\ "stick_r" \notin touched) => joy'[k + 6] = StickByte(stick_r_flg, k)
      <4>1. CASE n = k - 1
        BY <2>1, <2>2, <2>4, <4>1 DEF JoyExact, B
      <4>2. CASE n = k + 2
        BY <2>1, <2>2, <2>4, <4>2 DEF JoyExact, B
      <4>3. CASE n = k + 5
        BY <2>1, <2>2, <2>4, <4>3 DEF JoyExact, B
      <4>4. CASE n # k - 1 /\ n # k + 2 /\ n # k + 5
        BY <2>1, <2>4, <4>4 DEF JoyExact
      <4>5. QED
        BY <4>1, <4>2, <4>3, <4>4
    <3>4. QED
      BY <2>4, <3>1, <3>3 DEF JoyExact
  <2>7. QED
    BY <2>5, <2>6
<1>4. CASE SendReport
  <2>1. Len(joy) = 9 /\ joy' = <<>> /\ touched' = {} /\ UNCHANGED <<pad, queue, flags>>
        /\ shown' = [buttons |-> joy[1] \cup joy[2] \cup joy[3],
                     l |-> Unpack(joy[4], joy[5], joy[6]), r |-> Unpack(joy[7], joy[8], joy[9])]
    BY <1>4 DEF SendReport
  <2> DEFINE Bytes == 0..255
  <2>2. (\A i \in 1..3 : joy[i] \in SUBSET Bits) /\ \A i \in 4..9 : joy[i] \in Bytes
    <3>1. DOMAIN joy = 1..9
      BY <2>1 DEF JoyExact
    <3>2. \A i \in 1..9 : IF i <= 3 THEN joy[i] \subseteq Bits ELSE joy[i] \in 0..255
      BY <3>1 DEF IRTypeOK
    <3>3. QED
      BY <3>2
  <2>3. \A a, b, c \in Bytes : Unpack(a, b, c) \in Axes
    BY DEF Unpack, Stick, Axes, StickMax
  <2> HIDE DEF Bytes
  <2>4. Len(<<>>) = 0 /\ <<>> \in Seq((SUBSET Bits) \cup (0..255))
    <3>1. Len(<<>>) = 0 /\ \A S : <<>> \in Seq(S)
      OBVIOUS
    <3>2. QED
      BY <3>1
  <2>5. Unpack(joy[4], joy[5], joy[6]) \in Axes /\ Unpack(joy[7], joy[8], joy[9]) \in Axes
    <3>1. joy[4] \in Bytes /\ joy[5] \in Bytes /\ joy[6] \in Bytes
      BY <2>2
    <3>2. joy[7] \in Bytes /\ joy[8] \in Bytes /\ joy[9] \in Bytes
      BY <2>2
    <3>3. Unpack(joy[4], joy[5], joy[6]) \in Axes
      BY <2>3, <3>1
    <3>4. Unpack(joy[7], joy[8], joy[9]) \in Axes
      BY <2>3, <3>2
    <3>5. QED
      BY <3>3, <3>4
  <2>6. shown' \in [buttons : SUBSET Bits, l : Axes, r : Axes]
    <3>1. joy[1] \in SUBSET Bits /\ joy[2] \in SUBSET Bits /\ joy[3] \in SUBSET Bits
      BY <2>2
    <3>2. joy[1] \cup joy[2] \cup joy[3] \in SUBSET Bits
      BY <3>1
    <3>3. QED
      BY <2>1, <2>5, <3>2
  <2>7. IRTypeOK'
    BY <2>1, <2>4, <2>6 DEF IRTypeOK, flags, Axes
  <2>8. JoyExact'
    BY <2>1, <2>4 DEF JoyExact
  <2>9. QED
    BY <2>7, <2>8
<1>5. CASE UNCHANGED irvars
  BY <1>5 DEF irvars, flags, IRTypeOK, JoyExact
<1>6. QED
  BY <1>1, <1>2, <1>3, <1>4, <1>5 DEF IRNext, Sender

\* For any pads: buttons and sticks keep their widths on the whole way from
\* the browser to the console.
THEOREM InputTypeCorrect == IRSpec => []IRTypeOK
<1>1. IRInv => IRTypeOK
  BY DEF IRInv
<1>2. QED
  BY <1>1, IRInvInit, IRInvStep, PTL DEF IRSpec

\* For any pads: what was not written to while a report was read is exact in
\* it.
THEOREM UntouchedPartsAreExact == IRSpec => UntouchedIsExact
<1> DEFINE Report ==
      joy # <<>> /\ joy' = <<>> =>
        /\ "button" \notin touched => shown'.buttons = button_flg
        /\ "stick_l" \notin touched => Pack(shown'.l) = stick_l_flg
        /\ "stick_r" \notin touched => Pack(shown'.r) = stick_r_flg
<1>1. IRInv /\ [IRNext]_irvars => [Report]_irvars
  <2> SUFFICES ASSUME IRInv, IRNext, joy # <<>>, joy' = <<>> PROVE Report
    OBVIOUS
  <2>1. SendReport
    <3>1. CASE ReadByte
      <4>1. joy \in Seq((SUBSET Bits) \cup (0..255)) /\ joy' = Append(joy, NextByte)
        BY <3>1 DEF ReadByte, IRInv, JoyExact
      <4>2. joy' # <<>>
        BY <4>1
      <4>3. QED
        BY <4>2
    <3>2. QED
      BY <3>1 DEF IRNext, GamepadState, Worker, Takes, send_button, send_stick_l, send_stick_r, Sender
  <2>2. Len(joy) = 9
        /\ shown' = [buttons |-> joy[1] \cup joy[2] \cup joy[3],
                     l |-> Unpack(joy[4], joy[5], joy[6]), r |-> Unpack(joy[7], joy[8], joy[9])]
    BY <2>1 DEF SendReport
  <2>3. stick_l_flg \in 0..FlgMax /\ stick_r_flg \in 0..FlgMax
    BY DEF IRInv, IRTypeOK
  <2>4. ASSUME "button" \notin touched PROVE shown'.buttons = button_flg
    <3>1. /\ joy[1] = ButtonByte(button_flg, 1) /\ joy[2] = ButtonByte(button_flg, 2)
          /\ joy[3] = ButtonByte(button_flg, 3)
      BY <2>2, <2>4 DEF IRInv, JoyExact
    <3>2. button_flg \in SUBSET Bits
      BY DEF IRInv, IRTypeOK
    <3>3. QED
      BY <2>2, <3>1, <3>2, BytesOfButtons
  <2>5. ASSUME "stick_l" \notin touched PROVE Pack(shown'.l) = stick_l_flg
    <3>1. /\ joy[4] = StickByte(stick_l_flg, 1) /\ joy[5] = StickByte(stick_l_flg, 2)
          /\ joy[6] = StickByte(stick_l_flg, 3)
      BY <2>2, <2>5 DEF IRInv, JoyExact
    <3>2. QED
      BY <2>2, <2>3, <3>1, BytesOfStick
  <2>6. ASSUME "stick_r" \notin touched PROVE Pack(shown'.r) = stick_r_flg
    <3>1. /\ joy[7] = StickByte(stick_r_flg, 1) /\ joy[8] = StickByte(stick_r_flg, 2)
          /\ joy[9] = StickByte(stick_r_flg, 3)
      BY <2>2, <2>6 DEF IRInv, JoyExact
    <3>2. QED
      BY <2>2, <2>3, <3>1, BytesOfStick
  <2>7. QED
    BY <2>2, <2>4, <2>5, <2>6
<1>2. QED
  BY <1>1, IRInvInit, IRInvStep, PTL DEF IRSpec, UntouchedIsExact

-----------------------------------------------------------------------------
(* What a frame says comes to be shown.                                    *)

Kinds == {"button", "stick_l", "stick_r"}

\* The command of kind c that frame p becomes.
Said(p, c) ==
    IF c = "button"
    THEN [cmd |-> c, mask |-> IF p.button_status = <<>> THEN map_buttons(p.buttons)
                                                        ELSE p.button_status[1]]
    ELSE [cmd |-> c, stick |-> IF c = "stick_l" THEN map_axes(p.axes).l ELSE map_axes(p.axes).r]

\* Its word holds what command x says.
Stored(x) ==
    CASE x.cmd = "button"  -> button_flg = x.mask
      [] x.cmd = "stick_l" -> stick_l_flg = Pack(x.stick)
      [] x.cmd = "stick_r" -> stick_r_flg = Pack(x.stick)

\* The last command of every kind on its way is the last frame's, and a word
\* for which none is on its way holds what the last frame says.
LastFrameWins ==
    \A c \in Kinds :
        /\ \A i \in DOMAIN queue :
              \/ queue[i].cmd # c
              \/ queue[i] = Said(pad, c)
              \/ \E j \in DOMAIN queue : j > i /\ queue[j].cmd = c
        /\ (\A i \in DOMAIN queue : queue[i].cmd # c) => Stored(Said(pad, c))

\* The browser says what its gamepad is like in one of the two forms that
\* map_axes tells apart: as the Web Gamepad API does, or mapped to steps.
Plain(p) ==
    /\ p.mapped = PreMapped(p.axes)
    /\ p.mapped => \A i \in 1..4 : \E n \in 0..StickMax : AxisAt(p.axes, i) = n * Unit

\* A report that was read while nothing was on its way and nothing stored
\* shows the gamepad as it is.
QuietReportShowsPad ==
    [][joy # <<>> /\ joy' = <<>> /\ queue = <<>> /\ touched = {} /\ Plain(pad)
        => ShowsPad']_irvars

\* A frame, or the state before the first one.
PadsAndIdle == Pads \cup {Idle}

LEMMA PadTypes ==
  ASSUME NEW p \in PadsAndIdle
  PROVE  /\ p.button_status \in {<<>>} \cup [1..1 -> SUBSET Bits]
         /\ p.axes \in Seq(Int)
<1>1. CASE p \in Pads
  BY <1>1, PadsAssumption
<1>2. CASE p = Idle
  <2>1. p.button_status = <<>> /\ p.axes = <<>>
    BY <1>2 DEF Idle
  <2>2. <<>> \in Seq(Int)
    OBVIOUS
  <2>3. QED
    BY <2>1, <2>2
<1>3. QED
  BY <1>1, <1>2 DEF PadsAndIdle

LEMMA SaidTypes ==
  ASSUME NEW p \in PadsAndIdle
  PROVE  /\ Said(p, "button").mask \in SUBSET Bits
         /\ Said(p, "stick_l").stick = map_axes(p.axes).l /\ Said(p, "stick_l").stick \in Axes
         /\ Said(p, "stick_r").stick = map_axes(p.axes).r /\ Said(p, "stick_r").stick \in Axes
         /\ \A c \in Kinds : Said(p, c).cmd = c
<1>1. p.button_status = <<>> \/ p.button_status[1] \in SUBSET Bits
  BY PadTypes
<1>2. map_axes(p.axes).l \in Axes /\ map_axes(p.axes).r \in Axes
  BY PadTypes, MapAxesRange
<1>3. map_buttons(p.buttons) \in SUBSET Bits
  BY MapButtonsRange
<1>4. QED
  BY <1>1, <1>2, <1>3 DEF Said, Kinds

LEMMA FrameSays ==
  ASSUME NEW p
  PROVE  Frame(p) = <<Said(p, "button"), Said(p, "stick_l"), Said(p, "stick_r")>>
BY DEF Frame, Said

\* How far a step may be from what it stands for.
LEMMA QuotientIsNear ==
  ASSUME NEW n \in Nat, NEW d \in Nat \ {0}
  PROVE  n \div d \in Nat /\ d * (n \div d) <= n /\ n < d * (n \div d) + d
OBVIOUS

LEMMA NearestStep ==
  ASSUME NEW v \in Int
  PROVE  Nearest(axis_to_stick(v), v)
<1> USE UnitAssumption
<1> DEFINE x == Clamp(v) + Unit
           d == 2 * Unit
           n == x * 4095 + Unit
           s == n \div d
<1>1. x \in Nat /\ x <= 2 * Unit
  BY DEF Clamp
<1>2. axis_to_stick(v) = s
  BY DEF axis_to_stick, StickMax
<1> HIDE DEF x
<1>3. n \in Nat /\ d \in Nat \ {0}
  BY <1>1
<1> HIDE DEF n, d
<1>4. s \in Nat /\ d * s <= n /\ n < d * s + d
  BY <1>3, QuotientIsNear
<1> HIDE DEF s
<1>5. CASE v > Unit
  <2>1. x = 2 * Unit
    BY <1>5 DEF x, Clamp
  <2>2. n = d * 4095 + Unit
    BY <2>1 DEF n, d
  <2>3. s = 4095
    BY <1>3, <1>4, <2>2 DEF d
  <2>4. QED
    BY <1>2, <1>5, <2>3 DEF Nearest, StickMax
<1>6. CASE v < -Unit
  <2>1. x = 0
    BY <1>6 DEF x, Clamp
  <2>2. n = Unit
    BY <2>1 DEF n
  <2>3. s = 0
    BY <1>3, <1>4, <2>2 DEF d
  <2>4. QED
    BY <1>2, <1>6, <2>3 DEF Nearest
<1>7. CASE v \in -Unit..Unit
  <2>1. x = v + Unit
    BY <1>7 DEF x, Clamp
  <2> DEFINE off == 2 * Unit * s - (v + Unit) * 4095
  <2>2. off = d * s - n + Unit
    BY <2>1, <1>3, <1>4, <1>7 DEF n, d
  <2>3. -Unit < off /\ off <= Unit
    BY <2>2, <1>3, <1>4 DEF d
  <2>4. QED
    BY <1>2, <1>7, <2>3 DEF Nearest, StickMax
<1>8. QED
  BY <1>5, <1>6, <1>7

LEMMA WholeStep ==
  ASSUME NEW n \in 0..StickMax
  PROVE  Mapped(n * Unit) = n
<1> DEFINE d == Unit
           m == n * Unit
           q == m \div d
<1>1. n \in Nat /\ d \in Nat \ {0} /\ m \in Nat /\ m = n * d /\ n <= StickMax
  BY UnitAssumption DEF StickMax
<1>2. Mapped(n * Unit) = IF q > StickMax THEN StickMax ELSE q
  BY <1>1 DEF Mapped
<1> HIDE DEF d, m
<1>3. q \in Nat /\ d * q <= m /\ m < d * q + d
  BY <1>1, QuotientIsNear
<1> HIDE DEF q
<1>4. q = n
  <2>1. ~(q < n)
    <3>1. q < n => d * (q + 1) <= d * n
      BY <1>1, <1>3
    <3>2. QED
      BY <1>1, <1>3, <3>1
  <2>2. ~(q > n)
    <3>1. q > n => d * q >= d * (n + 1)
      BY <1>1, <1>3
    <3>2. QED
      BY <1>1, <1>3, <3>1
  <2>3. QED
    BY <1>1, <1>3, <2>1, <2>2
<1>5. QED
  BY <1>1, <1>2, <1>4 DEF StickMax

LEMMA Digits ==
  ASSUME NEW a \in Nat, NEW b \in Nat, NEW c \in Nat, NEW e \in Nat,
         a < 4096, c < 4096
  PROVE  a + b * 4096 = c + e * 4096 => a = c /\ b = e
<1>1. a + b * 4096 = c + e * 4096 => b = e
  OBVIOUS
<1>2. QED
  BY <1>1

LEMMA PackInjective ==
  ASSUME NEW s \in Axes, NEW t \in Axes
  PROVE  Pack(s) = Pack(t) => s = t
<1>1. Pack(s) = Pack(t) => s.h = t.h /\ s.v = t.v
  BY StickTypes, Digits
<1>2. QED
  BY <1>1, StickTypes

\* Before the first frame the words say that nothing is touched.
LEMMA IdleIsCentred ==
  /\ Said(Idle, "button").mask = {}
  /\ map_axes(Idle.axes).l = Centre /\ map_axes(Idle.axes).r = Centre
<1>1. Idle.button_status = <<>> /\ Idle.buttons = <<>> /\ Idle.axes = <<>>
  BY DEF Idle
<1>2. DOMAIN <<>> = {}
  OBVIOUS
<1>3. map_buttons(<<>>) = {}
  BY <1>2 DEF map_buttons
<1>4. ~PreMapped(<<>>) /\ \A i \in 1..4 : AxisAt(<<>>, i) = 0
  BY <1>2 DEF PreMapped, AxisAt
<1>5. axis_to_stick(0) = 2048
  <2> DEFINE d == 2 * Unit
             n == 4096 * Unit
             s == n \div d
  <2>1. d \in Nat \ {0} /\ n \in Nat /\ n = 2048 * d
    BY UnitAssumption
  <2>2. axis_to_stick(0) = s
    <3>1. Clamp(0) = 0 /\ (0 + Unit) * 4095 + Unit = n
      BY UnitAssumption DEF Clamp
    <3> HIDE DEF n
    <3>2. QED
      BY <3>1 DEF axis_to_stick, StickMax
  <2> HIDE DEF d, n
  <2>3. s \in Nat /\ d * s <= n /\ n < d * s + d
    BY <2>1, QuotientIsNear
  <2> HIDE DEF s
  <2>4. s = 2048
    <3>1. s >= 2049 => d * s >= d * 2049
      BY <2>1, <2>3
    <3>2. s <= 2047 => d * s <= d * 2047
      BY <2>1, <2>3
    <3>3. QED
      BY <2>1, <2>3, <3>1, <3>2
  <2>5. QED
    BY <2>2, <2>4
<1>6. QED
  BY <1>1, <1>3, <1>4, <1>5 DEF Said, map_axes, Centre

LEMMA LastFrameInit == IRInit => LastFrameWins
<1> SUFFICES ASSUME IRInit PROVE LastFrameWins
  OBVIOUS
<1>1. DOMAIN queue = {}
  BY DEF IRInit
<1>2. \A c \in Kinds : Stored(Said(pad, c))
  <2>1. pad = Idle /\ button_flg = {} /\ stick_l_flg = Pack(Centre) /\ stick_r_flg = Pack(Centre)
    BY DEF IRInit
  <2>2. Idle \in PadsAndIdle
    BY DEF PadsAndIdle
  <2>3. QED
    BY <2>1, <2>2, SaidTypes, IdleIsCentred DEF Stored, Kinds
<1>3. QED
  BY <1>1, <1>2 DEF LastFrameWins

LEMMA LastFrameStep == IRInv /\ LastFrameWins /\ [IRNext]_irvars => LastFrameWins'
<1> SUFFICES ASSUME IRInv, LastFrameWins, [IRNext]_irvars PROVE LastFrameWins'
  OBVIOUS
<1>0. queue \in Seq(Commands)
  BY DEF IRInv, IRTypeOK
<1>1. ASSUME NEW p \in Pads, GamepadState(p) PROVE LastFrameWins'
  <2> DEFINE n == Len(queue)
             F == Frame(p)
  <2>1. pad' = p /\ queue' = queue \o F
    BY <1>1 DEF GamepadState
  <2>2. Len(F) = 3 /\ F \in Seq(Commands)
    BY FrameTypes
  <2>3. F[1] = Said(p, "button") /\ F[2] = Said(p, "stick_l") /\ F[3] = Said(p, "stick_r")
    BY FrameSays
  <2>4. \A c \in Kinds : Said(p, c).cmd = c
    BY SaidTypes DEF PadsAndIdle
  <2> HIDE DEF F
  <2>5. /\ n \in Nat /\ DOMAIN queue' = 1..(n + 3)
        /\ queue'[n + 1] = Said(p, "button") /\ queue'[n + 2] = Said(p, "stick_l")
        /\ queue'[n + 3] = Said(p, "stick_r")
    <3>1. queue' \in Seq(Commands) /\ Len(queue') = Len(queue) + Len(F)
          /\ (\A i \in 1..Len(F) : queue'[Len(queue) + i] = F[i])
      <4>1. /\ queue' \in Seq(Commands) /\ Len(queue') = Len(queue) + Len(F)
            /\ \A i \in 1..(Len(queue) + Len(F)) :
                  queue'[i] = IF i <= Len(queue) THEN queue[i] ELSE F[i - Len(queue)]
        BY <1>0, <2>1, <2>2, ConcatProperties
      <4>2. Len(queue) \in Nat /\ Len(F) \in Nat
        BY <1>0, <2>2
      <4>3. ASSUME NEW i \in 1..Len(F) PROVE queue'[Len(queue) + i] = F[i]
        <5> DEFINE k == Len(queue) + i
        <5>1. k \in 1..(Len(queue) + Len(F)) /\ ~(k <= Len(queue)) /\ k - Len(queue) = i
          BY <4>2
        <5> HIDE DEF k
        <5>2. queue'[k] = F[k - Len(queue)]
          BY <4>1, <5>1
        <5>3. QED
          BY <5>1, <5>2 DEF k
      <4>4. QED
        BY <4>1, <4>3
    <3>2. DOMAIN queue' = 1..(n + 3) /\ n \in Nat
      BY <1>0, <2>2, <3>1
    <3>3. 1 \in 1..Len(F) /\ 2 \in 1..Len(F) /\ 3 \in 1..Len(F)
      BY <2>2
    <3>4. QED
      BY <2>3, <3>1, <3>2, <3>3
  <2> HIDE DEF n
  <2>6. ASSUME NEW c \in Kinds
        PROVE  \E j \in (n + 1)..(n + 3) : /\ queue'[j] = Said(p, c) /\ queue'[j].cmd = c
                                        /\ \A i \in (n + 1)..(n + 3) : i = j \/ queue'[i].cmd # c
    <3>1. \A i \in (n + 1)..(n + 3) : i = n + 1 \/ i = n + 2 \/ i = n + 3
      BY <2>5
    <3>2. n + 1 \in (n + 1)..(n + 3) /\ n + 2 \in (n + 1)..(n + 3) /\ n + 3 \in (n + 1)..(n + 3)
      BY <2>5
    <3>3. /\ queue'[n + 1].cmd = "button" /\ queue'[n + 2].cmd = "stick_l"
          /\ queue'[n + 3].cmd = "stick_r"
      BY <2>4, <2>5 DEF Kinds
    <3>4. CASE c = "button"
      BY <2>5, <3>1, <3>2, <3>3, <3>4
    <3>5. CASE c = "stick_l"
      BY <2>5, <3>1, <3>2, <3>3, <3>5
    <3>6. CASE c = "stick_r"
      BY <2>5, <3>1, <3>2, <3>3, <3>6
    <3>7. QED
      BY <3>4, <3>5, <3>6 DEF Kinds
  <2>7. ASSUME NEW c \in Kinds
        PROVE  /\ \A i \in DOMAIN queue' :
                     \/ queue'[i].cmd # c
                     \/ queue'[i] = Said(p, c)
                     \/ \E j \in DOMAIN queue' : j > i /\ queue'[j].cmd = c
               /\ ~\A i \in DOMAIN queue' : queue'[i].cmd # c
    <3>1. PICK j \in (n + 1)..(n + 3) : /\ queue'[j] = Said(p, c) /\ queue'[j].cmd = c
                                     /\ \A i \in (n + 1)..(n + 3) : i = j \/ queue'[i].cmd # c
      BY <2>6
    <3>2. j \in DOMAIN queue'
      BY <2>5
    <3>3. \A i \in DOMAIN queue' : i \in (n + 1)..(n + 3) \/ j > i
      BY <2>5
    <3>4. QED
      BY <3>1, <3>2, <3>3
  <2>8. QED
    BY <2>1, <2>7 DEF LastFrameWins
<1>2. CASE Worker
  <2>1. PICK k \in Kinds : Takes(k)
    BY <1>2 DEF Worker, send_button, send_stick_l, send_stick_r, Kinds
  <2>2. queue # <<>> /\ Head(queue).cmd = k /\ queue' = Tail(queue) /\ pad' = pad
    BY <2>1 DEF Takes
  <2>3. /\ 1 \in DOMAIN queue /\ queue[1].cmd = k
        /\ \A i \in DOMAIN queue' : i + 1 \in DOMAIN queue /\ queue'[i] = queue[i + 1]
        /\ \A i \in DOMAIN queue : i > 1 => i - 1 \in DOMAIN queue' /\ queue'[i - 1] = queue[i]
        /\ DOMAIN queue \subseteq Nat \ {0} /\ DOMAIN queue' \subseteq Nat \ {0}
    BY <1>0, <2>2
  <2>4. /\ k = "button" => button_flg' = queue[1].mask
        /\ k = "stick_l" => stick_l_flg' = Pack(queue[1].stick)
        /\ k = "stick_r" => stick_r_flg' = Pack(queue[1].stick)
        /\ k # "button" => button_flg' = button_flg
        /\ k # "stick_l" => stick_l_flg' = stick_l_flg
        /\ k # "stick_r" => stick_r_flg' = stick_r_flg
    <3>1. Head(queue) = queue[1]
      BY <1>0, <2>2
    <3>2. QED
      BY <1>2, <2>2, <3>1 DEF Worker, send_button, send_stick_l, send_stick_r, Takes
  <2>5. ASSUME NEW c \in Kinds
        PROVE  \A i \in DOMAIN queue' :
                  \/ queue'[i].cmd # c
                  \/ queue'[i] = Said(pad, c)
                  \/ \E j \in DOMAIN queue' : j > i /\ queue'[j].cmd = c
    <3> SUFFICES ASSUME NEW i \in DOMAIN queue', queue'[i].cmd = c, queue'[i] # Said(pad, c)
                 PROVE  \E j \in DOMAIN queue' : j > i /\ queue'[j].cmd = c
      OBVIOUS
    <3>1. i + 1 \in DOMAIN queue /\ queue[i + 1].cmd = c /\ queue[i + 1] # Said(pad, c)
      BY <2>3
    <3>2. PICK j \in DOMAIN queue : j > i + 1 /\ queue[j].cmd = c
      BY <3>1 DEF LastFrameWins
    <3>3. i \in Nat \ {0} /\ j \in Nat /\ j > 1 /\ j - 1 > i
      BY <2>3, <3>2
    <3>4. QED
      BY <2>3, <3>2, <3>3
  <2>6. ASSUME NEW c \in Kinds, \A i \in DOMAIN queue' : queue'[i].cmd # c
        PROVE  Stored(Said(pad, c))'
    <3>1. \A i \in DOMAIN queue : i > 1 => queue[i].cmd # c
      <4>1. \A i \in DOMAIN queue : i > 1 => i - 1 \in DOMAIN queue' /\ queue'[i - 1] = queue[i]
        BY <2>3
      <4>2. QED
        BY <2>6, <4>1
    <3>2. pad \in PadsAndIdle
      BY DEF IRInv, IRTypeOK, PadsAndIdle
    <3>3. Said(pad, c).cmd = c /\ Said(pad, c)' = Said(pad, c)
      BY <2>2, <3>2, SaidTypes DEF Said
    <3>4. CASE c = k
      <4>1. queue[1] = Said(pad, c)
        BY <2>3, <3>1, <3>4 DEF LastFrameWins
      <4>2. QED
        BY <2>4, <3>3, <3>4, <4>1 DEF Stored, Kinds
    <3>5. CASE c # k
      <4>1. \A i \in DOMAIN queue : i = 1 \/ i > 1
        BY <2>3
      <4>2. \A i \in DOMAIN queue : queue[i].cmd # c
        BY <2>3, <3>1, <3>5, <4>1
      <4>3. Stored(Said(pad, c))
        BY <4>2 DEF LastFrameWins
      <4>4. QED
        BY <2>4, <3>3, <3>5, <4>3 DEF Stored, Kinds
    <3>6. QED
      BY <3>4, <3>5
  <2>7. QED
    BY <2>2, <2>5, <2>6 DEF LastFrameWins
<1>3. CASE Sender \/ UNCHANGED irvars
  <2>1. UNCHANGED <<pad, queue, button_flg, stick_l_flg, stick_r_flg>>
    BY <1>3 DEF Sender, ReadByte, SendReport, irvars, flags
  <2>2. QED
    <3>1. ASSUME NEW c \in Kinds PROVE Stored(Said(pad, c))' <=> Stored(Said(pad, c))
      BY <2>1 DEF Stored
    <3>2. QED
      BY <2>1, <3>1 DEF LastFrameWins
<1>4. QED
  BY <1>1, <1>2, <1>3 DEF IRNext

LEMMA LastFrameAlwaysWins == IRSpec => [](IRInv /\ LastFrameWins)
BY IRInvInit, IRInvStep, LastFrameInit, LastFrameStep, PTL DEF IRSpec

\* What map_axes makes of a gamepad is what the console should show for it.
LEMMA AxesAreMeant ==
  ASSUME NEW p \in PadsAndIdle, Plain(p)
  PROVE  /\ Meant(map_axes(p.axes).l, AxisAt(p.axes, 1), AxisAt(p.axes, 2), p.mapped)
         /\ Meant(map_axes(p.axes).r, AxisAt(p.axes, 3), AxisAt(p.axes, 4), p.mapped)
<1>1. \A i \in 1..4 : AxisAt(p.axes, i) \in Int /\ -AxisAt(p.axes, i) \in Int
  BY PadTypes DEF AxisAt
<1>2. 1 \in 1..4 /\ 2 \in 1..4 /\ 3 \in 1..4 /\ 4 \in 1..4
  OBVIOUS
<1>3. CASE p.mapped
  <2>1. PreMapped(p.axes)
    BY <1>3 DEF Plain
  <2>2. \A i \in 1..4 : /\ Mapped(AxisAt(p.axes, i)) \in 0..StickMax
                        /\ Mapped(AxisAt(p.axes, i)) * Unit = AxisAt(p.axes, i)
    BY <1>3, WholeStep DEF Plain
  <2>3. \A n \in 0..StickMax : StickMax - (StickMax - n) = n
    BY DEF StickMax
  <2>4. QED
    BY <1>2, <1>3, <2>1, <2>2, <2>3 DEF map_axes, Stick, Meant
<1>4. CASE ~p.mapped
  <2>1. ~PreMapped(p.axes)
    BY <1>4 DEF Plain
  <2>2. \A i \in 1..4 : /\ Nearest(axis_to_stick(AxisAt(p.axes, i)), AxisAt(p.axes, i))
                        /\ Nearest(axis_to_stick(-AxisAt(p.axes, i)), -AxisAt(p.axes, i))
    BY <1>1, NearestStep
  <2>3. QED
    BY <1>2, <1>4, <2>1, <2>2 DEF map_axes, Stick, Meant
<1>5. QED
  BY <1>3, <1>4

LEMMA ButtonsArePressed ==
  ASSUME NEW p
  PROVE  Said(p, "button").mask = Pressed(p)
<1>1. \A i \in DOMAIN WebOrder : SwitchButton[WebOrder[i]] \in Bits
  <2>1. DOMAIN WebOrder = 1..18
    BY DEF WebOrder
  <2>2. QED
    BY <2>1 DEF WebOrder, SwitchButton, Bits
<1>2. map_buttons(p.buttons) = {b \in Bits : \E i \in DOMAIN p.buttons : /\ i \in DOMAIN WebOrder
                                                  /\ SwitchButton[WebOrder[i]] = b
                                                  /\ 2 * p.buttons[i] >= Unit}
  BY <1>1 DEF map_buttons
<1>3. QED
  BY <1>2 DEF Said, Pressed

\* For any pads: a report that was read while no command was on its way and
\* none was stored shows every button and both sticks of the last frame,
\* each axis to the nearest step; so a part that is torn, stale or lost is
\* put right by the next report.  (What ConsoleConverges promises, but for
\* its "eventually".)
THEOREM QuietReportsShowThePad == IRSpec => QuietReportShowsPad
<1> DEFINE Report ==
      joy # <<>> /\ joy' = <<>> =>
        /\ "button" \notin touched => shown'.buttons = button_flg
        /\ "stick_l" \notin touched => Pack(shown'.l) = stick_l_flg
        /\ "stick_r" \notin touched => Pack(shown'.r) = stick_r_flg
           Shows ==
      joy # <<>> /\ joy' = <<>> /\ queue = <<>> /\ touched = {} /\ Plain(pad) => ShowsPad'
<1>1. IRInv /\ IRInv' /\ LastFrameWins /\ [IRNext]_irvars /\ [Report]_irvars => [Shows]_irvars
  <2> SUFFICES ASSUME IRInv, IRInv', LastFrameWins, IRNext, Report, joy # <<>>, joy' = <<>>,
                      queue = <<>>, touched = {}, Plain(pad)
               PROVE  ShowsPad'
    OBVIOUS
  <2>1. /\ shown'.buttons = button_flg
        /\ Pack(shown'.l) = stick_l_flg /\ Pack(shown'.r) = stick_r_flg
    OBVIOUS
  <2>2. pad \in PadsAndIdle
    BY DEF IRInv, IRTypeOK, PadsAndIdle
  <2>3. /\ button_flg = Said(pad, "button").mask
        /\ stick_l_flg = Pack(map_axes(pad.axes).l) /\ stick_r_flg = Pack(map_axes(pad.axes).r)
    <3>1. \A c \in Kinds : Stored(Said(pad, c))
      <4>1. DOMAIN queue = {}
        OBVIOUS
      <4>2. QED
        BY <4>1 DEF LastFrameWins
    <3>2. QED
      BY <2>2, <3>1, SaidTypes DEF Stored, Kinds
  <2>4. shown'.l = map_axes(pad.axes).l /\ shown'.r = map_axes(pad.axes).r
    <3>1. shown'.l \in Axes /\ shown'.r \in Axes
      BY DEF IRInv, IRTypeOK, Axes
    <3>2. map_axes(pad.axes).l \in Axes /\ map_axes(pad.axes).r \in Axes
      BY <2>2, SaidTypes
    <3>3. QED
      BY <2>1, <2>3, <3>1, <3>2, PackInjective
  <2>5. pad' = pad
    <3>1. ~\E p \in Pads : GamepadState(p)
      BY DEF GamepadState
    <3>2. QED
      BY <3>1 DEF IRNext, Worker, Takes, send_button, send_stick_l, send_stick_r, Sender,
                  ReadByte, SendReport
  <2>6. QED
    BY <2>1, <2>2, <2>3, <2>4, <2>5, AxesAreMeant, ButtonsArePressed DEF ShowsPad
<1>2. IRSpec => [][Report]_irvars
  BY UntouchedPartsAreExact DEF UntouchedIsExact
<1>3. IRSpec => [][IRNext]_irvars
  BY PTL DEF IRSpec
<1>4. QED
  BY <1>1, <1>2, <1>3, LastFrameAlwaysWins, PTL DEF QuietReportShowsPad
=============================================================================
