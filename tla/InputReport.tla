---------------------------- MODULE InputReport ----------------------------
(***************************************************************************)
(* The way of a gamepad frame from the browser to the console.             *)
(*                                                                         *)
(* ws_server.rs turns a frame into three commands; the worker's main       *)
(* thread takes them one by one and stores each into a word of btkeyLib.c; *)
(* the BTStack thread reads these words, byte by byte and without a lock,  *)
(* when it sends the next report.  One browser; the channel and the pipe   *)
(* between server and worker are one queue.                                *)
(*                                                                         *)
(* Motion, colours and the buttons that rumble presses are left out.  That *)
(* reports go on being sent is shown by BtKeyLib.                          *)
(***************************************************************************)
EXTENDS Gamepad, FiniteSets

CONSTANTS
    Pads,           \* gamepad states of the browser
    MaxQueue        \* bound: commands on their way to the worker

Bits == 0..23
Word == 4096
FlgMax == Word * Word - 1       \* of a stick: two axes of 12 bits

\* What a frame says, an Option being a sequence of at most one, and whether
\* its axes are mapped already, which only the browser knows.
ASSUME PadsAssumption ==
    Pads \subseteq [button_status : {<<>>} \cup [1..1 -> SUBSET Bits], buttons : Seq(Int),
             axes : Seq(Int), mapped : BOOLEAN]
ASSUME InputBoundsAssumption == MaxQueue \in Nat

VARIABLES
    pad,            \* the last frame sent
    queue,          \* commands on their way to the worker
    button_flg, stick_l_flg, stick_r_flg,
    joy,            \* the bytes of the next report read so far
    touched,        \* words written since the first of them was read
    shown           \* external: the console's view

flags  == <<button_flg, stick_l_flg, stick_r_flg>>
irvars == <<pad, queue, flags, joy, touched, shown>>

\* stick_horizontal | (stick_vertical << 12), of 12 bits each
Pack(s) == s.h + s.v * Word

\* Byte k of the word of a stick.
MutStickByte(word, k) == (word \div (<<1, 256, 4096>>[k])) % 256      \* shifted too little
StickByte(word, k)    == (word \div (<<1, 256, 65536>>[k])) % 256

\* Byte k of the word of the buttons.
ButtonByte(word, k) == word \cap (8 * (k - 1))..(8 * k - 1)

\* How a console reads the three bytes of a stick.
Unpack(b0, b1, b2) == Stick(b0 + 256 * (b1 % 16), b1 \div 16 + 16 * b2)

Centre == Stick(2048, 2048)
Idle   == [button_status |-> <<>>, buttons |-> <<>>, axes |-> <<>>, mapped |-> FALSE]

Commands == [cmd : {"button"}, mask : SUBSET Bits]
            \cup [cmd : {"stick_l", "stick_r"}, stick : [h : 0..StickMax, v : 0..StickMax]]

IRTypeOK ==
    /\ pad \in Pads \cup {Idle}
    /\ queue \in Seq(Commands) /\ Len(queue) <= MaxQueue
    /\ button_flg \subseteq Bits
    /\ {stick_l_flg, stick_r_flg} \subseteq 0..FlgMax
    /\ Len(joy) <= 9
    /\ \A i \in DOMAIN joy : IF i <= 3 THEN joy[i] \subseteq Bits ELSE joy[i] \in 0..255
    /\ touched \subseteq {"button", "stick_l", "stick_r"}
    /\ shown \in [buttons : SUBSET Bits, l : [h : 0..StickMax, v : 0..StickMax],
                                         r : [h : 0..StickMax, v : 0..StickMax]]

IRInit ==
    /\ pad = Idle
    /\ queue = <<>>
    /\ button_flg = {}
    /\ stick_l_flg = Pack(Centre) /\ stick_r_flg = Pack(Centre)
    /\ joy = <<>>
    /\ touched = {}
    /\ shown = [buttons |-> {}, l |-> Centre, r |-> Centre]

-----------------------------------------------------------------------------
(* The server: dispatch_client_message.                                    *)

MutFrame(p) ==                          \* a stick at rest is not sent
    LET axes == map_axes(p.axes)
    IN  <<[cmd |-> "button", mask |-> map_buttons(p.buttons)],
          [cmd |-> "stick_l", stick |-> axes.l]>>
        \o IF axes.r = Centre THEN <<>> ELSE <<[cmd |-> "stick_r", stick |-> axes.r]>>

Frame(p) ==
    LET axes == map_axes(p.axes)
    IN  <<[cmd |-> "button", mask |-> IF p.button_status = <<>> THEN map_buttons(p.buttons)
                                                                ELSE p.button_status[1]],
          [cmd |-> "stick_l", stick |-> axes.l],
          [cmd |-> "stick_r", stick |-> axes.r]>>

GamepadState(p) ==
    /\ Len(queue) + 3 <= MaxQueue
    /\ pad' = p
    /\ queue' = queue \o Frame(p)
    /\ UNCHANGED <<flags, joy, touched, shown>>

-----------------------------------------------------------------------------
(* The worker's main thread: handle_command and the setters.               *)

Takes(cmd) ==
    /\ queue # <<>> /\ Head(queue).cmd = cmd
    /\ queue' = Tail(queue)
    /\ touched' = IF joy = <<>> THEN {} ELSE touched \cup {cmd}
    /\ UNCHANGED <<pad, joy, shown>>

send_button ==
    /\ Takes("button")
    /\ button_flg' = Head(queue).mask
    /\ UNCHANGED <<stick_l_flg, stick_r_flg>>

send_stick_l ==
    /\ Takes("stick_l")
    /\ stick_l_flg' = Pack(Head(queue).stick)
    /\ UNCHANGED <<button_flg, stick_r_flg>>

send_stick_r ==
    /\ Takes("stick_r")
    /\ stick_r_flg' = Pack(Head(queue).stick)
    /\ UNCHANGED <<button_flg, stick_l_flg>>

Worker == send_button \/ send_stick_l \/ send_stick_r

-----------------------------------------------------------------------------
(* The BTStack thread: send_report_joystick.                               *)

\* Each byte of a word is taken from it anew.
NextByte ==
    LET k == Len(joy)
    IN  CASE k \in 0..2 -> ButtonByte(button_flg, k + 1)
          [] k \in 3..5 -> StickByte(stick_l_flg, k - 2)
          [] OTHER      -> StickByte(stick_r_flg, k - 5)

ReadByte ==
    /\ Len(joy) < 9
    /\ joy' = Append(joy, NextByte)
    /\ UNCHANGED <<pad, queue, flags, touched, shown>>

SendReport ==
    /\ Len(joy) = 9
    /\ shown' = [buttons |-> joy[1] \cup joy[2] \cup joy[3],
                 l |-> Unpack(joy[4], joy[5], joy[6]), r |-> Unpack(joy[7], joy[8], joy[9])]
    /\ joy' = <<>>
    /\ touched' = {}
    /\ UNCHANGED <<pad, queue, flags>>

Sender == ReadByte \/ SendReport

-----------------------------------------------------------------------------
IRNext ==
    \/ \E p \in Pads : GamepadState(p)
    \/ Worker \/ Sender

\* The worker reads its stdin, and the send loop goes on.
IRSpec == IRInit /\ [][IRNext]_irvars /\ WF_irvars(Worker) /\ WF_irvars(Sender)

-----------------------------------------------------------------------------
(* Properties.                                                             *)

\* A report is exact in every part that nothing was written to while it was
\* read, whatever happens to the other parts: a stick at rest does not jerk
\* when the other one moves.
UntouchedIsExact ==
    [][joy # <<>> /\ joy' = <<>> =>
        /\ "button" \notin touched => shown'.buttons = button_flg
        /\ "stick_l" \notin touched => Pack(shown'.l) = stick_l_flg
        /\ "stick_r" \notin touched => Pack(shown'.r) = stick_r_flg]_irvars

\* What the console should show for an axis: the nearest step, or the end
\* stop, and exactly what the browser said when it had mapped it itself.
Nearest(s, v) ==
    \/ v > Unit /\ s = StickMax
    \/ v < -Unit /\ s = 0
    \/ LET off == 2 * Unit * s - (v + Unit) * StickMax
       IN  v \in -Unit..Unit /\ -Unit < off /\ off <= Unit
Meant(s, x, y, mapped) ==
    IF mapped THEN s.h * Unit = x /\ (StickMax - s.v) * Unit = y
              ELSE Nearest(s.h, x) /\ Nearest(s.v, -y)
Pressed(p) ==
    IF p.button_status # <<>> THEN p.button_status[1]
    ELSE {b \in Bits : \E i \in DOMAIN p.buttons : /\ i \in DOMAIN WebOrder
                                                  /\ SwitchButton[WebOrder[i]] = b
                                                  /\ 2 * p.buttons[i] >= Unit}
ShowsPad ==
    /\ shown.buttons = Pressed(pad)
    /\ Meant(shown.l, AxisAt(pad.axes, 1), AxisAt(pad.axes, 2), pad.mapped)
    /\ Meant(shown.r, AxisAt(pad.axes, 3), AxisAt(pad.axes, 4), pad.mapped)

\* When the player stops moving, the console comes to see the pad as it is:
\* no part of the last frame is lost, torn for good or overwritten by an
\* older one.
ConsoleConverges == <>[][FALSE]_pad => <>[]ShowsPad
=============================================================================
