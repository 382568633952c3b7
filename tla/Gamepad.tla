------------------------------ MODULE Gamepad ------------------------------
(***************************************************************************)
(* From the Web Gamepad API to the buttons and sticks of the controller,   *)
(* src/src/gamepad.rs.                                                     *)
(*                                                                         *)
(* An f32 is an integer in units of 1/Unit, and its arithmetic is exact.   *)
(* A word of button flags is the set of its bits.                          *)
(***************************************************************************)
EXTENDS Integers, Sequences

CONSTANT Unit           \* stands for 1.0
ASSUME UnitAssumption == Unit \in Nat \ {0}

StickMax == 4095

\* The bit of each button.
SwitchButton ==
    [Y |-> 0, X |-> 1, B |-> 2, A |-> 3, R |-> 6, ZR |-> 7,
     MINUS |-> 8, PLUS |-> 9, RS |-> 10, LS |-> 11, HOME |-> 12, SCREENSHOT |-> 13,
     DPAD_DOWN |-> 16, DPAD_UP |-> 17, DPAD_RIGHT |-> 18, DPAD_LEFT |-> 19, L |-> 22, ZL |-> 23]

\* The buttons in the order in which browsers list them.
WebOrder ==
    <<"B", "A", "Y", "X", "L", "R", "ZL", "ZR", "MINUS", "PLUS", "LS", "RS",
      "DPAD_UP", "DPAD_DOWN", "DPAD_LEFT", "DPAD_RIGHT", "HOME", "SCREENSHOT">>

map_buttons(web) ==
    {SwitchButton[WebOrder[i]] : i \in {j \in DOMAIN web \cap DOMAIN WebOrder : 2 * web[j] >= Unit}}

MutClamp(v) == v                        \* not clamped

Clamp(v) == IF v > Unit THEN Unit ELSE IF v < -Unit THEN -Unit ELSE v

\* round((v + 1) / 2 * 4095)
axis_to_stick(v) == ((Clamp(v) + Unit) * StickMax + Unit) \div (2 * Unit)

\* A value that is mapped already: `v as u32` truncates and saturates.
Mapped(v) ==
    LET n == IF v < 0 THEN 0 ELSE v \div Unit
    IN  IF n > StickMax THEN StickMax ELSE n

AxisAt(axes, i) == IF i \in DOMAIN axes THEN axes[i] ELSE 0

PreMapped(axes) == \E i \in DOMAIN axes : 2 * axes[i] < -3 * Unit \/ 2 * axes[i] > 3 * Unit

Stick(h, v) == [h |-> h, v |-> v]

\* Up is -1 in a browser and 4095 on the controller.
map_axes(axes) ==
    LET across(i) == IF PreMapped(axes) THEN Mapped(AxisAt(axes, i))
                                        ELSE axis_to_stick(AxisAt(axes, i))
        up(i)     == IF PreMapped(axes) THEN StickMax - Mapped(AxisAt(axes, i))
                                        ELSE axis_to_stick(-AxisAt(axes, i))
    IN  [l |-> Stick(across(1), up(2)), r |-> Stick(across(3), up(4))]
=============================================================================
