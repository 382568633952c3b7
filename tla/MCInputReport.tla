--------------------------- MODULE MCInputReport ---------------------------
(* TLC instance of InputReport: a pad pushed to a corner and half pressed, *)
(* and one mapped by the browser.                                          *)
EXTENDS InputReport

MCPads ==
    {[button_status |-> <<>>, buttons |-> <<Unit, Unit \div 2 - 1, 0, 0, 0, 0, Unit \div 2>>,
      axes |-> <<-Unit - 200, -1, Unit>>, mapped |-> FALSE],
     [button_status |-> <<{16}>>, buttons |-> <<Unit>>,
      axes |-> <<0, 4095 * Unit, 2048 * Unit, 2047 * Unit>>, mapped |-> TRUE]}
=============================================================================
