----------------------------- MODULE MCBtKeyLib -----------------------------
(* TLC instances of BtKeyLib.                                              *)
EXTENDS BtKeyLib

CONSTANTS s1, s2                        \* two consoles

\* The subcommands of a pairing handshake without NFC.
HandshakeSubs == {"info", "mode", "vibration", "lights"}

\* One subcommand for each way a reply gives way to input reports.
EndingSubs == {"info", "mode", "vibration", "lights", "mcu", "mcu4", "mode_nfc", "nfc_config", "nfc_read"}
=============================================================================
