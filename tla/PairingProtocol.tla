-------------------------- MODULE PairingProtocol --------------------------
(***************************************************************************)
(* The subcommand protocol of the emulated Pro Controller, as functions.   *)
(*                                                                         *)
(* The console sends output reports; the subcommand of each one moves      *)
(* pairing_state (hid_report_data_callback).  Whenever the channel can     *)
(* take a packet, the controller sends the packet pairing_state stands for *)
(* and moves pairing_state on (CAN_SEND_NOW of nintendo_packet_handler).   *)
(*                                                                         *)
(* A subcommand is named by what its bytes report[9..12] select:           *)
(*   pair1..3    01 01..03            nfc_on, nfc_off, nfc_poll, nfc_read  *)
(*   info        02 (other)                       02 01, 02, 04, 06        *)
(*   shipment    08                   mode_nfc, mode  03 31, 03 (other)    *)
(*   triggers    04                   mode_simple     03 30                *)
(*   spi_xxxx    10, SPI flash read   imu         40                       *)
(*   vibration   48 01                lights      30                       *)
(*   mcu, mcu4   21 21, report[12]=4 for mcu4                              *)
(*   nfc_config  22 01 in a 48-byte report                                 *)
(*   other       anything else                                             *)
(***************************************************************************)
EXTENDS Naturals

\* Subcommands whose state does not depend on anything else.
FixedReply ==
    [pair1    |-> 30, pair2    |-> 31, pair3    |-> 32,
     info     |-> 1,  shipment |-> 2,  mode_nfc |-> 16, mode |-> 5,
     triggers |-> 6,  imu      |-> 12, vibration |-> 13,
     spi_6000 |-> 3,  spi_6050 |-> 4,  spi_6080 |-> 7,  spi_6098 |-> 8,
     spi_8010 |-> 9,  spi_603D |-> 10, spi_6020 |-> 11,
     mcu      |-> 15, mcu4     |-> 23,
     nfc_on   |-> 19, nfc_off  |-> 24, nfc_read |-> 20]

Subcommands == DOMAIN FixedReply
                 \cup {"nfc_poll", "mode_simple", "lights", "nfc_config", "other"}

PairingStates == 0..32

(* Set Player Lights: answered during a handshake and for a console that   *)
(* is not paired yet, ignored once the handshake is over.                  *)
LightsReply(ps, paired) == IF ps # 0 \/ ~paired THEN 14 ELSE ps

\* pairing_state after a report.
AfterReport(sub, ps, paired, amiibo) ==
    IF sub \in DOMAIN FixedReply THEN FixedReply[sub]
    ELSE CASE sub = "nfc_poll"    -> IF amiibo THEN ps ELSE 24
           [] sub = "mode_simple" -> IF ps = 22 THEN 28 ELSE 5
           [] sub = "lights"      -> LightsReply(ps, paired)
           [] sub = "nfc_config"  -> IF ps > 15 THEN 18 ELSE 29
           [] OTHER               -> ps

\* packet_amiibo_flag after a report.
AmiiboAfterReport(sub, ps, amiibo) ==
    CASE sub \in {"nfc_on", "nfc_read"}      -> TRUE
      [] sub = "nfc_off"                     -> FALSE
      [] sub = "mode_simple" /\ ps = 22      -> FALSE
      [] OTHER                               -> amiibo

\* States that are left when their packet has been sent; the others repeat
\* their packet until the console asks for something else.
MutAfterSend(ps, paired) ==
    CASE ps \in {14, 15, 28, 29} -> 0
      [] ps = 13  -> 13
      [] ps = 16  -> 17
      [] ps = 18  -> 22
      [] ps = 20  -> 25
      [] ps = 21  -> 23
      [] ps = 23  -> 27
      [] ps = 25  -> 26
      [] ps = 26  -> 19
      [] OTHER    -> ps

MutAfterSendAdvance(ps, paired) == IF ps = 0 THEN 0 ELSE ps + 1

AfterSend(ps, paired) ==
    CASE ps \in {14, 15, 28, 29} -> 0
      [] ps = 13  -> IF paired THEN 0 ELSE 13
      [] ps = 16  -> 17
      [] ps = 18  -> 22
      [] ps = 20  -> 25
      [] ps = 21  -> 23
      [] ps = 23  -> 27
      [] ps = 25  -> 26
      [] ps = 26  -> 19
      [] OTHER    -> ps

\* Sending the packet of states 14 and 15 completes the pairing.
PairedAfterSend(ps, paired) == paired \/ ps \in {14, 15}

\* The states whose packet carries the buttons and sticks (isop in the
\* code): 0 is the plain input report, the others are NFC-mode reports.
InputStates == {0, 17, 19, 20, 22, 24, 25, 26, 27}

\* Replies that are repeated until the console sends its next subcommand.
UntilNext == 1..12 \cup 30..32
=============================================================================
