---------------------------- MODULE Dw3000Options ----------------------------
(***************************************************************************)
(* The radio configurations of dw3000_config_options.cpp.  A build picks   *)
(* one of them with -DCONFIG_OPTION_nn; config_option_sp0 and _sp3 are     *)
(* always there, for the ranging programs without and with data-less STS.  *)
(* All of them leave angle of arrival off (DWT_PDOA_M0), acquire in chunks *)
(* of eight symbols (DWT_PAC8) and have standard headers, so that only the *)
(* fields which differ, and those the driver decides on, are kept.         *)
(***************************************************************************)
EXTENDS Naturals

(* A dwt_config_t: channel, preamble length in symbols, preamble codes,     *)
(* data rate, STS mode and STS length in symbols.                           *)
Config(chan, plen, code, rate, sts, len) ==
  [ chan |-> chan, plen |-> plen, txCode |-> code, rxCode |-> code,
    rate |-> rate, sfdTO |-> plen + 1 + 8 - 8, stsMode |-> sts,
    stsLength |-> len, pdoaMode |-> "M0", phrMode |-> "STD", PAC |-> 8 ]

Channels == {5, 9}
PreambleLengths == {64, 128, 512, 1024}

(* Options 01 to 08: code 9 at 850 kbit/s. *)
OptionsCode9Slow ==
  { Config(chan, plen, 9, "850K", "STS1", 64) :
      chan \in Channels, plen \in PreambleLengths }

(* Options 09 to 16: code 10 at 850 kbit/s. *)
OptionsCode10Slow ==
  { Config(chan, plen, 10, "850K", "STS1", 64) :
      chan \in Channels, plen \in PreambleLengths }

(* Options 17 to 24: code 9 at 6.8 Mbit/s. *)
OptionsCode9Fast ==
  { Config(chan, plen, 9, "6M8", "STS1", 64) :
      chan \in Channels, plen \in PreambleLengths }

(* Options 25 to 32: code 10 at 6.8 Mbit/s. *)
OptionsCode10Fast ==
  { Config(chan, plen, 10, "6M8", "STS1", 64) :
      chan \in Channels, plen \in PreambleLengths }

(* Option 33, the only one of the table with a longer STS. *)
Option33 == Config(5, 128, 9, "6M8", "STS1", 128)

(* STS packet configuration 3: the frame has no payload. *)
config_option_sp3 == Config(5, 128, 9, "6M8", "ND", 128)

(* STS off; the STS length is there and ignored. *)
config_option_sp0 == Config(5, 128, 9, "6M8", "OFF", 128)

ConfigOptions == OptionsCode9Slow \cup OptionsCode10Slow \cup OptionsCode9Fast
                   \cup OptionsCode10Fast \cup {Option33}

(* The transmitter settings: pulse generator delay and power by channel; a  *)
(* PG count of 0 asks for no bandwidth adjustment.                          *)
TxConfig(chan) == [PGdly |-> 52, PGcount |-> 0,
                   power |-> IF chan = 9 THEN "fe" ELSE "fd"]
==============================================================================
