-------------------------------- MODULE Dw3000 --------------------------------
(***************************************************************************)
(* One DW3000 radio and its driver: src/.../Dw3000/src/dw3000_device_api   *)
(* (dwt_* functions) over dw3000_port (SPI, reset and wake-up lines).      *)
(*                                                                         *)
(* A radio is a record r.  Its first fields are the driver's localdata,    *)
(* the others the registers of the chip that decide what the driver's      *)
(* calls do.  A driver function is an operator from a radio to the radio   *)
(* it leaves behind, or to the value it returns; a function that can fail  *)
(* is the set of radios it may leave, and the field "err" is its return    *)
(* code.  The module has no variables, so that a single host (Dw3000Host)  *)
(* and the nodes of a ranging exchange (Ranging) share it.                 *)
(*                                                                         *)
(* What the chip does on its own is not code of the repository; those      *)
(* operators stand at the end and say what the driver relies on.           *)
(***************************************************************************)
EXTENDS Dw3000Options, FiniteSets

CONSTANT NoFrame     \* an empty receive buffer

(* SYS_STATUS: the bits the driver reads; the receive errors of ALL_RX_ERR  *)
(* (RXPHE, RXFCE, RXFSL, RXSTO, ARFE) are "RXERR", or "RXSTO" where a frame *)
(* without payload fails, which has no header and no checksum; the two      *)
(* receive timeouts are "RXTO".                                             *)
Events == {"TXFRS", "RXFCG", "RXFR", "CIADONE", "CIAERR", "CPERR", "RXERR",
           "RXSTO", "RXTO", "RXOVRR", "HPDWARN", "SPIRDY", "RCINIT", "CPLOCK"}

ALL_RX_GOOD == {"RXFR", "RXFCG", "CIADONE"}
ALL_RX_ERR == {"RXERR", "RXSTO", "CIAERR"}
ALL_ND_RX_ERR == {"RXSTO", "CIAERR"}
ALL_RX_TO == {"RXTO"}
ALL_TX == {"TXFRS"}

(* What the registers say about one reception: the frame, the time stamp    *)
(* and whether the STS was good.                                            *)
NoSlot == [frame |-> NoFrame, time |-> 0, sts |-> FALSE]

(* The driver's static data before the first dwt_initialise: it is zeroed,  *)
(* which reads as double buffering off and no callbacks.                    *)
LocalData == [ dbl |-> "OFF", mode |-> {}, sts |-> "OFF", cb |-> FALSE,
               tuned |-> FALSE, dgcOtp |-> FALSE, diag |-> "OFF",
               err |-> FALSE ]

(* The chip out of reset: on its RC oscillator, with the start-up events    *)
(* pending and only SPIRDY enabled as an interrupt.                         *)
ChipReset == [ power |-> "IDLE_RC", ev |-> {"SPIRDY", "RCINIT"},
               enable |-> {"SPIRDY"}, double |-> FALSE, rearm |-> FALSE,
               fill |-> 0, held |-> {}, good |-> {},
               buf |-> [b \in 0..1 |-> NoSlot], reg |-> NoSlot, ptrB |-> FALSE,
               txbuf |-> NoFrame, late |-> FALSE, txerr |-> FALSE, w4r |-> FALSE, dx |-> 0,
               txtime |-> 0, timeout |-> FALSE, ops |-> "SHORT", gain |-> 0,
               chan |-> 5, code |-> 9, spc |-> "OFF", iv |-> 0, ivreg |-> 0,
               clocks |-> "AUTO", rf |-> {}, test |-> "OFF",
               aon |-> {}, wake |-> {}, atx2slp |-> FALSE, ainit |-> FALSE,
               txant |-> 0, rxant |-> 0, delayed |-> FALSE, gpio |-> {} ]

(* A board that was powered up; its one-time memory says whether the LDO    *)
(* and bias were trimmed and the gain tables stored at production.          *)
PoweredUp(otp) ==
  [f \in DOMAIN LocalData \cup DOMAIN ChipReset \cup {"otp"} |->
     CASE f \in DOMAIN LocalData -> LocalData[f]
       [] f \in DOMAIN ChipReset -> ChipReset[f]
       [] OTHER -> otp]

(* A reset of the chip: the driver's data and the one-time memory stay.     *)
Reset(r) ==
  [f \in DOMAIN r |-> IF f \in DOMAIN ChipReset THEN ChipReset[f] ELSE r[f]]

-------------------------------------------------------------------------------
(* The chip *)

(* Waking up restores the registers from the always-on memory when that was *)
(* asked for; the table of operating parameters and the gain tables are     *)
(* lost, and the second pointer of indirect accesses too.                   *)
Woken(r) ==
  [Reset(r) EXCEPT
     !.chan = IF "CONFIG" \in r.aon THEN r.chan ELSE @,
     !.code = IF "CONFIG" \in r.aon THEN r.code ELSE @,
     !.spc = IF "CONFIG" \in r.aon THEN r.spc ELSE @,
     !.enable = IF "CONFIG" \in r.aon THEN r.enable ELSE @,
     !.atx2slp = "CONFIG" \in r.aon /\ r.atx2slp,
     !.ainit = "CONFIG" \in r.aon /\ r.ainit,
     !.power = IF "CONFIG" \in r.aon /\ r.ainit THEN "IDLE" ELSE @,
     !.aon = r.aon, !.wake = r.wake, !.txbuf = r.txbuf]

(* How a delayed start shows that its time has passed: by the event         *)
(* HPDWARN, or only in SYS_STATE, which reads DW_SYS_STATE_TXERR when the   *)
(* sequencer is in TX and the transmitter idle.                             *)
Lateness == {"none", "HPDWARN", "TXERR"}

(* A frame that is sent leaves at once, or at the delayed time DX_TIME.     *)
CMD_TX(r, delayed, late, w4r) ==
  [r EXCEPT !.power = "TX", !.w4r = w4r, !.delayed = delayed,
            !.late = (late # "none"), !.txerr = (late = "TXERR"),
            !.ev = IF late = "HPDWARN" THEN @ \cup {"HPDWARN"} ELSE @ \ {"HPDWARN"}]

CMD_TXRXOFF(r) ==
  [r EXCEPT !.power = IF @ \in {"TX", "RX"} THEN "IDLE" ELSE @,
            !.w4r = FALSE, !.late = FALSE, !.txerr = FALSE, !.delayed = FALSE]

(* The events of the last reception go when the receiver is switched on:    *)
(* ex_06b_..._no_data never clears RXFR itself.                             *)
SwitchOn(r) == [r EXCEPT !.power = "RX",
                         !.ev = @ \ (ALL_RX_GOOD \cup ALL_RX_ERR \cup ALL_RX_TO)]

CMD_RX(r) == IF r.power = "IDLE" THEN SwitchOn(r) ELSE r

(* Sent: the receiver opens if a response is expected; with ATX2SLP the     *)
(* chip goes to sleep instead, unless its interrupt line is up.             *)
IrqLine(r) == r.ev \cap r.enable # {}

Sent(r, time) ==
  LET done == [r EXCEPT !.ev = @ \cup {"TXFRS"}, !.late = FALSE, !.txerr = FALSE,
                        !.w4r = FALSE, !.delayed = FALSE, !.txtime = time,
                        !.power = "IDLE"]
  IN  IF r.atx2slp /\ "SLP_EN" \in r.wake /\ ~IrqLine(done)
      THEN [done EXCEPT !.power = "SLEEP"]
      ELSE IF r.w4r THEN SwitchOn(done) ELSE done

(* A reception ends: into the buffer the chip is filling, if the host has   *)
(* given it back.  Without payload only RXFR is raised.                     *)
Received(r, slot) ==
  IF r.double /\ r.fill \in r.held
  THEN [r EXCEPT !.power = "IDLE", !.ev = @ \cup {"RXOVRR"}]
  ELSE [r EXCEPT !.power = IF r.rearm THEN "RX" ELSE "IDLE",
          !.reg = slot, !.buf[r.fill] = slot,
          !.ev = @ \cup IF r.spc = "ND" THEN {"RXFR", "CIADONE"}
                        ELSE {"RXFR", "RXFCG", "CIADONE"},
          !.good = IF r.double THEN @ \cup {r.fill} ELSE @,
          !.held = IF r.double THEN @ \cup {r.fill} ELSE @,
          !.fill = IF r.double THEN 1 - @ ELSE @]

(* A reception fails, or nothing comes in time.                             *)
Failed(r, event) == [r EXCEPT !.power = "IDLE", !.ev = @ \cup {event}]

(* FINT_STAT: what the enabled events amount to.                            *)
FintStat(r) ==
  LET up == r.ev \cap r.enable
  IN  (IF "TXFRS" \in up THEN {"TXOK"} ELSE {})
        \cup (IF "RXFCG" \in up THEN {"RXOK"} ELSE {})
        \cup (IF up \cap ALL_RX_ERR # {} THEN {"RXERR"} ELSE {})
        \cup (IF "RXTO" \in up THEN {"RXTO"} ELSE {})
        \cup (IF up \cap {"SPIRDY", "RCINIT"} # {} THEN {"SYS_EVENT"} ELSE {})

-------------------------------------------------------------------------------
(* Reset, start-up and configuration *)

dwt_check_dev_id(r) == r.power # "SLEEP"

dwt_checkidlerc(r) == r.power # "SLEEP" /\ "RCINIT" \in r.ev

(* The table of operating parameters that belongs to a configuration. *)
OpsOf(config) ==
  LET preamble == IF config.plen \in {32, 64, 72, 128} THEN config.plen ELSE 256
      sts == IF config.stsMode # "OFF" THEN config.stsLength ELSE 0
  IN  IF config.txCode > 24 \/ config.rxCode > 24 THEN "SCP"
      ELSE IF preamble + sts >= 256 THEN "LONG" ELSE "SHORT"

(* The sleep_mode flags that make _dwt_kick_ops_table_on_wakeup select the  *)
(* same table again; none for the short one.                                *)
OpsFlags(ops) == CASE ops = "LONG" -> {"ALT_OPS"}
                   [] ops = "SCP" -> {"ALT_OPS", "SEL_OPS1"}
                   [] OTHER -> {}

_dwt_kick_ops_table_on_wakeup(r) ==
  LET sel == r.mode \cap {"ALT_OPS", "SEL_OPS1", "SEL_OPS2"}
  IN  [r EXCEPT !.ops = CASE sel = {"ALT_OPS"} -> "LONG"
                          [] sel = {"ALT_OPS", "SEL_OPS1"} -> "SCP"
                          [] OTHER -> @]

_dwt_kick_dgc_on_wakeup(r, chan) ==
  [r EXCEPT !.gain = IF chan \in Channels THEN chan ELSE @]

dwt_configmrxlut(r, chan) == [r EXCEPT !.gain = IF chan = 5 THEN 5 ELSE 9]

LoadGain(r, chan) == IF r.dgcOtp THEN _dwt_kick_dgc_on_wakeup(r, chan)
                                 ELSE dwt_configmrxlut(r, chan)

dwt_initialise(r) ==
  LET cleared == [r EXCEPT !.dbl = "OFF", !.mode = {"RUNSAR"}, !.sts = "OFF",
                           !.cb = FALSE]
  IN  IF ~dwt_check_dev_id(r) THEN [cleared EXCEPT !.err = TRUE]
      ELSE [cleared EXCEPT !.tuned = "TRIM" \in r.otp,
                           !.dgcOtp = "DGC" \in r.otp, !.err = FALSE]

dwt_force_clocks(r, clocks) ==
  [r EXCEPT !.clocks = IF clocks \in {"TX", "AUTO"} THEN clocks ELSE @]

dwt_setdwstate(r, state) ==
  IF state = "IDLE"
  THEN [dwt_force_clocks(r, "AUTO") EXCEPT !.power = "IDLE", !.ainit = TRUE]
  ELSE LET out == [r EXCEPT !.power = "IDLE_RC", !.ainit = FALSE]
       IN  IF state = "IDLE_RC" THEN dwt_force_clocks(out, "AUTO")
           ELSE [out EXCEPT !.clocks = "FOSCDIV4"]

(* The calibration of the receiver's filters: what it enables it disables   *)
(* again, and it fails when it does not finish or finds no value.           *)
dwt_pgf_cal(r) == { [r EXCEPT !.err = e] : e \in BOOLEAN }

dwt_configurestsmode(r, stsMode) == [r EXCEPT !.sts = stsMode, !.spc = stsMode]

(* dwt_configure: an error return when the PLL does not lock, before the    *)
(* gain tables are loaded, or when the calibration fails, after it.         *)
dwt_configure(r, config) ==
  LET ops == OpsOf(config)
      tuned == [dwt_configurestsmode(r, config.stsMode) EXCEPT
                  !.mode = (@ \ {"ALT_OPS", "SEL_OPS1", "SEL_OPS2"})
                             \cup OpsFlags(ops),
                  !.ops = ops, !.chan = config.chan, !.code = config.txCode]
      idle == [dwt_setdwstate(tuned, "IDLE") EXCEPT !.ev = @ \ {"CPLOCK"}]
      locked == [idle EXCEPT !.ev = @ \cup {"CPLOCK"}]
  IN  {[idle EXCEPT !.err = TRUE, !.power = r.power]} \cup
      dwt_pgf_cal(IF config.rxCode \in 9..24 THEN LoadGain(locked, config.chan)
                  ELSE [locked EXCEPT !.gain = 0])

(* What dwt_restoreconfig takes for the receive code: its mask is applied   *)
(* to bits that were shifted already, so that of the codes a configuration  *)
(* can have (the transmit code is the receive code) only 16 and 24 pass the *)
(* test for a code of 9 to 24.                                              *)
CodeRead(code) == (code \div 8) * 8 + (code % 8) * 32

(* A variant that forgets the table of operating parameters.                *)
RestoreNoKick(r) ==
  LET kept == [r EXCEPT !.ptrB = TRUE]
  IN  IF CodeRead(r.code) \in 9..24 THEN LoadGain(kept, r.chan) ELSE kept

(* After a wake-up: what the chip has lost is set again.                    *)
dwt_restoreconfig(r) ==
  LET kicked == _dwt_kick_ops_table_on_wakeup([r EXCEPT !.ptrB = TRUE])
  IN  IF CodeRead(r.code) \in 9..24 THEN LoadGain(kicked, r.chan) ELSE kicked

dwt_clearaonconfig(r) == [r EXCEPT !.aon = {}, !.wake = {}]

(* The chip is reset, but the driver takes buffer 0 of the double buffer    *)
(* for the current one although the reset switched double buffering off.    *)
dwt_softreset(r) ==
  [Reset(dwt_clearaonconfig(r)) EXCEPT !.dbl = "BUF0", !.mode = {}]

(* The port: the reset line is pulsed before the radio is set up.           *)
spiSelect(r) == Reset(r)

(* A variant that does not pull the line low.                               *)
WakeupNoPulse(r) == r

(* The chip select line is held low to wake the chip.                       *)
wakeup_device_with_io(r) ==
  IF r.power = "SLEEP" /\ "WAKE_CSN" \in r.wake THEN Woken(r) ELSE r

-------------------------------------------------------------------------------
(* Sleeping *)

dwt_configuresleep(r, mode, wake) ==
  LET m == r.mode \cup mode
  IN  [r EXCEPT !.mode = m, !.aon = m, !.wake = wake]

dwt_entersleep(r, idle_rc) ==
  [r EXCEPT !.ainit = IF idle_rc = "IDLE_RC" THEN FALSE ELSE @,
            !.power = IF "SLP_EN" \in r.wake THEN "SLEEP" ELSE @]

dwt_entersleepaftertx(r, enable) == [r EXCEPT !.atx2slp = enable]

-------------------------------------------------------------------------------
(* Interrupts *)

dwt_setcallbacks(r) == [r EXCEPT !.cb = TRUE]

(* The two critical sections (decamutexon, decamutexoff) keep the interrupt *)
(* handler out of these two calls.                                          *)
dwt_setinterrupt(r, events, option) ==
  [r EXCEPT !.enable = CASE option = "ENABLE_INT_ONLY" -> events
                         [] option = "ENABLE_INT" -> @ \cup events
                         [] OTHER -> @ \ events]

dwt_forcetrxoff(r) == CMD_TXRXOFF(r)

(* Writing a one to an event of SYS_STATUS clears it. *)
ClearEvents(r, events) == [r EXCEPT !.ev = @ \ events]

-------------------------------------------------------------------------------
(* Receiving *)

dwt_setdblrxbuffmode(r, enable, mode) ==
  [r EXCEPT !.double = enable, !.rearm = (mode = "AUTO"),
            !.dbl = IF enable THEN "BUF0" ELSE "OFF",
            !.ptrB = IF enable THEN TRUE ELSE @]

(* The buffer the driver reads.                                             *)
CurrentBuffer(r) == IF r.dbl = "BUF1" THEN 1 ELSE 0

(* A variant of the next function that forgets to turn to the other buffer. *)
BuffFreeNoToggle(r) == [r EXCEPT !.held = @ \ {CurrentBuffer(r)}]

(* The buffer the host has done with goes back to the chip, and the driver  *)
(* turns to the other one.                                                  *)
dwt_signal_rx_buff_free(r) ==
  [r EXCEPT !.held = @ \ {CurrentBuffer(r)},
            !.dbl = IF @ = "BUF1" THEN "BUF0" ELSE "BUF1"]

(* Where the payload and what belongs to it are read from.  Buffer 1 is     *)
(* reached through an indirect pointer.                                     *)
dwt_readrxdata(r) == r.buf[CurrentBuffer(r)].frame

RxSlot(r) == CASE r.dbl = "BUF1" -> IF r.ptrB THEN r.buf[1] ELSE NoSlot
               [] r.dbl = "BUF0" -> r.buf[0]
               [] OTHER -> r.reg

dwt_readrxtimestamp(r) == RxSlot(r).time

(* The low half of the time stamp is the register of the last reception,    *)
(* whatever buffer is current.                                              *)
dwt_readrxtimestamplo32(r) == r.reg.time

dwt_readstsquality(r) == r.reg.sts

dwt_configciadiag(r, level) == [r EXCEPT !.diag = level]

(* The groups of diagnostic fields in a set of the double buffer, by level. *)
DiagnosticFields == [MIN |-> {"tdoa"}, MID |-> {"tdoa", "times"},
                     MAX |-> {"tdoa", "times", "power"}]

AllFields == DiagnosticFields["MAX"]

(* Of a set as much is read as the level says, least if it names none of    *)
(* the three; but only a level that is named ends the filling of fields, so *)
(* that with another one more is filled than was read.                      *)
SetDiagnostics(r) ==
  LET named == r.diag \in DOMAIN DiagnosticFields
  IN  [ read |-> DiagnosticFields[IF named THEN r.diag ELSE "MIN"],
        filled |-> IF named THEN DiagnosticFields[r.diag] ELSE AllFields ]

(* Without double buffering the registers are read, and all if all are      *)
(* logged.                                                                  *)
RegisterDiagnostics(r) ==
  LET fields == IF r.diag = "ALL" THEN AllFields ELSE AllFields \ {"power"}
  IN  [read |-> fields, filled |-> fields]

dwt_readdiagnostics(r) ==
  LET fields == IF r.dbl # "OFF" THEN SetDiagnostics(r) ELSE RegisterDiagnostics(r)
  IN  [of |-> RxSlot(r).frame, read |-> fields.read, filled |-> fields.filled]

(* A delayed reception that comes too late turns the receiver off, and on   *)
(* again at once unless the caller asked for idle.                          *)
dwt_rxenable(r, mode, late) ==
  IF mode = "IMMEDIATE" THEN [CMD_RX(r) EXCEPT !.err = FALSE]
  ELSE IF ~late THEN [CMD_RX(ClearEvents(r, {"HPDWARN"})) EXCEPT !.err = FALSE]
  ELSE LET off == [CMD_TXRXOFF(r) EXCEPT !.err = TRUE,
                                         !.ev = @ \cup {"HPDWARN"}]
       IN  IF mode = "IDLE_ON_DLY_ERR" THEN off ELSE CMD_RX(off)

(* A variant that leaves the receiver on for ever.                          *)
RxTimeoutIgnored(r, time) == r

(* A time of zero switches the timeout off.                                 *)
dwt_setrxtimeout(r, time) == [r EXCEPT !.timeout = (time > 0)]

-------------------------------------------------------------------------------
(* Sending *)

(* dwt_writetxdata and dwt_writetxfctrl: what will be sent. *)
LoadFrame(r, frame) == [r EXCEPT !.txbuf = frame, !.err = FALSE]

dwt_setdelayedtrxtime(r, starttime) == [r EXCEPT !.dx = starttime]

(* dwt_starttx of an immediate transmission, and of a delayed one in its    *)
(* two steps: the command, then the check that it was given in time.        *)
dwt_starttx(r, w4r) == [CMD_TX(r, FALSE, "none", w4r) EXCEPT !.err = FALSE]

StartDelayed(r, late, w4r) == CMD_TX(r, TRUE, late, w4r)

(* A variant that reads the event only.                                     *)
CheckWarningOnly(r) ==
  IF "HPDWARN" \in r.ev THEN [CMD_TXRXOFF(r) EXCEPT !.err = TRUE]
  ELSE [r EXCEPT !.err = FALSE]

(* A transmission that would be late is abandoned.                          *)
CheckDelayed(r) ==
  IF "HPDWARN" \in r.ev \/ r.txerr THEN [CMD_TXRXOFF(r) EXCEPT !.err = TRUE]
  ELSE [r EXCEPT !.err = FALSE]

(* A transmission at once, or a delayed one with its check.                 *)
dwt_starttx_delayed(r, late) == CheckDelayed(StartDelayed(r, late, FALSE))

(* The time stamp of the last transmission, antenna delay included.         *)
dwt_readtxtimestamplo32(r) == r.txtime

(* The antenna delays: added to the stamps of what is sent, taken off those *)
(* of what is received.                                                     *)
dwt_setrxantennadelay(r, rxDelay) == [r EXCEPT !.rxant = rxDelay]

dwt_settxantennadelay(r, txDelay) == [r EXCEPT !.txant = txDelay]

-------------------------------------------------------------------------------
(* Pins *)

(* The pins that show receptions and transmissions, and their clocks.       *)
dwt_setleds(r, mode) ==
  [r EXCEPT !.gpio = IF "ENABLE" \in mode THEN @ \cup {"RXLED", "TXLED"}
                     ELSE @ \ {"RXLED", "TXLED"}]

(* The pins that switch an amplifier on.                                    *)
dwt_setlnapamode(r, lna_pa) ==
  [r EXCEPT !.gpio =
     (@ \ {"EXTRX", "EXTDA", "EXTTX", "EXTTXE", "EXTRXE"})
       \cup (IF "LNA" \in lna_pa THEN {"EXTRX"} ELSE {})
       \cup (IF "PA" \in lna_pa THEN {"EXTDA", "EXTTX"} ELSE {})
       \cup (IF "TXRX" \in lna_pa THEN {"EXTTXE", "EXTRXE"} ELSE {})]

-------------------------------------------------------------------------------
(* Transmitter tests and calibration *)

dwt_enable_rf_tx(r, chan) == [r EXCEPT !.rf = @ \cup {"LDO", IF chan = 5 THEN "TX5" ELSE "TX"}]

dwt_disable_rf_tx(r) == [r EXCEPT !.rf = {}]

(* The count of pulse generator cycles, and the bandwidth adjustment that   *)
(* dwt_configuretxrf makes for a count: clocks and blocks are forced on for *)
(* the measurement and released after it.                                   *)
dwt_calcpgcount(r, chan) ==
  LET forced == dwt_enable_rf_tx(dwt_force_clocks(r, "TX"), chan)
  IN  dwt_force_clocks(dwt_disable_rf_tx(forced), "AUTO")

dwt_calcbandwidthadj(r, chan) == dwt_calcpgcount(r, chan)

dwt_configuretxrf(r, config) ==
  IF config.PGcount = 0 THEN r ELSE dwt_calcbandwidthadj(r, r.chan)

(* A continuous wave, or frames without end: nothing but a reset stops it.  *)
dwt_configcwmode(r, chan) ==
  [dwt_force_clocks(dwt_enable_rf_tx(r, chan), "TX") EXCEPT !.test = "CW"]

dwt_configcontinuousframemode(r, chan) ==
  [dwt_force_clocks(dwt_enable_rf_tx(r, chan), "TX") EXCEPT !.test = "FRAMES"]

-------------------------------------------------------------------------------
(* The scrambled time stamp sequence *)

(* The initial value is written, then the counter is loaded from it.        *)
dwt_configurestsiv(r, iv) == [r EXCEPT !.ivreg = iv]

dwt_configurestsloadiv(r) == [r EXCEPT !.iv = r.ivreg]
=============================================================================
