------------------------------ MODULE Dw3000Host ------------------------------
(***************************************************************************)
(* One host and its radio (Dw3000).  The host runs one of the programs of  *)
(* examples/ that have no partner, which poll the status register, or an   *)
(* interrupt-driven application: a main thread that may make any call of   *)
(* the driver when the radio is idle, with dwt_isr and its callbacks       *)
(* running between any two of its steps, and the chip sending, receiving   *)
(* and failing between any two steps of either.                            *)
(*                                                                         *)
(* The interrupt-driven application keeps the rules the driver's comments  *)
(* give: the callbacks switch the receiver on again, after reading the     *)
(* frame if there is one buffer and before it if there are two; settings   *)
(* change only while nothing is pending; and the reception interrupts, not *)
(* SPIRDY, are enabled.                                                    *)
(***************************************************************************)
EXTENDS Dw3000, Sequences

CONSTANTS MaxFrames,   \* receptions that are considered
          MaxCalls,    \* calls of the main thread that are considered
          Configs      \* what the application configures

VARIABLES r,           \* the radio
          prog,        \* the program on the host
          pc,          \* the next call of a polling program; 0 once it stopped
          phase,       \* what has been set up
          config,      \* the configuration last asked for
          isr,         \* where dwt_isr is, and what it read on entry
          delivered,   \* frames the chip has put into a buffer
          read,        \* what was read for each frame
          checking,    \* a delayed transmission was started and not yet checked
          calls        \* of the driver by the application

vars == <<r, prog, pc, phase, config, isr, delivered, read, checking, calls>>

(* The configurations are of the two channels, with codes that have gain    *)
(* tables, as all in dw3000_config_options.cpp are.                         *)
HostAssumption ==
  /\ MaxFrames \in Nat /\ MaxCalls \in Nat
  /\ \A c \in Configs : c.chan \in Channels /\ c.rxCode \in 9..24
ASSUME HostAssumption

-------------------------------------------------------------------------------
(* The polling programs, as the driver calls they make, once and for ever. *)

Program(setup, loop) == [setup |-> setup, loop |-> loop]

ex_00a_reading_dev_id == Program(<<"spiSelect", "check_dev_id">>, <<>>)

ex_01a_simple_tx ==
  Program(<<"spiSelect", "checkidlerc", "softreset", "checkidlerc",
            "initialise", "configure", "configuretxrf">>,
          <<"write", "starttx", "await TXFRS", "clear TXFRS">>)

SleepSetup == <<"spiSelect", "checkidlerc", "initialise", "configure",
                "configuretxrf", "configuresleep CSN">>

ex_01b_tx_sleep ==
  Program(SleepSetup,
          <<"write", "starttx", "await TXFRS", "clear TXFRS", "entersleep",
            "wakeup", "await idlerc">> \o SleepSetup)

ex_01c_tx_sleep_auto ==
  Program(<<"spiSelect", "checkidlerc", "initialise", "configure",
            "configuretxrf", "configuresleep WUP", "entersleepaftertx",
            "clear enabled">>,
          <<"write", "starttx", "pause", "wakeup", "await idlerc",
            "restoreconfig">>)

ex_02a_simple_rx ==
  Program(<<"spiSelect", "checkidlerc", "softreset", "initialise",
            "configure">>,
          <<"rxenable", "await reception", "take frame">>)

Programs == [devid |-> ex_00a_reading_dev_id, tx |-> ex_01a_simple_tx,
             sleep |-> ex_01b_tx_sleep, auto |-> ex_01c_tx_sleep_auto,
             rx |-> ex_02a_simple_rx]

(* Their configuration: channel 5, 128 symbols, code 9, no STS. *)
ExampleConfig == Config(5, 128, 9, "6M8", "OFF", 64)

Call(p) == LET all == IF p = "app" THEN <<>>
                      ELSE Programs[p].setup \o Programs[p].loop
           IN  IF pc \in DOMAIN all THEN all[pc] ELSE "none"

AfterCall(p) ==
  LET n == Len(Programs[p].setup)
  IN  IF pc < n + Len(Programs[p].loop) THEN pc + 1 ELSE n + 1

(* What a busy wait waits for; a pause is long enough for a frame to leave. *)
Awaited(call) ==
  CASE call = "await TXFRS" -> "TXFRS" \in r.ev
    [] call = "await idlerc" -> dwt_checkidlerc(r)
    [] call = "await reception" -> r.ev \cap ({"RXFCG"} \cup ALL_RX_ERR) # {}
    [] call = "pause" -> r.power # "TX"
    [] OTHER -> TRUE

(* What a call does to the radio; a failed check has its error return.      *)
Effect(call) ==
  CASE call = "spiSelect" -> {spiSelect(r)}
    [] call \in {"checkidlerc"} -> {[r EXCEPT !.err = ~dwt_checkidlerc(r)]}
    [] call = "check_dev_id" -> {[r EXCEPT !.err = ~dwt_check_dev_id(r)]}
    [] call = "softreset" -> {dwt_softreset(r)}
    [] call = "initialise" -> {dwt_initialise(r)}
    [] call = "configure" -> dwt_configure(r, ExampleConfig)
    [] call = "configuretxrf" -> {dwt_configuretxrf(r, TxConfig(5))}
    [] call = "configuresleep CSN" ->
         {dwt_configuresleep(r, {"CONFIG"},
                             {"PRES_SLEEP", "WAKE_CSN", "WAKE_WUP", "SLP_EN"})}
    [] call = "configuresleep WUP" ->
         {dwt_configuresleep(r, {"CONFIG"}, {"PRES_SLEEP", "WAKE_WUP", "SLP_EN"})}
    [] call = "entersleepaftertx" -> {dwt_entersleepaftertx(r, TRUE)}
    [] call = "clear enabled" ->
         {ClearEvents(dwt_setinterrupt(r, {"SPIRDY"}, "DISABLE_INT"), r.ev)}
    [] call = "write" -> {LoadFrame(r, 0)}
    [] call = "starttx" -> {dwt_starttx(r, FALSE)}
    [] call = "clear TXFRS" -> {ClearEvents(r, {"TXFRS"})}
    [] call = "entersleep" -> {dwt_entersleep(r, "IDLE")}
    [] call = "wakeup" -> {wakeup_device_with_io(r)}
    [] call = "restoreconfig" -> {dwt_restoreconfig(r)}
    [] call = "rxenable" -> {dwt_rxenable(r, "IMMEDIATE", FALSE)}
    [] call = "take frame" ->
         {ClearEvents(r, IF "RXFCG" \in r.ev THEN {"RXFCG"} ELSE ALL_RX_ERR)}
    [] OTHER -> {r}

(* What is read of a frame: payload, diagnostics and time stamp; and        *)
(* whether every diagnostic field is one that was read.                     *)
Reading == LET diagnostics == dwt_readdiagnostics(r)
           IN  [ data |-> dwt_readrxdata(r), diag |-> diagnostics.of,
                 stamp |-> dwt_readrxtimestamp(r),
                 known |-> diagnostics.filled \subseteq diagnostics.read ]

(* The next call of a polling program; after an error it stops for ever.    *)
RunProgram ==
  /\ prog \in DOMAIN Programs
  /\ Call(prog) # "none"
  /\ Awaited(Call(prog))
  /\ \E q \in Effect(Call(prog)) :
       /\ r' = q
       /\ pc' = IF q.err THEN 0 ELSE AfterCall(prog)
  /\ read' = IF Call(prog) = "take frame" /\ "RXFCG" \in r.ev
             THEN Append(read, Reading) ELSE read
  /\ config' = IF Call(prog) = "configure" THEN ExampleConfig ELSE config
  /\ phase' = CASE Call(prog) = "configure" -> "configured"
                [] Call(prog) = "restoreconfig" -> "restored"
                [] OTHER -> phase
  /\ UNCHANGED <<prog, isr, delivered, checking, calls>>
-------------------------------------------------------------------------------
(* The application.                                                         *)

(* The main thread runs while the interrupt handler does not. *)
Main(phases) ==
  prog = "app" /\ phase \in phases /\ isr.at = "none" /\ ~checking

Quiet == r.power \in {"IDLE", "IDLE_RC"} /\ ~(r.cb /\ IrqLine(r))

Operation(phases) == Main(phases) /\ calls < MaxCalls /\ calls' = calls + 1

Unread == <<isr, delivered, read>>

Initialise ==
  /\ Main({"reset"})
  /\ r' = dwt_initialise(r)
  /\ phase' = "initialised"
  /\ UNCHANGED <<prog, pc, config, calls, checking, Unread>>

(* A configuration, then callbacks, the reception and transmission          *)
(* interrupts, the kind of buffering and a level of diagnostics for it.     *)
Configure ==
  /\ Operation({"initialised", "configured", "restored"})
  /\ Quiet
  /\ \E c \in Configs : \E q \in dwt_configure(r, c) :
       /\ config' = c
       /\ IF q.err THEN r' = q /\ phase' = "failed"
          ELSE /\ \E double \in BOOLEAN :
                  \E level \in IF double THEN {"MIN", "MID", "MAX"} ELSE {"OFF", "ALL"} :
                    r' = dwt_setdblrxbuffmode(
                           dwt_configciadiag(
                             dwt_setinterrupt(
                               dwt_setcallbacks(
                                 ClearEvents([q EXCEPT !.held = {}, !.good = {},
                                                       !.fill = 0], q.ev)),
                               {"TXFRS", "RXERR", "RXTO"} \cup
                                 IF c.stsMode = "ND" THEN {"RXFR"} ELSE {"RXFCG"},
                               "ENABLE_INT_ONLY"),
                             level),
                           double, "MAN")
               /\ phase' = "configured"
  /\ UNCHANGED <<prog, pc, checking, Unread>>

Listen ==
  /\ Operation({"configured", "restored"})
  /\ Quiet
  /\ \/ r' = dwt_rxenable(r, "IMMEDIATE", FALSE)
     \/ \E mode \in {"DELAYED", "IDLE_ON_DLY_ERR"}, late \in BOOLEAN :
          r' = dwt_rxenable(r, mode, late)
  /\ UNCHANGED <<prog, pc, phase, config, checking, Unread>>

(* The receiver is switched off; a reception that has just ended is still   *)
(* pending.                                                                 *)
StopListening ==
  /\ Operation({"configured", "restored"})
  /\ r.power = "RX"
  /\ r' = dwt_forcetrxoff(r)
  /\ UNCHANGED <<prog, pc, phase, config, checking, Unread>>

(* A frame at once, or in two steps at a time that may have passed.         *)
Send ==
  /\ Operation({"configured", "restored"})
  /\ Quiet
  /\ \E w4r \in BOOLEAN :
       \/ /\ r' = dwt_starttx(LoadFrame(r, 0), w4r)
          /\ UNCHANGED checking
       \/ /\ \E late \in Lateness :
               r' = StartDelayed(dwt_setdelayedtrxtime(LoadFrame(r, 0), 0),
                                 late, w4r)
          /\ checking' = TRUE
  /\ UNCHANGED <<prog, pc, phase, config, Unread>>

CheckTime ==
  /\ checking /\ isr.at = "none"
  /\ r' = CheckDelayed(r)
  /\ checking' = FALSE
  /\ UNCHANGED <<prog, pc, phase, config, calls, Unread>>

(* Asleep with one buffer, awake, and what was lost restored. *)
EnterSleep ==
  /\ Operation({"configured"})
  /\ Quiet /\ r.dbl = "OFF"
  /\ r' = dwt_entersleep(dwt_configuresleep(r, {"CONFIG"},
                                            {"WAKE_CSN", "SLP_EN"}), "IDLE")
  /\ phase' = "asleep"
  /\ UNCHANGED <<prog, pc, config, checking, Unread>>

WakeUp ==
  /\ Main({"asleep"})
  /\ r' = dwt_restoreconfig(wakeup_device_with_io(r))
  /\ phase' = "restored"
  /\ UNCHANGED <<prog, pc, config, calls, checking, Unread>>

(* A measurement, or a test transmission that only a reset ends. *)
Calibrate ==
  /\ Operation({"configured", "restored"})
  /\ Quiet
  /\ r' = dwt_calcpgcount(r, config.chan)
  /\ UNCHANGED <<prog, pc, phase, config, checking, Unread>>

TestTransmit ==
  /\ Operation({"configured"})
  /\ Quiet
  /\ \/ r' = dwt_configcwmode(r, config.chan)
     \/ r' = dwt_configcontinuousframemode(r, config.chan)
  /\ phase' = "test"
  /\ UNCHANGED <<prog, pc, config, checking, Unread>>

SoftReset ==
  /\ Operation({"configured", "restored", "test", "failed"})
  /\ Quiet
  /\ r' = dwt_softreset(r)
  /\ phase' = "reset"
  /\ UNCHANGED <<prog, pc, config, checking, Unread>>

-------------------------------------------------------------------------------
(* dwt_isr: the interrupt status and the events are read on entry; what     *)
(* happens afterwards is found by the next interrupt.                       *)

Handler(at) == isr.at = at /\ UNCHANGED <<prog, pc, phase, config, delivered, checking,
                                          calls>>

Goto(at) == isr' = [isr EXCEPT !.at = at]

IsrEnter ==
  /\ Handler("none")
  /\ r.cb /\ IrqLine(r)
  /\ isr' = [ at |-> "tx", status |-> r.ev,
              fstat |-> FintStat(r) \cup IF r.sts = "ND" /\ "RXFR" \in r.ev
                                         THEN {"RXOK"} ELSE {} ]
  /\ UNCHANGED <<r, read>>

(* Transmission done: the events are cleared, then the callback is called.  *)
IsrTx ==
  /\ Handler("tx")
  /\ r' = IF "TXOK" \in isr.fstat THEN ClearEvents(r, ALL_TX) ELSE r
  /\ Goto("ready")
  /\ UNCHANGED read

(* Start-up: the callback first, then the events are cleared. *)
IsrReady ==
  /\ Handler("ready")
  /\ r' = IF "SYS_EVENT" \in isr.fstat THEN ClearEvents(r, {"RCINIT", "SPIRDY"})
          ELSE r
  /\ Goto("good")
  /\ UNCHANGED read

(* Reception: the flags of the current buffer, if there are two, join the   *)
(* events read on entry; they and the events are cleared before the         *)
(* callback runs.                                                           *)
IsrGood ==
  LET status == isr.status \cup
                  IF r.dbl # "OFF" /\ CurrentBuffer(r) \in r.good
                  THEN {"RXFCG", "RXFR", "CIADONE"} ELSE {}
      nodata == "RXFR" \in status /\ r.sts = "ND"
      flagged == IF ~nodata /\ "RXFCG" \in status /\ r.dbl # "OFF"
                 THEN [r EXCEPT !.good = @ \ {CurrentBuffer(r)}] ELSE r
  IN  /\ Handler("good")
      /\ IF "RXOK" \in isr.fstat
         THEN /\ r' = ClearEvents(flagged, ALL_RX_GOOD \cup
                                    IF nodata THEN {"RXERR"} ELSE {})
              /\ Goto("callback")
         ELSE r' = r /\ Goto("bad")
      /\ UNCHANGED read

(* cbRxOk of the application.  With two buffers the receiver is switched on *)
(* before the frame is read, with one after it.                             *)
CallbackFirst ==
  /\ Handler("callback")
  /\ IF r.dbl # "OFF" THEN r' = dwt_rxenable(r, "IMMEDIATE", FALSE) /\ read' = read
     ELSE r' = r /\ read' = Append(read, Reading)
  /\ Goto("callback2")

CallbackSecond ==
  /\ Handler("callback2")
  /\ IF r.dbl = "OFF" THEN r' = dwt_rxenable(r, "IMMEDIATE", FALSE) /\ read' = read
     ELSE r' = r /\ read' = Append(read, Reading)
  /\ Goto("free")

IsrFree ==
  /\ Handler("free")
  /\ r' = IF r.dbl # "OFF" THEN dwt_signal_rx_buff_free(r) ELSE r
  /\ Goto("bad")
  /\ UNCHANGED read

(* Failed receptions and timeouts: cleared before the callback, which       *)
(* switches the receiver on again.                                          *)
IsrBad ==
  /\ Handler("bad")
  /\ r' = IF "RXERR" \in isr.fstat
          THEN dwt_rxenable(ClearEvents(r, ALL_RX_ERR), "IMMEDIATE", FALSE) ELSE r
  /\ Goto("timeout")
  /\ UNCHANGED read

IsrTimeout ==
  /\ Handler("timeout")
  /\ r' = IF "RXTO" \in isr.fstat
          THEN dwt_rxenable(ClearEvents(r, {"RXTO"}), "IMMEDIATE", FALSE) ELSE r
  /\ Goto("none")
  /\ UNCHANGED read

dwt_isr == \/ IsrEnter \/ IsrTx \/ IsrReady \/ IsrGood \/ CallbackFirst
           \/ CallbackSecond \/ IsrFree \/ IsrBad \/ IsrTimeout

-------------------------------------------------------------------------------
(* The chip, at any time. *)

Chip == UNCHANGED <<prog, pc, phase, config, isr, read, checking, calls>>

(* A transmission whose time has passed would leave after the counter has   *)
(* wrapped, long after dwt_starttx has returned.                            *)
ChipSends ==
  /\ r.power = "TX" /\ (r.late => ~checking)
  /\ r' = Sent(r, r.dx)
  /\ Chip /\ UNCHANGED delivered

ChipReceives ==
  LET f == Len(delivered) + 1
  IN  /\ r.power = "RX" /\ f <= MaxFrames
      /\ r' = Received(r, [frame |-> f, time |-> f, sts |-> TRUE])
      /\ delivered' = IF r'.reg.frame = f THEN Append(delivered, f) ELSE delivered
      /\ Chip

ChipFails ==
  /\ r.power = "RX"
  /\ \E event \in {"RXERR", "RXTO"} : r' = Failed(r, event)
  /\ Chip /\ UNCHANGED delivered

Init ==
  /\ r \in { PoweredUp(otp) : otp \in SUBSET {"TRIM", "DGC"} }
  /\ prog \in DOMAIN Programs \cup {"app"}
  /\ pc = IF prog = "app" THEN 0 ELSE 1
  /\ phase = "reset"
  /\ config = ExampleConfig
  /\ isr = [at |-> "none", status |-> {}, fstat |-> {}]
  /\ delivered = <<>> /\ read = <<>> /\ checking = FALSE /\ calls = 0

AppNext == \/ Initialise \/ Configure \/ Listen \/ StopListening \/ Send
           \/ CheckTime \/ EnterSleep \/ WakeUp \/ Calibrate \/ TestTransmit
           \/ SoftReset

Next == RunProgram \/ AppNext \/ dwt_isr \/ ChipSends \/ ChipReceives \/ ChipFails

(* The programs keep calling, and a transmission comes to its end. *)
Spec == Init /\ [][Next]_vars /\ WF_vars(RunProgram) /\ WF_vars(ChipSends)
          /\ WF_vars(dwt_isr)

-------------------------------------------------------------------------------
(* Properties *)

(* Every frame the chip has taken is read once, in order, and payload,      *)
(* diagnostics and time stamp are read from the same buffer, however        *)
(* receptions fall between the steps of dwt_isr and its callback, and no    *)
(* diagnostic field is filled from what was not read.  Once nothing is      *)
(* pending, none has been missed.                                           *)
FramesReadOnce ==
  /\ Len(read) <= Len(delivered)
  /\ \A i \in DOMAIN read :
       read[i] = [data |-> delivered[i], diag |-> delivered[i],
                  stamp |-> delivered[i], known |-> TRUE]
  /\ prog = "app" /\ r.cb /\ isr.at = "none" /\ ~IrqLine(r) =>
       Len(read) = Len(delivered)

(* Whenever the radio is on the air after a configuration, or after a       *)
(* wake-up and dwt_restoreconfig, it works with the operating parameters    *)
(* and the channel of that configuration and with the clocks and the        *)
(* transmitter blocks released; and with the gain tables of its channel,    *)
(* except after a wake-up with a code for which dwt_restoreconfig takes the *)
(* gain tables to be unused.                                                *)
ReceiverTuned ==
  r.power \in {"RX", "TX"} /\ r.test = "OFF" =>
    /\ r.ops = OpsOf(config) /\ r.chan = config.chan /\ r.code = config.txCode
    /\ r.clocks = "AUTO" /\ r.rf = {}
    /\ phase # "restored" \/ config.txCode \in {16, 24} => r.gain = config.chan

(* A delayed frame whose time had passed when it was started is never sent, *)
(* whether the chip says so by HPDWARN or only in SYS_STATE.                *)
NeverSentLate == [][r.power = "TX" /\ "TXFRS" \in r'.ev => ~r.late]_vars

(* The two programs that send and poll go on sending unless their radio did *)
(* not come up, the one that sleeps between two frames included.            *)
SendersGoOn == prog \in {"tx", "sleep"} => []<>(Call(prog) = "write") \/ <>[](pc = 0)
=============================================================================
