------------------------------- MODULE Ranging -------------------------------
(***************************************************************************)
(* Single-sided two-way ranging between DW3000 radios: the pairs of        *)
(* programs examples/ex_06*, and the museum's TourTag (MuseumMateUWB.cpp)  *)
(* with its beacons (MuseumMate_Beacon.ino) and the server that picks the  *)
(* beacons a position is computed from.                                    *)
(*                                                                         *)
(* An initiator polls, a responder answers at a time it has computed and   *)
(* put into the answer, and the initiator works out the time of flight     *)
(* from four time stamps of two clocks.  A step of a program is what it    *)
(* does between two busy waits; the chips send, receive, fail and time out *)
(* between any two steps.                                                  *)
(*                                                                         *)
(* Clocks have 40 bits in the chip, delayed times leave the last 8 of them *)
(* out, and messages carry the last 32 of a stamp; the widths are          *)
(* constants.                                                              *)
(* Crystals run at the same rate: the correction by the carrier offset is  *)
(* a factor of one.  Sequence numbers are written and never compared, and  *)
(* are left out.                                                           *)
(***************************************************************************)
EXTENDS Mac802154, Integers, SequencesExt

CONSTANTS Nodes,       \* radios, numbered; a beacon's number is its identity
          Casts,       \* which programs run where, with which clocks, and where
          HalfStamp,   \* half of what a stamp in a message counts to: 2^31
          ClockWraps,  \* a clock counts to as many times that: 2^40 in all
          DelayUnit,   \* ticks in a step of a delayed time: 2^8
          Uus,         \* UWB microseconds in a tick
          AntDelay,    \* ticks a frame spends in the antenna; TX_ANT_DLY, RX_ANT_DLY
          CntMod,      \* frame counters count modulo this
          MAX_READINGS, \* readings kept per beacon
          TrimOneIn,   \* one in so many readings is removed at either end
          Centimetres  \* distance light travels in a tick

VARIABLES cast,        \* the cast that is playing
          r,           \* the radio of each node
          pc,          \* where the program of each node waits
          h,           \* the data of each program
          round,       \* the tag's beaconDistances and sample counter
          server       \* the last datagram and the server's signal map

vars == <<cast, r, pc, h, round, server>>

RangingAssumption ==
  /\ Nodes \subseteq Nat /\ Uus \in Nat \ {0} /\ CntMod \in Nat \ {0}
  /\ HalfStamp \in Nat \ {0} /\ ClockWraps \in Nat \ {0} /\ DelayUnit \in Nat \ {0} /\ AntDelay \in Nat
  /\ MAX_READINGS \in Nat \ {0} /\ TrimOneIn \in Nat \ {0, 1, 2} /\ Centimetres \in Nat
  /\ IsFiniteSet(Nodes)
  /\ \A c \in Casts : c.samples \in Nat \ {0}
ASSUME RangingAssumption

Prog(n) == cast.prog[n]

Initiators == {n \in Nodes : Prog(n) \in {"init", "init_sts", "init_nd", "init_aes", "tag"}}
Responders == {n \in Nodes : Prog(n) \in {"resp", "resp_sts", "resp_nd", "resp_aes", "beacon"}}

(* The fixed prefix of a message: which pair of programs it belongs to. *)
Net(n) == CASE Prog(n) \in {"init", "resp"} -> "plain"
            [] Prog(n) \in {"init_sts", "resp_sts"} -> "sts"
            [] Prog(n) \in {"init_nd", "resp_nd"} -> "nd"
            [] Prog(n) \in {"init_aes", "resp_aes"} -> "aes"
            [] OTHER -> "museum"

-------------------------------------------------------------------------------
(* Time *)

StampSize == 2 * HalfStamp
ClockSize == ClockWraps * StampSize

Clock(x) == x % ClockSize

LowStamp(x) == x % StampSize

(* The difference of two uint32_t, taken as an int32_t. *)
SignedDiff(a, b) == LET d == (a - b) % StampSize
                    IN  IF d >= HalfStamp THEN d - StampSize ELSE d

Ticks(uus) == uus \div Uus

(* The time of flight, in half ticks, from the four stamps. *)
TwiceFlight(poll_tx_ts, resp_rx_ts, poll_rx_ts, resp_tx_ts) ==
  SignedDiff(resp_rx_ts, poll_tx_ts) - SignedDiff(resp_tx_ts, poll_rx_ts)

(* dw3000_shared_functions.cpp: what slower settings add to a delay. *)
get_rx_delay_time_txpreamble(config) ==
  IF config.plen > 128 THEN config.plen - 128 ELSE 0

get_rx_delay_time_data_rate(config) == IF config.rate = "850K" THEN 200 ELSE 0

(* Symbols of the STS, of 1 and 1/64 microseconds each: eight enum steps.   *)
StsTime(config) == config.stsLength

SlowDelay(config) == 400 + get_rx_delay_time_data_rate(config)
                     + get_rx_delay_time_txpreamble(config) + StsTime(config)

(* config_options of the build. *)
config_options == Option33

(* How long after a poll a responder's program answers.                     *)
ReplyDelay(prog) ==
  CASE prog = "resp_sts" -> 450 + SlowDelay(config_options)
    [] prog = "resp_nd" -> 550 + SlowDelay(config_option_sp3)
    [] prog = "resp_aes" -> 2000
    [] OTHER -> 450

set_resp_rx_timeout(q, delay, config) ==
  dwt_setrxtimeout(q, delay + get_rx_delay_time_data_rate(config)
                      + get_rx_delay_time_txpreamble(config) + 500
                      + IF config.stsLength \in {256, 512, 1024, 2048}
                        THEN StsTime(config) ELSE 0)

set_delayed_rx_time(q, delay, config) ==
  dwt_setdelayedtrxtime(q,
    Ticks(delay - (IF config.plen = 4096 THEN 2048 ELSE config.plen)
          + StsTime(config)) \div DelayUnit)

get_rx_timestamp_u64(q) == dwt_readrxtimestamp(q)

(* When a response to the poll in the radio will be sent, in units of       *)
(* DX_TIME.                                                                 *)
RespTxTime(poll_rx_ts, delay) == ((poll_rx_ts + Ticks(delay)) \div DelayUnit) % (ClockSize \div DelayUnit)

(* A variant without the mask for the bit of DX_TIME the chip ignores.      *)
RespTxStampUnmasked(resp_tx_time) == resp_tx_time * DelayUnit + AntDelay

(* The stamp that a response sent at this time will have.                   *)
RespTxStamp(resp_tx_time) == (resp_tx_time - (resp_tx_time % 2)) * DelayUnit + AntDelay

(* resp_msg_set_ts, resp_msg_get_ts: stamps in a message.                   *)
resp_msg_set_ts(poll_rx_ts, resp_tx_ts) == <<LowStamp(poll_rx_ts), LowStamp(resp_tx_ts)>>

resp_msg_get_ts(frame) == frame.stamps

-------------------------------------------------------------------------------
(* Setting up *)

NoReading == [twice |-> 0, from |-> 0]

Message(n, kind, stamps) ==
  [net |-> Net(n), kind |-> kind, from |-> n, stamps |-> stamps,
   len |-> 0, mac |-> Header(0, 0, 0, 0), seal |-> <<>>]

Foreign == [net |-> "other", kind |-> "poll", from |-> 0,
            stamps |-> <<0, 0>>, len |-> 40,
            mac |-> [Header(9, 9, 0, 1) EXCEPT !.secure = FALSE], seal |-> <<>>]

(* Reset, the wait for IDLE_RC, dwt_initialise, and the LEDs.               *)
StartedUp(q, leds) ==
  LET up == spiSelect(q)
  IN  IF ~dwt_checkidlerc(up) THEN [up EXCEPT !.err = TRUE]
      ELSE dwt_setleds(dwt_initialise(up), leds)

Configured(q, config) ==
  { dwt_configuretxrf(c, TxConfig(config.chan)) : c \in dwt_configure(q, config) }

AntennaDelays(q) == dwt_settxantennadelay(dwt_setrxantennadelay(q, AntDelay), AntDelay)

Amplified(q) == dwt_setlnapamode(q, {"LNA", "PA"})

Blink == {"ENABLE", "INIT_BLINK"}

PlainConfig == Config(5, 128, 9, "6M8", "OFF", 64)

ex_06a_setup(q) ==
  { Amplified(dwt_setrxtimeout(AntennaDelays(c), 400)) :
      c \in Configured(StartedUp(q, Blink), PlainConfig) }

ex_06b_setup(q) ==
  { Amplified(AntennaDelays(c)) : c \in Configured(StartedUp(q, Blink), PlainConfig) }

ex_06a_sts_setup(q) ==
  { Amplified(set_resp_rx_timeout(AntennaDelays(c), 700, config_options)) :
      c \in Configured(StartedUp(q, Blink), config_options) }

ex_06b_sts_setup(q) ==
  { Amplified(AntennaDelays(c)) : c \in Configured(StartedUp(q, Blink), config_options) }

ex_06a_no_data_setup(q) ==
  Configured(Amplified(AntennaDelays(StartedUp(q, Blink))), config_option_sp3)

ex_06b_no_data_setup(q) ==
  Configured(Amplified(AntennaDelays(StartedUp(q, Blink))), config_option_sp3)

ex_06e_setup(q) ==
  { Amplified(dwt_setrxtimeout(AntennaDelays(c), 250)) :
      c \in Configured(StartedUp(q, Blink), PlainConfig) }

ex_06f_setup(q) ==
  { Amplified(AntennaDelays(c)) : c \in Configured(StartedUp(q, Blink), PlainConfig) }

UWB_setup(q) ==
  { Amplified(dwt_setrxtimeout(AntennaDelays(c), 400)) :
      c \in Configured(StartedUp(q, Blink), PlainConfig) }

Beacon_setup(q) ==
  { Amplified(AntennaDelays(c)) : c \in Configured(StartedUp(q, {}), PlainConfig) }

SetupOf(n, q) ==
  CASE Prog(n) = "init" -> ex_06a_setup(q)
    [] Prog(n) = "resp" -> ex_06b_setup(q)
    [] Prog(n) = "init_sts" -> ex_06a_sts_setup(q)
    [] Prog(n) = "resp_sts" -> ex_06b_sts_setup(q)
    [] Prog(n) = "init_nd" -> ex_06a_no_data_setup(q)
    [] Prog(n) = "resp_nd" -> ex_06b_no_data_setup(q)
    [] Prog(n) = "init_aes" -> ex_06e_setup(q)
    [] Prog(n) = "resp_aes" -> ex_06f_setup(q)
    [] Prog(n) = "tag" -> UWB_setup(q)
    [] OTHER -> Beacon_setup(q)

Elsewhere == UNCHANGED <<cast, round, server>>

(* What a radio has left of earlier frames is not read by any program once  *)
(* its receiver is on again or the next exchange begins, and is left out:   *)
(* read, it would show as no frame.                                         *)
Emptied(q) == [q EXCEPT !.reg = NoSlot, !.buf = [b \in 0..1 |-> NoSlot],
                        !.txbuf = NoFrame, !.dx = 0]

Settled(q, at) ==
  IF at \in {"listen", "pause", "poll"} THEN [Emptied(q) EXCEPT !.txtime = 0]
  ELSE IF q.power = "RX" THEN Emptied(q) ELSE q

Goto(n, q, at) ==
  /\ r' = [r EXCEPT ![n] = IF q.power = "TX" THEN q ELSE Settled(q, at)]
  /\ pc' = [pc EXCEPT ![n] = at]
  /\ Elsewhere

FirstWait(n) == IF n \in Initiators THEN "poll" ELSE "listen"

(* A radio that does not come up stops the program.                         *)
Setup(n) ==
  /\ pc[n] = "setup" /\ Prog(n) # "off"
  /\ \E q \in SetupOf(n, r[n]) :
       Goto(n, q, IF q.err THEN "halted" ELSE FirstWait(n))
  /\ UNCHANGED h

-------------------------------------------------------------------------------
(* The plain initiator; the tag's polls are the same *)

Happened(n, events) == r[n].ev \cap events # {}

RxEnded == {"RXFCG"} \cup ALL_RX_TO \cup ALL_RX_ERR

At(n, progs, at) == Prog(n) \in progs /\ pc[n] = at

(* The reading of an answer that was accepted.                              *)
Reading(n, stamps, frame) ==
  [ twice |-> TwiceFlight(stamps[1], stamps[2], resp_msg_get_ts(frame)[1],
                          resp_msg_get_ts(frame)[2]),
    from |-> frame.from ]

Stamps(q) == <<LowStamp(dwt_readtxtimestamplo32(q)),
               LowStamp(dwt_readrxtimestamplo32(q))>>

Forget(n) == h' = [h EXCEPT ![n].last = NoReading]

Expected(n, frame, kind) == frame.net = Net(n) /\ frame.kind = kind

(* The answer that is waiting, if it has the expected prefix.               *)
AcceptAnswer(n, kind) ==
  LET frame == dwt_readrxdata(r[n])
  IN  IF Expected(n, frame, kind)
      THEN h' = [h EXCEPT ![n].last = Reading(n, Stamps(r[n]), frame)]
      ELSE UNCHANGED h

ex_06a_poll(n) ==
  /\ At(n, {"init"}, "poll")
  /\ Goto(n, dwt_starttx(LoadFrame(ClearEvents(r[n], {"TXFRS"}),
                                   Message(n, "poll", <<0, 0>>)), TRUE), "await")
  /\ UNCHANGED h

ex_06a_take(n) ==
  /\ At(n, {"init"}, "await") /\ Happened(n, RxEnded)
  /\ IF Happened(n, {"RXFCG"})
     THEN Goto(n, ClearEvents(r[n], {"RXFCG"}), "pause") /\ AcceptAnswer(n, "resp")
     ELSE /\ Goto(n, ClearEvents(r[n], ALL_RX_TO \cup ALL_RX_ERR), "pause")
          /\ UNCHANGED h

(* The pause between two exchanges, 10 ms and more, is longer than a        *)
(* responder takes: what was answered has been sent.                        *)
Busy(n) == \/ pc[n] \in {"sending", "reporting"}
           \/ pc[n] = "await" /\ Happened(n, {"RXFCG", "RXFR"})
              /\ dwt_readrxdata(r[n]) # Foreign

PauseIsLong == \A m \in Responders : ~Busy(m)

Pause(n) ==
  /\ At(n, {"init", "init_sts", "init_nd", "init_aes"}, "pause") /\ PauseIsLong
  /\ Goto(n, r[n], "poll")
  /\ Forget(n)

-------------------------------------------------------------------------------
(* The plain responder *)

Answerers == {"resp", "resp_sts", "resp_aes", "beacon"}

Listening(q) == dwt_rxenable(q, "IMMEDIATE", FALSE)

ex_06b_listen(n) ==
  /\ At(n, {"resp"}, "listen")
  /\ Goto(n, Listening(r[n]), "await")
  /\ UNCHANGED h

(* The answer to a poll is started for its time, or abandoned if that has   *)
(* passed.                                                                  *)
Answer(n, q, frame, dx) ==
  \E late \in Lateness :
    LET started == dwt_starttx_delayed(
                     LoadFrame(dwt_setdelayedtrxtime(q, dx), frame), late)
    IN  Goto(n, started, IF started.err THEN "listen" ELSE "sending")

Respond(n, q) ==
  LET poll_rx_ts == get_rx_timestamp_u64(q)
      resp_tx_time == RespTxTime(poll_rx_ts, ReplyDelay(Prog(n)))
  IN  Answer(n, q, Message(n, "resp",
                           resp_msg_set_ts(poll_rx_ts, RespTxStamp(resp_tx_time))),
             resp_tx_time)

ex_06b_take(n) ==
  /\ At(n, {"resp"}, "await") /\ Happened(n, {"RXFCG"} \cup ALL_RX_ERR)
  /\ IF ~Happened(n, {"RXFCG"}) THEN Goto(n, ClearEvents(r[n], ALL_RX_ERR), "listen")
     ELSE LET q == ClearEvents(r[n], {"RXFCG"})
          IN  IF Expected(n, dwt_readrxdata(q), "poll") THEN Respond(n, q)
              ELSE Goto(n, q, "listen")
  /\ UNCHANGED h

Answered(n) ==
  /\ At(n, Answerers, "sending") /\ Happened(n, {"TXFRS"})
  /\ Goto(n, ClearEvents(r[n], {"TXFRS"}), "listen")
  /\ UNCHANGED h

-------------------------------------------------------------------------------
(* The pair with a scrambled time stamp sequence *)

InitialValue == 0

(* The key and the whole initial value in the first loop, its counter in    *)
(* the others.                                                              *)
ReloadIV(q) == dwt_configurestsloadiv(dwt_configurestsiv(q, InitialValue))

GoodSts(q) == dwt_readstsquality(q)

send_tx_poll_msg(q, frame) == dwt_starttx(LoadFrame(ClearEvents(q, {"TXFRS"}), frame), FALSE)

ex_06a_sts_poll(n) ==
  /\ At(n, {"init_sts"}, "poll")
  /\ Goto(n, send_tx_poll_msg(ReloadIV(r[n]), Message(n, "poll", <<0, 0>>)),
          "polled")
  /\ UNCHANGED h

(* The receiver is switched on for a time after the poll, and at once if    *)
(* that has passed.                                                         *)
DelayedListening(q, delay, config, late) ==
  dwt_rxenable(set_delayed_rx_time(ClearEvents(q, {"TXFRS"}), delay, config),
               "DELAYED", late)

ex_06a_sts_polled(n) ==
  /\ At(n, {"init_sts"}, "polled") /\ Happened(n, {"TXFRS"})
  /\ \E late \in BOOLEAN :
       Goto(n, DelayedListening(r[n], 700, config_options, late), "await")
  /\ UNCHANGED h

ex_06a_sts_take(n) ==
  /\ At(n, {"init_sts"}, "await") /\ Happened(n, RxEnded)
  /\ IF Happened(n, {"RXFCG"}) /\ GoodSts(r[n])
     THEN Goto(n, ClearEvents(r[n], ALL_RX_GOOD), "pause") /\ AcceptAnswer(n, "resp")
     ELSE /\ Goto(n, ClearEvents(r[n], ALL_RX_GOOD \cup ALL_RX_TO \cup ALL_RX_ERR),
                  "pause")
          /\ UNCHANGED h

ex_06b_sts_listen(n) ==
  /\ At(n, {"resp_sts"}, "listen")
  /\ Goto(n, Listening(ReloadIV(r[n])), "await")
  /\ UNCHANGED h

(* After a bad STS only the errors are cleared.                             *)
ex_06b_sts_take(n) ==
  /\ At(n, {"resp_sts"}, "await") /\ Happened(n, RxEnded)
  /\ IF ~(Happened(n, {"RXFCG"}) /\ GoodSts(r[n]))
     THEN Goto(n, ClearEvents(r[n], ALL_RX_ERR), "listen")
     ELSE LET q == ClearEvents(r[n], {"RXFCG"})
          IN  IF Expected(n, dwt_readrxdata(q), "poll")
              THEN Respond(n, ClearEvents(q, {"TXFRS"}))
              ELSE Goto(n, q, "listen")
  /\ UNCHANGED h

-------------------------------------------------------------------------------
(* The pair whose ranging frames have no payload: a report follows *)

ex_06a_no_data_poll(n) ==
  /\ At(n, {"init_nd"}, "poll")
  /\ Goto(n, send_tx_poll_msg(ReloadIV(dwt_configurestsmode(r[n], "ND")), NoFrame),
          "polled")
  /\ UNCHANGED h

ex_06a_no_data_polled(n) ==
  /\ At(n, {"init_nd"}, "polled") /\ Happened(n, {"TXFRS"})
  /\ \E late \in BOOLEAN :
       Goto(n, DelayedListening(set_resp_rx_timeout(r[n], 700, config_option_sp3),
                                850, config_option_sp3, late), "await")
  /\ UNCHANGED h

NdEnded == {"RXFR"} \cup ALL_RX_TO \cup ALL_ND_RX_ERR

AllReception == ALL_RX_GOOD \cup ALL_RX_TO \cup ALL_RX_ERR

(* The stamps of the exchange are kept, and the report is awaited with the  *)
(* STS off.                                                                 *)
ex_06a_no_data_take(n) ==
  /\ At(n, {"init_nd"}, "await") /\ Happened(n, NdEnded)
  /\ IF Happened(n, {"RXFR"}) /\ GoodSts(r[n])
     THEN /\ \E late \in BOOLEAN :
               Goto(n, DelayedListening(
                         dwt_configurestsmode(ClearEvents(r[n], ALL_RX_GOOD), "OFF"),
                         850 + 1050, config_option_sp0, late), "awaitReport")
          /\ h' = [h EXCEPT ![n].saved = Stamps(r[n])]
     ELSE /\ Goto(n, ClearEvents(r[n], AllReception), "pause")
          /\ UNCHANGED h

ex_06a_no_data_report(n) ==
  /\ At(n, {"init_nd"}, "awaitReport") /\ Happened(n, RxEnded)
  /\ Goto(n, ClearEvents(r[n], AllReception), "pause")
  /\ LET frame == dwt_readrxdata(r[n])
     IN  IF Happened(n, {"RXFCG"}) /\ Expected(n, frame, "report")
         THEN h' = [h EXCEPT ![n].last = Reading(n, h[n].saved, frame)]
         ELSE UNCHANGED h

ex_06b_no_data_listen(n) ==
  /\ At(n, {"resp_nd"}, "listen")
  /\ Goto(n, Listening(ReloadIV(dwt_configurestsmode(r[n], "ND"))), "await")
  /\ UNCHANGED h

(* RXFR is never cleared, and after a bad STS only the errors are.          *)
ex_06b_no_data_take(n) ==
  LET poll_rx_ts == get_rx_timestamp_u64(r[n])
      resp_tx_time == RespTxTime(poll_rx_ts, ReplyDelay("resp_nd"))
  IN  /\ At(n, {"resp_nd"}, "await") /\ Happened(n, NdEnded)
      /\ IF Happened(n, {"RXFR"}) /\ GoodSts(r[n])
         THEN /\ Answer(n, ClearEvents(r[n], {"TXFRS"}), NoFrame, resp_tx_time)
              /\ h' = [h EXCEPT ![n].saved =
                         resp_msg_set_ts(poll_rx_ts, RespTxStamp(resp_tx_time))]
         ELSE Goto(n, ClearEvents(r[n], ALL_RX_ERR), "listen") /\ UNCHANGED h

ex_06b_no_data_report(n) ==
  LET q == dwt_configurestsmode(ClearEvents(r[n], {"TXFRS"}), "OFF")
  IN  /\ At(n, {"resp_nd"}, "sending") /\ Happened(n, {"TXFRS"})
      /\ \E late \in Lateness :
           LET dx == RespTxTime(get_rx_timestamp_u64(q),
                                2 * ReplyDelay("resp_nd"))
               started == dwt_starttx_delayed(
                            LoadFrame(dwt_setdelayedtrxtime(q, dx),
                                      Message(n, "report", h[n].saved)), late)
           IN  Goto(n, started, IF started.err THEN "listen" ELSE "reporting")
      /\ UNCHANGED h

ex_06b_no_data_reported(n) ==
  /\ At(n, {"resp_nd"}, "reporting") /\ Happened(n, {"TXFRS"})
  /\ Goto(n, ClearEvents(r[n], {"TXFRS"}), "listen")
  /\ UNCHANGED h

-------------------------------------------------------------------------------
(* The pair with secured frames *)

Address == [initiator |-> 1, responder |-> 2]
Key == [initiator |-> 1, responder |-> 2]
PayloadLength == [poll |-> 12, resp |-> 16]
RX_BUF_LEN == 127

(* A message sealed with a header, or why there is none.                    *)
Sealed(n, kind, mac, stamps, engine) ==
  LET job == EncryptJob(mac, PayloadLength[kind])
      done == dwt_do_aes(job, "CCM", engine)
  IN  IF done.ret \in NegativeResults \cup AES_ERRORS THEN [failed |-> TRUE, ret |-> done.ret]
      ELSE [ failed |-> FALSE,
             frame |-> [Message(n, kind, stamps) EXCEPT
                          !.mac = mac, !.len = SecuredLength(mac, PayloadLength[kind]),
                          !.seal = done.seal] ]

(* The endless loop at an error of the AES engine, or at any other error.   *)
StopAt(engineFailed) == IF engineFailed THEN "broken" ELSE "stuck"

(* The header has the counter that the last exchange left in it.            *)
ex_06e_poll(n) ==
  LET mac == mac_frame_set_pan_ids_and_addresses(
               [h[n].mac EXCEPT !.key = Key.initiator],
               Address.responder, Address.initiator)
  IN  /\ At(n, {"init_aes"}, "poll")
      /\ \E engine \in EngineResults :
           LET poll == Sealed(n, "poll", mac, <<0, 0>>, engine)
           IN  IF poll.failed THEN Goto(n, r[n], StopAt(poll.ret \in EngineErrors))
               ELSE Goto(n, dwt_starttx(LoadFrame(r[n], poll.frame), TRUE), "await")
      /\ h' = [h EXCEPT ![n].mac = mac]

(* A response that is not opened stops the program; the header of a         *)
(* response that is read replaces the initiator's.                          *)
ex_06e_take(n) ==
  LET frame == dwt_readrxdata(r[n])
      cnt == (h[n].cnt + 1) % CntMod
      counted == [h[n] EXCEPT !.cnt = cnt,
                              !.mac = mac_frame_update_aux_frame_cnt(@, cnt)]
      opened(engine) == rx_aes_802_15_4(frame, RX_BUF_LEN, Address.responder,
                                        Address.initiator, engine)
      read == [counted EXCEPT !.mac = frame.mac,
                 !.last = IF Expected(n, frame, "resp")
                          THEN Reading(n, Stamps(r[n]), frame) ELSE @]
  IN  /\ At(n, {"init_aes"}, "await") /\ Happened(n, RxEnded)
      /\ IF ~Happened(n, {"RXFCG"})
         THEN /\ Goto(n, ClearEvents(r[n], ALL_RX_TO \cup ALL_RX_ERR), "pause")
              /\ h' = [h EXCEPT ![n] = counted]
         ELSE \E engine \in EngineResults :
              IF opened(engine) # "OK"
              THEN /\ Goto(n, ClearEvents(r[n], {"RXFCG"}),
                           StopAt(opened(engine) = "ERROR" /\ engine # "OK"))
                   /\ h' = [h EXCEPT ![n] = counted]
              ELSE /\ Goto(n, ClearEvents(r[n], {"RXFCG"}), "pause")
                   /\ h' = [h EXCEPT ![n] = read]

ex_06f_listen(n) ==
  /\ At(n, {"resp_aes"}, "listen")
  /\ Goto(n, Listening(r[n]), "await")
  /\ UNCHANGED h

(* The response's header is the poll's with the counter of the next frame.  *)
ex_06f_header(mac) ==
  mac_frame_set_pan_ids_and_addresses(
    mac_frame_update_aux_frame_cnt([mac EXCEPT !.key = Key.responder],
                                   (mac.cnt + 1) % CntMod),
    Address.initiator, Address.responder)

ex_06f_respond(n, q) ==
  LET poll_rx_ts == get_rx_timestamp_u64(q)
      resp_tx_time == RespTxTime(poll_rx_ts, ReplyDelay("resp_aes"))
      resp(engine) == Sealed(n, "resp", ex_06f_header(dwt_readrxdata(q).mac),
                             resp_msg_set_ts(poll_rx_ts, RespTxStamp(resp_tx_time)), engine)
  IN  \E engine \in EngineResults :
        IF resp(engine).failed THEN Goto(n, q, StopAt(resp(engine).ret \in EngineErrors))
        ELSE Answer(n, q, resp(engine).frame, resp_tx_time)

ex_06f_take(n) ==
  LET q == ClearEvents(r[n], {"RXFCG"})
      frame == dwt_readrxdata(q)
      opened(engine) == rx_aes_802_15_4(frame, RX_BUF_LEN, Address.initiator,
                                        Address.responder, engine)
  IN  /\ At(n, {"resp_aes"}, "await") /\ Happened(n, {"RXFCG"} \cup ALL_RX_ERR)
      /\ IF ~Happened(n, {"RXFCG"}) THEN Goto(n, ClearEvents(r[n], ALL_RX_ERR), "listen")
         ELSE \E engine \in EngineResults :
              IF opened(engine) # "OK"
              THEN Goto(n, q, StopAt(opened(engine) = "ERROR" /\ engine # "OK"))
              ELSE IF Expected(n, frame, "poll") THEN ex_06f_respond(n, q)
              ELSE Goto(n, q, "listen")
      /\ UNCHANGED h

-------------------------------------------------------------------------------
(* The museum: the tag *)

UWB_poll(n) ==
  /\ At(n, {"tag"}, "poll")
  /\ Goto(n, dwt_starttx(LoadFrame(ClearEvents(r[n], {"TXFRS"}),
                                   Message(n, "poll", <<0, 0>>)), TRUE), "await")
  /\ UNCHANGED h

Entry(table, id) == SelectInSeq(table, LAMBDA b : b.id = id)

FindOrAdd(table, id) ==
  IF Entry(table, id) = 0 THEN Append(table, [id |-> id, readings |-> <<>>]) ELSE table

(* A variant of the next operator without the test for space.               *)
RecordedAlways(table, id, distance) ==
  LET found == FindOrAdd(table, id)
  IN  [found EXCEPT ![Entry(found, id)] =
         [id |-> id, readings |-> Append(@.readings, distance)]]

(* A reading goes to its beacon's entry, if there is space.                 *)
Recorded(table, id, distance) ==
  LET found == FindOrAdd(table, id)
      i == Entry(found, id)
  IN  IF Len(found[i].readings) < MAX_READINGS
      THEN [found EXCEPT ![i] = [id |-> id, readings |-> Append(@.readings, distance)]]
      ELSE found

UWB_take(n) ==
  LET frame == dwt_readrxdata(r[n])
      reading == Reading(n, Stamps(r[n]), frame)
      good == Happened(n, {"RXFCG"})
      expected == good /\ Expected(n, frame, "resp")
  IN  /\ At(n, {"tag"}, "await") /\ Happened(n, RxEnded)
      /\ r' = [r EXCEPT ![n] = Settled(ClearEvents(@, IF good THEN {"RXFCG"}
                                    ELSE ALL_RX_TO \cup ALL_RX_ERR), "pause")]
      /\ pc' = [pc EXCEPT ![n] = "pause"]
      /\ IF expected
         THEN /\ h' = [h EXCEPT ![n].last = reading]
              /\ round' = [round EXCEPT !.table = Recorded(@, frame.from, reading.twice)]
         ELSE UNCHANGED <<h, round>>
      /\ UNCHANGED <<cast, server>>

(* By the end of a sample the beacons listen again; the end of a sample, and *)
(* of a round after as many as the cast has.               *)
UWB_pause(n) ==
  /\ At(n, {"tag"}, "pause") /\ PauseIsLong
  /\ \A m \in Responders : pc[m] # "listen"
  /\ LET done == round.samples + 1 = cast.samples
     IN  /\ round' = [round EXCEPT !.samples = IF done THEN 0 ELSE @ + 1]
         /\ pc' = [pc EXCEPT ![n] = IF done THEN "report" ELSE "poll"]
  /\ Forget(n)
  /\ UNCHANGED <<cast, r, server>>

(* Readings in ascending order.                                             *)
Sorted(readings) ==
  LET Places == 1..Len(readings)
      order == CHOOSE p \in [Places -> Places] :
                 /\ \A i, j \in Places : p[i] = p[j] => i = j
                 /\ \A i, j \in Places : i < j => readings[p[i]] <= readings[p[j]]
  IN  [i \in Places |-> readings[order[i]]]

(* The readings of a beacon sorted, and without the highest and lowest.     *)
Trimmed(readings) ==
  LET toRemove == Len(readings) \div TrimOneIn
  IN  SubSeq(Sorted(readings), toRemove + 1, Len(readings) - toRemove)

(* Readings are twice a number of ticks; distances are in centimetres.      *)
Hundredths(sum, count) == (sum * Centimetres + count) \div (2 * count)

(* A variant that divides by the number of all readings.                    *)
AverageOfAll(readings) ==
  Hundredths(FoldSeq(+, 0, Trimmed(readings)), Len(readings))

avgDistance(readings) ==
  Hundredths(FoldSeq(+, 0, Trimmed(readings)), Len(Trimmed(readings)))

(* The characters of a distance that is printed in metres with two digits:  *)
(* six from a hundred metres on.                                            *)
Digits(cm) == LET size == IF cm < 0 THEN -cm ELSE cm
              IN  (IF size < 1000 THEN 4 ELSE IF size < 10000 THEN 5 ELSE 6)
                    + (IF cm < 0 THEN 1 ELSE 0)

(* 53 bytes hold three readings with twelve characters of distances: what   *)
(* is more is cut off the last one.                                         *)
CharactersLost(cms) ==
  LET all == Digits(cms[1]) + Digits(cms[2]) + Digits(cms[3])
  IN  IF all > 12 THEN all - 12 ELSE 0

CutDigits(cm, lost) ==
  LET size == IF cm < 0 THEN -cm ELSE cm
      kept == CASE lost = 0 -> size
                [] lost = 1 -> size - (size % 10)
                [] OTHER -> size - (size % 100)
  IN  IF cm < 0 THEN -kept ELSE kept

(* What the datagram tells of the first three beacons of the table.         *)
UDP_message(table) ==
  LET cms == [i \in 1..3 |-> avgDistance(table[i].readings)]
  IN  [i \in 1..3 |->
        [ id |-> table[i].id, meant |-> cms[i],
          told |-> IF i = 3 THEN CutDigits(cms[i], CharactersLost(cms)) ELSE cms[i] ]]

-------------------------------------------------------------------------------
(* The museum: the server *)

NoFix == <<>>
Unheard == 1000000000
Default == 99900

(* The known signals of the user are forgotten, the new ones are added.     *)
updateSignals(signals, data) ==
  [ b \in DOMAIN signals |->
      IF \E i \in DOMAIN data : data[i].id = b
      THEN data[CHOOSE i \in DOMAIN data : data[i].id = b].told
      ELSE IF signals[b] = Unheard THEN Unheard ELSE Default ]

(* The first three of the beacons with a distance, sorted by it.            *)
getThreeClosestUWBs(signals) ==
  LET valid == {b \in DOMAIN signals : signals[b] >= 0}
      nearer(a, b) == signals[a] < signals[b] \/ (signals[a] = signals[b] /\ a < b)
      before(b) == Cardinality({a \in valid : nearer(a, b)})
  IN  [ i \in 1..(IF Cardinality(valid) < 3 THEN Cardinality(valid) ELSE 3) |->
          CHOOSE b \in valid : before(b) = i - 1 ]

(* The round ends: with three beacons or more, a datagram that may be lost. *)
UWB_report(n) ==
  /\ At(n, {"tag"}, "report")
  /\ server' \in {server} \cup
       IF Len(round.table) < 3 THEN {}
       ELSE { [ signals |-> updateSignals(server.signals, UDP_message(round.table)),
                fix |-> UDP_message(round.table) ] }
  /\ round' = [round EXCEPT !.table = <<>>]
  /\ pc' = [pc EXCEPT ![n] = "poll"]
  /\ UNCHANGED <<cast, r, h>>

-------------------------------------------------------------------------------
(* The museum: a beacon *)

Beacon_listen(n) ==
  /\ At(n, {"beacon"}, "listen")
  /\ Goto(n, Listening(r[n]), "await")
  /\ UNCHANGED h

Beacon_take(n) ==
  /\ At(n, {"beacon"}, "await") /\ Happened(n, {"RXFCG"} \cup ALL_RX_ERR)
  /\ IF ~Happened(n, {"RXFCG"}) THEN Goto(n, ClearEvents(r[n], ALL_RX_ERR), "listen")
     ELSE LET q == ClearEvents(r[n], {"RXFCG"})
          IN  IF Expected(n, dwt_readrxdata(q), "poll") THEN Respond(n, q)
              ELSE Goto(n, q, "listen")
  /\ UNCHANGED h

-------------------------------------------------------------------------------
(* The chips and the air *)

(* How a reception ends that a radio is ready for.                          *)
Outcomes(m) ==
  [how : {"good"} \cup (cast.faults \cap {"badsts"}), noise : cast.noise[m]]
    \cup [how : cast.faults \ {"badsts"}, noise : {0}]

Distance(m, n) == cast.flight[IF m > n THEN m ELSE n]

(* The stamp the chip gives to a frame that leaves the antenna at a time,   *)
(* and to one that arrives there.                                           *)
SendStamp(n, time) == Clock(time + cast.clock[n] - AntDelay + r[n].txant)

ReceiveStamp(n, time, noise) ==
  Clock(time + cast.clock[n] + AntDelay - r[n].rxant + noise)

(* When a delayed frame leaves: the last bit of DX_TIME is not used.        *)
DelayedTime(n) ==
  Clock((r[n].dx - (r[n].dx % 2)) * DelayUnit - cast.clock[n] + AntDelay)

SequenceUsed(q) == IF q.spc = "OFF" THEN q
                   ELSE [q EXCEPT !.iv = (@ + 1) % 4, !.ivreg = (@ + 1) % 4]

(* A radio within reach that listens in the sender's mode receives the frame, or fails   *)
(* to, or misses it.                                                        *)
Hears(m, n, time, outcome) ==
  LET slot == [ frame |-> r[n].txbuf,
                time |-> ReceiveStamp(m, time + Distance(m, n), outcome.noise),
                sts |-> outcome.how = "good" /\ r[m].iv = r[n].iv ]
  IN  CASE outcome.how = "missed" -> r[m]
        [] outcome.how = "failed" ->
             SequenceUsed(Failed(r[m], IF r[m].spc = "ND" THEN "RXSTO" ELSE "RXERR"))
        [] OTHER -> SequenceUsed(Received(r[m], slot))

(* A cast bounds how many radios one frame reaches.                         *)
Reached(listeners, f) == Cardinality({m \in listeners : f[m].how # "missed"})

ChipSends(n) ==
  LET listeners == { m \in Nodes \ {n} : /\ r[m].power = "RX" /\ r[m].spc = r[n].spc
                                          /\ {m, n} \notin cast.apart }
  IN  /\ r[n].power = "TX"
      /\ \E time \in IF r[n].delayed THEN {DelayedTime(n)} ELSE cast.times :
         \E outcome \in {f \in [listeners -> UNION {Outcomes(m) : m \in listeners}] :
                           /\ \A m \in listeners : f[m] \in Outcomes(m)
                           /\ Reached(listeners, f) <= cast.reach} :
           r' = [ m \in Nodes |->
                    IF m = n THEN Settled(SequenceUsed(Sent(r[n], SendStamp(n, time))), pc[n])
                    ELSE IF m \in listeners THEN Hears(m, n, time, outcome[m])
                    ELSE r[m] ]
      /\ UNCHANGED <<cast, pc, h, round, server>>

TimesOut(n) ==
  /\ r[n].power = "RX" /\ r[n].timeout
  /\ r' = [r EXCEPT ![n] = Failed(@, "RXTO")]
  /\ UNCHANGED <<cast, pc, h, round, server>>

(* Another device of the same standard sends a frame.                       *)
ForeignFrame(n) ==
  /\ cast.foreign /\ r[n].power = "RX" /\ r[n].spc = "OFF"
  /\ r' = [r EXCEPT ![n] = Received(@, [NoSlot EXCEPT !.frame = Foreign])]
  /\ UNCHANGED <<cast, pc, h, round, server>>

-------------------------------------------------------------------------------
(* The system *)

Devices == Responders \cup {1 + Cardinality(Nodes)}

(* Who answers whom.                                                        *)
Partner == [ init |-> "resp", init_sts |-> "resp_sts", init_nd |-> "resp_nd",
             init_aes |-> "resp_aes", tag |-> "beacon" ]

(* A cast has one initiator and its partners; one partner where a frame has *)
(* no addressee or a responder stops at a frame for another.                *)
OneExchange(c) ==
  \A n \in Nodes : c.prog[n] \in DOMAIN Partner =>
    /\ \A m \in Nodes \ {n} : c.prog[m] \in {"off", Partner[c.prog[n]]}
    /\ c.prog[n] \in {"init_nd", "init_aes"} =>
         \A l, m \in Nodes \ {n} : c.prog[l] # "off" /\ c.prog[m] # "off" => l = m

(* An exchange takes less than half a turn of a stamp; what a delayed time  *)
(* leaves out is less, too.                                                 *)
ExchangeIsShort(c) ==
  \A n, m \in Nodes : \A a \in c.noise[m], b \in c.noise[n] :
    LET reply == Ticks(ReplyDelay(c.prog[m])) + AntDelay
        flights == 2 * c.flight[IF m > n THEN m ELSE n] + a + b
    IN  reply < HalfStamp /\ flights + reply < HalfStamp /\ flights >= 2 * DelayUnit - HalfStamp

CastAssumption ==
  /\ \A c \in Casts :
       /\ c.clock \in [Nodes -> Int] /\ c.flight \in [Nodes -> Nat]
       /\ c.noise \in [Nodes -> SUBSET Int] /\ c.times \subseteq Int
       /\ c.faults \subseteq {"failed", "missed", "badsts"}
       /\ OneExchange(c) /\ ExchangeIsShort(c)
  /\ ClockSize % DelayUnit = 0 /\ 2 * DelayUnit <= HalfStamp
  /\ NoFrame # Foreign
ASSUME CastAssumption

(* Where a cast says so, the radios have come up.                           *)
Init ==
  /\ cast \in Casts
  /\ r = [n \in Nodes |->
            IF cast.up THEN CHOOSE q \in SetupOf(n, PoweredUp({})) : ~q.err
            ELSE PoweredUp({})]
  /\ pc = [n \in Nodes |-> IF cast.up THEN FirstWait(n) ELSE "setup"]
  /\ h = [n \in Nodes |-> [saved |-> <<0, 0>>, mac |-> Header(0, 0, 0, 0), cnt |-> 0,
                           last |-> NoReading]]
  /\ round = [samples |-> 0, table |-> <<>>]
  /\ server = [signals |-> [b \in Devices |-> Unheard], fix |-> NoFix]

Program(n) ==
  \/ Setup(n) \/ Pause(n) \/ Answered(n)
  \/ ex_06a_poll(n) \/ ex_06a_take(n)
  \/ ex_06b_listen(n) \/ ex_06b_take(n)
  \/ ex_06a_sts_poll(n) \/ ex_06a_sts_polled(n) \/ ex_06a_sts_take(n)
  \/ ex_06b_sts_listen(n) \/ ex_06b_sts_take(n)
  \/ ex_06a_no_data_poll(n) \/ ex_06a_no_data_polled(n)
  \/ ex_06a_no_data_take(n) \/ ex_06a_no_data_report(n)
  \/ ex_06b_no_data_listen(n) \/ ex_06b_no_data_take(n)
  \/ ex_06b_no_data_report(n) \/ ex_06b_no_data_reported(n)
  \/ ex_06e_poll(n) \/ ex_06e_take(n) \/ ex_06f_listen(n) \/ ex_06f_take(n)
  \/ UWB_poll(n) \/ UWB_take(n) \/ UWB_pause(n) \/ UWB_report(n)
  \/ Beacon_listen(n) \/ Beacon_take(n)

Next == \E n \in Nodes : Program(n) \/ ChipSends(n) \/ TimesOut(n) \/ ForeignFrame(n)

(* Every program runs on a processor of its own, a radio sends what it was  *)
(* told to and its timeout comes.                                           *)
Fairness == \A n \in Nodes : /\ WF_vars(Program(n))
                             /\ WF_vars(ChipSends(n)) /\ WF_vars(TimesOut(n))

Spec == Init /\ [][Next]_vars /\ Fairness

-------------------------------------------------------------------------------
(* Properties *)

(* No beacon has more readings than its array holds, and none is entered    *)
(* twice.                                                                   *)
SoundTable(table) ==
  /\ \A i \in DOMAIN table : Len(table[i].readings) <= MAX_READINGS
  /\ \A i, j \in DOMAIN table : table[i].id = table[j].id => i = j

(* Every program is at one of its waits, and the tag's table is sound.      *)
RangingTypeOK ==
  /\ cast \in Casts
  /\ pc \in [Nodes -> {"setup", "poll", "polled", "await", "awaitReport", "pause",
                       "report", "listen", "sending", "reporting", "halted", "stuck",
                       "broken"}]
  /\ \A n \in Nodes : /\ r[n].power \in {"IDLE_RC", "IDLE", "TX", "RX"}
                      /\ r[n].ev \subseteq Events
                      /\ h[n].cnt \in 0..CntMod - 1
  /\ round.samples \in 0..cast.samples - 1
  /\ SoundTable(round.table)
  /\ DOMAIN server.signals = Devices

(* What an initiator computes is the time of flight, whatever the offset of *)
(* the clocks and wherever they, the delayed time and the stamps in the     *)
(* message wrap: a response pairs with the poll it answers, late answers    *)
(* and answers without a good time stamp sequence included.  A poll is      *)
(* sealed with the counter of the frames so far, whether or not they were   *)
(* answered, and an initiator whose AES engine has not failed is stopped    *)
(* only by a frame of another device, which its radio still has.            *)
ExchangesAreSound ==
  \A n \in Initiators :
    /\ h[n].last # NoReading =>
         \E a \in cast.noise[n], b \in cast.noise[h[n].last.from] :
           h[n].last.twice = 2 * Distance(n, h[n].last.from) + a + b
    /\ Prog(n) = "init_aes" /\ pc[n] = "poll" => h[n].mac.cnt = h[n].cnt
    /\ pc[n] = "stuck" => dwt_readrxdata(r[n]) = Foreign

(* What one reading between two radios can come to.                         *)
Measured(n, m) == { Hundredths(2 * Distance(n, m) + a + b, 1) :
                      a \in cast.noise[n], b \in cast.noise[m] }

(* The server's position is computed from three beacons the tag has heard,  *)
(* each at a distance between two it can have measured.  Unless a distance  *)
(* has more than five characters, a number cut off the datagram is less     *)
(* than a metre off, and other beacons are picked only if a measured        *)
(* distance is negative.                                                    *)
FixIsSound ==
  server.fix # NoFix =>
    /\ Cardinality({server.fix[i].id : i \in 1..3}) = 3
    /\ \E n \in Initiators : \A i \in 1..3 :
         /\ server.fix[i].id \in Responders
         /\ \E low, high \in Measured(n, server.fix[i].id) :
              low <= server.fix[i].meant /\ server.fix[i].meant <= high
    /\ (\A i \in 1..3 : Digits(server.fix[i].meant) <= 5) =>
         /\ \A i \in 1..3 : server.fix[i].told - server.fix[i].meant
                             \in IF i = 3 THEN -99..99 ELSE {0}
         /\ \/ \E i \in 1..3 : server.fix[i].told < 0
            \/ { getThreeClosestUWBs(server.signals)[i] : i \in 1..3 }
                 = { server.fix[i].id : i \in 1..3 }

(* Where a program comes back to: the next poll, or the wait for one.       *)
Rests(n) == /\ n \in Initiators => pc[n] = "poll"
            /\ n \in Responders => pc[n] \in {"listen", "await"}

(* Lost polls, lost, late or damaged answers and frames of other devices do *)
(* not end the ranging: an initiator polls again and a responder listens    *)
(* again, for ever.  Only the AES programs stop, at a frame that is not     *)
(* theirs or at an error of their AES engine.                               *)
RangingGoesOn ==
  \A n \in Nodes :
    \/ []<>Rests(n)
    \/ <>[](\/ pc[n] \in {"halted", "broken"}
            \/ pc[n] = "stuck" /\ dwt_readrxdata(r[n]) = Foreign)
=============================================================================
