-------------------------------- MODULE BleTag --------------------------------
(***************************************************************************)
(* The first tag of the museum, hardware/BLE/ESP_UD: it listens to the     *)
(* advertisements of Bluetooth beacons (ESP_Beacon) in windows of a second *)
(* and reads cards with an MFRC522, and tells the server of both by UDP.   *)
(*                                                                         *)
(* Four tasks: app_main, the Bluetooth task that runs gap_event_handler,   *)
(* rc522_task, which also runs the handler of a scanned card, and the      *)
(* tasks of the WiFi connection.  A message waits in udp_send_msg for the  *)
(* connection, and holds the task that sends it up.                        *)
(***************************************************************************)
EXTENDS Integers, Sequences, SequencesExt, FiniteSets

CONSTANTS Beacons,        \* addresses that advertise
          Losses,         \* the dBm that are lost on the way: -rssi
          Cards,          \* cards, with their serial numbers
          NoCard,
          MaxDevices,     \* 20: beacons of a window
          MaxValues,      \* 10: signal strengths kept per beacon
          MinValues,      \* 3: of which a report needs as many
          BufferSize,     \* 512: characters of a report and its end
          MaxEvents,      \* bound: WiFi events that are not handled yet
          MaxDisturbed,   \* bound: disturbed readings of a card
          MaxReboots      \* bound: reboots after a failed transfer of a byte

VARIABLES main,     \* where app_main is
          wifi,     \* the link, CONNECTED_BIT and the events to be handled
          bt,       \* the Bluetooth task and its list of devices
          reader,   \* the handle of the card reader and its task
          card,     \* the card on the reader and what became of it
          out,      \* the last report of beacons
          reboots

vars == <<main, wifi, bt, reader, card, out, reboots>>

BleAssumption ==
  /\ Losses \subseteq 0..128   \* a signed byte
  /\ BufferSize \in Nat \ {0, 1} /\ NoCard \notin Cards
  /\ MaxValues \in Nat /\ MinValues \in 1..MaxValues
  /\ MaxDevices \in Nat \ {0} /\ MaxEvents \in Nat \ {0}
ASSUME BleAssumption

Only(v) == /\ v # "main" => UNCHANGED main
           /\ v # "wifi" => UNCHANGED wifi
           /\ v # "bt" => UNCHANGED <<bt, out>>
           /\ v # "reader" => UNCHANGED <<reader, card>>
           /\ UNCHANGED reboots

-------------------------------------------------------------------------------
(* WiFi: wifi_epa2_ent_peap.c *)

Queued(w, event) == [w EXCEPT !.events = Append(@, event)]

esp_wifi_connect(w) == IF w.link = "down" THEN [w EXCEPT !.link = "trying"] ELSE w

esp_wifi_disconnect(w) ==
  IF w.link \in {"trying", "up"} THEN Queued([w EXCEPT !.link = "down"], "DISCONNECTED")
  ELSE w

(* What the handler of WiFi and IP events does with the first event.        *)
event_handler(w) ==
  CASE Head(w.events) = "START" -> esp_wifi_connect(w)
    [] Head(w.events) = "DISCONNECTED" -> [esp_wifi_connect(w) EXCEPT !.bit = FALSE]
    [] OTHER -> [w EXCEPT !.bit = TRUE]

HandleEvent ==
  /\ wifi.events # <<>>
  /\ wifi' = [event_handler(wifi) EXCEPT !.events = Tail(@)]
  /\ Only("wifi")

(* Every two seconds: without an IP address, which may survive the link for *)
(* a while, the connection is given up and tried again.                     *)
wifi_connect ==
  /\ main # "wifi" /\ Len(wifi.events) < MaxEvents
  /\ wifi.link # "up"
  /\ wifi' = esp_wifi_connect(esp_wifi_disconnect(wifi))
  /\ Only("wifi")

Connects ==
  /\ wifi.link = "trying" /\ Len(wifi.events) < MaxEvents
  /\ wifi' = Queued([wifi EXCEPT !.link = "up"], "GOT_IP")
  /\ Only("wifi")

LosesLink ==
  /\ wifi.link \in {"trying", "up"} /\ Len(wifi.events) < MaxEvents
  /\ wifi' = Queued([wifi EXCEPT !.link = "down"], "DISCONNECTED")
  /\ Only("wifi")

initialise_wifi(w) == Queued([w EXCEPT !.link = "down"], "START")

-------------------------------------------------------------------------------
(* UDP: esp_udp.c *)

(* A message is dropped when there is no socket, and waits for the          *)
(* connection otherwise.  A datagram may be lost.                           *)
udp_send_msg(socket) == IF socket THEN "sending" ELSE "dropped"

SendDone == wifi.bit

-------------------------------------------------------------------------------
(* Bluetooth: ble_receive.c *)

(* The advertisements of a beacon begin when its data is set.               *)
esp_ble_gap_start_scanning(b) ==
  { [b EXCEPT !.radio = state, !.pc = "idle"] : state \in {"on", "failed"} }

Device(list, bda) == SelectInSeq(list, LAMBDA d : d.address = bda)

FindOrAdd(list, bda) ==
  IF Device(list, bda) = 0 /\ Len(list) < MaxDevices
  THEN Append(list, [address |-> bda, rssi |-> <<>>]) ELSE list

(* A result of the scan: the value is fresh as long as its window lasts.    *)
ScanResult(list, bda, rssi) ==
  LET found == FindOrAdd(list, bda)
      i == Device(found, bda)
  IN  IF i # 0 /\ Len(found[i].rssi) < MaxValues
      THEN [found EXCEPT ![i].rssi = Append(@, rssi)] ELSE found

(* Division of integers in C truncates. *)
average_rssi(values) ==
  LET sum[j \in 0..Len(values)] == IF j = 0 THEN 0 ELSE sum[j - 1] + values[j].value
  IN  -((-sum[Len(values)]) \div Len(values))

(* The characters of an entry: the two addresses and the average.           *)
Width(average) ==
  38 + (IF average < 0 THEN 1 ELSE 0)
     + (IF average < -99 THEN 3 ELSE IF average < -9 THEN 2 ELSE 1)

(* An entry and the comma before it, as far as the buffer has room: the     *)
(* average of an entry that is not whole is cut.                            *)
strncat(text, device) ==
  LET average == average_rssi(device.rssi)
      start == IF text.entries = <<>> THEN 0 ELSE text.length + 2
      whole == start + Width(average) < BufferSize
  IN  [ entries |->
          IF start < BufferSize - 1
          THEN Append(text.entries, [ address |-> device.address, rssi |-> device.rssi,
                                      average |-> average, whole |-> whole ])
          ELSE text.entries,
        length |-> IF whole THEN start + Width(average) ELSE BufferSize - 1 ]

(* The report: an entry for each device that was heard often enough.        *)
big_buffer(list) ==
  LET text[i \in 0..Len(list)] ==
        IF i = 0 THEN [entries |-> <<>>, length |-> 0]
        ELSE IF Len(list[i].rssi) < MinValues THEN text[i - 1]
        ELSE strncat(text[i - 1], list[i])
  IN  text[Len(list)].entries

GapParamsSet ==
  /\ bt.pc = "params"
  /\ bt' \in esp_ble_gap_start_scanning(bt)
  /\ UNCHANGED out /\ Only("bt")

GapResult ==
  /\ bt.radio = "on"
  /\ \E bda \in Beacons, loss \in Losses :
       bt' = [bt EXCEPT !.devices =
                ScanResult(@, bda, [value |-> -loss, fresh |-> TRUE])]
  /\ UNCHANGED out /\ Only("bt")

(* The window is over: what was heard often enough is sent.                 *)
GapComplete ==
  /\ bt.radio = "on"
  /\ \E socket \in BOOLEAN :
       bt' = [bt EXCEPT !.radio = "off",
                !.pc = IF udp_send_msg(socket) = "sending" /\ big_buffer(bt.devices) # <<>>
                       THEN "sending" ELSE "clearing"]
  /\ UNCHANGED out /\ Only("bt")

GapSend ==
  /\ bt.pc = "sending" /\ SendDone
  /\ out' = big_buffer(bt.devices)
  /\ bt' = [bt EXCEPT !.pc = "clearing"] /\ Only("bt")

(* A variant that starts a window with the devices of the last one.         *)
ListKept(list) == list

Cleared(list) == <<>>

Stale(list) ==
  [ i \in DOMAIN list |->
      [list[i] EXCEPT !.rssi = [ k \in DOMAIN @ |-> [@[k] EXCEPT !.fresh = FALSE] ]] ]

(* The list is cleared, and after two seconds another window begins.        *)
GapRestart ==
  /\ bt.pc = "clearing"
  /\ bt' \in esp_ble_gap_start_scanning(
               [bt EXCEPT !.devices = Stale(Cleared(@))])
  /\ out' = <<>> /\ Only("bt")

(* The controller and the stack are started in four steps; if one fails the *)
(* rest is left out, and so are all events.                                 *)
ble_init(b, steps) == [b EXCEPT !.pc = IF steps = 4 THEN "params" ELSE "dead"]

-------------------------------------------------------------------------------
(* The card reader: rc522.c *)

Or(x, least, default) == IF x < least THEN default ELSE x

(* The configuration with its defaults.  The settings of the two transports *)
(* share their memory: the defaults of the I2C timeout and clock go where   *)
(* SPI has its pins, if these are pin 0.                                    *)
rc522_clone_config(config) ==
  [config EXCEPT !.scan_interval_ms = Or(@, 50, 125),
                 !.clock_speed_hz = Or(@, 1, 5000000),
                 !.sck_gpio = Or(@, 1, 1000), !.sda_gpio = Or(@, 1, 100000)]

config == [scan_interval_ms |-> 0, clock_speed_hz |-> 0, sck_gpio |-> 22, sda_gpio |-> 23]

(* The bus and its device; a pin that does not exist is refused.            *)
rc522_create_transport(c, driver) == driver /\ c.sck_gpio < 40 /\ c.sda_gpio < 40

NoHandle == [handle |-> "none", running |-> FALSE, scanning |-> FALSE,
             events |-> FALSE, present |-> FALSE, pc |-> "none", serial |-> NoCard]

(* A handle whose task runs, or none.                                       *)
rc522_create(driver, loop, task) ==
  IF rc522_create_transport(rc522_clone_config(config), driver) /\ loop /\ task
  THEN [NoHandle EXCEPT !.handle = "made", !.running = TRUE, !.pc = "loop"]
  ELSE NoHandle

rc522_register_events(h) == IF h.handle = "none" THEN h ELSE [h EXCEPT !.events = TRUE]

rc522_pause(h) == [h EXCEPT !.scanning = FALSE]

(* The handle is freed, without waiting for its task.                       *)
rc522_destroy(h) == [rc522_pause(h) EXCEPT !.running = FALSE, !.handle = "freed"]

(* The reader must give back what is written to it; what is written, or     *)
(* may fail to be, is only logged.                                          *)
rc522_start(h, rw_test) ==
  IF h.handle = "none" \/ h.scanning THEN h
  ELSE IF ~rw_test THEN rc522_destroy(h)
  ELSE [h EXCEPT !.scanning = TRUE]

(* What a command to a card gets: nothing when no interrupt comes within a  *)
(* thousand reads or an error bit is set, else the bytes in the FIFO.       *)
Nothing == <<>>

rc522_card_write(reply) ==
  IF reply.silent \/ reply.error THEN Nothing
  ELSE <<IF reply.last_bits # 0 THEN reply.fifo - 1 + reply.last_bits ELSE reply.fifo>>

rc522_request(reply) ==
  IF rc522_card_write(reply) = <<2>> THEN "present" ELSE "absent"

rc522_anticoll(reply) == IF rc522_card_write(reply) = <<5>> THEN "serial" ELSE "none"

Reply(n) == [silent |-> FALSE, error |-> FALSE, last_bits |-> 0, fifo |-> n]

Disturbed == {[Reply(0) EXCEPT !.silent = TRUE], [Reply(1) EXCEPT !.error = TRUE]}

(* Whether a serial number is read, from the two replies.                   *)
rc522_get_tag(atqa, uid) ==
  rc522_request(atqa) = "present" /\ rc522_anticoll(uid) = "serial"

(* A variant that never learns that a card has gone.                        *)
PresentLatched(h, got) == [h EXCEPT !.present = @ \/ got]

PresentNow(h, got) == [h EXCEPT !.present = got]

(* A card is there for the first time: its handler sends the serial number, *)
(* or loses it for want of a socket, which nobody learns.                   *)
rc522_dispatch_event(h, serial, socket) ==
  IF h.events /\ udp_send_msg(socket) = "sending"
  THEN [h EXCEPT !.pc = "sending", !.serial = serial] ELSE h

(* One round of rc522_task while it scans.  card.dropped records that the   *)
(* message of the card that is still known to be there was lost.            *)
ScanCard ==
  /\ reader.pc = "loop" /\ reader.running /\ reader.scanning
  /\ \E atqa \in Disturbed \cup {Reply(2)}, uid \in Disturbed \cup {Reply(5)}, socket \in BOOLEAN :
       LET got == card.on # NoCard /\ rc522_get_tag(atqa, uid)
           new == got /\ ~reader.present
           spoilt == card.on # NoCard /\ ~got
           h == IF new THEN rc522_dispatch_event(reader, card.on, socket) ELSE reader
       IN  /\ spoilt => card.disturbed < MaxDisturbed
           /\ reader' = PresentNow(h, got)
           /\ card' = [card EXCEPT !.dropped = IF new THEN h.pc # "sending" ELSE got /\ @,
                                   !.disturbed = IF spoilt THEN @ + 1 ELSE @,
                                   !.fresh = @ \/ ~got]
  /\ Only("reader")

(* The server is told.  Meanwhile the card may have gone.                   *)
SendCard ==
  /\ reader.pc = "sending" /\ SendDone
  /\ reader' = [reader EXCEPT !.pc = "loop", !.serial = NoCard]
  /\ card' = [card EXCEPT !.reports = IF card.on = reader.serial THEN @ + 1 ELSE @]
  /\ Only("reader")

(* rc522_task ends when the handle says so.  If the handle was freed, that  *)
(* is a read of freed memory: the task ends or goes on idling.              *)
EndTask ==
  /\ reader.pc = "loop" /\ ~reader.running
  /\ reader' \in {[reader EXCEPT !.pc = "ended"], reader}
  /\ UNCHANGED card /\ Only("reader")

-------------------------------------------------------------------------------
(* app_main and the world around *)

AppMain ==
  \/ /\ main = "wifi"
     /\ wifi' = initialise_wifi(wifi) /\ main' = "ble"
     /\ UNCHANGED <<bt, reader, card, out, reboots>>
  \/ /\ main = "ble"
     /\ \E steps \in {3, 4} : bt' = ble_init(bt, steps)
     /\ main' = "create" /\ UNCHANGED <<wifi, reader, card, out, reboots>>
  \/ /\ main = "create"
     /\ \E driver, loop, task \in BOOLEAN : reader' = rc522_create(driver, loop, task)
     /\ main' = "start" /\ UNCHANGED <<wifi, bt, card, out, reboots>>
  \/ /\ main = "start"
     /\ \E rw_test \in BOOLEAN : reader' = rc522_start(rc522_register_events(reader), rw_test)
     /\ main' = "done" /\ UNCHANGED <<wifi, bt, card, out, reboots>>

Off == [ main |-> "wifi", wifi |-> [link |-> "off", bit |-> FALSE, events |-> <<>>],
         bt |-> [radio |-> "off", pc |-> "none", devices |-> <<>>] ]

(* rc522_read uses what it has read without looking whether it has: when    *)
(* the transfer fails the processor faults and starts again.  rc522_task    *)
(* reads while it scans, and app_main in rc522_start: for the test of the   *)
(* reader, to switch the antenna on, and for the version it logs.           *)
ReadFails ==
  /\ \/ reader.pc = "loop" /\ reader.scanning
     \/ main = "start" /\ reader.handle = "made"
  /\ reboots < MaxReboots
  /\ reboots' = reboots + 1
  /\ main' = Off.main /\ wifi' = Off.wifi /\ bt' = Off.bt /\ reader' = NoHandle
  /\ out' = <<>> /\ card' = [card EXCEPT !.reports = 0, !.dropped = FALSE, !.fresh = TRUE]

(* A card is laid on the reader, or another one in its place, or it is      *)
(* taken away.  A card is fresh if there was a reading without one before   *)
(* it, or the reader is new.                                                *)
LayCard ==
  /\ \E c \in (Cards \cup {NoCard}) \ {card.on} :
       card' = [on |-> c, reports |-> 0, dropped |-> FALSE, disturbed |-> 0,
                fresh |-> card.on = NoCard /\ card.fresh]
  /\ UNCHANGED reader /\ Only("reader")

Init ==
  /\ main = Off.main /\ wifi = Off.wifi /\ bt = Off.bt /\ reader = NoHandle
  /\ card = [on |-> NoCard, reports |-> 0, dropped |-> FALSE, disturbed |-> 0, fresh |-> TRUE]
  /\ out = <<>> /\ reboots = 0

Next ==
  \/ AppMain \/ ReadFails \/ LayCard
  \/ HandleEvent \/ wifi_connect \/ Connects \/ LosesLink
  \/ GapParamsSet \/ GapResult \/ GapComplete \/ GapSend \/ GapRestart
  \/ ScanCard \/ SendCard \/ EndTask

(* The tasks run.  An access point that is tried again and again accepts    *)
(* the tag, and a task that waits for CONNECTED_BIT is woken when it is set *)
(* even if it is cleared at once.                                           *)
Fairness ==
  /\ WF_vars(AppMain) /\ WF_vars(HandleEvent) /\ WF_vars(wifi_connect)
  /\ WF_vars(GapParamsSet) /\ WF_vars(GapComplete) /\ WF_vars(GapRestart)
  /\ WF_vars(ScanCard)
  /\ SF_vars(Connects) /\ SF_vars(GapSend) /\ SF_vars(SendCard)

Spec == Init /\ [][Next]_vars /\ Fairness

-------------------------------------------------------------------------------
(* Properties *)

(* A report of beacons has each beacon once, with the average of enough     *)
(* signal strengths of one window, however long the report before it waited *)
(* for the connection; it is cut at most in its last entry, and not in the  *)
(* first eleven of 512 bytes (42 characters each and two between them).  A  *)
(* card is reported again only after a reading of it failed.  Once the WiFi *)
(* events are handled CONNECTED_BIT follows the link, so that nothing is    *)
(* sent into a lost connection for long.                                    *)
ReportsAreSound ==
  /\ Len(out) <= MaxDevices
  /\ \A i, j \in DOMAIN out : out[i].address = out[j].address => i = j
  /\ \A i \in DOMAIN out :
       LET values == out[i].rssi
       IN  /\ Len(values) \in MinValues..MaxValues
           /\ \A k \in DOMAIN values : values[k].fresh
           /\ out[i].whole => \E a, b \in DOMAIN values :
                out[i].average \in values[a].value..values[b].value
           /\ i < Len(out) \/ 44 * i <= BufferSize + 1 => out[i].whole
  /\ card.reports <= 1 + card.disturbed
  /\ wifi.events = <<>> => (wifi.bit <=> wifi.link = "up")

(* However often the connection is lost, windows go on, unless Bluetooth    *)
(* failed to start; and of a card that stays on a reader that had a reading *)
(* without one before it the server is told, unless there was no socket     *)
(* when it was read: then its message is lost, and there is no other before *)
(* a reading of it fails.  (A card that takes the place of another between  *)
(* two readings is not reported.)                                           *)
TagGoesOn ==
  /\ []<>(bt.radio = "on") \/ <>[](bt.radio = "failed" \/ bt.pc = "dead")
  /\ \A c \in Cards :
       (card.on = c /\ card.fresh) ~>
         (\/ card.reports > 0 \/ card.dropped
          \/ card.on # c
          \/ main = "done" /\ ~reader.scanning)
=============================================================================
