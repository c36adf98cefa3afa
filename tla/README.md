# MuseumMate: TLA+ models, model checking and proofs

MuseumMate locates museum visitors indoors. Every visitor carries a *TourTag* (an ESP32 with
an ultra-wideband radio and an RFID reader) and a phone; *beacons* on the walls answer the
tags' ranging; a *server* turns distances into rooms, computes routes and statistics; a
*ChatGPT proxy* answers questions about exhibits; a *dashboard* shows the staff what happens.

This directory holds the specifications of the parts that keep state and run concurrently,
the TLC configurations that check them on small instances, and proofs, checked by TLAPS, of
what matters most. File references are to the repository's `code/` directory.

- [1 Inventory](#1-inventory)
- [2 The modules and the code](#2-the-modules-and-the-code)
- [3 The runs](#3-the-runs)
- [4 Fairness](#4-fairness)
- [5 The proofs](#5-the-proofs)
- [6 Where the code disagrees with its documents](#6-where-the-code-disagrees-with-its-documents)
- [7 What is not modelled](#7-what-is-not-modelled)
- [8 Plan](#8-plan)

## 1 Inventory

| component | code | state | operations |
|---|---|---|---|
| TourTag life cycle | `hardware/UWB/MuseumMate_TourTag` | eight FreeRTOS tasks, two event groups, a mutex and `MODE`, the WiFi link | start, connect and announce, read the battery, see the charger, range, read cards, take an interval mode, sleep, wake by timer |
| TourTag ranging, beacon firmware | `MuseumMateUWB.cpp`, `MuseumMate_Beacon.ino` | ten distance slots with their readings, frame counters | poll, respond, trim, average, send |
| Ranging programs | `hardware/UWB/lib/Dw3000/examples/ex_06*`, `dw3000_mac_802_15_4`, `dw3000_shared_functions` | time stamps, frame counters, one MAC frame | poll and answer: plain, with STS, STS without data, AES |
| DW3000 driver | `hardware/UWB/lib/Dw3000/src/dw3000_device_api.cpp`, `dw3000_port.cpp`, `dw3000_config_options.cpp` | `localdata`, the chip's registers | initialise, configure, transmit and receive, now or delayed, double buffering, sleep and restore, interrupts, diagnostics, test transmissions |
| First tag | `hardware/BLE/ESP_UD` | WiFi bit, scan list of 20 devices, card reader handle | scan for a second, report, read cards, reconnect |
| First beacon | `hardware/BLE/ESP_Beacon` | none | advertise |
| Server: presence | `server/index.js` (connection, UWB, sweep, timers) | `signalMap`, `roomOccupancyCounts`, `graph`, `userRoomDurationsMap`; statuses in InfluxDB | two UDP handlers, a 10 s sweep, a 1 s and a 3 s timer |
| Server: localization | `signalMap.js`, `signalExtractor.js`, `trilateration.js` | fourteen distances per visitor | update, three closest beacons, trilaterate, room lookup |
| Server: navigation | `server/index.js` (`/location`, `/path`, `/tsp-path`, trackers) | `userDeviceMap`, one interval per navigation | locate, route, mode messages to the tag, stop on arrival |
| Server: routing | `dijkstra.js`, `priorityQueue.js`, `tsp.js` | none between calls | shortest path, shortest tour |
| Server: RFID push, notifications | `server/index.js` (8080, 6060) | open WebSockets, UDP listeners | push a card's data, broadcast a message |
| Server: statistics, ratings, popularity, media | `server/index.js`, `retrieveMedia.js` | none (InfluxDB, MinIO) | one query or write each |
| ChatGPT proxy | `GPT/main.go` | the cache with its `RWMutex` | answer a prompt, refresh all entries every 5 h |
| Phone | `front-end/src` | exhibit page (`objectData`, `exhibitName`, `wsRef`), `CurrentLoc`'s location | read a card, fetch an exhibit, rate, ask for a tour |
| Dashboard | `dashboard/my-app/src` | what was fetched last | poll |

**Interactions.** Tag to beacon: UWB frames, a poll heard by every beacon in reach, answers at
times promised in them. Program to chip: SPI transactions, the chip's interrupt line back. Tag
to server: UDP datagrams (UWB distances, connection status, battery,
cards), unacknowledged. Server to tag: "1" (range fast) and "0" (range slowly) on port 3335.
Phone to server: HTTP, and two WebSockets. Within the server everything runs on one event
loop: handlers and timers are atomic up to their awaits. In the tags, tasks interleave at every
delay and wait; in the proxy, goroutines interleave at every lock; in the driver, `dwt_isr` runs
between any two calls of the main program, and the chip acts between any two register accesses.

**What is hard.** On the tag, five workers leave their loops at different points and one
task waits for all of them; the chip then forgets everything. Ranging works out nanoseconds from
stamps of two clocks that are cut to 32 of 40 bits, wrap, and are predicted before the frame they
belong to leaves; frames are lost, late, damaged, or somebody else's. The chip fills one receive
buffer while the interrupt handler reads the other, and loses most of its registers in its sleep. On the
server, the sweep acts on a status it read before an await; every navigation starts an interval that no
other navigation knows about; the weights of routes are counts of an earlier round. On the phone, two
effects share one socket reference and fetches overlap. In the proxy, looking up and
storing are locked separately. Messages are lost and overtake each other. `PROJECT.json`
lists these under `hazards`, each at its line, with the properties that cover it or the reason
none does.

**What makes each part correct.** The tag sleeps only after all workers have stopped and the
server was told; a started shutdown ends, if the radio came up. A computed distance is the time of flight between the two that
exchanged frames, and ranging goes on. A position comes from three beacons that were heard. Every frame is
read once, from the buffer it is in; the radio is on the air only as it was configured; a late frame
is not sent. The first tag's reports hold one window's values and the server is told of each card once. The server drops only
visitors whose recorded status was off when it looked, and drops those; counts and weights follow. No tag is left in the fast mode. Routes
and tours are the shortest, and every call about rooms of the graph returns. The page's rating is for what the page
shows. A refreshed cache is wholly refreshed, and never holds an error.

## 2 The modules and the code

Each module's head says what it stands for; `map` in `PROJECT.json` gives every definition's
lines. Definitions marked *Variant* are plausible bugs: each is put in place of the
definition before or after it to see that a property notices (`mutants`).

    Dw3000Options <- Dw3000 <- Dw3000Host <- MCDw3000Host, Dw3000HostProofs   one radio and its host
                     Dw3000 <- Mac802154 <- Ranging <- MCRanging, RangingProofs
    TagLifecycle  <= TourTag <- TourTagProofs                    the tag implements its life cycle
    TagLifecycle  <= Presence <- PresenceProofs                  the server with such tags
    Navigation <- NavigationProofs    ExhibitPage, GptCache <- ExhibitProofs
    Dijkstra, Tsp <- Routing <- MCRouting, RoutingProofs         BleTag <- BleTagProofs

(`<-` extends or instantiates, `<=` is a refinement that a run and a theorem show.)

### TagLifecycle, TourTag

`TagLifecycle` is the abstract specification: a tag tours, is told to stop, its workers stop
one by one, the announcer only after the farewell, then it sleeps and wakes with
all workers running.

`TourTag` is the firmware. `pc[t]` is where task `t` stands between two points at which
another task can observe it; `main` is Arduino's `setup`, `sleep` is `sleet_task`. Event-group
bits are `chargingBit` and `sleepBits`; `sleepGroup` records that `chargingTask` has created
`sleepEventGroup` (before that the handle is NULL). The mutex around `MODE` is never held across
a blocking call, so taking it, copying and giving it are one step. `IntervalReceive` and
`IntervalStore` are separate because the receiver takes the mutex after reading its packet.
`link`/`ap` are the WiFi station and the access point; `onCharger` is the two GPIOs. `UwbSetup` is `UWB_setup`, which
may end in one of its three endless loops (IDLE, INIT or CONFIG FAILED: the place "failed", `RadioFailed`) after every reset: the other tasks
run on, but the ranging task never sets its finished bit, and a tag on its charger then waits for it for ever.

Two assumptions about time are guards (`ChargingGroupCreated`, `MutexCreated`): the task that
creates the charging event group and the one that creates the mutex run within milliseconds of the reset,
before anyone else's first delay (500 ms, 2 s, 12 s) ends. One round of ranging (`Ranging`), one battery
reading and one card dialogue are one step each.

### Dw3000Options, Dw3000

The radio without variables: a record `r` of the driver's `localdata` and of the registers that decide what
its calls do. A `dwt_*` function is an operator from a radio to a radio, or to its return value; one that can fail
(initialisation, calibration of the PLL) is a set of radios. Register addresses, masks and tuning values are abstracted to what
a later call, or the reception, depends on: `ops` is the operating parameter set, `gain` the channel of the loaded gain
tables, `clocks` the forced clocks, `rf` the manually enabled transmitter blocks, `buf` the two receive buffers; `dbl` is the driver's
`dblbuffon`, the buffer it reads next, and `fill` the one the chip fills next. `ev` is `SYS_STATUS`, its error and timeout bits in groups (those the driver's own masks and the programs' waits tell apart).
A delayed start whose time has passed shows as one of `Lateness`: the event HPDWARN, or only `SYS_STATE` at TXERR (`txerr`); `CheckDelayed` reads both.
`Dw3000Options` has the 33 build options and the two fixed configurations of `dw3000_config_options.cpp`. What the chip does by itself (`external` in the map)
stands at the end of `Dw3000`.

### Dw3000Host

One radio under a polling example program (transmit, transmit with automatic sleep, receive, diagnostics, continuous wave or frames: the calls in
their order, `pc` being the next one), or under an interrupt-driven application that makes any call the driver's comments allow
in the present phase. `dwt_isr` is several steps (entry with the status read, each branch, the callback's reads, the release of the buffer), because the chip may fill the other buffer in between.
`delivered` and `read` are the ghosts that compare what the chip stored with what the host has read.

### Mac802154, Ranging

`Mac802154` seals and opens the AES programs' frames: header fields, nonce, integrity code lengths, and the driver's AES calls. A sealed payload is
opened by the key and nonce that sealed it and by no other, if the engine does its job: it may fail in any (`EngineErrors`).

`Ranging` puts a radio and a program on each node. A *cast* says which programs play, with which clock offsets, flight times, measurement noise
and faults, and who is in reach of whom. `pc[n]` is the busy wait or delay a program is in; everything between two waits is one step
(`Program`), while the chips send, receive, miss, damage, and time out between any two. `Clock`, `LowStamp` and the promised send time keep their
width: clocks count modulo `ClockSize`, stamps in messages modulo `StampSize`, delayed times in `DelayUnit`s with their last bit ignored.
The AES programs' endless loops are two places: "broken" after an error of the engine,
"stuck" after any other, which is a frame that does not open. `round` is the tag's table and `server` the datagram it was formatted into and the server's `signalMap`, with
`getThreeClosestUWBs` choosing from it. The datagram is 53 bytes: a number that would not fit is cut at its end.
After a program will not read its radio again before the next reception, status and buffers are cleared (`Emptied`,
`Settled`); this only joins states that no program tells apart.

### BleTag

The museum's first tag: `app_main`, the Bluetooth task with its list of devices, `rc522_task` with the MFRC522's frames (a reply is its FIFO level and error bits), the WiFi
event handler and `wifi_connect`. The report is written into a buffer of `BufferSize` characters by `strncat`, an
entry of the model being one "address, average" of `Width` characters, cut where the buffer ends (`whole`). Waiting for `CONNECTED_BIT` in `udp_send_msg` holds the task that sends. `card.reports` counts what was sent of the card on the reader (`SendCard`); `card.dropped`
says that the card which is taken as known was not reported, because there was no socket when it was read. A failed SPI read dereferences NULL and reboots
the tag (`ReadFails`), in `rc522_task` or in `rc522_start`.

### Presence

The server's view of who is where. The tags are `TagLifecycle`'s (workers "connection" and
"uwb", the ones that talk to this part), which the run checks as `TagsAreLifecycles`: what
`TourTag` was shown to implement is what `Presence` relies on. `connNet` and `uwbNet` are
datagrams in flight: a set of statuses, so they overtake each other, and one place, where a newer
message replaces an older. `status` is the last point in InfluxDB. The sweep is three steps per visitor (`SweepTick`,
`SweepAnswer` or `SweepFails`, `SweepResume`), since handlers run while the query is awaited.
`loc[u]` stands for the visitor's `signalMap` entry: the room trilateration finds from it.
`Padded` are ids that `parseInt` changes. `wasOff[u]` remembers that the recorded status read
"offline" at some time while the query about `u` was out. `stays[u].gap` remembers that
`clearUserData` leaves `userRoomDurationsMap` alone.

### Navigation

Phone, server and tag together. `trackers[u][e]` counts the running `setInterval`s of
`trackDeviceToEndNode(u, e)`. `toTag` is the datagrams to the tag in the order sent; they may be
lost (`Lose`) or overtake (`TagReceive` of any), and `disturbed` remembers that it happened.
`Located` includes the default: a visitor without data is placed in one fixed room, since
ten equal default distances make the first three beacons decide. Which requested room a tour
ends in is left open; `Tsp` models the tour. `up` becomes false when `tsp.js` is called
with a start outside the graph, from where it never returns.

### Dijkstra, Tsp, Routing

`dijkstra.js` with `priorityQueue.js`, and `tsp.js` with its own search, one turn of a loop per
action. `Routing` is one call of either endpoint, from its first statement to its answer (JavaScript runs a call to its end, so the
two share the variables they have in common). Weights are positive integers here; in the code they are `0.7 * distance + 0.3 * congestion`,
positive as well. The order of `for .. in` over neighbours and of equal distances in
the scan is left open. A tour's request may name something that is no room (`Unknown`), since `POST /tsp-path` looks nothing up in the graph; a walk back from there, as from a
room that was not reached, does not end. Both modules contain a reference solution: Bellman's equation, and for
tours the same over pairs of a room and the set of requested rooms seen.

### ExhibitPage

The phone's exhibit page: the two effects with their one `wsRef`, sockets that are lost (`RfidLost`, `NotifyLost`: `onclose` logs it and opens none; `lost` remembers it), `fetchObjectData` with
concurrent fetches and its three kinds of failure, `removeImage`, `sendRating`. `disturbed`
remembers that the last card was read while another loaded, or that an error occurred since.

### GptCache

`chatHandler` as four separately locked steps of concurrent handlers, `RefreshCache` with the
write lock held over all its API calls. An answer is the time at which the API gave it, so that "newer"
has a meaning; 0 is an error or no entry.

### MC modules, proof modules

`MCDw3000Host`, `MCRanging` and `MCRouting` give the configurations, casts and the graph of the runs.
`TourTagProofs`, `PresenceProofs`, `NavigationProofs`, `RoutingProofs`, `ExhibitProofs` (the page and the proxy that answers its questions),
`Dw3000HostProofs`, `RangingProofs` and `BleTagProofs` hold the theorems (section 5).

## 3 The runs

| run | instance | distinct states | shows |
|---|---|---|---|
| `tag` | two modes | 372 536 | safe sleep, farewell last, event group ready, refinement of `TagLifecycle`; unless the radio fails to come up, shutdown completes, the tag returns to touring, a mode takes effect |
| `tag_sleep_without_wifi` | one mode | | **violation**: charging without WiFi never sleeps |
| `presence` | one visitor, one room | 52 704 | only visitors whose recorded status was off while the sweep asked are dropped, and they are; rooms that emptied weigh nothing; touring visitors are placed; the tags are `TagLifecycle`'s |
| `presence_padded_id` | a padded id | | **violation**: never dropped |
| `navigation` | one visitor, two rooms, three navigations | 15 907 | no tag left fast; arrival ends navigation |
| `navigation_hang` | two navigations | | **violation**: tour from outside the rooms stops the server |
| `routing` | all weighted graphs of four rooms; tours through up to three rooms of a ring with a chord, or a name that is no room | 396 494 | searches settle, shortest path, shortest tour, every call about rooms of the graph returns |
| `exhibit` | two exhibits, three visits of the page | 85 816 | cards heard once, until the socket is lost; an undisturbed page is right; every fetch ends |
| `gpt` | two clients, two prompts, three ticks | 89 850 | refreshes are whole; every request is answered |
| `driver` | five polling programs, and an application with twenty configurations, three frames, four calls | 2 352 488 | frames read once and from one buffer; on the air only as configured; nothing sent late, whichever way lateness shows; the senders go on |
| `ranging` | seven casts of up to four radios | 240 842 | a computed distance is the time of flight; a position is from three beacons that were heard; ranging goes on, unless an AES program meets a foreign frame or an error of its engine |
| `ble` | two beacons, one card, one reboot | 526 678 | a report is of one window, the server is told of a card once; windows go on, and a card that stays is told of unless its message found no socket |

**Bounds and why they are enough.**

- `TourTag` is unbounded apart from the values of `MODE`; two are enough to tell a mode from another.
- `Presence`: the visitors share nothing but the counts, so one shows each visitor's interleavings. The types,
  `OnlyOffIsDropped` and `TagsAreLifecycles` are proved for any number of visitors and rooms.
- `Navigation`: `MaxRequests` = 3 lets two navigations overlap
  and a third start after one ended; messages in flight are at most two per request, so
  `toTag` needs no bound of its own. The bound is in the guard of `Navigate`; `FastHasReason` is proved for every value.
- `Routing`: four rooms are the fewest in which an improvement leaves a stale
  queue entry behind that is dequeued before the end; `Weight` = {1, 3} makes a two-edge detour shorter
  than an edge. `MaxStops` = 3 gives legs through other legs' rooms and revisits; requests that name a room twice are left out (the phone's list has each once); the ring with a chord has the museum graph's
  shape, one room fewer. Paths start in every room; tours start at a room off the chord, n1, or outside the rooms (`From`). Every invariant of this run is proved for all finite graphs, weights and requests;
that every call returns is not.
- `ExhibitPage`: `MaxVisits` = 3 bounds how often the page comes in front; two exhibits let two fetches overlap. Three properties
  are proved for any number of both. `GptCache`: `MaxTime` = 3 lets an entry be older than, from within and after a refresh.
- `Dw3000Host`: three frames (`MaxFrames`) fill both buffers and overrun them or come back to the first; four calls (`MaxCalls`) are
  configure, sleep, listen again and one more; the three safety properties are proved for any number of both. `MCConfigs` has the builds' options with preambles on either side of 256 symbols (where the operating parameters
  change), the two configurations of the ranging programs and the highest code that has gain tables.
- `Ranging`: clocks of nine bits (`HalfStamp` = 64, `ClockWraps` = 4) instead of 40, stamps in messages of seven instead of 32, delayed times in
  units of four ticks instead of 256. The start times 3 and 509 with a responder's offset of 490 let every stamp, the delayed time, and the clock itself wrap inside an exchange.
  `FlightIsExact`, `PromiseKept` and the pairing of polls and answers are proved for all widths and casts. `MAX_READINGS` = 3 (200 in the code) and
  `TrimOneIn` = 3 (10) let a beacon's array fill and readings be removed. The casts: each of the five pairs of programs
  (`init`/`resp`, `init_sts`/`resp_sts`, `init_nd`/`resp_nd`, AES with and without foreign frames) with lost, damaged and late frames, in the build's default
  configuration (`Option33`); the museum's tag with three beacons answering one poll; the tag with beacons out of each other's reach, one of which measures
  a tick too little, over the five samples that make a position.
- `BleTag`: two devices and two values of each instead of 20 and 10, a report buffer of 84 characters instead of 512 (the second entry does not fit),
  two WiFi events unhandled, one disturbed reading and one reboot: each limit is reached and passed.

`CHECK_DEADLOCK FALSE` is set where the system stops: the algorithms return, the page's visits
are bounded, programs halt when their radio does not come up.

**What the properties do not say.** `ShutdownCompletes`, `ReturnsToTour` and `ModeTakesEffect` except a tag whose `UWB_setup`
hangs: its ranging task reads neither `CHARGING_BIT` nor `MODE`, and the other tasks' shutdown waits for it. `OffIsDropped` speaks of what is *recorded*: if a tag's
"0" is lost, or overtaken by its "1", the database says "online" while the tag sleeps, and nothing
corrects that until it wakes. `RestIsSlow` and `FastHasReason` exclude a tag whose
messages were lost or overtaken (`disturbed`): the code does not retry. `PathIsShortest` is
about different, connected rooms: for a room to itself `dijkstra.js` answers `[]` ("no path
exists"), for an unreachable end `[end]`. `CallReturns` and `TourAnswered` are about rooms of the
graph: from or to anything else `tsp.js` does not return (section 6). `ScansHeardOnce` says that a page whose socket was lost hears no card until it is left
and entered again, or gets a new path. `QuietPageIsRight` is about cards read one at
a time and fetched without an error. `ArrivalEndsNavigation` does not say that a navigation ends no earlier than the visitor's arrival. `ReceiverTuned` leaves the gain tables out after a wake-up with the codes for which the driver does not
load them again (section 6). `SendersGoOn` is about `ex_01a` and `ex_01b`: `ex_01c` enables only the wake-up line and then pulls the
chip select. `RangingGoesOn` excludes the AES programs once a frame of another device stopped them (the frame is still in their buffer) or their AES engine reported an error; a job of the engine that never
ends (`dwt_wait_aes_poll` has no timeout) stops a program in the same way and is not told apart. `ExchangesAreSound`
allows a measurement's noise and nothing else. `TagGoesOn` does not speak of a card that
takes another's place between two readings, and excepts one whose message was dropped for want of a socket, until a reading of it fails.

## 4 Fairness

- `TourTag`: weak fairness of every task (FreeRTOS runs equal-priority tasks in turn and
  every delay ends), of the timer that wakes the chip, and of the WiFi driver's join while the
  access point stays in reach. None for plugging, unplugging, the access point, or interval packets, and none for
  a radio's coming up: `UwbSetup` ends, one way or the other. The liveness
  properties that need a reachable access point say so (`<>[]ap`).
- `Presence`: timers are weakly fair, and the tags are those whose radio came up; receiving a datagram and a query's answer are strongly fair
  (they may be lost or fail, not for ever while repeated; the query's range of one hour is left out: a tag off for longer than that before
  the sweep sees it is beyond `OffIsDropped`). A visitor
  need not charge the tag, and a sleeping tag need not wake.
- `Navigation`: intervals fire; a datagram arrives or is lost.
- `Routing`: the program runs.
- `ExhibitPage`: a fetch is answered or fails. None for sockets.
- `GptCache`: goroutines run; the API answers or fails (the client has no timeout, so this is an
  assumption about the API); Go's `RWMutex` lets a waiting reader or writer in between two refreshes, hence
  strong fairness of a handler's step.
- `Dw3000Host`: the polling program runs, a started transmission ends, the interrupt handler goes on. None for receptions.
- `Ranging`: every program runs; a started transmission ends; the chip's receive timeout, where one is set, expires. None for
  frames: every one may be lost. None for the AES engine: any job may fail.
- `BleTag`: every task runs and the Bluetooth stack completes what was started (weak); the connection comes up, and a
  waiting sender runs while it is up, if they are possible again and again (strong): the link may be lost at any time, so that both are disabled between.
  None for beacons, cards, reboots.

## 5 The proofs

For every value of the constants, from the named assumptions of the modules (`ModesAssumption`,
`PresenceAssumption`, `NavigationAssumption`, `TspAssumption`, `GptAssumption`, `ExhibitAssumption`, `HostAssumption`, `RangingAssumption`, `CastAssumption`, `BleAssumption`):

| theorem | says |
|---|---|
| `TourTagProofs!TypeCorrect` | types |
| `TourTagProofs!GroupReady` | no worker sets a bit in an event group that was not created |
| `TourTagProofs!SleepIsSafe` | deep sleep only with all workers stopped, radio off, "offline" announced |
| `TourTagProofs!OfflineStays` | nothing is announced after "offline" |
| `TourTagProofs!Refinement` | `TourTag` implements `TagLifecycle` |
| `PresenceProofs!TypeCorrect` | types; counts and weights never exceed the visitors |
| `PresenceProofs!OnlyOffDropped` | a visitor is dropped only if the recorded status read "offline" while the sweep's query was out |
| `PresenceProofs!TagsLive` | every visitor's tag behaves as `TagLifecycle` |
| `NavigationProofs!TypeCorrect` | types: no interval ends that was not running |
| `NavigationProofs!NoTagLeftFast` | a fast tag has a running interval, or its messages were disturbed |
| `RoutingProofs!RoutingTypes` | types: the queue is never longer than the rooms and the walks found |
| `RoutingProofs!SearchesAreFinal` | the queue stays sorted, distances are never too small, and a room that was dequeued or chosen has its least one |
| `RoutingProofs!PathShortest` | `dijkstra.js` answers a shortest path |
| `RoutingProofs!TourIsAnswered` | from and for rooms of the graph, `tsp.js` answers a walk from the start through all requested rooms, and none weighs less |
| `RoutingProofs!Permuted` | `getPermutations` lists every order of a request of any length, and nothing else |
| `ExhibitProofs!TypeCorrect` | types |
| `ExhibitProofs!HeardOnce` | a card is heard once in front, unless the socket was lost since, and never twice or behind, whichever of the effects and of the connection closes the socket first |
| `ExhibitProofs!QuietPageRight` | a page read in quiet shows and rates the last card |
| `ExhibitProofs!ProxyTypeCorrect` | the proxy's types: what is about to be stored is an answer |
| `ExhibitProofs!RefreshWhole` | a refresh of the proxy's cache is complete when it releases the lock |
| `Dw3000HostProofs!FramesRead` | data, diagnostics and time that are read are of one frame; frames are read in order, none twice, and none is left when nothing interrupts |
| `Dw3000HostProofs!Tuned` | whatever was called before, a radio on the air is tuned to its configuration |
| `Dw3000HostProofs!NeverLate` | no delayed transmission leaves after its time, whether the chip shows it by HPDWARN or only by `SYS_STATE` |
| `RangingProofs!FlightIsExact` | four truncated stamps give the time of flight, for clocks of any width |
| `RangingProofs!PromiseKept` | the stamp promised in an answer is the one it leaves with |
| `RangingProofs!SealedOpens` | what one AES program seals for another, that one opens, if both engines do their jobs |
| `RangingProofs!BeaconTableSound` | no beacon's array overruns and no beacon is in the table twice |
| `RangingProofs!Exchanges` | what an initiator computes is the time of flight of its last poll and of the answer to it, whatever was lost, damaged, late, foreign or heard by several beacons; both ends of an AES exchange agree on the frame counter; an AES program that stopped without an error of its engine has a frame of another device in its buffer |
| `RangingProofs!Fixes` | a position is computed from three different beacons that answered the tag, at distances between two that can have been measured; the cut datagram is less than a metre off, and the server picks these three unless a distance is negative |
| `RangingProofs!RangingTypes` | types: counters, samples, the table, the server's distances |
| `BleTagProofs!ReportsSound` | a report is of one window, each beacon once with an average between its values; the server is told of a card once for each reading that found it new; the connected bit follows the link |
| `BleTagProofs!BufferSound` | the loop that writes a report makes a sound one of every sound list of devices, whatever its length |

Each proof of an invariant has the same plan: an inductive `IInv`, `Init => IInv`, `IInv /\ [Next]_vars => IInv'`
with a step per action, and the theorem by `PTL`. Why each `IInv` is what it is:

- **TourTag.** `SafeSleep` alone is not inductive: that all five bits are set says nothing
  unless a bit means that its task has deleted itself (`BitsMeanStopped`). A worker stops only
  after `CHARGING_BIT` was raised (`StopsAfterRaise`), which happens after the group was created
  (`GroupBeforeBit`); the connection task leaves its loop only after "offline" and after that says nothing
  (`Farewell`); `AsleepAlone` makes the reset start from nothing. The refinement reads `phase`,
  `stopped` and `farewell` off the program counters and shows each of the tasks' steps to be a step of `TagLifecycle` or a stutter.
- **Presence.** An answer that reads "offline" was read while its query was out from a recorded status that said so (`OffWasRecorded`); the status may have
  changed by the time the answer is used, which `wasOff` allows for. For `TagsLive`, a tag falls asleep only when it has said farewell, which needs
  `StopsAfterFarewell`; everything else that happens leaves the tag alone.
- **Navigation.** Two additions: a sleeping tag is slow (otherwise its "slow" could pass
  unheard), and a tag the server does not know is slow with nothing on its way (a tracker that
  ends for a visitor without a device sends nothing).
- **Routing.** That the reference solution is the least solution of Bellman's equation is induction over walks, written with sets and least
  elements (see below). `PathInv`: distances are never too short (`PathTree`); a node that was reached is in the queue at its
  distance or has relaxed its neighbours (`PathSearch`), so that the head of a sorted queue is settled and stale entries find nothing to improve; the walk back
  runs over settled nodes (`PathWalk`). `TourInv`: a leg's tables (`Tables`), its scan in the order of distances (`Scan`) and its walk back (`BackWalk`) give the
  leg its least length; an order costs the sum of its legs (`Costs`, `Progress`); every order is still to be costed or costs no less than the best (`Best`). A tour
  is a shortest walk over pairs of a room and the requested rooms seen, and no such walk is shorter than the legs in the order in which it first
  sees the rooms (`AttainsSeen`, `OrderBelow`). The proof shows on the way that a tour is never answered over a leg that cannot be walked: `tsp.js` does not get past the walk back
  from a room it has not reached.
- **BleTag.** `CONNECTED_BIT` lags behind the link by the events that are not handled yet; the last of them says where the link is (`WifiInv`). The list of devices has
  each beacon once and only values of this window (`ListSound`), from which the loop that writes the report is followed turn by turn; an
  average lies between the least and the greatest value because a sum does. A card that was reported, or whose report waits for the connection, is still taken for present, or
  a reading failed since (`CardInv`): this is what bounds its reports.
- **GptCache.** While the lock is held every entry is still to be regenerated, is from within
  the refresh, or its call failed (`EntriesDone`), and the prompt being asked is one still to do.
- **ExhibitPage.** There are never more notification sockets than visits (`SocketsOfVisits`), and the page hears through the socket `wsRef` has, or none; until an error or a second fetch, the only
  fetch is that of the last card (`OnlyLastLoads`), whose name is set by the time its page is about to be shown (`TitledIsNamed`).
- **Dw3000Host.** The driver's calls are summarised by the fields of the radio they change (`Changes`). For the interrupt-driven application, `AppOK`
  says what holds between any two steps of main thread, handler and chip: the settings are those of the phase (`SettingsOK`); nothing is pending while the radio
  is on the air (`AirOK`); what `dwt_isr` read on entry and has not handled is still pending (`IsrOK`); with one buffer the frame stays in it until it was read
  (`OneOK`), with two the chip fills the one that is free, and the buffer the driver reads next holds the oldest unread frame (`TwoOK`); a late
  transmission is still to be checked (`LateOK`). `FramesReadOnce` alone says nothing of the frame that is in a buffer. For the polling programs, each place
  has a stage (`Stages`) that says what its radio is like (`StageOK`), and every call leads from its stage to the next one, or with an error to a stopped
  program (`Steps`, `CallMoves`).
- **Ranging.** `FlightIsExact` and `PromiseKept` are arithmetic of remainders: the difference of two stamps depends only on the difference of the clocks, and the chip's
  rounding of a delayed time commutes with the wrap because a turn of the clock is an even number of units. `TableInv` adds to the table's
  soundness that it is a sequence of entries and that `round` has just its two fields, which the steps that leave the table alone need.
  `ExchangesAreSound` speaks of a number that is computed at the end of an exchange; its `IInv` follows the exchange from the start. `NodeInv`: at each of its
  waits a program's radio is in one of a few states, with the registers, buffers and events that belong to it. `QuietInv`: while an initiator pauses or
  sends, no responder is busy with an earlier poll; this is what the pause between two exchanges is for. `PollInv`: a poll that waits at a responder
  was stamped in this exchange. `AnswerInv`: an answer about to leave carries that stamp, and the time it is promised to leave at. `HeardInv`: what an
  initiator has heard has four stamps that give the time of flight (`AnswerPairs`, by `FlightIsExact` and `PromiseKept`). `LastInv`: so has the last number it
  computed. The programs' steps fall into eight kinds (`Retires`, `Answers`, `Reports`, `Polls`, `Hearkens`, `AwaitsReport`, `Stops`, `Bystands`) by what they do to
  an exchange, and each kind keeps `IInv`; a frame on the air is a poll or an answer (`PollLeaves`, `AnswerLeaves`). Driver calls are
  summarised by the fields of the radio they change (`Changes`), so that a step that composes a dozen of them is reasoned about call by call.
  `CountInv` adds what `RangingTypeOK` needs of the counters. `FixIsSound` speaks of a datagram; `HeardTable` says of the table it is made of that every entry is
  a responder's and holds only readings an exchange with it can have given. From there the proof follows the code: readings can be sorted and the sorted ones are the same readings
  (`SortExists`, `SortedIs`), a sum over a sequence lies between as many times its bounds (`FoldIsTotal`, `SumBetween`), hence an average lies between two readings, rounding
  included (`HundredthsBetween`, `AverageIs`); what the datagram cuts off is less than 100 cm (`CutIs`); distances of at most five characters are below the server's default of 999 m,
  so the three that were sent are closer than all others (`ThreeClosest`).

**What the assumptions ask.** They fix what the code takes for granted. `TspAssumption`: finitely many rooms and weights, weights positive, passages between rooms,
names of rooms that are not `"null"` or `"undefined"` (what `prev` and `parents` hold before a room is reached), and "User is not in any room" no room. `HostAssumption`: configurations
are of the two channels and have a code with gain tables, as all of `dw3000_config_options.cpp` do. `BleAssumption`: an
`rssi` is a signed byte that is not positive, a report asks for at least one value, the buffer holds at least one character and its end. `CastAssumption`: one
initiator among responders that answer it (a single one for the programs whose frames have no addressee, or whose responder stops at a frame for another);
flight times are natural numbers, clock offsets and noise any integers; a reply and the two flights take less than half a turn of a 32-bit stamp (the replies of the programs
take a few milliseconds, the half turn 33); a turn of the clock is a whole number of delayed-time units. `RangingAssumption`: finitely many radios, with natural numbers; fewer than half of a beacon's readings are removed at either end
(the firmware removes a tenth).

**What the prover can do.** Sums, sorted insertion, permutations, Bellman's equation and the report's loop are recursive functions or folds. The library's induction theorems take an
operator as a parameter, which none of the backends instantiates; the proofs say the same with sets (`InductionSet`, `LeastOf`: a set of numbers
has a least element). A recursive function is the `CHOOSE` of a function that satisfies its equation, so each is first shown to exist
(`Iterate`, `SumExists`, `FoldExists`, `FlatteningExists`, `PermutingExists`, `LoopRuns`), turn by turn.

**Only model-checked:** all liveness (it needs fairness and ENABLED, which the prover does not
handle). Every invariant and every action property of a passing run is proved.

## 6 Where the code disagrees with its documents

Each of the first three is a run whose counterexample TLC prints.

1. *Auto sleep upon charging* (`hardware/UWB/README.MD:10`): `connection_task` looks at `CHARGING_BIT`
   only while WiFi is connected. Without an access point a charging tag never sleeps.
2. *Status 0 clears the visitor* (`server/index.js:334`): the status is written under the id as sent and looked
   up under `parseInt(id)`; with "0001", the firmware's `USERID`, nothing is ever found.
3. *`/tsp-path` returns the shortest path* (`README.md:232`): from outside the rooms the start is no node of
   the graph and the reconstruction never ends, and with it the server's event loop. The phone's
   check is on a location up to 5 s old.

Seen while modelling, without a run:

- *Duration is the time spent in the room* (`README.md:211`): a visitor dropped from the map and placed again elsewhere
  has the time in between logged for the old room (`stays[u].gap`).
- *`exhibit` is the exhibit being rated* (`README.md:217`): the name changes in the middle of a fetch, the page at its end, so that
  a rating may be for an exhibit that is not shown (`rated`).
- `POST /tsp-path` takes any names: its own example, `{"userID": "1", "nodes": ["1.1", "2.1", "3.2"]}` (`server/index.js:433`), names no key of the graph, and a
  call with a name that is no room does not return either (`Unknown`, excepted in `CallReturns`).
- A ranging task whose radio fails in `UWB_setup` (`MuseumMateUWB.cpp:24-47`) keeps a charging tag awake for ever (`RadioFailed`).
- A sweep may drop a visitor whose tag came back online during its
  query (`TouringIsPlaced` shows the visitor returns). The tracker of an older navigation slows the tag
  down while a newer one is under way. A navigation to the default room ends at once for a visitor
  who was dropped. The notifications' socket is lost when the second effect
  overwrites `wsRef`; no socket that fails is opened again while the page stays in front (`RFIDScreen.js:254-256`). Of two handlers that missed the same prompt the one with the older
  answer may store last.
- `dwt_restoreconfig` takes the preamble code from `CHAN_CTRL` with a mask that was not shifted (`dw3000_device_api.cpp:1212`), and so loads the gain tables again for few of
  the codes that have them. `dwt_softreset` sets `dblbuffon` to buffer 0, which reads as double buffering on, until `dwt_initialise`. Under double buffering `dwt_readdiagnostics` with full logging, or none, fills
  fields it has not read; the model's application therefore uses the three levels meant for it.
- `ex_01c_tx_sleep_auto` enables only the wake-up line and wakes the radio by the chip select: here it waits for IDLE_RC for ever.
- Both AES ranging programs loop for ever at a frame that is not for them, and at an error of their AES engine.
- When the two nearest beacons share their x coordinate, `trilaterate` gives up and answers NaN, which is in no room.
- The first tag's report is cut off after 511 characters: of a window's twelfth beacon the average is cut, and those after it are missing.
- The first tag takes a card as known also when its message was dropped for want of a socket (`esp_udp.c:47`, `rc522.c:612`), and does not report one that takes another's place within 125 ms; a Bluetooth scan that fails to start is not tried again.

## 7 What is not modelled

The map covers 31 % of the lines of the C and C++ implementation, apart from the JavaScript and Go code of the server, the phone and the proxy.
Most of the rest of the DW3000 library is register names and addresses (`dw3000_regs.h`), declarations and comments (`dw3000_device_api.h`), and calls no
program of the repository makes.

- **DW3000 driver**: register addresses and values; one-time memory programming, frame filter and automatic acknowledgement, sniff mode, event
  counters, accumulator reads, temperature and voltage, SPI CRC with the `SYS_PANIC` branch of `dwt_isr` that belongs to it: no program
  calls them, or nothing reads them back. Code under `#if 0` in the port. Of `Ranging`'s programs: `check_for_status_errors`, which keeps
  statistics for the serial monitor, and `resync_sts`, which nothing calls. Both clocks run at one rate, so the correction by the
  carrier offset is one; the pause between two exchanges is longer than a responder takes (`PauseIsLong`). The exchanges of two tags that overlap are not
  explored: the tag accepts an answer by its prefix, and no code tells whose poll it answers.
- **Floating point**: `trilaterate`, room polygons, normalised popularity. Modules take the room as an input; `Ranging` ends with
  the choice of the three beacons.
- **TourTag**: the battery filter and the RFID dialogue are one step each in `TourTag`; what they compute is data for the server.
- **First tag**: the MFRC522's register numbers, the I2C transport and `udp_receive`, which its program does not use. The first beacon
  advertises and does nothing else.
- **Server**: statistics, ratings, battery and media endpoints are one query each without state. The RFID push's list of listeners
  only grows and nothing reads it; what arrives at the phone is `ExhibitPage`'s.
  The KNN classifier is trained and used by no endpoint.
- **Phone and dashboard**: translation, speech, the video player, the map overlay, fixed tours; the dashboard polls and draws.
- **External**: InfluxDB, MinIO, the OpenAI API, WiFi and UDP are modelled only by
  what the code can see of them: a query answers late, fails or finds nothing; a datagram is lost or
  overtakes; the API answers or fails.

## 8 Plan

Done, in the order of importance: `TagLifecycle` and `TourTag` with their refinement, `Presence`, `Navigation`,
`Routing` with `Dijkstra` and `Tsp`, `ExhibitPage`, `GptCache`; the driver (`Dw3000Options`, `Dw3000`, `Dw3000Host`), the ranging
programs and the museum's ranging with the choice of beacons (`Mac802154`, `Ranging`), the first tag (`BleTag`); a proof module for
each that keeps state across steps of several actors and is within the prover's reach.

What would come next:

1. `Presence` composed with `Navigation` (one `loc`, one tag per visitor), so that drops, navigation
   and the tag's sleep meet; abstract specification: a visitor's view of the service (on the map or not,
   guided or not).
2. Two tags in `Ranging`, whose exchanges overlap.
3. The dashboard's stale polls, and on the exhibit page the translation: that of an answer which was replaced meanwhile overwrites
   the new one (`RFIDScreen.js:368`).
