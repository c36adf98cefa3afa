---------------------------- MODULE RangingProofs ----------------------------
(***************************************************************************)
(* What holds of Ranging for every width of clocks and stamps, every       *)
(* header and every cast: the arithmetic of an exchange, the agreement of  *)
(* the two ends of a sealed frame, the tag's table of beacons, and the     *)
(* three that the server computes a position from.                         *)
(***************************************************************************)
EXTENDS Ranging, FiniteSetTheorems, SequenceTheorems, TLAPS

-----------------------------------------------------------------------------
(* Rests *)

\* Division by a positive number.
LEMMA DivMod ==
  ASSUME NEW m \in Nat \ {0}, NEW x \in Int
  PROVE  /\ x % m \in 0..m - 1
         /\ \E q \in Int : x = (q * m) + (x % m)
  <1>1. x % m \in 0..m - 1
    OBVIOUS
  <1>2. x = ((x \div m) * m) + (x % m)
    OBVIOUS
  <1>3. x \div m \in Int
    OBVIOUS
  <1> QED
    BY <1>1, <1>2, <1>3

\* Two multiples of m less than m apart are one.
LEMMA MultiplesApart ==
  ASSUME NEW m \in Nat \ {0}, NEW q \in Int, NEW p \in Int,
         NEW a \in 0..m - 1, NEW b \in 0..m - 1,
         (q * m) + a = (p * m) + b
  PROVE  a = b
  <1>1. (q - p) * m = b - a
    OBVIOUS
  <1>2. CASE q - p >= 1
    <2>1. (q - p) * m >= m
      BY <1>2
    <2> QED
      BY <1>1, <2>1
  <1>3. CASE q - p <= -1
    <2>1. (q - p) * m <= -m
      BY <1>3
    <2> QED
      BY <1>1, <2>1
  <1>4. CASE q = p
    BY <1>4
  <1> QED
    BY <1>2, <1>3, <1>4

\* A number that differs by a multiple of m from one in 0..m - 1 has that rest.
LEMMA RestIs ==
  ASSUME NEW m \in Nat \ {0}, NEW x \in Int, NEW q \in Int, NEW a \in 0..m - 1,
         x = (q * m) + a
  PROVE  x % m = a
  <1>1. PICK p \in Int : x = (p * m) + (x % m)
    BY DivMod
  <1>2. x % m \in 0..m - 1
    BY DivMod
  <1> QED
    BY <1>1, <1>2, MultiplesApart

-----------------------------------------------------------------------------
(* The time of flight *)

\* The last bits of a clock are those of the time it shows.
LEMMA LowOfClock ==
  ASSUME NEW t \in Int
  PROVE  \E q \in Int : t = (q * StampSize) + LowStamp(Clock(t))
  <1>1. /\ StampSize \in Nat \ {0}
        /\ ClockSize \in Nat \ {0}
        /\ ClockWraps \in Nat
        /\ ClockSize = ClockWraps * StampSize
    BY RangingAssumption DEF RangingAssumption, ClockSize, StampSize
  <1>2. PICK q \in Int : t = (q * ClockSize) + Clock(t)
    BY <1>1, DivMod DEF Clock
  <1>3. Clock(t) \in Int
    BY <1>1, DivMod DEF Clock
  <1>4. PICK p \in Int : Clock(t) = (p * StampSize) + LowStamp(Clock(t))
    BY <1>1, <1>3, DivMod DEF LowStamp
  <1>5. LowStamp(Clock(t)) \in Int
    BY <1>1, <1>3, DivMod DEF LowStamp
  <1>6. (q * ClockSize) + (p * StampSize) = ((q * ClockWraps) + p) * StampSize
    BY <1>1
  <1>7. t = (((q * ClockWraps) + p) * StampSize) + LowStamp(Clock(t))
    BY <1>2, <1>4, <1>5, <1>6, <1>1, <1>3
  <1>8. (q * ClockWraps) + p \in Int
    BY <1>1
  <1> QED
    BY <1>7, <1>8

\* rtd_init and rtd_resp: the difference of two truncated stamps of one clock,
\* taken as a signed number, is that of the times, if these are less than half
\* a turn apart.
LEMMA SignedDiffExact ==
  ASSUME NEW a \in Int, NEW b \in Int, a - b \in -HalfStamp..HalfStamp - 1
  PROVE  SignedDiff(LowStamp(Clock(a)), LowStamp(Clock(b))) = a - b
  <1> DEFINE la == LowStamp(Clock(a))
             lb == LowStamp(Clock(b))
             d == (la - lb) % StampSize
  <1>1. /\ HalfStamp \in Nat \ {0}
        /\ StampSize = 2 * HalfStamp
        /\ StampSize \in Nat \ {0}
        /\ ClockSize \in Nat \ {0}
    BY RangingAssumption DEF RangingAssumption, StampSize, ClockSize
  <1>2. la \in Int /\ lb \in Int
    BY <1>1, DivMod DEF LowStamp, Clock
  <1>3. PICK qa \in Int : a = (qa * StampSize) + la
    BY LowOfClock
  <1>4. PICK qb \in Int : b = (qb * StampSize) + lb
    BY LowOfClock
  <1>5. la - lb \in Int
    BY <1>2
  <1> HIDE DEF la, lb
  <1>6. d \in 0..StampSize - 1
    BY <1>1, <1>5, DivMod
  <1>7. PICK p \in Int : la - lb = (p * StampSize) + d
    BY <1>1, <1>5, DivMod
  <1> HIDE DEF d
  <1> DEFINE s == (qa - qb) + p
  <1>8. a - b = (s * StampSize) + d
    <2>1. a - b = ((qa * StampSize) - (qb * StampSize)) + (la - lb)
      BY <1>1, <1>2, <1>3, <1>4
    <2>2. (s * StampSize) = ((qa * StampSize) - (qb * StampSize)) + (p * StampSize)
      BY <1>1
    <2> QED
      BY <1>1, <1>6, <1>7, <2>1, <2>2
  <1>9. s \in Int
    OBVIOUS
  <1> HIDE DEF s
  <1>10. CASE a - b >= 0
    <2>1. a - b \in 0..StampSize - 1
      BY <1>1, <1>10
    <2>2. (0 * StampSize) + (a - b) = (s * StampSize) + d
      BY <1>1, <1>8
    <2>3. a - b = d
      BY <1>1, <1>6, <1>9, <2>1, <2>2, MultiplesApart
    <2>4. ~(d >= HalfStamp)
      BY <1>1, <2>3
    <2> QED
      BY <2>3, <2>4 DEF SignedDiff, d, la, lb
  <1>11. CASE a - b < 0
    <2>1. (a - b) + StampSize \in 0..StampSize - 1
      BY <1>1, <1>11
    <2>2. (0 * StampSize) + ((a - b) + StampSize) = ((s + 1) * StampSize) + d
      BY <1>1, <1>8, <1>9, <1>6
    <2>3. (a - b) + StampSize = d
      BY <1>1, <1>6, <1>9, <2>1, <2>2, MultiplesApart
    <2>4. d >= HalfStamp /\ d - StampSize = a - b
      BY <1>1, <2>3
    <2> QED
      BY <2>4 DEF SignedDiff, d, la, lb
  <1> QED
    BY <1>10, <1>11

\* MuseumMateUWB.cpp and the initiators of examples/ex_06*: a poll that leaves at
\* time t, is "flight" under way and is answered "reply" after it arrived gives
\* twice its flight, whatever the clocks of the two radios showed, however far
\* they are apart, and wherever the clocks and the stamps in the message wrap;
\* if the exchange takes less than half a turn of a stamp.
THEOREM FlightIsExact ==
  ASSUME NEW t \in Int, NEW flight \in Nat, NEW reply \in Nat,
         NEW clockI \in Int, NEW clockR \in Int,
         flight + flight + reply < HalfStamp
  PROVE  TwiceFlight(LowStamp(Clock(t + clockI)),
                     LowStamp(Clock(t + clockI + flight + reply + flight)),
                     LowStamp(Clock(t + clockR + flight)),
                     LowStamp(Clock(t + clockR + flight + reply)))
           = 2 * flight
  <1> DEFINE pollTx == t + clockI
             respRx == t + clockI + flight + reply + flight
             pollRx == t + clockR + flight
             respTx == t + clockR + flight + reply
  <1>1. HalfStamp \in Nat
    BY RangingAssumption DEF RangingAssumption
  <1>2. /\ pollTx \in Int /\ respRx \in Int /\ pollRx \in Int /\ respTx \in Int
        /\ respRx - pollTx = flight + reply + flight
        /\ respTx - pollRx = reply
    OBVIOUS
  <1> HIDE DEF pollTx, respRx, pollRx, respTx
  <1>3. SignedDiff(LowStamp(Clock(respRx)), LowStamp(Clock(pollTx))) = flight + reply + flight
    BY <1>1, <1>2, SignedDiffExact
  <1>4. SignedDiff(LowStamp(Clock(respTx)), LowStamp(Clock(pollRx))) = reply
    BY <1>1, <1>2, SignedDiffExact
  <1>5. TwiceFlight(LowStamp(Clock(pollTx)), LowStamp(Clock(respRx)),
                    LowStamp(Clock(pollRx)), LowStamp(Clock(respTx))) = 2 * flight
    BY <1>3, <1>4 DEF TwiceFlight
  <1> QED
    BY <1>5 DEF pollTx, respRx, pollRx, respTx
-----------------------------------------------------------------------------
(* The time a response is promised for *)

\* Adding to a rest is adding to the number.
LEMMA RestShift ==
  ASSUME NEW m \in Nat \ {0}, NEW x \in Int, NEW y \in Int
  PROVE  ((x % m) + y) % m = (x + y) % m
  <1>1. x % m \in Int
    BY DivMod
  <1>2. PICK q \in Int : x = (q * m) + (x % m)
    BY DivMod
  <1> DEFINE c == x % m
             e == (c + y) % m
  <1> HIDE DEF c
  <1>3. c \in Int /\ c + y \in Int /\ x = (q * m) + c
    BY <1>1, <1>2 DEF c
  <1>4. PICK p \in Int : c + y = (p * m) + e
    BY <1>3, DivMod
  <1>5. e \in 0..m - 1
    BY <1>3, DivMod
  <1> HIDE DEF e
  <1>6. x + y = ((q + p) * m) + e
    <2>1. (q + p) * m = (q * m) + (p * m)
      OBVIOUS
    <2> QED
      BY <1>3, <1>4, <1>5, <2>1
  <1>7. x + y \in Int /\ q + p \in Int
    OBVIOUS
  <1>8. (x + y) % m = e
    BY <1>5, <1>6, <1>7, RestIs
  <1> QED
    BY <1>8 DEF e, c

\* Adding to what a clock shows is adding to the time.
LEMMA ClockShift ==
  ASSUME NEW x \in Int, NEW y \in Int
  PROVE  Clock(Clock(x) + y) = Clock(x + y)
  <1>1. ClockSize \in Nat \ {0}
    BY RangingAssumption DEF RangingAssumption, ClockSize, StampSize
  <1> QED
    BY <1>1, RestShift DEF Clock

\* The last bits of a clock are those of any number with the same ones.
LEMMA LowOfClockIs ==
  ASSUME NEW t \in Int
  PROVE  LowStamp(Clock(t)) = LowStamp(t)
  <1>1. StampSize \in Nat \ {0} /\ ClockSize \in Nat \ {0}
    BY RangingAssumption DEF RangingAssumption, ClockSize, StampSize
  <1>2. LowStamp(Clock(t)) \in 0..StampSize - 1
    BY <1>1, DivMod DEF LowStamp, Clock
  <1>3. PICK q \in Int : t = (q * StampSize) + LowStamp(Clock(t))
    BY LowOfClock
  <1> QED
    BY <1>1, <1>2, <1>3, RestIs DEF LowStamp

\* MuseumMate_Beacon.ino and the responders: the stamp a response carries was
\* computed before it was sent; the frame leaves with that very stamp, although
\* the chip ignores the last bit of the delayed time and the clock may wrap
\* meanwhile.
THEOREM PromiseKept ==
  ASSUME NEW n \in Nodes, r[n].dx \in Nat, r[n].txant = AntDelay,
         cast.clock[n] \in Int
  PROVE  LowStamp(SendStamp(n, DelayedTime(n))) = LowStamp(RespTxStamp(r[n].dx))
  <1> DEFINE c == cast.clock[n]
             dx == r[n].dx - (r[n].dx % 2)
             x == (dx * DelayUnit) - c + AntDelay
  <1>1. dx \in Int /\ AntDelay \in Int /\ DelayUnit \in Int /\ c \in Int
    BY RangingAssumption DEF RangingAssumption
  <1> HIDE DEF c, dx
  <1>2. /\ x \in Int
        /\ x + c = (dx * DelayUnit) + AntDelay
    BY <1>1
  <1> HIDE DEF x
  <1>3. DelayedTime(n) = Clock(x)
    BY DEF DelayedTime, x, dx, c
  <1>4. Clock(x) \in Int
    BY <1>2, DivMod, RangingAssumption DEF Clock, RangingAssumption, ClockSize, StampSize
  <1>5. SendStamp(n, DelayedTime(n)) = Clock(Clock(x) + c)
    <2>1. Clock(x) + c - AntDelay + AntDelay = Clock(x) + c
      BY <1>1, <1>4
    <2>2. SendStamp(n, DelayedTime(n)) = Clock(Clock(x) + c - AntDelay + AntDelay)
      BY <1>3 DEF SendStamp, c
    <2> QED
      BY <2>1, <2>2
  <1>6. SendStamp(n, DelayedTime(n)) = Clock((dx * DelayUnit) + AntDelay)
    BY <1>1, <1>2, <1>5, ClockShift, ZenonT(60)
  <1>7. RespTxStamp(r[n].dx) = (dx * DelayUnit) + AntDelay
    BY DEF RespTxStamp, dx
  <1>8. RespTxStamp(r[n].dx) \in Int
    BY <1>1, <1>7
  <1> QED
    BY <1>6, <1>7, <1>8, LowOfClockIs

-----------------------------------------------------------------------------
(* Sealed frames *)

\* dw3000_mac_802_15_4.cpp and dwt_do_aes: what one radio seals and sends the
\* radio it is addressed to opens, for every level of security, key, counter
\* and payload that fits: both ends agree on the lengths, the nonce and the
\* size of the integrity code.  The engine that opens does its job.
THEOREM SealedOpens ==
  ASSUME NEW mac, mac.secure, mac.level \in {0, 1, 2, 3, 5, 6, 7},
         NEW payload_len \in 0..SCRATCH_BUFFER_MAX_LEN, NEW max_payload \in Nat,
         payload_len <= max_payload
  PROVE  LET done == dwt_do_aes(EncryptJob(mac, payload_len), "CCM", "OK")
         IN  /\ done.ret = "DONE"
             /\ rx_aes_802_15_4([ mac |-> mac, len |-> SecuredLength(mac, payload_len),
                                   seal |-> done.seal ], max_payload, mac.src, mac.dst, "OK")
                  = "OK"
  <1> DEFINE job == EncryptJob(mac, payload_len)
             mic == mac_frame_get_aux_mic_size(mac)
             done == dwt_do_aes(job, "CCM", "OK")
             frame == [ mac |-> mac, len |-> SecuredLength(mac, payload_len),
                        seal |-> done.seal ]
             opening == [ mode |-> "Decrypt", src |-> "Rx_buf", dst |-> "Rx_buf",
                          key |-> mac.key, nonce |-> mac_frame_get_nonce(mac),
                          payload_len |-> payload_len, mic_size |-> mic,
                          sealed |-> frame.seal ]
  <1>1. payload_len \in 0..127
    BY DEF SCRATCH_BUFFER_MAX_LEN
  <1>2. mic \in {0, 4, 8, 16}
    BY DEF mac_frame_get_aux_mic_size
  <1> HIDE DEF mic
  <1>3. mic # MIC_ERROR
    BY <1>2 DEF MIC_ERROR
  <1>4. /\ job.mic_size = mic /\ job.mode = "Encrypt" /\ job.src = "Tx_buf"
        /\ job.dst = "Tx_buf" /\ job.payload_len = payload_len /\ job.key = mac.key
        /\ job.nonce = mac_frame_get_nonce(mac)
    BY DEF EncryptJob, mic
  <1> HIDE DEF job
  <1>5. /\ done.ret = "DONE"
        /\ done.seal = <<mac.key, NonceOf(job, "CCM"), dwt_mic_size_from_bytes(mic)>>
    BY <1>1, <1>2, <1>3, <1>4 DEF dwt_do_aes, AllowSize, MAC_FRAME_HEADER_SIZE, FCS_LEN,
       TX_BUFFER_MAX_LEN, MIC_ERROR
  <1> HIDE DEF done
  <1>6. dwt_do_aes(opening, "CCM", "OK").ret = "DONE"
    <2>1. NonceOf(opening, "CCM") = NonceOf(job, "CCM")
      BY <1>4 DEF NonceOf
    <2> QED
      BY <1>1, <1>2, <1>3, <1>5, <2>1
         DEF dwt_do_aes, AllowSize, MAC_FRAME_HEADER_SIZE, FCS_LEN, RX_BUFFER_MAX_LEN,
             MIC_ERROR
  <1>7. rx_aes_802_15_4(frame, max_payload, mac.src, mac.dst, "OK") = "OK"
    <2>1. /\ frame.mac = mac /\ frame.len = MAC_FRAME_HEADER_SIZE + payload_len + mic + FCS_LEN
          /\ frame.seal = done.seal
      BY DEF SecuredLength, mic
    <2>2. frame.len - (MAC_FRAME_HEADER_SIZE + mic + FCS_LEN) = payload_len
      BY <1>1, <1>2, <2>1 DEF MAC_FRAME_HEADER_SIZE, FCS_LEN
    <2>3. ~(frame.len - FCS_LEN < MAC_FRAME_HEADER_SIZE)
      BY <1>1, <1>2, <2>1 DEF MAC_FRAME_HEADER_SIZE, FCS_LEN
    <2>4. get_security_state(mac) /\ get_src_and_dst_frame_addr(mac) = <<mac.src, mac.dst>>
      BY DEF get_security_state, get_src_and_dst_frame_addr
    <2>5. "DONE" \notin NegativeResults /\ "DONE" \notin AES_ERRORS
      BY DEF NegativeResults, AES_ERRORS, EngineErrors
    <2> HIDE DEF frame
    <2> QED
      BY <1>3, <1>6, <2>1, <2>2, <2>3, <2>4, <2>5 DEF rx_aes_802_15_4, mic
  <1> QED
    BY <1>5, <1>7 DEF done, frame, job, mic

\* A job that the engine could do ends as the engine does,
LEMMA EngineFails ==
  ASSUME NEW job, NEW core, dwt_do_aes(job, core, "OK").ret \notin NegativeResults,
         NEW engine \in EngineErrors
  PROVE  dwt_do_aes(job, core, engine) = [ret |-> engine]
  <1>1. engine # "OK"
    BY DEF EngineErrors
  <1>2. /\ job.mic_size # MIC_ERROR /\ job.mode \in {"Encrypt", "Decrypt"}
        /\ ~(MAC_FRAME_HEADER_SIZE + job.payload_len > AllowSize(job) - job.mic_size - FCS_LEN)
        /\ ~(job.dst = "STS_key" /\ job.payload_len > STS_LEN_128BIT)
    BY DEF dwt_do_aes, NegativeResults
  <1> QED
    BY <1>1, <1>2, Zenon DEF dwt_do_aes

\* and a frame that would have been opened is not.
LEMMA OpeningFails ==
  ASSUME NEW f, NEW max, NEW a, NEW b, rx_aes_802_15_4(f, max, a, b, "OK") = "OK",
         NEW engine \in EngineErrors
  PROVE  rx_aes_802_15_4(f, max, a, b, engine) = "ERROR"
  <1> DEFINE mic == mac_frame_get_aux_mic_size(f.mac)
             payload_len == f.len - (MAC_FRAME_HEADER_SIZE + mic + FCS_LEN)
             job == [ mode |-> "Decrypt", src |-> "Rx_buf", dst |-> "Rx_buf",
                      key |-> f.mac.key, nonce |-> mac_frame_get_nonce(f.mac),
                      payload_len |-> payload_len, mic_size |-> mic, sealed |-> f.seal ]
             Before(e) == dwt_do_aes(job, "CCM", e).ret
             short == f.len - FCS_LEN < MAC_FRAME_HEADER_SIZE
             other == \/ ~get_security_state(f.mac)
                      \/ get_src_and_dst_frame_addr(f.mac) # <<a, b>>
             long == mic = MIC_ERROR \/ payload_len < 0 \/ payload_len > max
  <1>1. ASSUME NEW e
        PROVE  rx_aes_802_15_4(f, max, a, b, e)
                 = IF short THEN "ERROR_FRAME" ELSE IF other THEN "ERROR_IGNORE_FRAME"
                   ELSE IF long THEN "ERROR_FRAME"
                   ELSE IF Before(e) \in NegativeResults THEN "ERROR_LENGTH"
                   ELSE IF Before(e) \in AES_ERRORS THEN "ERROR" ELSE "OK"
    BY Zenon DEF rx_aes_802_15_4
  <1> HIDE DEF short, other, long
  <1>2. Before("OK") \notin NegativeResults
    <2> HIDE DEF job
    <2> QED
      BY <1>1
  <1>3. Before(engine) = engine
    <2> HIDE DEF job
    <2> QED
      BY <1>2, EngineFails
  <1>4. engine \in AES_ERRORS /\ engine \notin NegativeResults
    BY DEF AES_ERRORS, NegativeResults, EngineErrors
  <1>5. ~short /\ ~other /\ ~long
    <2> HIDE DEF job
    <2> QED
      BY <1>1
  <1> HIDE DEF job
  <1> QED
    BY <1>1, <1>3, <1>4, <1>5
-----------------------------------------------------------------------------
(* The tag's table of beacons *)

Entries(I, D) == [id : I, readings : Seq(D)]

\* Tables hold more than they did, and still are tables.
LEMMA TablesGrow ==
  ASSUME NEW I, NEW D, NEW J, NEW E, I \subseteq J, D \subseteq E,
         NEW table \in Seq(Entries(I, D))
  PROVE  table \in Seq(Entries(J, E))
  <1>1. Entries(I, D) \subseteq Entries(J, E)
    <2> SUFFICES ASSUME NEW b \in Entries(I, D)
                 PROVE  b \in Entries(J, E)
      OBVIOUS
    <2>1. b.readings \in Seq(E)
      BY SeqMonotonic DEF Entries
    <2> QED
      BY <2>1 DEF Entries
  <1> QED
    BY <1>1, SeqMonotonic

\* The entry of a beacon in a table that has it at most once.
LEMMA EntryIs ==
  ASSUME NEW I, NEW D, NEW table \in Seq(Entries(I, D)), SoundTable(table), NEW id
  PROVE  /\ Entry(table, id) \in 0..Len(table)
         /\ Entry(table, id) = 0 => \A i \in 1..Len(table) : table[i].id # id
         /\ Entry(table, id) # 0 => table[Entry(table, id)].id = id
  <1> DEFINE hits == {i \in 1..Len(table) : table[i].id = id}
  <1>1. Entry(table, id) = IF hits # {} THEN Min(hits) ELSE 0
    BY DEF Entry, SelectInSeq
  <1>2. DOMAIN table = 1..Len(table) /\ Len(table) \in Nat
    BY LenProperties
  <1>3. CASE hits = {}
    BY <1>1, <1>2, <1>3
  <1>4. CASE hits # {}
    <2>1. PICK i : i \in hits
      BY <1>4
    <2>2. hits = {i}
      BY <1>2, <2>1 DEF SoundTable
    <2>3. Min({i}) = i
      BY <2>1 DEF Min
    <2>4. Entry(table, id) = i
      BY <1>1, <2>2, <2>3
    <2> QED
      BY <1>2, <2>1, <2>4
  <1> QED
    BY <1>3, <1>4

\* A beacon is found, or added once.
LEMMA FindOrAddSound ==
  ASSUME NEW I, NEW D, NEW table \in Seq(Entries(I, D)), SoundTable(table), NEW id
  PROVE  LET found == FindOrAdd(table, id)
         IN  /\ found \in Seq(Entries(I \cup {id}, D))
             /\ SoundTable(found)
             /\ Entry(found, id) \in 1..Len(found)
             /\ found[Entry(found, id)].id = id
  <1> DEFINE found == FindOrAdd(table, id)
             new == [id |-> id, readings |-> <<>>]
  <1>1. table \in Seq(Entries(I \cup {id}, D))
    BY TablesGrow
  <1>2. DOMAIN table = 1..Len(table) /\ Len(table) \in Nat
    BY LenProperties
  <1>3. CASE Entry(table, id) # 0
    <2>1. found = table
      BY <1>3 DEF FindOrAdd
    <2>2. Entry(table, id) \in 1..Len(table) /\ table[Entry(table, id)].id = id
      BY <1>2, <1>3, EntryIs
    <2> QED
      BY <1>1, <2>1, <2>2
  <1>4. CASE Entry(table, id) = 0
    <2>1. found = Append(table, new)
      BY <1>4 DEF FindOrAdd
    <2>2. new \in Entries(I \cup {id}, D)
      BY EmptySeq DEF Entries
    <2>3. /\ found \in Seq(Entries(I \cup {id}, D))
          /\ Len(found) = Len(table) + 1
          /\ \A i \in 1..Len(table) : found[i] = table[i]
          /\ found[Len(table) + 1] = new
      BY <1>1, <2>1, <2>2, AppendProperties
    <2>4. \A i \in 1..Len(table) : table[i].id # id
      BY <1>4, EntryIs
    <2>5. DOMAIN found = 1..Len(table) + 1
      BY <2>3, LenProperties
    <2>6. Len(new.readings) <= MAX_READINGS /\ new.id = id
      BY EmptySeq, RangingAssumption DEF RangingAssumption
    <2> HIDE DEF found, new
    <2>7. SoundTable(found)
      BY <1>2, <2>3, <2>4, <2>5, <2>6 DEF SoundTable
    <2>8. /\ Entry(found, id) \in 0..Len(found)
          /\ Entry(found, id) # 0
          /\ found[Entry(found, id)].id = id
      <3>1. found[Len(found)].id = id /\ Len(found) \in 1..Len(found)
        BY <1>2, <2>3, <2>6
      <3> QED
        BY <2>3, <2>7, <3>1, EntryIs
    <2> QED
      BY <1>2, <2>3, <2>7, <2>8 DEF found
  <1> QED
    BY <1>3, <1>4

\* A reading that is recorded leaves the table sound.
LEMMA RecordedSound ==
  ASSUME NEW I, NEW D, NEW table \in Seq(Entries(I, D)), SoundTable(table),
         NEW id, NEW distance
  PROVE  /\ Recorded(table, id, distance)
               \in Seq(Entries(I \cup {id}, D \cup {distance}))
         /\ SoundTable(Recorded(table, id, distance))
  <1> DEFINE found == FindOrAdd(table, id)
             i == Entry(found, id)
             J == I \cup {id}
             E == D \cup {distance}
             old == found[i].readings
             new == [id |-> id, readings |-> Append(old, distance)]
             added == [found EXCEPT ![i] = new]
  <1>1. /\ found \in Seq(Entries(J, D))
        /\ SoundTable(found)
        /\ i \in 1..Len(found)
        /\ found[i].id = id
    BY FindOrAddSound
  <1>2. found \in Seq(Entries(J, E))
    BY <1>1, TablesGrow
  <1>3. Recorded(table, id, distance) =
          IF Len(old) < MAX_READINGS THEN added ELSE found
    BY DEF Recorded
  <1> HIDE DEF found, i
  <1>4. CASE Len(old) < MAX_READINGS
    <2>1. found[i] \in Entries(J, E)
      BY <1>1, <1>2, ElementOfSeq
    <2>2. old \in Seq(E)
      BY <2>1 DEF Entries
    <2>3. Append(old, distance) \in Seq(E) /\ Len(Append(old, distance)) = Len(old) + 1
      BY <2>2, AppendProperties
    <2>4. Len(old) \in Nat /\ MAX_READINGS \in Nat
      BY <2>2, LenProperties, RangingAssumption DEF RangingAssumption
    <2>5. new \in Entries(J, E)
      BY <2>3 DEF Entries
    <2>6. /\ added \in Seq(Entries(J, E))
          /\ Len(added) = Len(found)
          /\ DOMAIN added = DOMAIN found
          /\ \A j \in DOMAIN found : added[j] = IF j = i THEN new ELSE found[j]
      BY <1>1, <1>2, <2>5, ExceptSeq, LenProperties
    <2>7. new.id = id /\ Len(new.readings) <= MAX_READINGS
      BY <1>4, <2>3, <2>4
    <2>8. SoundTable(added)
      <3> HIDE DEF added, new, old
      <3> QED
        BY <1>1, <2>6, <2>7 DEF SoundTable
    <2> QED
      BY <1>3, <1>4, <2>6, <2>8
  <1>5. CASE ~(Len(old) < MAX_READINGS)
    BY <1>1, <1>2, <1>3, <1>5
  <1> QED
    BY <1>4, <1>5

-----------------------------------------------------------------------------
\* What the tag's actions keep: SoundTable, and that the table is a table.
TableInv ==
  /\ round = [samples |-> round.samples, table |-> round.table]
  /\ \E I, D : round.table \in Seq(Entries(I, D))
  /\ SoundTable(round.table)

\* A round begins with an empty table.
LEMMA EmptyTable ==
  ASSUME NEW I, NEW D
  PROVE  <<>> \in Seq(Entries(I, D)) /\ SoundTable(<<>>)
  BY EmptySeq DEF SoundTable

\* TableInv is an inductive invariant.
LEMMA InitTable == Init => TableInv
  <1> SUFFICES ASSUME Init
               PROVE  TableInv
    OBVIOUS
  <1>1. round = [samples |-> 0, table |-> <<>>]
    BY DEF Init
  <1> QED
    BY <1>1, EmptyTable DEF TableInv

\* Only the tag touches its table.
LEMMA OthersLeaveIt ==
  ASSUME NEW n \in Nodes, Program(n), ~UWB_take(n), ~UWB_pause(n), ~UWB_report(n)
  PROVE  UNCHANGED <<round, server>>
  <1>1. CASE Setup(n) \/ Pause(n) \/ Answered(n) \/ UWB_poll(n)
    BY <1>1 DEF Setup, Pause, Answered, UWB_poll, Goto, Elsewhere
  <1>2. CASE ex_06a_poll(n) \/ ex_06a_take(n) \/ ex_06b_listen(n) \/ Beacon_listen(n)
    BY <1>2 DEF ex_06a_poll, ex_06a_take, ex_06b_listen, Beacon_listen, Goto, Elsewhere
  <1>3. CASE ex_06b_take(n) \/ Beacon_take(n) \/ ex_06b_sts_take(n)
    BY <1>3 DEF ex_06b_take, Beacon_take, ex_06b_sts_take, Respond, Answer, Goto, Elsewhere
  <1>4. CASE ex_06a_sts_poll(n) \/ ex_06a_sts_polled(n) \/ ex_06a_sts_take(n)
               \/ ex_06b_sts_listen(n)
    BY <1>4 DEF ex_06a_sts_poll, ex_06a_sts_polled, ex_06a_sts_take, ex_06b_sts_listen,
       Goto, Elsewhere
  <1>5. CASE ex_06a_no_data_poll(n) \/ ex_06a_no_data_polled(n) \/ ex_06a_no_data_take(n)
               \/ ex_06a_no_data_report(n)
    BY <1>5 DEF ex_06a_no_data_poll, ex_06a_no_data_polled, ex_06a_no_data_take,
       ex_06a_no_data_report, Goto, Elsewhere
  <1>6. CASE ex_06b_no_data_listen(n) \/ ex_06b_no_data_take(n) \/ ex_06b_no_data_report(n)
               \/ ex_06b_no_data_reported(n)
    BY <1>6 DEF ex_06b_no_data_listen, ex_06b_no_data_take, ex_06b_no_data_report,
       ex_06b_no_data_reported, Answer, Goto, Elsewhere
  <1>7. CASE ex_06e_poll(n) \/ ex_06e_take(n) \/ ex_06f_listen(n) \/ ex_06f_take(n)
    <2>1. ASSUME NEW q, NEW at, Goto(n, q, at)
          PROVE  UNCHANGED <<round, server>>
      BY <2>1 DEF Goto, Elsewhere
    <2>2. ASSUME NEW q, NEW frame, NEW dx, Answer(n, q, frame, dx)
          PROVE  UNCHANGED <<round, server>>
      BY <2>1, <2>2 DEF Answer
    <2>3. CASE ex_06e_poll(n)
      BY <2>1, <2>3, Zenon DEF ex_06e_poll
    <2>4. CASE ex_06e_take(n)
      BY <2>1, <2>4, Zenon DEF ex_06e_take
    <2>5. ASSUME NEW q, ex_06f_respond(n, q)
          PROVE  UNCHANGED <<round, server>>
      BY <2>1, <2>2, <2>5 DEF ex_06f_respond
    <2>6. CASE ex_06f_listen(n)
      BY <2>1, <2>6, Zenon DEF ex_06f_listen
    <2>7. CASE ex_06f_take(n)
      BY <2>1, <2>5, <2>7, Zenon DEF ex_06f_take
    <2> QED
      BY <1>7, <2>3, <2>4, <2>6, <2>7
  <1> QED
    BY <1>1, <1>2, <1>3, <1>4, <1>5, <1>6, <1>7 DEF Program

\* Every step keeps TableInv: the tag's three that touch the table, and the others.
LEMMA StepTable == TableInv /\ [Next]_vars => TableInv'
  <1> SUFFICES ASSUME TableInv, [Next]_vars
               PROVE  TableInv'
    OBVIOUS
  <1>1. CASE UNCHANGED round
    BY <1>1 DEF TableInv, SoundTable
  <1>2. ASSUME NEW n \in Nodes, UWB_take(n)
        PROVE  TableInv'
    <2>1. CASE round' = round
      BY <1>1, <2>1
    <2>2. ASSUME NEW id, NEW distance,
                 round' = [round EXCEPT !.table = Recorded(@, id, distance)]
          PROVE  TableInv'
      <3>1. PICK I, D : round.table \in Seq(Entries(I, D))
        BY DEF TableInv
      <3>2. /\ Recorded(round.table, id, distance)
                  \in Seq(Entries(I \cup {id}, D \cup {distance}))
            /\ SoundTable(Recorded(round.table, id, distance))
        BY <3>1, RecordedSound DEF TableInv
      <3>3. round' = [samples |-> round.samples,
                      table |-> Recorded(round.table, id, distance)]
        BY <2>2 DEF TableInv
      <3> QED
        BY <3>2, <3>3 DEF TableInv, SoundTable
    <2> QED
      BY <1>2, <2>1, <2>2 DEF UWB_take
  <1>3. ASSUME NEW n \in Nodes, UWB_pause(n)
        PROVE  TableInv'
    <2>1. \E k : round' = [samples |-> k, table |-> round.table]
      BY <1>3 DEF UWB_pause, TableInv
    <2> QED
      BY <2>1 DEF TableInv, SoundTable
  <1>4. ASSUME NEW n \in Nodes, UWB_report(n)
        PROVE  TableInv'
    <2>1. round' = [samples |-> round.samples, table |-> <<>>]
      BY <1>4 DEF UWB_report, TableInv
    <2> QED
      BY <2>1, EmptyTable DEF TableInv
  <1>5. ASSUME NEW n \in Nodes, ChipSends(n) \/ TimesOut(n) \/ ForeignFrame(n)
        PROVE  TableInv'
    BY <1>1, <1>5 DEF ChipSends, TimesOut, ForeignFrame
  <1>6. ASSUME NEW n \in Nodes, Program(n)
        PROVE  TableInv'
    BY <1>1, <1>2, <1>3, <1>4, <1>6, OthersLeaveIt
  <1> QED
    BY <1>1, <1>5, <1>6 DEF Next, vars

\* MuseumMateUWB.cpp: in a round of any length, whatever answers the tag hears, no
\* beacon's readings overrun their array, and no beacon is entered a second time,
\* so that an average is of all its readings.
THEOREM BeaconTableSound == Spec => []SoundTable(round.table)
  <1>1. TableInv => SoundTable(round.table)
    BY DEF TableInv
  <1> QED
    BY <1>1, InitTable, StepTable, PTL DEF Spec

-----------------------------------------------------------------------------
(***************************************************************************)
(* The driver's calls: which fields of a radio they change, and to what.   *)
(***************************************************************************)
\* p is q but for some fields.
Changes(q, p, fields) ==
  /\ DOMAIN p = DOMAIN q
  /\ \A f \in DOMAIN q : f \notin fields => p[f] = q[f]

\* Changes add up.
LEMMA ChangesAdd ==
  ASSUME NEW q, NEW p, NEW o, NEW S, NEW T, NEW U, Changes(q, p, S), Changes(p, o, T),
         S \cup T \subseteq U
  PROVE  Changes(q, o, U)
  BY Zenon DEF Changes

\* The fields the proofs speak of.
Fields == {"dbl", "err", "power", "ev", "double", "rearm", "fill", "held", "good", "buf", "reg",
           "txbuf", "late", "txerr", "w4r", "dx", "txtime", "timeout", "spc", "iv", "ivreg",
           "atx2slp", "txant", "rxant", "delayed", "wake"}

HasFields(q) == Fields \subseteq DOMAIN q

\* Each field by its name.
LEMMA FieldsThere ==
  ASSUME NEW q, HasFields(q)
  PROVE  /\ "dbl" \in DOMAIN q /\ "err" \in DOMAIN q /\ "power" \in DOMAIN q /\ "ev" \in DOMAIN q
         /\ "double" \in DOMAIN q /\ "rearm" \in DOMAIN q /\ "fill" \in DOMAIN q
         /\ "held" \in DOMAIN q /\ "good" \in DOMAIN q /\ "buf" \in DOMAIN q
         /\ "reg" \in DOMAIN q /\ "txbuf" \in DOMAIN q /\ "late" \in DOMAIN q /\ "txerr" \in DOMAIN q
         /\ "w4r" \in DOMAIN q /\ "dx" \in DOMAIN q /\ "txtime" \in DOMAIN q
         /\ "timeout" \in DOMAIN q /\ "spc" \in DOMAIN q /\ "iv" \in DOMAIN q
         /\ "ivreg" \in DOMAIN q /\ "atx2slp" \in DOMAIN q /\ "txant" \in DOMAIN q
         /\ "rxant" \in DOMAIN q /\ "delayed" \in DOMAIN q /\ "wake" \in DOMAIN q
  BY Zenon DEF HasFields, Fields

\* A radio keeps its fields.
LEMMA ChangesKeep ==
  ASSUME NEW q, NEW p, NEW S, Changes(q, p, S), HasFields(q)
  PROVE  HasFields(p)
  BY Zenon DEF Changes, HasFields

RxEvents == ALL_RX_GOOD \cup ALL_RX_ERR \cup ALL_RX_TO

Single(q) ==
  /\ HasFields(q)
  /\ q.dbl = "OFF" /\ q.double = FALSE /\ q.rearm = FALSE /\ q.fill = 0 /\ q.atx2slp = FALSE
  /\ DOMAIN q.buf = 0..1 /\ q.buf[0] = q.reg

Eventful(q) ==
  /\ q.power \in {"IDLE_RC", "IDLE", "TX", "RX"} /\ q.ev \subseteq Events
  /\ q.ev \cap ALL_RX_GOOD = {} \/ q.ev \cap (ALL_RX_ERR \cup ALL_RX_TO) = {}
  /\ q.power = "RX" => q.ev \cap RxEvents = {}

\* A radio without double buffering stays one when none of that changes.
LEMMA SingleKept ==
  ASSUME NEW q, NEW p, NEW S, Single(q), Changes(q, p, S),
         S \cap {"dbl", "double", "rearm", "fill", "atx2slp", "buf", "reg"} = {}
  PROVE  Single(p)
  <1>1. HasFields(p)
    BY ChangesKeep DEF Single
  <1>2. /\ p.dbl = q.dbl /\ p.double = q.double /\ p.rearm = q.rearm /\ p.fill = q.fill
        /\ p.atx2slp = q.atx2slp /\ p.buf = q.buf /\ p.reg = q.reg
    BY FieldsThere, Zenon DEF Changes, Single
  <1> QED
    BY <1>1, <1>2, Zenon DEF Single

\* A reset goes back to the values out of reset.
LEMMA ResetIs ==
  ASSUME NEW q, HasFields(q)
  PROVE  LET p == Reset(q)
         IN  /\ HasFields(p)
             /\ p.power = "IDLE_RC" /\ p.ev = {"SPIRDY", "RCINIT"} /\ p.double = FALSE
             /\ p.rearm = FALSE /\ p.fill = 0 /\ p.buf = [b \in 0..1 |-> NoSlot]
             /\ p.reg = NoSlot /\ p.dbl = q.dbl
  BY FieldsThere, Zenon DEF Reset, ChipReset, HasFields

-----------------------------------------------------------------------------
(* Calls of the driver in a running program *)

\* A radio that did not change.
LEMMA ChangesNone ==
  ASSUME NEW q, NEW S
  PROVE  Changes(q, q, S)
  BY Zenon DEF Changes

\* Events are cleared.
LEMMA ClearIs ==
  ASSUME NEW q, HasFields(q), NEW E
  PROVE  LET p == ClearEvents(q, E)
         IN  Changes(q, p, {"ev"}) /\ p.ev = q.ev \ E
  BY FieldsThere, Zenon DEF ClearEvents, Changes

\* A frame is loaded.
LEMMA LoadIs ==
  ASSUME NEW q, HasFields(q), NEW f
  PROVE  LET p == LoadFrame(q, f)
         IN  Changes(q, p, {"txbuf", "err"}) /\ p.txbuf = f /\ p.err = FALSE
  BY FieldsThere, Zenon DEF LoadFrame, Changes

\* A delayed time is written.
LEMMA DelayIs ==
  ASSUME NEW q, HasFields(q), NEW d
  PROVE  LET p == dwt_setdelayedtrxtime(q, d)
         IN  Changes(q, p, {"dx"}) /\ p.dx = d
  BY FieldsThere, Zenon DEF dwt_setdelayedtrxtime, Changes

\* The mode of the STS is set.
LEMMA StsModeIs ==
  ASSUME NEW q, HasFields(q), NEW m
  PROVE  LET p == dwt_configurestsmode(q, m)
         IN  Changes(q, p, {"sts", "spc"}) /\ p.spc = m
  BY FieldsThere, Zenon DEF dwt_configurestsmode, Changes

\* The initial value of the STS is loaded.
LEMMA ReloadIs ==
  ASSUME NEW q, HasFields(q)
  PROVE  Changes(q, ReloadIV(q), {"iv", "ivreg"})
  BY FieldsThere, Zenon DEF ReloadIV, dwt_configurestsloadiv, dwt_configurestsiv, Changes

\* The receive timeout is set.
LEMMA TimeoutIs ==
  ASSUME NEW q, HasFields(q), NEW t
  PROVE  Changes(q, dwt_setrxtimeout(q, t), {"timeout"})
  BY FieldsThere, Zenon DEF dwt_setrxtimeout, Changes

\* The timeout for a response is set.
LEMMA RespTimeoutIs ==
  ASSUME NEW q, HasFields(q), NEW d, NEW c
  PROVE  Changes(q, set_resp_rx_timeout(q, d, c), {"timeout"})
  BY TimeoutIs DEF set_resp_rx_timeout

\* An error is noted, or not.
LEMMA ErrIs ==
  ASSUME NEW q, HasFields(q), NEW e
  PROVE  LET p == [q EXCEPT !.err = e]
         IN  Changes(q, p, {"err"}) /\ p.err = e
  BY FieldsThere, Zenon DEF Changes

\* A frame that is sent at once.
SendChanges == {"txbuf", "err", "power", "w4r", "late", "txerr", "delayed", "ev"}

SentAtOnce(q, f, w, p) ==
  /\ Changes(q, p, SendChanges)
  /\ p.power = "TX" /\ p.txbuf = f /\ p.ev = q.ev \ {"HPDWARN"} /\ p.w4r = w

\* dwt_starttx.
LEMMA StartIs ==
  ASSUME NEW q, HasFields(q), NEW f, NEW w
  PROVE  SentAtOnce(q, f, w, dwt_starttx(LoadFrame(q, f), w))
  <1> DEFINE a == LoadFrame(q, f)
             b == CMD_TX(a, FALSE, "none", w)
             p == [b EXCEPT !.err = FALSE]
  <1>1. Changes(q, a, {"txbuf", "err"}) /\ a.txbuf = f
    BY LoadIs
  <1>2. HasFields(a)
    BY <1>1, ChangesKeep
  <1> HIDE DEF a
  <1>3. /\ Changes(a, b, {"power", "w4r", "late", "txerr", "delayed", "ev"})
        /\ b.power = "TX" /\ b.delayed = FALSE /\ b.ev = a.ev \ {"HPDWARN"} /\ b.w4r = w
    BY <1>2, FieldsThere, Zenon DEF CMD_TX, Changes
  <1>4. HasFields(b)
    BY <1>2, <1>3, ChangesKeep
  <1> HIDE DEF b
  <1>5. Changes(b, p, {"err"})
    BY <1>4, ErrIs
  <1> HIDE DEF p
  <1>6. Changes(q, b, SendChanges)
    BY <1>1, <1>3, ChangesAdd DEF SendChanges
  <1>7. Changes(q, p, SendChanges)
    BY <1>5, <1>6, ChangesAdd DEF SendChanges
  <1>8. a.ev = q.ev
    BY <1>1, FieldsThere, Zenon DEF Changes
  <1>9. b.txbuf = f
    BY <1>1, <1>2, <1>3, FieldsThere, Zenon DEF Changes
  <1>10. p.power = b.power /\ p.txbuf = b.txbuf /\ p.ev = b.ev /\ p.delayed = b.delayed
         /\ p.w4r = b.w4r
    BY <1>4, <1>5, FieldsThere, Zenon DEF Changes
  <1>11. p = dwt_starttx(LoadFrame(q, f), w)
    BY DEF p, a, b, dwt_starttx
  <1> QED
    BY <1>3, <1>7, <1>8, <1>9, <1>10, <1>11, Zenon DEF SentAtOnce

\* CMD_TXRXOFF.
LEMMA OffIs ==
  ASSUME NEW q, HasFields(q)
  PROVE  LET p == CMD_TXRXOFF(q)
         IN  /\ Changes(q, p, {"power", "w4r", "late", "txerr", "delayed"})
             /\ p.power = IF q.power \in {"TX", "RX"} THEN "IDLE" ELSE q.power
             /\ p.delayed = FALSE
  BY FieldsThere, Zenon DEF CMD_TXRXOFF, Changes

\* It follows a delayed start that comes too late, and an error is noted.
LEMMA OffErrIs ==
  ASSUME NEW q, HasFields(q)
  PROVE  LET p == [CMD_TXRXOFF(q) EXCEPT !.err = TRUE]
         IN  /\ Changes(q, p, {"power", "w4r", "late", "txerr", "delayed", "err"})
             /\ p.power = IF q.power \in {"TX", "RX"} THEN "IDLE" ELSE q.power
             /\ p.err = TRUE
  <1> DEFINE a == CMD_TXRXOFF(q)
  <1>1. /\ Changes(q, a, {"power", "w4r", "late", "txerr", "delayed"})
        /\ a.power = IF q.power \in {"TX", "RX"} THEN "IDLE" ELSE q.power
    BY OffIs
  <1>2. HasFields(a)
    BY <1>1, ChangesKeep
  <1> HIDE DEF a
  <1> QED
    BY <1>1, <1>2, FieldsThere, Zenon DEF Changes, a

\* An answer that is sent at a time, or abandoned.
Started(q, f, d, late, p) ==
  /\ Changes(q, p, SendChanges \cup {"dx"})
  /\ p.dx = d /\ p.txbuf = f
  /\ \/ late # "none" /\ p.err = TRUE /\ p.power = "IDLE" /\ p.ev \subseteq q.ev \cup {"HPDWARN"}
     \/ late = "none" /\ p.err = FALSE /\ p.power = "TX" /\ p.delayed = TRUE /\ p.w4r = FALSE
        /\ p.ev = q.ev \ {"HPDWARN"}

\* dwt_starttx, delayed: the frame is to be sent, or it is too late.
LEMMA AnswerIs ==
  ASSUME NEW q, HasFields(q), NEW f, NEW d, NEW late \in Lateness
  PROVE  Started(q, f, d, late,
                 dwt_starttx_delayed(LoadFrame(dwt_setdelayedtrxtime(q, d), f), late))
  <1> DEFINE a == dwt_setdelayedtrxtime(q, d)
             b == LoadFrame(a, f)
             c == StartDelayed(b, late, FALSE)
             p == CheckDelayed(c)
  <1>0. p = dwt_starttx_delayed(LoadFrame(dwt_setdelayedtrxtime(q, d), f), late)
    BY DEF dwt_starttx_delayed
  <1>1. Changes(q, a, {"dx"}) /\ a.dx = d
    BY DelayIs
  <1>2. HasFields(a)
    BY <1>1, ChangesKeep
  <1> HIDE DEF a
  <1>3. Changes(a, b, {"txbuf", "err"}) /\ b.txbuf = f
    BY <1>2, LoadIs
  <1>4. HasFields(b)
    BY <1>2, <1>3, ChangesKeep
  <1> HIDE DEF b
  <1>5. /\ Changes(b, c, {"power", "w4r", "late", "txerr", "delayed", "ev"})
        /\ c.power = "TX" /\ c.delayed = TRUE /\ c.w4r = FALSE
        /\ c.ev = IF late = "HPDWARN" THEN b.ev \cup {"HPDWARN"} ELSE b.ev \ {"HPDWARN"}
        /\ c.txerr = (late = "TXERR")
    BY <1>4, FieldsThere, Zenon DEF StartDelayed, CMD_TX, Changes
  <1>6. HasFields(c)
    BY <1>4, <1>5, ChangesKeep
  <1> HIDE DEF c
  <1>7. a.ev = q.ev /\ b.ev = a.ev /\ c.dx = d /\ c.txbuf = f
    <2>1. a.ev = q.ev
      BY <1>1, FieldsThere, Zenon DEF Changes
    <2>2. b.ev = a.ev /\ b.dx = a.dx
      BY <1>2, <1>3, FieldsThere, Zenon DEF Changes
    <2>3. c.dx = b.dx /\ c.txbuf = b.txbuf
      BY <1>4, <1>5, FieldsThere, Zenon DEF Changes
    <2> QED
      BY <1>1, <1>3, <2>1, <2>2, <2>3, Zenon
  <1>8. Changes(q, c, SendChanges \cup {"dx"})
    <2>1. Changes(q, b, {"dx", "txbuf", "err"})
      BY <1>1, <1>3, ChangesAdd
    <2> QED
      BY <1>5, <2>1, ChangesAdd DEF SendChanges
  <1>9. /\ Changes(c, p, {"power", "w4r", "late", "txerr", "delayed", "err"})
        /\ "HPDWARN" \in c.ev \/ c.txerr => p.power = "IDLE" /\ p.err = TRUE
        /\ ~("HPDWARN" \in c.ev \/ c.txerr) => p.power = c.power /\ p.err = FALSE /\ p.delayed = c.delayed
                                     /\ p.w4r = c.w4r
    <2>1. CASE "HPDWARN" \in c.ev \/ c.txerr
      <3>1. p = [CMD_TXRXOFF(c) EXCEPT !.err = TRUE]
        BY <2>1 DEF CheckDelayed
      <3> HIDE DEF p
      <3> QED
        BY <1>5, <1>6, <2>1, <3>1, OffErrIs, Zenon
    <2>2. CASE ~("HPDWARN" \in c.ev \/ c.txerr)
      <3>1. p = [c EXCEPT !.err = FALSE]
        BY <2>2 DEF CheckDelayed
      <3> HIDE DEF p
      <3>2. Changes(c, p, {"err"}) /\ p.err = FALSE
        BY <1>6, <3>1, ErrIs, Zenon
      <3>3. p.power = c.power /\ p.delayed = c.delayed /\ p.w4r = c.w4r
        BY <1>6, <3>2, FieldsThere, Zenon DEF Changes
      <3>4. Changes(c, p, {"power", "w4r", "late", "txerr", "delayed", "err"})
        BY <3>2, Zenon DEF Changes
      <3> QED
        BY <2>2, <3>2, <3>3, <3>4, Zenon
    <2> QED
      BY <2>1, <2>2, Zenon
  <1> HIDE DEF p
  <1>10. p.ev = c.ev /\ p.dx = c.dx /\ p.txbuf = c.txbuf
    BY <1>6, <1>9, FieldsThere, Zenon DEF Changes
  <1>11. Changes(q, p, SendChanges \cup {"dx"})
    BY <1>8, <1>9, ChangesAdd DEF SendChanges
  <1>12. CASE late # "none"
    <2>1. "HPDWARN" \in c.ev \/ c.txerr
      BY <1>5, <1>12, Zenon DEF Lateness
    <2>2. c.ev \subseteq q.ev \cup {"HPDWARN"}
      BY <1>5, <1>7, Zenon
    <2> QED
      BY <1>0, <1>5, <1>7, <1>9, <1>10, <1>11, <1>12, <2>1, <2>2, Zenon DEF Started
  <1>13. CASE late = "none"
    <2>1. ~("HPDWARN" \in c.ev \/ c.txerr)
      BY <1>5, <1>13, Zenon
    <2>2. c.ev = q.ev \ {"HPDWARN"}
      BY <1>5, <1>7, <1>13, Zenon
    <2> QED
      BY <1>0, <1>5, <1>7, <1>9, <1>10, <1>11, <1>13, <2>1, <2>2, Zenon DEF Started
  <1> QED
    BY <1>12, <1>13

\* A receiver that is switched on.
LEMMA SwitchOnIs ==
  ASSUME NEW q, HasFields(q)
  PROVE  LET p == SwitchOn(q)
         IN  Changes(q, p, {"power", "ev"}) /\ p.power = "RX" /\ p.ev = q.ev \ RxEvents
  BY FieldsThere, Zenon DEF SwitchOn, Changes, RxEvents

\* dwt_rxenable, at once.
LEMMA ListeningIs ==
  ASSUME NEW q, HasFields(q), q.power = "IDLE"
  PROVE  LET p == Listening(q)
         IN  Changes(q, p, {"power", "ev", "err"}) /\ p.power = "RX" /\ p.ev = q.ev \ RxEvents
  <1> DEFINE a == SwitchOn(q)
             p == [a EXCEPT !.err = FALSE]
  <1>1. p = Listening(q)
    BY DEF Listening, dwt_rxenable, CMD_RX
  <1>2. Changes(q, a, {"power", "ev"}) /\ a.power = "RX" /\ a.ev = q.ev \ RxEvents
    BY SwitchOnIs
  <1>3. HasFields(a)
    BY <1>2, ChangesKeep
  <1> HIDE DEF a
  <1>4. Changes(a, p, {"err"})
    BY <1>3, ErrIs
  <1> HIDE DEF p
  <1>5. p.power = a.power /\ p.ev = a.ev
    BY <1>3, <1>4, FieldsThere, Zenon DEF Changes
  <1>6. Changes(q, p, {"power", "ev", "err"})
    BY <1>2, <1>4, ChangesAdd
  <1> QED
    BY <1>1, <1>2, <1>5, <1>6, Zenon

DelayedChanges == {"power", "ev", "err", "w4r", "late", "txerr", "delayed", "dx"}

\* dwt_rxenable, delayed: on its time, or at once.
LEMMA DelayedRxIs ==
  ASSUME NEW q, HasFields(q), q.power = "IDLE", NEW late \in BOOLEAN
  PROVE  LET p == dwt_rxenable(q, "DELAYED", late)
         IN  /\ Changes(q, p, {"power", "ev", "err", "w4r", "late", "txerr", "delayed"})
             /\ p.power = "RX"
             /\ \E E \in SUBSET {"HPDWARN"}, D \in SUBSET {"HPDWARN"} :
                  p.ev = ((q.ev \ D) \cup E) \ RxEvents
  <1> DEFINE p == dwt_rxenable(q, "DELAYED", late)
  <1>1. CASE ~late
    <2> DEFINE a == ClearEvents(q, {"HPDWARN"})
               b == SwitchOn(a)
    <2>1. Changes(q, a, {"ev"}) /\ a.ev = q.ev \ {"HPDWARN"}
      BY ClearIs
    <2>2. HasFields(a) /\ a.power = "IDLE"
      BY <2>1, ChangesKeep, FieldsThere, Zenon DEF Changes
    <2>3. p = [b EXCEPT !.err = FALSE]
      BY <1>1, <2>2 DEF dwt_rxenable, CMD_RX
    <2> HIDE DEF a, p
    <2>4. Changes(a, b, {"power", "ev"}) /\ b.power = "RX" /\ b.ev = a.ev \ RxEvents
      BY <2>2, SwitchOnIs, Zenon
    <2>5. HasFields(b)
      BY <2>2, <2>4, ChangesKeep
    <2> HIDE DEF b
    <2>6. Changes(b, p, {"err"})
      BY <2>3, <2>5, ErrIs, Zenon
    <2>7. p.power = b.power /\ p.ev = b.ev
      BY <2>5, <2>6, FieldsThere, Zenon DEF Changes
    <2>8. Changes(q, b, {"power", "ev"})
      BY <2>1, <2>4, ChangesAdd, Zenon
    <2>9. Changes(q, p, {"power", "ev", "err", "w4r", "late", "txerr", "delayed"})
      BY <2>6, <2>8, ChangesAdd
    <2>10. p.ev = ((q.ev \ {"HPDWARN"}) \cup {}) \ RxEvents
      BY <2>1, <2>4, <2>7, Zenon
    <2>11. {"HPDWARN"} \in SUBSET {"HPDWARN"} /\ {} \in SUBSET {"HPDWARN"}
      BY Zenon
    <2> QED
      BY <2>4, <2>7, <2>9, <2>10, <2>11, Zenon DEF p
  <1>2. CASE late
    <2> DEFINE a == CMD_TXRXOFF(q)
               off == [a EXCEPT !.err = TRUE, !.ev = @ \cup {"HPDWARN"}]
               b == SwitchOn(off)
    <2>1. /\ Changes(q, a, {"power", "w4r", "late", "txerr", "delayed"})
          /\ a.power = IF q.power \in {"TX", "RX"} THEN "IDLE" ELSE q.power
      BY OffIs
    <2>2. HasFields(a) /\ a.power = "IDLE" /\ a.ev = q.ev
      <3>1. HasFields(a)
        BY <2>1, ChangesKeep
      <3>2. a.power = "IDLE"
        BY <2>1
      <3>3. a.ev = q.ev
        BY <2>1, FieldsThere, Zenon DEF Changes
      <3> QED
        BY <3>1, <3>2, <3>3
    <2> HIDE DEF a
    <2>3. Changes(a, off, {"err", "ev"}) /\ off.ev = q.ev \cup {"HPDWARN"} /\ off.power = "IDLE"
      BY <2>2, FieldsThere, Zenon DEF Changes
    <2>4. HasFields(off)
      BY <2>2, <2>3, ChangesKeep
    <2>5. p = b
      <3>1. p = CMD_RX(off)
        BY <1>2 DEF dwt_rxenable, a
      <3> HIDE DEF p, off
      <3> QED
        BY <2>3, <3>1 DEF CMD_RX
    <2> HIDE DEF off, p
    <2>6. Changes(off, b, {"power", "ev"}) /\ b.power = "RX" /\ b.ev = off.ev \ RxEvents
      BY <2>4, SwitchOnIs, Zenon
    <2> HIDE DEF b
    <2>7. Changes(q, off, {"power", "ev", "err", "w4r", "late", "txerr", "delayed"})
      BY <2>1, <2>3, ChangesAdd
    <2>8. Changes(q, b, {"power", "ev", "err", "w4r", "late", "txerr", "delayed"})
      BY <2>6, <2>7, ChangesAdd
    <2>9. b.ev = ((q.ev \ {}) \cup {"HPDWARN"}) \ RxEvents
      BY <2>3, <2>6, Zenon
    <2>10. {"HPDWARN"} \in SUBSET {"HPDWARN"} /\ {} \in SUBSET {"HPDWARN"}
      BY Zenon
    <2> QED
      BY <2>5, <2>6, <2>8, <2>9, <2>10, Zenon DEF p
  <1> QED
    BY <1>1, <1>2

\* The initiators' delayed receiver.
LEMMA DelayedListeningIs ==
  ASSUME NEW q, HasFields(q), q.power = "IDLE", NEW late \in BOOLEAN, NEW d, NEW c
  PROVE  LET p == DelayedListening(q, d, c, late)
         IN  /\ Changes(q, p, DelayedChanges)
             /\ p.power = "RX" /\ p.ev \subseteq (q.ev \cup {"HPDWARN"}) \ RxEvents
             /\ "TXFRS" \notin p.ev
             /\ p.dx = Ticks(d - (IF c.plen = 4096 THEN 2048 ELSE c.plen) + StsTime(c)) \div DelayUnit
  <1> DEFINE a == ClearEvents(q, {"TXFRS"})
             b == set_delayed_rx_time(a, d, c)
             p == dwt_rxenable(b, "DELAYED", late)
  <1>1. Changes(q, a, {"ev"}) /\ a.ev = q.ev \ {"TXFRS"}
    BY ClearIs
  <1>2. HasFields(a) /\ a.power = "IDLE"
    BY <1>1, ChangesKeep, FieldsThere, Zenon DEF Changes
  <1> HIDE DEF a
  <1> DEFINE time == Ticks(d - (IF c.plen = 4096 THEN 2048 ELSE c.plen) + StsTime(c)) \div DelayUnit
  <1>3. Changes(a, b, {"dx"}) /\ b.dx = time
    <2>1. b = dwt_setdelayedtrxtime(a, time)
      BY DEF set_delayed_rx_time
    <2> HIDE DEF time, b
    <2> QED
      BY <1>2, <2>1, DelayIs
  <1> HIDE DEF time
  <1> HIDE DEF b
  <1>4. HasFields(b) /\ b.power = "IDLE" /\ b.ev = a.ev
    <2>1. HasFields(b)
      BY <1>2, <1>3, ChangesKeep
    <2>2. b.power = a.power /\ b.ev = a.ev
      BY <1>2, <1>3, FieldsThere, Zenon DEF Changes
    <2> QED
      BY <1>2, <2>1, <2>2
  <1>5. /\ Changes(b, p, {"power", "ev", "err", "w4r", "late", "txerr", "delayed"})
        /\ p.power = "RX"
        /\ \E E \in SUBSET {"HPDWARN"}, D \in SUBSET {"HPDWARN"} :
             p.ev = ((b.ev \ D) \cup E) \ RxEvents
    BY <1>4, DelayedRxIs, ZenonT(60)
  <1> HIDE DEF p
  <1>6. Changes(q, b, {"ev", "dx"})
    BY <1>1, <1>3, ChangesAdd, Zenon
  <1>7. Changes(q, p, DelayedChanges)
    BY <1>5, <1>6, ChangesAdd DEF DelayedChanges
  <1>8. p.ev \subseteq (q.ev \cup {"HPDWARN"}) \ RxEvents /\ "TXFRS" \notin p.ev
    <2>1. PICK E \in SUBSET {"HPDWARN"}, D \in SUBSET {"HPDWARN"} :
             p.ev = ((b.ev \ D) \cup E) \ RxEvents
      BY <1>5
    <2>2. p.ev = (((q.ev \ {"TXFRS"}) \ D) \cup E) \ RxEvents
      BY <1>1, <1>4, <2>1, Zenon
    <2> QED
      BY <2>2
  <1>10. p.dx = time
    BY <1>3, <1>4, <1>5, FieldsThere, Zenon DEF Changes
  <1>9. p = DelayedListening(q, d, c, late)
    BY DEF p, b, a, DelayedListening
  <1> QED
    <2>1. p.dx = Ticks(d - (IF c.plen = 4096 THEN 2048 ELSE c.plen) + StsTime(c)) \div DelayUnit
      BY <1>10 DEF time
    <2> QED
      <3>1. p.power = "RX"
        BY <1>5
      <3>2. /\ Changes(q, p, DelayedChanges) /\ p.power = "RX"
            /\ p.ev \subseteq (q.ev \cup {"HPDWARN"}) \ RxEvents /\ "TXFRS" \notin p.ev
            /\ p.dx = Ticks(d - (IF c.plen = 4096 THEN 2048 ELSE c.plen) + StsTime(c)) \div DelayUnit
        BY <1>7, <1>8, <2>1, <3>1
      <3> QED
        BY ONLY <1>9, <3>2, Zenon

-----------------------------------------------------------------------------
(* What the chip does *)

\* The stamps of a radio are numbers.
Timed(q) == q.txtime \in Int /\ q.dx \in Int /\ q.reg.time \in Int

\* The sequence of the STS goes on.
LEMMA UsedIs ==
  ASSUME NEW q, HasFields(q)
  PROVE  Changes(q, SequenceUsed(q), {"iv", "ivreg"})
  BY FieldsThere, Zenon DEF SequenceUsed, Changes

\* A reception fails.
LEMMA FailedIs ==
  ASSUME NEW q, HasFields(q), NEW e
  PROVE  LET p == Failed(q, e)
         IN  Changes(q, p, {"power", "ev"}) /\ p.power = "IDLE" /\ p.ev = q.ev \cup {e}
  BY FieldsThere, Zenon DEF Failed, Changes

\* A frame is received.
LEMMA ReceivedIs ==
  ASSUME NEW q, Single(q), NEW slot
  PROVE  LET p == Received(q, slot)
         IN  /\ Changes(q, p, {"power", "ev", "reg", "buf", "good", "held", "fill"})
             /\ p.power = "IDLE" /\ p.reg = slot /\ p.buf[0] = slot /\ DOMAIN p.buf = 0..1
             /\ p.ev = q.ev \cup (IF q.spc = "ND" THEN {"RXFR", "CIADONE"}
                                  ELSE {"RXFR", "RXFCG", "CIADONE"})
             /\ Single(p)
  <1> DEFINE p == [q EXCEPT !.power = "IDLE", !.reg = slot, !.buf[0] = slot,
                     !.ev = @ \cup IF q.spc = "ND" THEN {"RXFR", "CIADONE"}
                                   ELSE {"RXFR", "RXFCG", "CIADONE"},
                     !.good = @, !.held = @, !.fill = @]
  <1>1. p = Received(q, slot)
    BY Zenon DEF Received, Single
  <1>2. HasFields(q) /\ DOMAIN q.buf = 0..1 /\ 0 \in DOMAIN q.buf /\ q.dbl = "OFF" /\ q.double = FALSE
        /\ q.rearm = FALSE /\ q.fill = 0 /\ q.atx2slp = FALSE
    BY DEF Single
  <1>3. /\ Changes(q, p, {"power", "ev", "reg", "buf", "good", "held", "fill"})
        /\ p.power = "IDLE" /\ p.reg = slot /\ p.buf[0] = slot /\ DOMAIN p.buf = 0..1
        /\ p.ev = q.ev \cup (IF q.spc = "ND" THEN {"RXFR", "CIADONE"}
                             ELSE {"RXFR", "RXFCG", "CIADONE"})
        /\ p.fill = q.fill
    BY <1>2, FieldsThere, Zenon DEF Changes
  <1> HIDE DEF p
  <1>4. HasFields(p)
    BY <1>2, <1>3, ChangesKeep
  <1>5. p.dbl = q.dbl /\ p.double = q.double /\ p.rearm = q.rearm /\ p.atx2slp = q.atx2slp
    BY <1>2, <1>3, FieldsThere, Zenon DEF Changes
  <1>6. Single(p)
    BY <1>2, <1>3, <1>4, <1>5, Zenon DEF Single
  <1> QED
    BY <1>1, <1>3, <1>6, Zenon

\* A frame is sent.
LEMMA SentIs ==
  ASSUME NEW q, Single(q), NEW t
  PROVE  LET p == Sent(q, t)
         IN  /\ Changes(q, p, {"power", "ev", "late", "txerr", "w4r", "delayed", "txtime"})
             /\ p.txtime = t /\ p.delayed = FALSE /\ "TXFRS" \in p.ev
             /\ \/ p.power = "IDLE" /\ p.ev = q.ev \cup {"TXFRS"}
                \/ p.power = "RX" /\ p.ev = (q.ev \cup {"TXFRS"}) \ RxEvents
             /\ q.w4r = FALSE => p.power = "IDLE"
  <1> DEFINE done == [q EXCEPT !.ev = @ \cup {"TXFRS"}, !.late = FALSE, !.txerr = FALSE, !.w4r = FALSE,
                        !.delayed = FALSE, !.txtime = t, !.power = "IDLE"]
  <1>1. HasFields(q) /\ q.atx2slp = FALSE
    BY DEF Single
  <1>2. Sent(q, t) = IF q.w4r THEN SwitchOn(done) ELSE done
    BY <1>1 DEF Sent
  <1>3. /\ Changes(q, done, {"power", "ev", "late", "txerr", "w4r", "delayed", "txtime"})
        /\ done.txtime = t /\ done.delayed = FALSE /\ done.power = "IDLE"
        /\ done.ev = q.ev \cup {"TXFRS"}
    BY <1>1, FieldsThere, Zenon DEF Changes
  <1>4. HasFields(done)
    BY <1>1, <1>3, ChangesKeep
  <1> HIDE DEF done
  <1>5. CASE ~q.w4r
    BY <1>2, <1>3, <1>5, Zenon
  <1>6. CASE q.w4r
    <2> DEFINE p == SwitchOn(done)
    <2>1. Changes(done, p, {"power", "ev"}) /\ p.power = "RX" /\ p.ev = done.ev \ RxEvents
      BY <1>4, SwitchOnIs
    <2>2. p = Sent(q, t)
      BY <1>2, <1>6
    <2> HIDE DEF p
    <2>3. Changes(q, p, {"power", "ev", "late", "txerr", "w4r", "delayed", "txtime"})
      BY <1>3, <2>1, ChangesAdd
    <2>4. p.txtime = t /\ p.delayed = FALSE
      BY <1>3, <1>4, <2>1, FieldsThere, Zenon DEF Changes
    <2>5. "TXFRS" \in p.ev
      BY <1>3, <2>1 DEF RxEvents, ALL_RX_GOOD, ALL_RX_ERR, ALL_RX_TO
    <2>6. q.w4r # FALSE
      BY <1>6
    <2> QED
      BY <1>3, <2>1, <2>2, <2>3, <2>4, <2>5, <2>6, Zenon
  <1> QED
    BY <1>5, <1>6

\* What is left of a reception and of a transmission.
Rest(q, at) == IF q.power = "TX" THEN q ELSE Settled(q, at)

Resting == {"listen", "pause", "poll"}

Left == {"reg", "buf", "txbuf", "dx", "txtime"}

\* A radio forgets what it has received.
LEMMA EmptiedIs ==
  ASSUME NEW q, Single(q)
  PROVE  LET p == Emptied(q)
         IN  /\ Changes(q, p, {"reg", "buf", "txbuf", "dx"})
             /\ p.reg = NoSlot /\ p.dx = 0 /\ Single(p)
  <1> DEFINE p == Emptied(q)
  <1>1. HasFields(q) /\ q.dbl = "OFF" /\ q.double = FALSE
        /\ q.rearm = FALSE /\ q.fill = 0 /\ q.atx2slp = FALSE
    BY DEF Single
  <1>2. /\ Changes(q, p, {"reg", "buf", "txbuf", "dx"})
        /\ p.reg = NoSlot /\ p.dx = 0 /\ p.buf = [b \in 0..1 |-> NoSlot]
    BY <1>1, FieldsThere, Zenon DEF Changes, Emptied
  <1> HIDE DEF p
  <1>3. HasFields(p)
    BY <1>1, <1>2, ChangesKeep
  <1>4. p.dbl = q.dbl /\ p.double = q.double /\ p.rearm = q.rearm /\ p.fill = q.fill
        /\ p.atx2slp = q.atx2slp
    BY <1>1, <1>2, FieldsThere, Zenon DEF Changes
  <1>5. DOMAIN p.buf = 0..1 /\ p.buf[0] = p.reg
    BY <1>2
  <1>6. Single(p)
    BY <1>1, <1>3, <1>4, <1>5, Zenon DEF Single
  <1> QED
    BY <1>2, <1>6, Zenon DEF p

\* What a radio keeps when its program goes on.
LEMMA RestedIs ==
  ASSUME NEW q, Single(q), NEW at
  PROVE  LET p == Rest(q, at)
         IN  /\ Changes(q, p, Left) /\ Single(p)
             /\ q.power = "TX" => p = q
             /\ at \notin Resting /\ q.power # "RX" => p = q
             /\ at \notin Resting => p.txtime = q.txtime
             /\ p.txtime = q.txtime \/ p.txtime = 0
             /\ p.dx = q.dx \/ p.dx = 0
             /\ p.reg = q.reg \/ p.reg = NoSlot
  <1> DEFINE a == Emptied(q)
             b == [a EXCEPT !.txtime = 0]
  <1>1. HasFields(q)
    BY DEF Single
  <1>2. /\ Changes(q, a, {"reg", "buf", "txbuf", "dx"})
        /\ a.reg = NoSlot /\ a.dx = 0 /\ Single(a)
    BY EmptiedIs
  <1>3. Rest(q, at) = IF q.power = "TX" THEN q
                      ELSE IF at \in Resting THEN b
                      ELSE IF q.power = "RX" THEN a ELSE q
    BY DEF Rest, Settled, Resting
  <1>4. HasFields(a)
    BY <1>2 DEF Single
  <1> HIDE DEF a
  <1>5. Changes(a, b, {"txtime"}) /\ b.txtime = 0
    BY <1>4, FieldsThere, Zenon DEF Changes
  <1> HIDE DEF b
  <1>6. Single(b)
    BY <1>2, <1>5, SingleKept
  <1>7. b.reg = a.reg /\ b.dx = a.dx
    BY <1>4, <1>5, FieldsThere, Zenon DEF Changes
  <1>8. a.txtime = q.txtime
    BY <1>1, <1>2, FieldsThere, Zenon DEF Changes
  <1>9. Changes(q, b, Left)
    BY <1>2, <1>5, ChangesAdd DEF Left
  <1>10. Changes(q, a, Left)
    BY <1>2, Zenon DEF Changes, Left
  <1>11. Changes(q, q, Left)
    BY ChangesNone
  <1>12. CASE q.power = "TX"
    BY <1>3, <1>11, <1>12, Zenon
  <1>13. CASE q.power # "TX" /\ at \in Resting
    BY <1>2, <1>3, <1>5, <1>6, <1>7, <1>9, <1>13, Zenon
  <1>14. CASE q.power = "RX" /\ at \notin Resting
    <2>1. q.power # "TX"
      BY <1>14
    <2> QED
      BY <1>2, <1>3, <1>8, <1>10, <1>14, <2>1, Zenon
  <1>15. CASE q.power # "TX" /\ q.power # "RX" /\ at \notin Resting
    BY <1>3, <1>11, <1>15, Zenon
  <1> QED
    BY <1>12, <1>13, <1>14, <1>15, Zenon

\* Its stamps stay numbers.
LEMMA TimedAfter ==
  ASSUME NEW q, Single(q), Timed(q), NEW at
  PROVE  Timed(Rest(q, at))
  <1>1. NoSlot.time = 0
    BY DEF NoSlot
  <1> QED
    BY <1>1, RestedIs DEF Timed

-----------------------------------------------------------------------------
(* Setting up *)

StartEvents == {"SPIRDY", "RCINIT", "CPLOCK"}

\* A radio that is being set up, and how dwt_configure may leave it.
Starting(q) ==
  /\ Single(q) /\ Timed(q) /\ q.ev \subseteq StartEvents /\ q.power \in {"IDLE_RC", "IDLE"}

\* The fields a set-up changes of those that are not its own.
SetupChanges == {"gpio", "timeout", "sts", "spc", "mode", "ops", "chan", "code", "clocks",
                 "power", "ainit", "ev", "err", "gain"}

\* What a set-up leaves alone.
LEMMA StartingKept ==
  ASSUME NEW q, NEW p, NEW S, Starting(q), Changes(q, p, S),
         S \cap {"dbl", "double", "rearm", "fill", "atx2slp", "buf", "reg", "txtime", "dx"} = {},
         p.ev \subseteq StartEvents, p.power \in {"IDLE_RC", "IDLE"}
  PROVE  Starting(p)
  <1>1. Single(p)
    BY SingleKept DEF Starting
  <1>2. HasFields(q)
    BY DEF Starting, Single
  <1>3. p.txtime = q.txtime /\ p.dx = q.dx /\ p.reg = q.reg
    BY <1>2, FieldsThere, Zenon DEF Changes
  <1> QED
    BY <1>1, <1>3 DEF Starting, Timed

\* Reset and dwt_initialise.
LEMMA StartedUpIs ==
  ASSUME NEW q, HasFields(q), NEW leds
  PROVE  LET p == StartedUp(q, leds) IN Starting(p) /\ p.power = "IDLE_RC"
  <1> DEFINE up == Reset(q)
             done == dwt_initialise(up)
             p == dwt_setleds(done, leds)
  <1>1. /\ HasFields(up) /\ up.power = "IDLE_RC" /\ up.ev = {"SPIRDY", "RCINIT"}
        /\ up.double = FALSE /\ up.rearm = FALSE /\ up.fill = 0
        /\ up.buf = [b \in 0..1 |-> NoSlot] /\ up.reg = NoSlot
    BY ResetIs
  <1>2. up.atx2slp = FALSE /\ up.txtime = 0 /\ up.dx = 0
    BY FieldsThere, Zenon DEF Reset, ChipReset
  <1>3. p = StartedUp(q, leds)
    BY <1>1 DEF StartedUp, spiSelect, dwt_checkidlerc
  <1> HIDE DEF up
  <1>4. /\ Changes(up, done, {"dbl", "mode", "sts", "cb", "err", "tuned", "dgcOtp"})
        /\ done.dbl = "OFF"
    <2> DEFINE cleared == [up EXCEPT !.dbl = "OFF", !.mode = {"RUNSAR"}, !.sts = "OFF",
                           !.cb = FALSE]
    <2>1. dwt_check_dev_id(up)
      BY <1>1 DEF dwt_check_dev_id
    <2>2. done = [cleared EXCEPT !.tuned = "TRIM" \in up.otp,
                           !.dgcOtp = "DGC" \in up.otp, !.err = FALSE]
      BY <2>1 DEF dwt_initialise
    <2> HIDE DEF done
    <2>3. Changes(up, cleared, {"dbl", "mode", "sts", "cb"}) /\ cleared.dbl = "OFF"
      BY <1>1, FieldsThere, Zenon DEF Changes
    <2>4. HasFields(cleared)
      BY <1>1, <2>3, ChangesKeep
    <2> HIDE DEF cleared
    <2>5. Changes(cleared, done, {"err", "tuned", "dgcOtp"})
      BY <2>2, <2>4, FieldsThere, Zenon DEF Changes
    <2>6. done.dbl = cleared.dbl
      BY <2>4, <2>5, FieldsThere, Zenon DEF Changes
    <2> QED
      BY <2>3, <2>5, <2>6, ChangesAdd
  <1>5. HasFields(done)
    BY <1>1, <1>4, ChangesKeep
  <1> HIDE DEF done
  <1>6. Changes(done, p, {"gpio"})
    BY Zenon DEF dwt_setleds, Changes
  <1>7. HasFields(p)
    BY <1>5, <1>6, ChangesKeep
  <1> HIDE DEF p
  <1>8. /\ p.dbl = done.dbl /\ p.power = done.power /\ p.ev = done.ev /\ p.double = done.double
        /\ p.rearm = done.rearm /\ p.fill = done.fill /\ p.buf = done.buf /\ p.reg = done.reg
        /\ p.atx2slp = done.atx2slp /\ p.txtime = done.txtime /\ p.dx = done.dx
    BY <1>5, <1>6, FieldsThere, Zenon DEF Changes
  <1>9. /\ done.power = up.power /\ done.ev = up.ev /\ done.double = up.double
        /\ done.rearm = up.rearm /\ done.fill = up.fill /\ done.buf = up.buf /\ done.reg = up.reg
        /\ done.atx2slp = up.atx2slp /\ done.txtime = up.txtime /\ done.dx = up.dx
    BY <1>1, <1>4, FieldsThere, Zenon DEF Changes
  <1>10. p.buf = [b \in 0..1 |-> NoSlot] /\ p.reg = NoSlot
    BY <1>1, <1>8, <1>9
  <1>11. DOMAIN p.buf = 0..1 /\ p.buf[0] = p.reg
    BY <1>10
  <1>12. Single(p)
    BY <1>1, <1>2, <1>4, <1>7, <1>8, <1>9, <1>11, Zenon DEF Single
  <1>13. Timed(p)
    BY <1>2, <1>8, <1>9, <1>10 DEF Timed, NoSlot
  <1>14. p.ev = {"SPIRDY", "RCINIT"} /\ p.power = "IDLE_RC"
    BY <1>1, <1>8, <1>9
  <1> QED
    BY <1>3, <1>12, <1>13, <1>14 DEF Starting, StartEvents

\* dwt_configure, with a PG count of 0 in dwt_configuretxrf.
LEMMA ConfigureIs ==
  ASSUME NEW q, Starting(q), NEW config, config.rxCode \in 9..24
  PROVE  /\ \A c \in Configured(q, config) :
              /\ Starting(c) /\ Changes(q, c, SetupChanges) /\ (~c.err => c.power = "IDLE")
         /\ \E c \in Configured(q, config) : ~c.err
  <1> DEFINE ops == OpsOf(config)
             sts == dwt_configurestsmode(q, config.stsMode)
             tuned == [sts EXCEPT
                  !.mode = (@ \ {"ALT_OPS", "SEL_OPS1", "SEL_OPS2"}) \cup OpsFlags(ops),
                  !.ops = ops, !.chan = config.chan, !.code = config.txCode]
             state == dwt_setdwstate(tuned, "IDLE")
             idle == [state EXCEPT !.ev = @ \ {"CPLOCK"}]
             locked == [idle EXCEPT !.ev = @ \cup {"CPLOCK"}]
             loaded == LoadGain(locked, config.chan)
             unlocked == [idle EXCEPT !.err = TRUE, !.power = q.power]
  <1>1. HasFields(q)
    BY DEF Starting, Single
  <1>2. Changes(q, sts, {"sts", "spc"})
    BY <1>1, StsModeIs
  <1>3. dwt_configure(q, config) = {unlocked} \cup dwt_pgf_cal(loaded)
    BY DEF dwt_configure
  <1> HIDE DEF sts
  <1>4. Changes(sts, tuned, {"mode", "ops", "chan", "code"})
    BY Zenon DEF Changes
  <1>5. Changes(q, tuned, {"sts", "spc", "mode", "ops", "chan", "code"})
    BY <1>2, <1>4, ChangesAdd
  <1>6. HasFields(tuned)
    BY <1>1, <1>5, ChangesKeep
  <1> HIDE DEF tuned
  <1>7. Changes(tuned, state, {"clocks", "power", "ainit"}) /\ state.power = "IDLE"
    <2> DEFINE forced == dwt_force_clocks(tuned, "AUTO")
    <2>1. state = [forced EXCEPT !.power = "IDLE", !.ainit = TRUE]
      BY DEF dwt_setdwstate
    <2>2. Changes(tuned, forced, {"clocks"})
      BY Zenon DEF dwt_force_clocks, Changes
    <2>3. HasFields(forced)
      BY <1>6, <2>2, ChangesKeep
    <2> HIDE DEF forced, state
    <2>4. Changes(forced, state, {"power", "ainit"}) /\ state.power = "IDLE"
      BY <2>1, <2>3, FieldsThere, Zenon DEF Changes
    <2> QED
      BY <2>2, <2>4, ChangesAdd
  <1>8. HasFields(state)
    BY <1>6, <1>7, ChangesKeep
  <1> HIDE DEF state
  <1>9. Changes(state, idle, {"ev"}) /\ idle.ev = state.ev \ {"CPLOCK"} /\ idle.power = state.power
    BY <1>8, FieldsThere, Zenon DEF Changes
  <1>10. HasFields(idle)
    BY <1>8, <1>9, ChangesKeep
  <1> HIDE DEF idle
  <1>11. /\ Changes(idle, locked, {"ev"}) /\ locked.ev = idle.ev \cup {"CPLOCK"}
         /\ locked.power = idle.power
    BY <1>10, FieldsThere, Zenon DEF Changes
  <1>12. HasFields(locked)
    BY <1>10, <1>11, ChangesKeep
  <1>13. Changes(idle, unlocked, {"err", "power"}) /\ unlocked.err = TRUE /\ unlocked.power = q.power
    BY <1>10, FieldsThere, Zenon DEF Changes
  <1> HIDE DEF locked, unlocked
  <1>14. Changes(locked, loaded, {"gain"})
    <2>1. CASE locked.dgcOtp
      BY <2>1, Zenon DEF LoadGain, _dwt_kick_dgc_on_wakeup, Changes
    <2>2. CASE ~locked.dgcOtp
      BY <2>2, Zenon DEF LoadGain, dwt_configmrxlut, Changes
    <2> QED
      BY <2>1, <2>2
  <1>15. HasFields(loaded)
    BY <1>12, <1>14, ChangesKeep
  <1> HIDE DEF loaded
  <1> DEFINE cal(e) == [loaded EXCEPT !.err = e]
  <1>16. ASSUME NEW e \in BOOLEAN
         PROVE  Changes(loaded, cal(e), {"err"}) /\ cal(e).err = e
    BY <1>15, ErrIs
  <1>17. dwt_pgf_cal(loaded) = {cal(e) : e \in BOOLEAN}
    BY DEF dwt_pgf_cal
  <1> HIDE DEF cal
  <1>18. Changes(q, idle, {"sts", "spc", "mode", "ops", "chan", "code", "clocks", "power", "ainit", "ev"})
    <2>1. Changes(q, state, {"sts", "spc", "mode", "ops", "chan", "code", "clocks", "power", "ainit"})
      BY <1>5, <1>7, ChangesAdd
    <2> QED
      BY <1>9, <2>1, ChangesAdd
  <1>19. state.ev = q.ev
    <2>1. tuned.ev = q.ev
      BY <1>1, <1>5, FieldsThere, Zenon DEF Changes
    <2>2. state.ev = tuned.ev
      BY <1>6, <1>7, FieldsThere, Zenon DEF Changes
    <2> QED
      BY <2>1, <2>2
  <1>20. q.ev \subseteq StartEvents /\ q.power \in {"IDLE_RC", "IDLE"}
    BY DEF Starting
  <1>21. Starting(unlocked) /\ Changes(q, unlocked, SetupChanges) /\ unlocked.err
    <2>1. Changes(q, unlocked, SetupChanges)
      BY <1>13, <1>18, ChangesAdd DEF SetupChanges
    <2>2. unlocked.ev = idle.ev
      BY <1>10, <1>13, FieldsThere, Zenon DEF Changes
    <2>3. unlocked.ev \subseteq StartEvents /\ unlocked.power \in {"IDLE_RC", "IDLE"}
      BY <1>9, <1>13, <1>19, <1>20, <2>2
    <2>4. SetupChanges \cap {"dbl", "double", "rearm", "fill", "atx2slp", "buf", "reg", "txtime", "dx"} = {}
      BY DEF SetupChanges
    <2> QED
      BY <1>13, <2>1, <2>3, <2>4, StartingKept
  <1>22. ASSUME NEW e \in BOOLEAN
         PROVE  Starting(cal(e)) /\ Changes(q, cal(e), SetupChanges) /\ cal(e).power = "IDLE" /\ cal(e).err = e
    <2>1. Changes(q, locked, {"sts", "spc", "mode", "ops", "chan", "code", "clocks", "power", "ainit", "ev"})
      BY <1>11, <1>18, ChangesAdd
    <2>2. Changes(q, loaded, {"sts", "spc", "mode", "ops", "chan", "code", "clocks", "power", "ainit", "ev", "gain"})
      BY <1>14, <2>1, ChangesAdd
    <2>3. Changes(q, cal(e), SetupChanges)
      BY <1>16, <2>2, ChangesAdd DEF SetupChanges
    <2>4. loaded.ev = locked.ev /\ loaded.power = locked.power
      BY <1>12, <1>14, FieldsThere, Zenon DEF Changes
    <2>5. cal(e).ev = loaded.ev /\ cal(e).power = loaded.power
      BY <1>15, <1>16, FieldsThere, Zenon DEF Changes
    <2>6. cal(e).ev \subseteq StartEvents /\ cal(e).power = "IDLE"
      BY <1>7, <1>9, <1>11, <1>19, <1>20, <2>4, <2>5 DEF StartEvents
    <2>7. SetupChanges \cap {"dbl", "double", "rearm", "fill", "atx2slp", "buf", "reg", "txtime", "dx"} = {}
      BY DEF SetupChanges
    <2>8. Starting(cal(e))
      BY <2>3, <2>6, <2>7, StartingKept
    <2> QED
      BY <1>16, <2>3, <2>6, <2>8
  <1>23. Configured(q, config) = {unlocked} \cup {cal(e) : e \in BOOLEAN}
    <2>1. \A c : dwt_configuretxrf(c, TxConfig(config.chan)) = c
      BY Zenon DEF dwt_configuretxrf, TxConfig
    <2> QED
      BY <1>3, <1>17, <2>1, Zenon DEF Configured
  <1> QED
    BY <1>21, <1>22, <1>23, Zenon

-----------------------------------------------------------------------------
\* A radio that was set up.
Ready(p) == Starting(p) /\ (~p.err => p.power = "IDLE" /\ p.txant = AntDelay /\ p.rxant = AntDelay)

\* The antenna delays are set.
LEMMA AntennaIs ==
  ASSUME NEW q, HasFields(q)
  PROVE  LET p == AntennaDelays(q)
         IN  Changes(q, p, {"txant", "rxant"}) /\ p.txant = AntDelay /\ p.rxant = AntDelay
  BY FieldsThere, Zenon DEF AntennaDelays, dwt_settxantennadelay, dwt_setrxantennadelay, Changes

\* The amplifiers are set.
LEMMA AmplifiedIs ==
  ASSUME NEW q
  PROVE  Changes(q, Amplified(q), {"gpio"})
  BY Zenon DEF Amplified, dwt_setlnapamode, Changes

\* The delays, and what follows them.
LEMMA TrimmedIs ==
  ASSUME NEW c, Starting(c), NEW p, Changes(AntennaDelays(c), p, {"gpio", "timeout"})
  PROVE  /\ Starting(p) /\ p.err = c.err /\ p.power = c.power
         /\ p.txant = AntDelay /\ p.rxant = AntDelay
  <1> DEFINE a == AntennaDelays(c)
  <1>1. HasFields(c)
    BY DEF Starting, Single
  <1>2. Changes(c, a, {"txant", "rxant"}) /\ a.txant = AntDelay /\ a.rxant = AntDelay
    BY <1>1, AntennaIs
  <1>3. HasFields(a)
    BY <1>1, <1>2, ChangesKeep
  <1>4. Changes(a, p, {"gpio", "timeout"})
    OBVIOUS
  <1> HIDE DEF a
  <1>5. Changes(c, p, {"txant", "rxant", "gpio", "timeout"})
    BY <1>2, <1>4, ChangesAdd
  <1>6. p.err = c.err /\ p.power = c.power /\ p.ev = c.ev
    BY <1>1, <1>5, FieldsThere, Zenon DEF Changes
  <1>7. p.txant = a.txant /\ p.rxant = a.rxant
    BY <1>3, <1>4, FieldsThere, Zenon DEF Changes
  <1>8. Starting(p)
    BY <1>5, <1>6, StartingKept DEF Starting
  <1> QED
    BY <1>2, <1>6, <1>7, <1>8

\* The last calls of a set-up: the amplifiers,
LEMMA AmplifiedTrimmed ==
  ASSUME NEW c, HasFields(c), NEW b, Changes(AntennaDelays(c), b, {"timeout"})
  PROVE  Changes(AntennaDelays(c), Amplified(b), {"gpio", "timeout"})
  BY AmplifiedIs, ChangesAdd

\* The two ways to trim a radio that was configured.
LEMMA TimeoutTrimmed ==
  ASSUME NEW c, Starting(c), NEW t
  PROVE  Changes(AntennaDelays(c), Amplified(dwt_setrxtimeout(AntennaDelays(c), t)), {"gpio", "timeout"})
  <1>1. HasFields(c)
    BY DEF Starting, Single
  <1>2. HasFields(AntennaDelays(c))
    BY <1>1, AntennaIs, ChangesKeep
  <1>3. Changes(AntennaDelays(c), dwt_setrxtimeout(AntennaDelays(c), t), {"timeout"})
    BY <1>2, TimeoutIs
  <1> QED
    BY <1>1, <1>3, AmplifiedTrimmed

\* the timeout for a response and the amplifiers,
LEMMA RespTimeoutTrimmed ==
  ASSUME NEW c, Starting(c), NEW d, NEW f
  PROVE  Changes(AntennaDelays(c), Amplified(set_resp_rx_timeout(AntennaDelays(c), d, f)),
                 {"gpio", "timeout"})
  BY TimeoutTrimmed DEF set_resp_rx_timeout

\* the antenna delays and the amplifiers.
LEMMA PlainTrimmed ==
  ASSUME NEW c, Starting(c)
  PROVE  Changes(AntennaDelays(c), Amplified(AntennaDelays(c)), {"gpio", "timeout"})
  BY AmplifiedIs, Zenon DEF Changes

\* Setting up: configured, then trimmed.
LEMMA ConfiguredTrimmed ==
  ASSUME NEW q, HasFields(q), NEW leds, NEW config, config.rxCode \in 9..24, NEW ready,
         \A p \in ready : \E c \in Configured(StartedUp(q, leds), config) :
            Changes(AntennaDelays(c), p, {"gpio", "timeout"}),
         \A c \in Configured(StartedUp(q, leds), config) : Starting(c) =>
            \E p \in ready : Changes(AntennaDelays(c), p, {"gpio", "timeout"})
  PROVE  (\A p \in ready : Ready(p)) /\ (\E p \in ready : ~p.err)
  <1> DEFINE up == StartedUp(q, leds)
  <1>1. Starting(up)
    BY StartedUpIs
  <1> HIDE DEF up
  <1>2. /\ \A c \in Configured(up, config) : Starting(c) /\ (~c.err => c.power = "IDLE")
        /\ \E c \in Configured(up, config) : ~c.err
    BY <1>1, ConfigureIs, Zenon
  <1>3. \A p \in ready : \E c \in Configured(up, config) :
            Changes(AntennaDelays(c), p, {"gpio", "timeout"})
    BY DEF up
  <1>4. \A c \in Configured(up, config) : Starting(c) =>
            \E p \in ready : Changes(AntennaDelays(c), p, {"gpio", "timeout"})
    BY DEF up
  <1>5. ASSUME NEW p \in ready
        PROVE  Ready(p)
    <2>1. PICK c \in Configured(up, config) : Changes(AntennaDelays(c), p, {"gpio", "timeout"})
      BY <1>3
    <2> QED
      BY <1>2, <2>1, TrimmedIs, Zenon DEF Ready
  <1>6. \E p \in ready : ~p.err
    <2>1. PICK c \in Configured(up, config) : ~c.err
      BY <1>2
    <2>2. PICK p \in ready : Changes(AntennaDelays(c), p, {"gpio", "timeout"})
      BY <1>2, <1>4
    <2> QED
      BY <1>2, <2>1, <2>2, TrimmedIs, Zenon
  <1> QED
    BY <1>5, <1>6

\* Every set-up leaves a radio that is ready or has failed, and may succeed.
LEMMA SetUp ==
  ASSUME NEW n \in Nodes, NEW q, HasFields(q)
  PROVE  (\A p \in SetupOf(n, q) : Ready(p)) /\ (\E p \in SetupOf(n, q) : ~p.err)
  <1> DEFINE Fine(S) == (\A p \in S : Ready(p)) /\ (\E p \in S : ~p.err)
  <1>0. /\ PlainConfig.rxCode \in 9..24 /\ config_options.rxCode \in 9..24
        /\ config_option_sp3.rxCode \in 9..24
    BY DEF PlainConfig, config_options, Option33, config_option_sp3, Config
  <1>1. ASSUME NEW t
        PROVE  Fine({ Amplified(dwt_setrxtimeout(AntennaDelays(c), t)) :
                        c \in Configured(StartedUp(q, Blink), PlainConfig) })
    <2> DEFINE S == { Amplified(dwt_setrxtimeout(AntennaDelays(c), t)) :
                        c \in Configured(StartedUp(q, Blink), PlainConfig) }
    <2>0. ASSUME NEW c, Starting(c) PROVE
             Changes(AntennaDelays(c), Amplified(dwt_setrxtimeout(AntennaDelays(c), t)), {"gpio", "timeout"})
      BY <2>0, TimeoutTrimmed
    <2>s. \A c \in Configured(StartedUp(q, Blink), PlainConfig) : Starting(c)
      BY <1>0, StartedUpIs, ConfigureIs, Zenon
    <2>1. \A p \in S : \E c \in Configured(StartedUp(q, Blink), PlainConfig) :
            Changes(AntennaDelays(c), p, {"gpio", "timeout"})
      BY <2>0, <2>s, Zenon
    <2>2. \A c \in Configured(StartedUp(q, Blink), PlainConfig) : Starting(c) =>
            \E p \in S : Changes(AntennaDelays(c), p, {"gpio", "timeout"})
      BY <2>0, Zenon
    <2> HIDE DEF S
    <2>3. Fine(S)
      BY <1>0, <2>1, <2>2, ConfiguredTrimmed
    <2> QED
      BY <2>3, Zenon DEF S
  <1>2. ASSUME NEW leds, NEW config, config.rxCode \in 9..24
        PROVE  Fine({ Amplified(AntennaDelays(c)) : c \in Configured(StartedUp(q, leds), config) })
    <2> DEFINE S == { Amplified(AntennaDelays(c)) : c \in Configured(StartedUp(q, leds), config) }
    <2>s. \A c \in Configured(StartedUp(q, leds), config) : Starting(c)
      BY <1>2, StartedUpIs, ConfigureIs, Zenon
    <2>1. \A p \in S : \E c \in Configured(StartedUp(q, leds), config) :
            Changes(AntennaDelays(c), p, {"gpio", "timeout"})
      BY <2>s, PlainTrimmed, Zenon
    <2>2. \A c \in Configured(StartedUp(q, leds), config) : Starting(c) =>
            \E p \in S : Changes(AntennaDelays(c), p, {"gpio", "timeout"})
      BY PlainTrimmed, Zenon
    <2> HIDE DEF S
    <2>3. Fine(S)
      BY <1>2, <2>1, <2>2, ConfiguredTrimmed
    <2> QED
      BY <2>3, Zenon DEF S
  <1>3. Fine(ex_06a_sts_setup(q))
    <2> DEFINE S == ex_06a_sts_setup(q)
    <2>s. \A c \in Configured(StartedUp(q, Blink), config_options) : Starting(c)
      BY <1>0, StartedUpIs, ConfigureIs, Zenon
    <2>1. \A p \in S : \E c \in Configured(StartedUp(q, Blink), config_options) :
            Changes(AntennaDelays(c), p, {"gpio", "timeout"})
      BY <2>s, RespTimeoutTrimmed, ZenonT(60) DEF ex_06a_sts_setup
    <2>2. \A c \in Configured(StartedUp(q, Blink), config_options) : Starting(c) =>
            \E p \in S : Changes(AntennaDelays(c), p, {"gpio", "timeout"})
      BY RespTimeoutTrimmed, ZenonT(60) DEF ex_06a_sts_setup
    <2> HIDE DEF S
    <2>3. Fine(S)
      BY <1>0, <2>1, <2>2, ConfiguredTrimmed
    <2> QED
      BY <2>3, Zenon DEF S
  <1>4. Fine(Configured(Amplified(AntennaDelays(StartedUp(q, Blink))), config_option_sp3))
    <2> DEFINE up == StartedUp(q, Blink)
               a == Amplified(AntennaDelays(up))
               S == Configured(a, config_option_sp3)
    <2>1. Starting(up) /\ up.power = "IDLE_RC"
      BY StartedUpIs
    <2> HIDE DEF up
    <2>2. Starting(a) /\ a.txant = AntDelay /\ a.rxant = AntDelay
      BY <2>1, PlainTrimmed, TrimmedIs, Zenon
    <2>3. HasFields(a)
      BY <2>2 DEF Starting, Single
    <2> HIDE DEF a
    <2>4. /\ \A c \in S : Starting(c) /\ Changes(a, c, SetupChanges) /\ (~c.err => c.power = "IDLE")
          /\ \E c \in S : ~c.err
      BY <1>0, <2>2, ConfigureIs, Zenon
    <2> HIDE DEF S
    <2>5. ASSUME NEW c \in S
          PROVE  Ready(c)
      <3>1. Changes(a, c, SetupChanges)
        BY <2>4
      <3>2. c.txant = a.txant /\ c.rxant = a.rxant
        <4>1. "txant" \notin SetupChanges /\ "rxant" \notin SetupChanges
          BY DEF SetupChanges
        <4> QED
          BY <2>3, <3>1, <4>1, FieldsThere, Zenon DEF Changes
      <3> QED
        BY <2>2, <2>4, <3>2 DEF Ready
    <2> QED
      BY <2>4, <2>5, Zenon DEF S, a, up
  <1>5. /\ Fine(ex_06a_setup(q)) /\ Fine(ex_06e_setup(q)) /\ Fine(UWB_setup(q))
    BY <1>1, Zenon DEF ex_06a_setup, ex_06e_setup, UWB_setup
  <1>6. /\ Fine(ex_06b_setup(q)) /\ Fine(ex_06b_sts_setup(q)) /\ Fine(ex_06f_setup(q))
        /\ Fine(Beacon_setup(q))
    BY <1>0, <1>2, Zenon DEF ex_06b_setup, ex_06b_sts_setup, ex_06f_setup, Beacon_setup
  <1>7. Fine(ex_06a_no_data_setup(q)) /\ Fine(ex_06b_no_data_setup(q))
    BY <1>4, Zenon DEF ex_06a_no_data_setup, ex_06b_no_data_setup
  <1> HIDE DEF Fine
  <1>8. Fine(SetupOf(n, q))
    BY <1>3, <1>5, <1>6, <1>7, Zenon DEF SetupOf
  <1> QED
    BY <1>8, Zenon DEF Fine

-----------------------------------------------------------------------------
(* The inductive invariant *)

IsInitiator(g) == g \in {"init", "init_sts", "init_nd", "init_aes", "tag"}
IsResponder(g) == g \in {"resp", "resp_sts", "resp_nd", "resp_aes", "beacon"}

\* What holds of the radio of a program g that waits at a place: it sends and
\* listens only where it has been told to.
RadioOK(g, q, at) ==
  /\ Single(q) /\ Eventful(q) /\ Timed(q)
  /\ q.power = "TX" =>
       \/ IsInitiator(g) /\ at = IF g \in {"init_sts", "init_nd"} THEN "polled" ELSE "await"
       \/ IsResponder(g) /\ at \in {"sending", "reporting"} /\ q.delayed = TRUE
  /\ q.power = "RX" => at \in {"await", "awaitReport"}
  /\ at \notin {"setup", "halted"} =>
       q.power # "IDLE_RC" /\ q.txant = AntDelay /\ q.rxant = AntDelay

\* Where a program can be.
PlaceOK(g, at) ==
  /\ IsInitiator(g) =>
       at \in {"setup", "halted", "stuck", "broken", "poll", "polled", "await", "awaitReport", "pause", "report"}
  /\ IsResponder(g) =>
       at \in {"setup", "halted", "stuck", "broken", "listen", "await", "sending", "reporting"}
  /\ ~IsInitiator(g) /\ ~IsResponder(g) => at \in {"setup", "halted", "listen"}
  /\ at = "polled" => g \in {"init_sts", "init_nd"}
  /\ at = "awaitReport" => g = "init_nd"
  /\ at = "reporting" => g = "resp_nd"
  /\ at = "report" => g = "tag"

PendingOf(q, at) == at = "await" /\ q.ev \cap {"RXFCG", "RXFR"} # {}

\* Which events may be up, and the mode of the programs without data.
EventOK(g, q, at) ==
  /\ q.power = "TX" /\ at \in {"polled", "sending", "reporting"} =>
       "TXFRS" \notin q.ev /\ q.w4r = FALSE
  /\ IsResponder(g) /\ at \notin {"sending", "reporting"} => "TXFRS" \notin q.ev
  /\ IsInitiator(g) /\ (at \in {"setup", "poll", "pause", "report"} \/ q.power = "TX") =>
       q.ev \cap RxEnded = {}
  /\ g = "init_nd" /\ at \in {"polled", "await"} => q.spc = "ND"
  /\ g = "init_nd" /\ at = "awaitReport" => q.spc = "OFF"
  /\ g = "resp_nd" /\ at \in {"await", "sending"} => q.spc = "ND"
  /\ g = "resp_nd" /\ at = "reporting" => q.spc = "OFF"
  /\ g = "resp_nd" /\ PendingOf(q, at) => q.reg.frame # Foreign

Macs == [secure : {TRUE}, dst : Nat, src : Nat, level : {7}, cnt : 0..CntMod - 1, key : Nat]

\* What is being sent.
SentOK(k, g, q, at, d) ==
  q.power = "TX" =>
    /\ g = "init_nd" => q.txbuf = NoFrame
    /\ IsInitiator(g) /\ g # "init_nd" => q.txbuf.kind = "poll"
    /\ g = "init_aes" => q.txbuf.mac \in Macs /\ q.txbuf.mac.cnt = d.cnt
    /\ at = "sending" /\ g # "resp_nd" => q.txbuf.kind = "resp" /\ q.txbuf.from = k
    /\ at = "sending" /\ g = "resp_nd" => q.txbuf = NoFrame
    /\ at = "reporting" => q.txbuf.from = k /\ q.txbuf.stamps = d.saved

DataOK(d) ==
  /\ "saved" \in DOMAIN d /\ "mac" \in DOMAIN d /\ "cnt" \in DOMAIN d /\ "last" \in DOMAIN d
  /\ d.cnt \in 0..CntMod - 1

NodeOK(k, g, q, at, d) ==
  RadioOK(g, q, at) /\ PlaceOK(g, at) /\ EventOK(g, q, at) /\ SentOK(k, g, q, at, d) /\ DataOK(d)

NodeInv ==
  /\ cast \in Casts /\ DOMAIN r = Nodes /\ DOMAIN pc = Nodes /\ DOMAIN h = Nodes
  /\ \A k \in Nodes : NodeOK(k, Prog(k), r[k], pc[k], h[k])

\* While an initiator is between two exchanges, or sends, no responder is in one.
QuietInv == \A n \in Initiators :
  pc[n] \in {"setup", "poll", "report"} \/ r[n].power = "TX" => \A m \in Responders : ~Busy(m)

Pending(m) == PendingOf(r[m], pc[m])

\* Its poll is out.
Live(n) == pc[n] \in {"polled", "await", "awaitReport"} /\ r[n].power # "TX"

\* When the poll of n arrives at m.
PollStamp(n, m, a) == Clock(r[n].txtime - cast.clock[n] + cast.clock[m] + Distance(m, n) + a)

\* The four stamps are those of one exchange.
Paired(n, m, own, told) ==
  \E a \in cast.noise[m], b \in cast.noise[n] :
    TwiceFlight(own[1], own[2], told[1], told[2]) = 2 * Distance(n, m) + a + b

Opens(f) == rx_aes_802_15_4(f, RX_BUF_LEN, Address.responder, Address.initiator, "OK") = "OK"

\* A poll that waits for a responder is the one of this exchange.
PollOK(n, m) ==
  LET frame == r[m].reg.frame
  IN  frame # Foreign =>
        \/ Prog(m) # "resp_nd" /\ frame.kind # "poll"
        \/ /\ \E a \in cast.noise[m] : r[m].reg.time = PollStamp(n, m, a)
           /\ Prog(n) = "init_aes" => frame.mac \in Macs /\ frame.mac.cnt = h[n].cnt

PollInv == \A n \in Initiators, m \in Responders : Live(n) /\ Pending(m) => PollOK(n, m)

\* The stamps of an answer: in the frame, or in the report to come.
Told(m) == IF Prog(m) = "resp_nd" THEN h[m].saved ELSE r[m].txbuf.stamps

\* An answer that is about to be sent is the one to the poll of this exchange.
AnswerOK(n, m) ==
  /\ \E a \in cast.noise[m] :
       LET t == PollStamp(n, m, a)
       IN  /\ r[m].dx = RespTxTime(t, ReplyDelay(Prog(m)))
           /\ Told(m) = resp_msg_set_ts(t, RespTxStamp(r[m].dx))
  /\ Prog(n) = "init_aes" => /\ r[m].txbuf.mac \in Macs /\ Opens(r[m].txbuf)
                             /\ r[m].txbuf.mac.cnt = (h[n].cnt + 1) % CntMod

AnswerInv == \A n \in Initiators, m \in Responders :
  Live(n) /\ r[m].power = "TX" /\ pc[m] = "sending" => AnswerOK(n, m)

\* What an initiator has heard.
HeardOK(n) ==
  LET frame == r[n].reg.frame
  IN  \/ frame = Foreign /\ cast.foreign
      \/ /\ frame.kind = "resp" /\ frame.from \in Responders
         /\ Paired(n, frame.from, Stamps(r[n]), frame.stamps)
         /\ Prog(n) = "init_aes" => /\ frame.mac \in Macs /\ Opens(frame)
                                    /\ frame.mac.cnt = (h[n].cnt + 1) % CntMod

HeardInv == \A n \in Initiators :
  /\ Prog(n) # "init_nd" /\ pc[n] = "await" /\ "RXFCG" \in r[n].ev => HeardOK(n)
  /\ Prog(n) = "init_nd" /\ pc[n] = "await" /\ "RXFR" \in r[n].ev =>
       \E m \in Responders : ~Pending(m) /\ Paired(n, m, Stamps(r[n]), h[m].saved)
  /\ pc[n] = "awaitReport" =>
       \E m \in Responders :
         /\ ~Pending(m) /\ Paired(n, m, h[n].saved, h[m].saved)
         /\ "RXFCG" \in r[n].ev =>
              \/ r[n].reg.frame = Foreign
              \/ r[n].reg.frame.from = m /\ r[n].reg.frame.stamps = h[m].saved

LastOK(n, last) ==
  last # NoReading =>
    /\ last.from \in Responders
    /\ \E a \in cast.noise[n], b \in cast.noise[last.from] :
         last.twice = 2 * Distance(n, last.from) + a + b

LastInv == \A n \in Initiators :
  /\ LastOK(n, h[n].last)
  /\ Prog(n) = "init_aes" => h[n].mac \in Macs /\ h[n].mac.cnt = h[n].cnt
  /\ pc[n] = "stuck" => r[n].reg.frame = Foreign

IInv == NodeInv /\ QuietInv /\ PollInv /\ AnswerInv /\ HeardInv /\ LastInv
-----------------------------------------------------------------------------
(* The radio and the place of a program after a step *)

\* A program's step that starts from a radio that is set up.
LEMMA RadioKept ==
  ASSUME NEW g, NEW q, NEW b, NEW p, NEW at, NEW S, RadioOK(g, q, b), b \notin {"setup", "halted"},
         Changes(q, p, S),
         S \cap {"dbl", "double", "rearm", "fill", "atx2slp", "buf", "reg", "txtime", "txant", "rxant"} = {},
         p.dx \in Int, Eventful(p), p.power # "IDLE_RC",
         p.power = "RX" => at \in {"await", "awaitReport"},
         p.power = "TX" =>
           \/ IsInitiator(g) /\ at = IF g \in {"init_sts", "init_nd"} THEN "polled" ELSE "await"
           \/ IsResponder(g) /\ at \in {"sending", "reporting"} /\ p.delayed = TRUE
  PROVE  RadioOK(g, p, at)
  <1>1. Single(p)
    BY SingleKept DEF RadioOK
  <1>2. HasFields(q)
    BY DEF RadioOK, Single
  <1>3. p.txtime = q.txtime /\ p.reg = q.reg /\ p.txant = q.txant /\ p.rxant = q.rxant
    <2>1. "txtime" \notin S /\ "reg" \notin S /\ "txant" \notin S /\ "rxant" \notin S
      OBVIOUS
    <2> QED
      BY <1>2, <2>1, FieldsThere, Zenon DEF Changes
  <1>4. Timed(p)
    BY <1>3 DEF Timed, RadioOK
  <1>5. p.txant = AntDelay /\ p.rxant = AntDelay
    BY <1>3 DEF RadioOK
  <1> QED
    BY <1>1, <1>4, <1>5 DEF RadioOK

\* What a radio loses when a program goes on does not matter.
LEMMA RestNode ==
  ASSUME NEW k, NEW g, NEW q, NEW at, NEW d, NodeOK(k, g, q, at, d)
  PROVE  LET p == Rest(q, at)
         IN  /\ NodeOK(k, g, p, at, d)
             /\ p.power = q.power /\ p.ev = q.ev /\ p.spc = q.spc
             /\ p.iv = q.iv /\ p.txtime \in {q.txtime, 0}
             /\ q.power = "TX" => p = q
             /\ at \notin Resting => p.txtime = q.txtime
             /\ at \notin Resting /\ q.power # "RX" => p = q
  <1> DEFINE p == Rest(q, at)
  <1>1. Single(q) /\ HasFields(q) /\ Timed(q)
    BY DEF NodeOK, RadioOK, Single
  <1>2. /\ Changes(q, p, Left) /\ Single(p)
        /\ q.power = "TX" => p = q
        /\ at \notin Resting /\ q.power # "RX" => p = q
        /\ at \notin Resting => p.txtime = q.txtime
        /\ p.txtime = q.txtime \/ p.txtime = 0
        /\ p.reg = q.reg \/ p.reg = NoSlot
    BY <1>1, RestedIs
  <1>3. Timed(p)
    BY <1>1, TimedAfter
  <1> HIDE DEF p
  <1>4. /\ p.power = q.power /\ p.ev = q.ev /\ p.spc = q.spc /\ p.iv = q.iv
        /\ p.txant = q.txant /\ p.rxant = q.rxant /\ p.delayed = q.delayed /\ p.w4r = q.w4r
    BY <1>1, <1>2, FieldsThere, Zenon DEF Changes, Left
  <1>5. RadioOK(g, p, at)
    BY <1>2, <1>3, <1>4 DEF NodeOK, RadioOK, Eventful
  <1>6. EventOK(g, p, at)
    <2>1. PendingOf(p, at) = PendingOf(q, at)
      BY <1>4 DEF PendingOf
    <2>2. q.reg.frame # Foreign => p.reg.frame # Foreign
      <3>1. NoSlot.frame # Foreign
        BY CastAssumption DEF CastAssumption, NoSlot
      <3> QED
        BY <1>2, <3>1
    <2> QED
      BY <1>4, <2>1, <2>2 DEF NodeOK, EventOK
  <1>7. SentOK(k, g, p, at, d)
    BY <1>2, <1>4 DEF NodeOK, SentOK
  <1> QED
    BY <1>2, <1>4, <1>5, <1>6, <1>7 DEF NodeOK, p

\* One node's step: its radio, its place and its data are these.
Step(n, p, at, d) ==
  /\ cast' = cast /\ DOMAIN r' = Nodes /\ DOMAIN pc' = Nodes /\ DOMAIN h' = Nodes
  /\ r'[n] = p /\ pc'[n] = at /\ h'[n] = d
  /\ pc' = pc \/ pc' = [pc EXCEPT ![n] = at]
  /\ \A k \in Nodes : k # n => r'[k] = r[k] /\ pc'[k] = pc[k] /\ h'[k] = h[k]

\* One node's step from what an action says.
LEMMA StepIs ==
  ASSUME NodeInv, NEW n \in Nodes, NEW p, NEW at, NEW d, r' = [r EXCEPT ![n] = p],
         pc' = [pc EXCEPT ![n] = at], cast' = cast,
         (h' = h /\ d = h[n]) \/ h' = [h EXCEPT ![n] = d]
  PROVE  Step(n, p, at, d)
  <1>1. DOMAIN r = Nodes /\ DOMAIN pc = Nodes /\ DOMAIN h = Nodes
    BY DEF NodeInv
  <1>2. DOMAIN h' = Nodes /\ h'[n] = d /\ \A k \in Nodes : k # n => h'[k] = h[k]
    BY <1>1, Zenon
  <1> QED
    BY <1>1, <1>2, Zenon DEF Step

\* Goto is a step of its node.
LEMMA GotoStep ==
  ASSUME NodeInv, NEW n \in Nodes, NEW q, NEW at, NEW d, Goto(n, q, at),
         (h' = h /\ d = h[n]) \/ h' = [h EXCEPT ![n] = d]
  PROVE  Step(n, Rest(q, at), at, d)
  BY StepIs, Zenon DEF Goto, Rest, Elsewhere

\* A step of a node that is as it should be keeps all nodes so.
LEMMA NodeSteps ==
  ASSUME NodeInv, NEW n \in Nodes, NEW p, NEW at, NEW d, Step(n, p, at, d),
         NodeOK(n, Prog(n), p, at, d)
  PROVE  NodeInv'
  <1>1. cast \in Casts
    BY DEF NodeInv
  <1>2. cast' \in Casts /\ DOMAIN r' = Nodes /\ DOMAIN pc' = Nodes /\ DOMAIN h' = Nodes
    BY <1>1 DEF Step
  <1>3. ASSUME NEW k \in Nodes
        PROVE  NodeOK(k, Prog(k), r[k], pc[k], h[k])'
    <2>1. Prog(k)' = Prog(k)
      BY DEF Step, Prog
    <2>2. CASE k = n
      <3>1. r'[k] = p /\ pc'[k] = at /\ h'[k] = d
        BY <2>2, Zenon DEF Step
      <3> QED
        BY <2>1, <2>2, <3>1
    <2>3. CASE k # n
      <3>1. r'[k] = r[k] /\ pc'[k] = pc[k] /\ h'[k] = h[k]
        BY <2>3, Zenon DEF Step
      <3>2. NodeOK(k, Prog(k), r[k], pc[k], h[k])
        BY DEF NodeInv
      <3> QED
        BY <2>1, <3>1, <3>2
    <2> QED
      BY <2>2, <2>3
  <1> QED
    BY <1>2, <1>3 DEF NodeInv

-----------------------------------------------------------------------------
(* The kinds of a program's step, as they change a radio *)

\* A radio is idle when a program goes on.
LEMMA IdleAt ==
  ASSUME NEW k, NEW g, NEW q, NEW at, NEW d, NodeOK(k, g, q, at, d),
         \/ IsResponder(g) /\ at = "await" /\ q.ev \cap RxEvents # {}
         \/ IsResponder(g) /\ at = "listen"
         \/ IsResponder(g) /\ at \in {"sending", "reporting"} /\ "TXFRS" \in q.ev
         \/ IsInitiator(g) /\ at \in {"poll", "pause", "report"}
         \/ IsInitiator(g) /\ at = "polled" /\ "TXFRS" \in q.ev
         \/ IsInitiator(g) /\ at = "await" /\ q.ev \cap RxEnded # {}
         \/ g = "init_nd" /\ at \in {"await", "awaitReport"} /\ q.ev \cap RxEvents # {}
  PROVE  q.power = "IDLE"
  <1>1. q.power \in {"IDLE_RC", "IDLE", "TX", "RX"} /\ q.power # "IDLE_RC"
    BY DEF NodeOK, RadioOK, Eventful, IsInitiator, IsResponder
  <1>2. RxEnded \subseteq RxEvents
    BY DEF RxEnded, RxEvents, ALL_RX_GOOD, ALL_RX_ERR, ALL_RX_TO
  <1>3. ~(IsInitiator(g) /\ IsResponder(g))
    BY DEF IsInitiator, IsResponder
  <1>4. q.power # "RX"
    BY <1>2 DEF NodeOK, RadioOK, Eventful
  <1>5. q.power # "TX"
    BY <1>3 DEF NodeOK, RadioOK, EventOK, IsInitiator
  <1> QED
    BY <1>1, <1>4, <1>5

StepChanges == SendChanges \cup {"dx", "iv", "ivreg", "sts", "spc", "timeout"}

\* The events of one kind of end.
LEMMA EventsLeft ==
  ASSUME NEW q, Eventful(q), NEW p, p.ev \subseteq q.ev \cup {"HPDWARN"}, p.power = "IDLE"
  PROVE  Eventful(p)
  BY DEF Eventful, Events, ALL_RX_GOOD, ALL_RX_ERR, ALL_RX_TO

\* A step after which the radio is idle.
LEMMA IdleStep ==
  ASSUME NEW k, NEW g, NEW q, NEW b, NEW d, NodeOK(k, g, q, b, d), b \notin {"setup", "halted"},
         NEW p, NEW at, NEW d2, Changes(q, p, StepChanges), p.power = "IDLE", p.dx \in Int,
         p.ev \subseteq q.ev \cup {"HPDWARN"}, at \in {"listen", "pause", "poll", "report", "stuck", "broken"},
         PlaceOK(g, at), IsResponder(g) => "TXFRS" \notin p.ev,
         IsInitiator(g) /\ at # "stuck" => p.ev \cap RxEnded = {}, DataOK(d2)
  PROVE  LET w == Rest(p, at) IN NodeOK(k, g, w, at, d2) /\ w.power = "IDLE"
  <1>1. Eventful(p)
    BY EventsLeft DEF NodeOK, RadioOK
  <1>2. RadioOK(g, p, at)
    <2>1. StepChanges \cap {"dbl", "double", "rearm", "fill", "atx2slp", "buf", "reg", "txtime",
                            "txant", "rxant"} = {}
      BY DEF StepChanges, SendChanges
    <2>2. RadioOK(g, q, b)
      BY DEF NodeOK
    <2> QED
      BY <1>1, <2>1, <2>2, RadioKept
  <1>3. EventOK(g, p, at)
    BY DEF EventOK, PendingOf, IsInitiator, IsResponder
  <1>4. SentOK(k, g, p, at, d2)
    BY DEF SentOK
  <1>5. NodeOK(k, g, p, at, d2)
    BY <1>2, <1>3, <1>4 DEF NodeOK
  <1> QED
    BY <1>5, RestNode

\* A step that switches the receiver on.
LEMMA ListenStep ==
  ASSUME NEW k, NEW g, NEW q, NEW b, NEW d, NodeOK(k, g, q, b, d), b \notin {"setup", "halted"},
         NEW p, NEW at, NEW d2, Changes(q, p, StepChanges), p.power = "RX", p.dx \in Int,
         p.ev \subseteq (q.ev \cup {"HPDWARN"}) \ RxEvents, at \in {"await", "awaitReport"},
         PlaceOK(g, at), IsResponder(g) => "TXFRS" \notin p.ev,
         g \in {"init_nd", "resp_nd"} => p.spc = IF at = "await" THEN "ND" ELSE "OFF", DataOK(d2)
  PROVE  LET w == Rest(p, at)
         IN  /\ NodeOK(k, g, w, at, d2) /\ w.power = "RX" /\ w.ev \cap RxEvents = {}
             /\ w.txtime = q.txtime
  <1>1. Eventful(p)
    <2>1. Eventful(q)
      BY DEF NodeOK, RadioOK
    <2> QED
      BY <2>1 DEF Eventful, Events, RxEvents
  <1>2. RadioOK(g, p, at)
    <2>1. StepChanges \cap {"dbl", "double", "rearm", "fill", "atx2slp", "buf", "reg", "txtime",
                            "txant", "rxant"} = {}
      BY DEF StepChanges, SendChanges
    <2>2. RadioOK(g, q, b)
      BY DEF NodeOK
    <2> QED
      BY <1>1, <2>1, <2>2, RadioKept
  <1>3. ~PendingOf(p, at)
    BY DEF PendingOf, RxEvents, ALL_RX_GOOD
  <1>4. EventOK(g, p, at)
    BY <1>3 DEF EventOK, IsInitiator, IsResponder
  <1>5. SentOK(k, g, p, at, d2)
    BY DEF SentOK
  <1>6. NodeOK(k, g, p, at, d2)
    BY <1>2, <1>4, <1>5 DEF NodeOK
  <1>7. p.txtime = q.txtime
    <2>1. HasFields(q) /\ "txtime" \notin StepChanges
      BY DEF NodeOK, RadioOK, Single, StepChanges, SendChanges
    <2> QED
      BY <2>1, FieldsThere, Zenon DEF Changes
  <1>8. at \notin Resting
    BY DEF Resting
  <1>9. p.ev \cap RxEvents = {}
    OBVIOUS
  <1> QED
    BY <1>6, <1>7, <1>8, <1>9, RestNode

\* A step that sends.
LEMMA SendStep ==
  ASSUME NEW k, NEW g, NEW q, NEW b, NEW d, NodeOK(k, g, q, b, d), b \notin {"setup", "halted"},
         NEW p, NEW at, NEW d2, Changes(q, p, StepChanges), p.power = "TX", p.dx \in Int,
         p.ev \subseteq q.ev, q.ev \cap RxEvents = {} \/ IsResponder(g) \/ q.ev \cap RxEnded = {},
         \/ IsInitiator(g) /\ at = (IF g \in {"init_sts", "init_nd"} THEN "polled" ELSE "await")
         \/ IsResponder(g) /\ at \in {"sending", "reporting"} /\ p.delayed = TRUE,
         PlaceOK(g, at), at # "await" => "TXFRS" \notin p.ev /\ p.w4r = FALSE,
         g = "init_nd" => p.spc = "ND",
         g = "resp_nd" => p.spc = IF at = "sending" THEN "ND" ELSE "OFF",
         SentOK(k, g, p, at, d2), DataOK(d2)
  PROVE  Rest(p, at) = p /\ NodeOK(k, g, p, at, d2)
  <1>0. RxEnded \subseteq RxEvents
    BY DEF RxEnded, RxEvents, ALL_RX_GOOD, ALL_RX_ERR, ALL_RX_TO
  <1>1. Eventful(p)
    <2>1. Eventful(q)
      BY DEF NodeOK, RadioOK
    <2> QED
      BY <2>1 DEF Eventful, Events
  <1>2. RadioOK(g, p, at)
    <2>1. StepChanges \cap {"dbl", "double", "rearm", "fill", "atx2slp", "buf", "reg", "txtime",
                            "txant", "rxant"} = {}
      BY DEF StepChanges, SendChanges
    <2>2. RadioOK(g, q, b)
      BY DEF NodeOK
    <2> QED
      BY <1>1, <2>1, <2>2, RadioKept
  <1>3. EventOK(g, p, at)
    BY <1>0 DEF EventOK, PendingOf, IsInitiator, IsResponder
  <1> QED
    BY <1>2, <1>3 DEF NodeOK, Rest

-----------------------------------------------------------------------------
(* What a program reads *)

\* What a program reads is the last reception.
LEMMA ReadsIs ==
  ASSUME NEW q, Single(q)
  PROVE  dwt_readrxdata(q) = q.reg.frame /\ get_rx_timestamp_u64(q) = q.reg.time
  BY DEF Single, dwt_readrxdata, CurrentBuffer, get_rx_timestamp_u64, dwt_readrxtimestamp, RxSlot

\* Initiators and responders by their programs.
LEMMA RolesAre ==
  ASSUME NEW n \in Nodes
  PROVE  /\ n \in Initiators <=> IsInitiator(Prog(n))
         /\ n \in Responders <=> IsResponder(Prog(n))
  BY DEF Initiators, Responders, IsInitiator, IsResponder

\* What NodeInv says of a node.
LEMMA NodeIs ==
  ASSUME NodeInv, NEW n \in Nodes
  PROVE  /\ NodeOK(n, Prog(n), r[n], pc[n], h[n])
         /\ Single(r[n]) /\ HasFields(r[n]) /\ Timed(r[n]) /\ Eventful(r[n]) /\ DataOK(h[n])
  BY DEF NodeInv, NodeOK, RadioOK, Single

\* A field that is not among those that change.
LEMMA FieldsLeft ==
  ASSUME NEW q, HasFields(q), NEW p, NEW S, Changes(q, p, S), NEW f \in Fields, f \notin S
  PROVE  p[f] = q[f]
  BY DEF HasFields, Changes

-----------------------------------------------------------------------------
(* The responders' steps *)

\* A responder is not in an exchange, or no longer.
Retires(n) ==
  n \in Responders /\ \E p, at, d :
    /\ Step(n, p, at, d) /\ NodeOK(n, Prog(n), p, at, d)
    /\ p.power # "TX" /\ at \in {"listen", "await", "stuck", "broken", "halted"} /\ ~PendingOf(p, at)
    /\ d = h[n] \/ Pending(n)

\* A responder answers.
Answers(n) ==
  n \in Responders /\ \E p, d :
    /\ Step(n, p, "sending", d) /\ NodeOK(n, Prog(n), p, "sending", d) /\ p.power = "TX"
    /\ Pending(n) /\ r[n].reg.frame # Foreign
    /\ Prog(n) # "resp_nd" => d = h[n] /\ r[n].reg.frame.kind = "poll"
    /\ p.dx = RespTxTime(r[n].reg.time, ReplyDelay(Prog(n)))
    /\ (IF Prog(n) = "resp_nd" THEN d.saved ELSE p.txbuf.stamps)
         = resp_msg_set_ts(r[n].reg.time, RespTxStamp(p.dx))
    /\ Prog(n) = "resp_aes" /\ r[n].reg.frame.mac \in Macs =>
         /\ p.txbuf.mac \in Macs /\ Opens(p.txbuf)
         /\ p.txbuf.mac.cnt = (r[n].reg.frame.mac.cnt + 1) % CntMod

\* A report follows an answer.
Reports(n) ==
  n \in Responders /\ \E p :
    /\ Step(n, p, "reporting", h[n]) /\ NodeOK(n, Prog(n), p, "reporting", h[n])
    /\ p.power = "TX" /\ pc[n] = "sending"

\* A responder waits for the next poll, or stops, with its radio idle.
LEMMA RetiresIdle ==
  ASSUME NodeInv, NEW n \in Nodes, IsResponder(Prog(n)), pc[n] \notin {"setup", "halted"},
         NEW p, Changes(r[n], p, StepChanges), p.power = "IDLE", p.dx \in Int,
         p.ev \subseteq r[n].ev \cup {"HPDWARN"}, "TXFRS" \notin p.ev,
         NEW at \in {"listen", "stuck", "broken"}, NEW d, DataOK(d), Goto(n, p, at),
         (h' = h /\ d = h[n]) \/ (h' = [h EXCEPT ![n] = d] /\ Pending(n))
  PROVE  Retires(n)
  <1> DEFINE w == Rest(p, at)
  <1>1. Step(n, w, at, d)
    BY GotoStep
  <1>2. PlaceOK(Prog(n), at)
    BY DEF PlaceOK, IsInitiator, IsResponder
  <1>3. ~IsInitiator(Prog(n))
    BY DEF IsInitiator, IsResponder
  <1>4. NodeOK(n, Prog(n), w, at, d) /\ w.power = "IDLE"
    BY <1>2, <1>3, NodeIs, IdleStep
  <1>5. ~PendingOf(w, at)
    BY DEF PendingOf
  <1> HIDE DEF w
  <1>6. w.power # "TX"
    BY <1>4
  <1>90. n \in Responders
    BY RolesAre
  <1> QED
    BY <1>90, <1>1, <1>4, <1>5, <1>6, Zenon DEF Retires

\* A responder clears events and waits for the next poll, or stops.
LEMMA RetiresCleared ==
  ASSUME NodeInv, NEW n \in Nodes, IsResponder(Prog(n)), pc[n] \notin {"setup", "halted"},
         r[n].power = "IDLE", NEW E,
         "TXFRS" \notin r[n].ev \/ "TXFRS" \in E,
         NEW at \in {"listen", "stuck", "broken"}, Goto(n, ClearEvents(r[n], E), at), h' = h
  PROVE  Retires(n)
  <1> DEFINE p == ClearEvents(r[n], E)
  <1>1. HasFields(r[n]) /\ Timed(r[n]) /\ DataOK(h[n])
    BY NodeIs
  <1>2. Changes(r[n], p, {"ev"}) /\ p.ev = r[n].ev \ E
    BY <1>1, ClearIs
  <1>3. Goto(n, p, at)
    OBVIOUS
  <1> HIDE DEF p
  <1>4. p.power = r[n].power /\ p.dx = r[n].dx
    BY <1>1, <1>2, FieldsThere, Zenon DEF Changes
  <1>5. Changes(r[n], p, StepChanges)
    BY <1>2, Zenon DEF Changes, StepChanges, SendChanges
  <1>6. p.dx \in Int
    BY <1>1, <1>4 DEF Timed
  <1> QED
    BY <1>1, <1>2, <1>3, <1>4, <1>5, <1>6, RetiresIdle

\* A responder listens.
LEMMA RetiresListening ==
  ASSUME NodeInv, NEW n \in Nodes, IsResponder(Prog(n)), pc[n] = "listen",
         NEW q, Changes(r[n], q, {"iv", "ivreg", "sts", "spc"}),
         Prog(n) = "resp_nd" => q.spc = "ND",
         Goto(n, Listening(q), "await"), h' = h
  PROVE  Retires(n)
  <1> DEFINE p == Listening(q)
             w == Rest(p, "await")
  <1>1. HasFields(r[n]) /\ Timed(r[n]) /\ DataOK(h[n]) /\ NodeOK(n, Prog(n), r[n], pc[n], h[n])
    BY NodeIs
  <1>2. HasFields(q)
    BY <1>1, ChangesKeep
  <1>3. q.power = r[n].power /\ q.dx = r[n].dx /\ q.ev = r[n].ev
    BY <1>1, FieldsThere, Zenon DEF Changes
  <1>4. r[n].power = "IDLE"
    BY <1>1, IdleAt
  <1>5. Changes(q, p, {"power", "ev", "err"}) /\ p.power = "RX" /\ p.ev = q.ev \ RxEvents
    BY <1>2, <1>3, <1>4, ListeningIs
  <1>6. Step(n, w, "await", h[n])
    BY GotoStep
  <1> HIDE DEF p
  <1>7. p.dx = q.dx /\ p.spc = q.spc
    BY <1>2, <1>5, FieldsThere, Zenon DEF Changes
  <1>8. Changes(r[n], p, StepChanges)
    BY <1>5, ChangesAdd DEF StepChanges, SendChanges
  <1>9. "TXFRS" \notin p.ev
    BY <1>1, <1>3, <1>5 DEF NodeOK, EventOK
  <1>10. PlaceOK(Prog(n), "await")
    BY DEF PlaceOK, IsInitiator, IsResponder
  <1>11. Prog(n) \in {"init_nd", "resp_nd"} => p.spc = IF "await" = "await" THEN "ND" ELSE "OFF"
    BY <1>7 DEF IsResponder
  <1>12. p.dx \in Int
    BY <1>1, <1>3, <1>7 DEF Timed
  <1>13. p.ev \subseteq (r[n].ev \cup {"HPDWARN"}) \ RxEvents
    BY <1>3, <1>5
  <1>14. NodeOK(n, Prog(n), w, "await", h[n]) /\ w.power = "RX" /\ w.ev \cap RxEvents = {}
    <2>1. pc[n] \notin {"setup", "halted"} /\ "await" \in {"await", "awaitReport"}
      OBVIOUS
    <2>2. p.power = "RX"
      BY <1>5
    <2> QED
      BY ONLY <1>1, <1>8, <1>9, <1>10, <1>11, <1>12, <1>13, <2>1, <2>2, ListenStep
  <1> HIDE DEF w
  <1>15. ~PendingOf(w, "await") /\ w.power # "TX"
    BY <1>14 DEF PendingOf, RxEvents, ALL_RX_GOOD
  <1>90. n \in Responders
    BY RolesAre
  <1> QED
    BY <1>90, <1>6, <1>14, <1>15, Zenon DEF Retires

\* ex_06b_listen, ex_06f_listen, Beacon_listen.
LEMMA PlainListens ==
  ASSUME NodeInv, NEW n \in Nodes, ex_06b_listen(n) \/ ex_06f_listen(n) \/ Beacon_listen(n)
  PROVE  Retires(n)
  <1>1. Prog(n) \in {"resp", "resp_aes", "beacon"} /\ pc[n] = "listen"
        /\ Goto(n, Listening(r[n]), "await") /\ h' = h
    BY DEF ex_06b_listen, ex_06f_listen, Beacon_listen, At
  <1>2. IsResponder(Prog(n)) /\ Prog(n) # "resp_nd"
    BY <1>1 DEF IsResponder
  <1> QED
    BY <1>1, <1>2, ChangesNone, RetiresListening

\* ex_06b_sts_listen.
LEMMA StsListens ==
  ASSUME NodeInv, NEW n \in Nodes, ex_06b_sts_listen(n)
  PROVE  Retires(n)
  <1>1. Prog(n) = "resp_sts" /\ pc[n] = "listen"
        /\ Goto(n, Listening(ReloadIV(r[n])), "await") /\ h' = h
    BY DEF ex_06b_sts_listen, At
  <1>2. IsResponder(Prog(n)) /\ Prog(n) # "resp_nd"
    BY <1>1 DEF IsResponder
  <1>3. Changes(r[n], ReloadIV(r[n]), {"iv", "ivreg"})
    BY NodeIs, ReloadIs
  <1>4. Changes(r[n], ReloadIV(r[n]), {"iv", "ivreg", "sts", "spc"})
    BY <1>3, Zenon DEF Changes
  <1> QED
    BY <1>1, <1>2, <1>4, RetiresListening

\* ex_06b_no_data_listen.
LEMMA NoDataListens ==
  ASSUME NodeInv, NEW n \in Nodes, ex_06b_no_data_listen(n)
  PROVE  Retires(n)
  <1> DEFINE a == dwt_configurestsmode(r[n], "ND")
             q == ReloadIV(a)
  <1>1. Prog(n) = "resp_nd" /\ pc[n] = "listen" /\ Goto(n, Listening(q), "await") /\ h' = h
    BY DEF ex_06b_no_data_listen, At
  <1>2. IsResponder(Prog(n))
    BY <1>1 DEF IsResponder
  <1>3. HasFields(r[n])
    BY NodeIs
  <1>4. Changes(r[n], a, {"sts", "spc"}) /\ a.spc = "ND"
    BY <1>3, StsModeIs
  <1>5. HasFields(a)
    BY <1>3, <1>4, ChangesKeep
  <1> HIDE DEF a
  <1>6. Changes(a, q, {"iv", "ivreg"})
    BY <1>5, ReloadIs
  <1> HIDE DEF q
  <1>7. Changes(r[n], q, {"iv", "ivreg", "sts", "spc"})
    BY <1>4, <1>6, ChangesAdd
  <1>8. q.spc = a.spc
    BY <1>5, <1>6, FieldsThere, Zenon DEF Changes
  <1> QED
    BY <1>1, <1>2, <1>4, <1>7, <1>8, RetiresListening

-----------------------------------------------------------------------------
(* The responders' answers *)

\* A delayed time is a number of units.
LEMMA DelaysAre ==
  /\ \A g : ReplyDelay(g) \in Nat /\ 2 * ReplyDelay(g) \in Nat
  /\ Uus \in Nat \ {0} /\ DelayUnit \in Nat \ {0} /\ AntDelay \in Nat
  /\ ClockSize \in Nat \ {0} /\ ClockSize \div DelayUnit \in Nat \ {0}
  <1>1. /\ Uus \in Nat \ {0} /\ DelayUnit \in Nat \ {0} /\ AntDelay \in Nat
        /\ ClockSize \in Nat \ {0}
    BY RangingAssumption DEF RangingAssumption, ClockSize, StampSize
  <1>2. ASSUME NEW g
        PROVE  ReplyDelay(g) \in Nat /\ 2 * ReplyDelay(g) \in Nat
    <2>1. SlowDelay(config_options) \in Nat /\ SlowDelay(config_option_sp3) \in Nat
      BY DEF SlowDelay, config_options, config_option_sp3, Option33, Config, StsTime,
             get_rx_delay_time_data_rate, get_rx_delay_time_txpreamble
    <2> QED
      BY <2>1 DEF ReplyDelay
  <1>3. ClockSize % DelayUnit = 0
    BY CastAssumption DEF CastAssumption
  <1>4. ClockSize \div DelayUnit \in Nat \ {0}
    <2> DEFINE K == ClockSize \div DelayUnit
    <2>1. K \in Int /\ ClockSize = (K * DelayUnit) + (ClockSize % DelayUnit)
      BY <1>1
    <2> HIDE DEF K
    <2>2. ClockSize = K * DelayUnit
      BY <1>1, <1>3, <2>1
    <2>3. K > 0
      <3>1. CASE K <= 0
        <4>1. K * DelayUnit <= 0
          BY <1>1, <2>1, <3>1
        <4> QED
          BY <1>1, <2>2, <4>1
      <3> QED
        BY <2>1, <3>1
    <2> QED
      BY <2>1, <2>3 DEF K
  <1> QED
    BY <1>1, <1>2, <1>4

\* A delayed time is a number.
LEMMA RespTxTimeIs ==
  ASSUME NEW t \in Int, NEW delay \in Nat
  PROVE  RespTxTime(t, delay) \in Nat
  <1> DEFINE K == ClockSize \div DelayUnit
             y == (t + Ticks(delay)) \div DelayUnit
  <1>1. K \in Nat \ {0} /\ Uus \in Nat \ {0} /\ DelayUnit \in Nat \ {0}
    BY DelaysAre
  <1>2. Ticks(delay) \in Int
    BY <1>1 DEF Ticks
  <1>3. y \in Int
    BY <1>1, <1>2
  <1>4. RespTxTime(t, delay) = y % K
    BY DEF RespTxTime
  <1> HIDE DEF K, y
  <1> QED
    BY <1>1, <1>3, <1>4, DivMod

\* An answer is started, or abandoned.
LEMMA AnswerStarts ==
  ASSUME NodeInv, NEW n \in Nodes, IsResponder(Prog(n)), pc[n] \in {"await", "sending"},
         r[n].power = "IDLE",
         NEW q, Changes(r[n], q, {"ev", "sts", "spc"}), q.ev \subseteq r[n].ev, "TXFRS" \notin q.ev,
         NEW frame, NEW dx \in Int, NEW late \in Lateness, NEW at \in {"sending", "reporting"},
         NEW p, p = dwt_starttx_delayed(LoadFrame(dwt_setdelayedtrxtime(q, dx), frame), late),
         Goto(n, p, IF p.err THEN "listen" ELSE at), NEW d, DataOK(d),
         (h' = h /\ d = h[n]) \/ (h' = [h EXCEPT ![n] = d] /\ Pending(n)),
         Prog(n) = "resp_nd" => q.spc = IF at = "sending" THEN "ND" ELSE "OFF",
         at = "reporting" => Prog(n) = "resp_nd",
         at = "sending" /\ Prog(n) # "resp_nd" => frame.kind = "resp" /\ frame.from = n,
         at = "sending" /\ Prog(n) = "resp_nd" => frame = NoFrame,
         at = "reporting" => frame.from = n /\ frame.stamps = d.saved
  PROVE  \/ Retires(n)
         \/ /\ Step(n, p, at, d) /\ NodeOK(n, Prog(n), p, at, d) /\ p.power = "TX"
            /\ p.dx = dx /\ p.txbuf = frame
  <1>1. HasFields(r[n]) /\ NodeOK(n, Prog(n), r[n], pc[n], h[n])
    BY NodeIs
  <1>2. HasFields(q)
    BY <1>1, ChangesKeep
  <1>3. /\ Changes(q, p, SendChanges \cup {"dx"})
        /\ p.dx = dx /\ p.txbuf = frame
        /\ \/ late # "none" /\ p.err = TRUE /\ p.power = "IDLE" /\ p.ev \subseteq q.ev \cup {"HPDWARN"}
           \/ late = "none" /\ p.err = FALSE /\ p.power = "TX" /\ p.delayed = TRUE /\ p.w4r = FALSE
              /\ p.ev = q.ev \ {"HPDWARN"}
    <2>1. Started(q, frame, dx, late, p)
      BY <1>2, AnswerIs
    <2> QED
      BY <2>1 DEF Started
  <1>4. Changes(r[n], p, StepChanges)
    BY <1>3, ChangesAdd DEF StepChanges, SendChanges
  <1>5. CASE p.err = TRUE /\ p.power = "IDLE" /\ p.ev \subseteq q.ev \cup {"HPDWARN"}
    <2>1. Goto(n, p, "listen")
      BY <1>5
    <2>2. p.ev \subseteq r[n].ev \cup {"HPDWARN"} /\ "TXFRS" \notin p.ev
      BY <1>5
    <2>3. "listen" \in {"listen", "stuck", "broken"} /\ pc[n] \notin {"setup", "halted"} /\ p.dx \in Int
      BY <1>3
    <2> QED
      BY <1>4, <1>5, <2>1, <2>2, <2>3, RetiresIdle
  <1>6. CASE p.err = FALSE /\ p.power = "TX" /\ p.delayed = TRUE /\ p.w4r = FALSE
             /\ p.ev = q.ev \ {"HPDWARN"}
    <2>1. Goto(n, p, at)
      BY <1>6
    <2>2. p.ev \subseteq r[n].ev /\ "TXFRS" \notin p.ev /\ p.w4r = FALSE
      BY <1>6
    <2>3. PlaceOK(Prog(n), at)
      BY DEF PlaceOK, IsResponder, IsInitiator
    <2>4. p.spc = q.spc
      BY <1>2, <1>3, FieldsThere, Zenon DEF Changes, SendChanges
    <2>5. SentOK(n, Prog(n), p, at, d)
      BY <1>3 DEF SentOK, IsInitiator, IsResponder
    <2>6. Prog(n) # "init_nd"
      BY DEF IsResponder
    <2>7. Rest(p, at) = p /\ NodeOK(n, Prog(n), p, at, d)
      <3>1. p.power = "TX" /\ p.dx \in Int /\ at # "await"
        BY <1>3, <1>6
      <3>2. pc[n] \notin {"setup", "halted"}
        OBVIOUS
      <3>3. IsResponder(Prog(n)) /\ at \in {"sending", "reporting"} /\ p.delayed = TRUE
        BY <1>6
      <3>4. Prog(n) = "resp_nd" => p.spc = IF at = "sending" THEN "ND" ELSE "OFF"
        BY <2>4
      <3> QED
        BY ONLY <1>1, <1>4, <2>2, <2>3, <2>5, <2>6, <3>1, <3>2, <3>3, <3>4, DataOK(d), SendStep
    <2>8. Step(n, Rest(p, at), at, d)
      BY <2>1, GotoStep
    <2> QED
      BY <1>3, <1>6, <2>7, <2>8, Zenon
  <1> QED
    BY <1>3, <1>5, <1>6

\* A response to a poll.
LEMMA AnswerAnswers ==
  ASSUME NodeInv, NEW n \in Nodes, IsResponder(Prog(n)), pc[n] = "await",
         r[n].power = "IDLE", Pending(n), r[n].reg.frame # Foreign,
         Prog(n) # "resp_nd" => r[n].reg.frame.kind = "poll",
         NEW q, Changes(r[n], q, {"ev"}), q.ev \subseteq r[n].ev, "TXFRS" \notin r[n].ev,
         NEW frame, NEW dx, dx = RespTxTime(r[n].reg.time, ReplyDelay(Prog(n))),
         Answer(n, q, frame, dx), NEW d, DataOK(d),
         (h' = h /\ d = h[n]) \/ (h' = [h EXCEPT ![n] = d] /\ Prog(n) = "resp_nd"),
         Prog(n) # "resp_nd" => frame.kind = "resp" /\ frame.from = n,
         Prog(n) = "resp_nd" => frame = NoFrame,
         (IF Prog(n) = "resp_nd" THEN d.saved ELSE frame.stamps)
           = resp_msg_set_ts(r[n].reg.time, RespTxStamp(dx)),
         Prog(n) = "resp_aes" /\ r[n].reg.frame.mac \in Macs =>
           /\ frame.mac \in Macs /\ Opens(frame)
           /\ frame.mac.cnt = (r[n].reg.frame.mac.cnt + 1) % CntMod
  PROVE  Retires(n) \/ Answers(n)
  <1> DEFINE started(l) == dwt_starttx_delayed(LoadFrame(dwt_setdelayedtrxtime(q, dx), frame), l)
  <1>1. PICK late \in Lateness :
          Goto(n, started(late), IF started(late).err THEN "listen" ELSE "sending")
    BY Zenon DEF Answer
  <1>2. PICK p : p = started(late)
    OBVIOUS
  <1>3. Goto(n, p, IF p.err THEN "listen" ELSE "sending")
    BY <1>1, <1>2
  <1>4. dx \in Int
    <2>1. r[n].reg.time \in Int
      BY NodeIs DEF Timed
    <2>2. ReplyDelay(Prog(n)) \in Nat
      BY DelaysAre
    <2>3. RespTxTime(r[n].reg.time, ReplyDelay(Prog(n))) \in Nat
      BY <2>1, <2>2, RespTxTimeIs
    <2> QED
      BY <2>3
  <1>5. HasFields(r[n]) /\ NodeOK(n, Prog(n), r[n], pc[n], h[n])
    BY NodeIs
  <1>6. Changes(r[n], q, {"ev", "sts", "spc"})
    BY Zenon DEF Changes
  <1>7. Prog(n) = "resp_nd" => q.spc = IF "sending" = "sending" THEN "ND" ELSE "OFF"
    <2>1. q.spc = r[n].spc
      BY <1>5, FieldsThere, Zenon DEF Changes
    <2> QED
      BY <1>5, <2>1 DEF NodeOK, EventOK
  <1>8. p = dwt_starttx_delayed(LoadFrame(dwt_setdelayedtrxtime(q, dx), frame), late)
    BY <1>2
  <1>9. pc[n] \in {"await", "sending"} /\ "sending" \in {"sending", "reporting"} /\ "TXFRS" \notin q.ev
    OBVIOUS
  <1>10. (h' = h /\ d = h[n]) \/ (h' = [h EXCEPT ![n] = d] /\ Pending(n))
    OBVIOUS
  <1> HIDE DEF started
  <1>11. \/ Retires(n)
         \/ /\ Step(n, p, "sending", d) /\ NodeOK(n, Prog(n), p, "sending", d) /\ p.power = "TX"
            /\ p.dx = dx /\ p.txbuf = frame
    <2>1. "sending" = "reporting" => Prog(n) = "resp_nd"
      OBVIOUS
    <2>2. "sending" = "sending" /\ Prog(n) # "resp_nd" => frame.kind = "resp" /\ frame.from = n
      OBVIOUS
    <2>3. "sending" = "reporting" => frame.from = n /\ frame.stamps = d.saved
      OBVIOUS
    <2>4. "sending" = "sending" /\ Prog(n) = "resp_nd" => frame = NoFrame
      OBVIOUS
    <2> QED
      BY ONLY NodeInv, n \in Nodes, IsResponder(Prog(n)), <1>9, r[n].power = "IDLE", <1>6,
         q.ev \subseteq r[n].ev, <1>4, late \in Lateness, <1>8, <1>3, DataOK(d), <1>10, <1>7,
         <2>1, <2>2, <2>3, <2>4, AnswerStarts
  <1>90. n \in Responders
    BY RolesAre
  <1>12. Prog(n) # "resp_nd" => d = h[n] /\ r[n].reg.frame.kind = "poll"
    OBVIOUS
  <1>13. CASE /\ Step(n, p, "sending", d) /\ NodeOK(n, Prog(n), p, "sending", d) /\ p.power = "TX"
              /\ p.dx = dx /\ p.txbuf = frame
    <2>1. /\ p.dx = RespTxTime(r[n].reg.time, ReplyDelay(Prog(n)))
          /\ (IF Prog(n) = "resp_nd" THEN d.saved ELSE p.txbuf.stamps)
               = resp_msg_set_ts(r[n].reg.time, RespTxStamp(p.dx))
      BY <1>13
    <2>2. Prog(n) = "resp_aes" /\ r[n].reg.frame.mac \in Macs =>
            /\ p.txbuf.mac \in Macs /\ Opens(p.txbuf)
            /\ p.txbuf.mac.cnt = (r[n].reg.frame.mac.cnt + 1) % CntMod
      BY <1>13
    <2> QED
      BY <1>12, <1>13, <1>90, <2>1, <2>2, Zenon DEF Answers
  <1> QED
    BY <1>11, <1>13

\* A frame with a program's prefix is not one of another device.
LEMMA ExpectedIs ==
  ASSUME NEW n \in Nodes, NEW frame, NEW kind, Expected(n, frame, kind)
  PROVE  frame # Foreign /\ frame.kind = kind
  <1>1. Foreign.net = "other"
    BY DEF Foreign
  <1>2. Net(n) # "other"
    BY DEF Net
  <1> QED
    BY <1>1, <1>2 DEF Expected

\* What clearing an event leaves.
LEMMA ClearedIs ==
  ASSUME NodeInv, NEW n \in Nodes, NEW E
  PROVE  LET q == ClearEvents(r[n], E)
         IN  /\ Changes(r[n], q, {"ev"}) /\ q.ev = r[n].ev \ E /\ Single(q) /\ HasFields(q)
             /\ q.reg = r[n].reg /\ q.power = r[n].power /\ q.dx = r[n].dx
  <1> DEFINE q == ClearEvents(r[n], E)
  <1>1. Single(r[n]) /\ HasFields(r[n])
    BY NodeIs
  <1>2. Changes(r[n], q, {"ev"}) /\ q.ev = r[n].ev \ E
    BY <1>1, ClearIs
  <1> HIDE DEF q
  <1>3. Single(q) /\ HasFields(q)
    BY <1>1, <1>2, SingleKept DEF Single
  <1>4. q.reg = r[n].reg /\ q.power = r[n].power /\ q.dx = r[n].dx
    BY <1>1, <1>2, FieldsThere, Zenon DEF Changes
  <1> QED
    BY <1>2, <1>3, <1>4, Zenon DEF q

\* An answer that is not secured.
LEMMA RespondAnswers ==
  ASSUME NodeInv, NEW n \in Nodes, Prog(n) \in {"resp", "resp_sts", "beacon"}, pc[n] = "await",
         r[n].power = "IDLE", Pending(n),
         NEW q, Changes(r[n], q, {"ev"}), q.ev \subseteq r[n].ev,
         Expected(n, r[n].reg.frame, "poll"), Respond(n, q), h' = h
  PROVE  Retires(n) \/ Answers(n)
  <1> DEFINE t == r[n].reg.time
             dx == RespTxTime(t, ReplyDelay(Prog(n)))
             frame == Message(n, "resp", resp_msg_set_ts(t, RespTxStamp(dx)))
  <1>1. Single(r[n]) /\ HasFields(r[n]) /\ DataOK(h[n]) /\ NodeOK(n, Prog(n), r[n], pc[n], h[n])
    BY NodeIs
  <1>2. Single(q) /\ q.reg = r[n].reg
    <2>1. Single(q)
      BY <1>1, SingleKept
    <2>2. q.reg = r[n].reg
      BY <1>1, FieldsThere, Zenon DEF Changes
    <2> QED
      BY <2>1, <2>2
  <1>3. get_rx_timestamp_u64(q) = t
    BY <1>2, ReadsIs
  <1>4. Answer(n, q, frame, dx)
    BY <1>3 DEF Respond
  <1>5. frame.kind = "resp" /\ frame.from = n /\ frame.stamps = resp_msg_set_ts(t, RespTxStamp(dx))
    BY DEF Message
  <1>6. r[n].reg.frame # Foreign /\ r[n].reg.frame.kind = "poll"
    BY ExpectedIs
  <1>7. IsResponder(Prog(n)) /\ Prog(n) # "resp_nd" /\ Prog(n) # "resp_aes"
    BY DEF IsResponder
  <1>8. "TXFRS" \notin r[n].ev
    BY <1>1, <1>7 DEF NodeOK, EventOK
  <1>9. dx = RespTxTime(r[n].reg.time, ReplyDelay(Prog(n)))
    OBVIOUS
  <1>10. frame.stamps = resp_msg_set_ts(r[n].reg.time, RespTxStamp(dx))
    BY <1>5
  <1> HIDE DEF frame, dx, t
  <1> QED
    BY <1>1, <1>4, <1>5, <1>6, <1>7, <1>8, <1>9, <1>10, AnswerAnswers

\* ex_06b_take, Beacon_take.
LEMMA PlainTakes ==
  ASSUME NodeInv, NEW n \in Nodes, ex_06b_take(n) \/ Beacon_take(n)
  PROVE  Retires(n) \/ Answers(n)
  <1> DEFINE q == ClearEvents(r[n], {"RXFCG"})
  <1>1. /\ Prog(n) \in {"resp", "beacon"} /\ pc[n] = "await"
        /\ Happened(n, {"RXFCG"} \cup ALL_RX_ERR) /\ h' = h
        /\ IF ~Happened(n, {"RXFCG"}) THEN Goto(n, ClearEvents(r[n], ALL_RX_ERR), "listen")
           ELSE IF Expected(n, dwt_readrxdata(q), "poll") THEN Respond(n, q)
           ELSE Goto(n, q, "listen")
    BY DEF ex_06b_take, Beacon_take, At
  <1>2. IsResponder(Prog(n))
    BY <1>1 DEF IsResponder
  <1>3. NodeOK(n, Prog(n), r[n], pc[n], h[n])
    BY NodeIs
  <1>4. r[n].ev \cap RxEvents # {}
    BY <1>1 DEF Happened, RxEvents, ALL_RX_GOOD
  <1>5. r[n].power = "IDLE" /\ "TXFRS" \notin r[n].ev
    BY <1>1, <1>2, <1>3, <1>4, IdleAt DEF NodeOK, EventOK
  <1>6. /\ Changes(r[n], q, {"ev"}) /\ q.ev = r[n].ev \ {"RXFCG"} /\ Single(q)
        /\ q.reg = r[n].reg
    BY ClearedIs
  <1>7. dwt_readrxdata(q) = r[n].reg.frame
    BY <1>6, ReadsIs
  <1>8. CASE Goto(n, ClearEvents(r[n], ALL_RX_ERR), "listen")
    BY <1>1, <1>2, <1>5, <1>8, RetiresCleared
  <1>9. CASE Goto(n, q, "listen")
    BY <1>1, <1>2, <1>5, <1>9, RetiresCleared
  <1>10. CASE Happened(n, {"RXFCG"}) /\ Expected(n, dwt_readrxdata(q), "poll") /\ Respond(n, q)
    <2>1. Pending(n)
      BY <1>1, <1>10 DEF Happened, Pending, PendingOf
    <2> HIDE DEF q
    <2>2. q.ev \subseteq r[n].ev /\ Prog(n) \in {"resp", "resp_sts", "beacon"}
      BY <1>1, <1>6
    <2> QED
      BY <1>1, <1>5, <1>6, <1>7, <1>10, <2>1, <2>2, RespondAnswers
  <1> QED
    BY <1>1, <1>8, <1>9, <1>10

\* ex_06b_sts_take.
LEMMA StsTakes ==
  ASSUME NodeInv, NEW n \in Nodes, ex_06b_sts_take(n)
  PROVE  Retires(n) \/ Answers(n)
  <1> DEFINE q == ClearEvents(r[n], {"RXFCG"})
             q2 == ClearEvents(q, {"TXFRS"})
  <1>1. /\ Prog(n) = "resp_sts" /\ pc[n] = "await" /\ Happened(n, RxEnded) /\ h' = h
        /\ IF ~(Happened(n, {"RXFCG"}) /\ GoodSts(r[n]))
           THEN Goto(n, ClearEvents(r[n], ALL_RX_ERR), "listen")
           ELSE IF Expected(n, dwt_readrxdata(q), "poll") THEN Respond(n, q2)
           ELSE Goto(n, q, "listen")
    BY DEF ex_06b_sts_take, At
  <1>2. IsResponder(Prog(n))
    BY <1>1 DEF IsResponder
  <1>3. NodeOK(n, Prog(n), r[n], pc[n], h[n])
    BY NodeIs
  <1>4. r[n].ev \cap RxEvents # {}
    BY <1>1 DEF Happened, RxEnded, RxEvents, ALL_RX_GOOD
  <1>5. r[n].power = "IDLE" /\ "TXFRS" \notin r[n].ev
    BY <1>1, <1>2, <1>3, <1>4, IdleAt DEF NodeOK, EventOK
  <1>6. /\ Changes(r[n], q, {"ev"}) /\ q.ev = r[n].ev \ {"RXFCG"} /\ Single(q)
        /\ q.reg = r[n].reg /\ HasFields(q)
    BY ClearedIs
  <1>7. dwt_readrxdata(q) = r[n].reg.frame
    BY <1>6, ReadsIs
  <1>8. CASE Goto(n, ClearEvents(r[n], ALL_RX_ERR), "listen")
    BY <1>1, <1>2, <1>5, <1>8, RetiresCleared
  <1>9. CASE Goto(n, q, "listen")
    BY <1>1, <1>2, <1>5, <1>9, RetiresCleared
  <1>10. CASE Happened(n, {"RXFCG"}) /\ Expected(n, dwt_readrxdata(q), "poll") /\ Respond(n, q2)
    <2>1. Pending(n)
      BY <1>1, <1>10 DEF Happened, Pending, PendingOf
    <2> HIDE DEF q
    <2>2. Changes(q, q2, {"ev"}) /\ q2.ev = q.ev \ {"TXFRS"}
      BY <1>6, ClearIs
    <2> HIDE DEF q2
    <2>3. Changes(r[n], q2, {"ev"})
      BY <1>6, <2>2, ChangesAdd
    <2>4. q2.ev \subseteq r[n].ev /\ Prog(n) \in {"resp", "resp_sts", "beacon"}
      BY <1>1, <1>6, <2>2
    <2> QED
      BY <1>1, <1>5, <1>7, <1>10, <2>1, <2>3, <2>4, RespondAnswers
  <1> QED
    BY <1>1, <1>8, <1>9, <1>10

\* ex_06b_no_data_take.
LEMMA NoDataTakes ==
  ASSUME NodeInv, NEW n \in Nodes, ex_06b_no_data_take(n)
  PROVE  Retires(n) \/ Answers(n)
  <1> DEFINE t == get_rx_timestamp_u64(r[n])
             dx == RespTxTime(t, ReplyDelay("resp_nd"))
             d == [h[n] EXCEPT !.saved = resp_msg_set_ts(t, RespTxStamp(dx))]
             q == ClearEvents(r[n], {"TXFRS"})
  <1>1. /\ Prog(n) = "resp_nd" /\ pc[n] = "await" /\ Happened(n, NdEnded)
        /\ IF Happened(n, {"RXFR"}) /\ GoodSts(r[n])
           THEN Answer(n, q, NoFrame, dx) /\ h' = [h EXCEPT ![n].saved = resp_msg_set_ts(t, RespTxStamp(dx))]
           ELSE Goto(n, ClearEvents(r[n], ALL_RX_ERR), "listen") /\ h' = h
    BY DEF ex_06b_no_data_take, At
  <1>2. IsResponder(Prog(n))
    BY <1>1 DEF IsResponder
  <1>3. NodeOK(n, Prog(n), r[n], pc[n], h[n]) /\ Single(r[n]) /\ DataOK(h[n])
    BY NodeIs
  <1>4. r[n].ev \cap RxEvents # {}
    BY <1>1 DEF Happened, NdEnded, RxEvents, ALL_RX_GOOD, ALL_RX_ERR, ALL_ND_RX_ERR
  <1>5. r[n].power = "IDLE" /\ "TXFRS" \notin r[n].ev
    BY <1>1, <1>2, <1>3, <1>4, IdleAt DEF NodeOK, EventOK
  <1>6. CASE Goto(n, ClearEvents(r[n], ALL_RX_ERR), "listen") /\ h' = h
    BY <1>1, <1>2, <1>5, <1>6, RetiresCleared
  <1>7. CASE /\ Happened(n, {"RXFR"}) /\ Answer(n, q, NoFrame, dx)
             /\ h' = [h EXCEPT ![n].saved = resp_msg_set_ts(t, RespTxStamp(dx))]
    <2>1. Pending(n)
      BY <1>1, <1>7 DEF Happened, Pending, PendingOf
    <2>2. r[n].reg.frame # Foreign
      BY <1>1, <1>3, <2>1 DEF NodeOK, EventOK, Pending
    <2>3. t = r[n].reg.time
      BY <1>3, ReadsIs
    <2>4. Changes(r[n], q, {"ev"}) /\ q.ev = r[n].ev \ {"TXFRS"}
      BY ClearedIs
    <2>5. dx = RespTxTime(r[n].reg.time, ReplyDelay(Prog(n)))
      BY <1>1, <2>3
    <2>6. DataOK(d) /\ d.saved = resp_msg_set_ts(r[n].reg.time, RespTxStamp(dx))
      <3>1. d.cnt = h[n].cnt /\ DOMAIN d = DOMAIN h[n] /\ d.saved = resp_msg_set_ts(t, RespTxStamp(dx))
        BY <1>3, Zenon DEF DataOK
      <3> HIDE DEF d
      <3> QED
        BY <1>3, <2>3, <3>1 DEF DataOK
    <2>7. h' = [h EXCEPT ![n] = d]
      BY <1>7, Zenon
    <2>8. Answer(n, q, NoFrame, dx)
      BY <1>7
    <2> HIDE DEF d, dx, q, t
    <2>9. q.ev \subseteq r[n].ev
      BY <2>4
    <2> QED
      BY <1>1, <1>2, <1>5, <2>1, <2>2, <2>4, <2>5, <2>6, <2>7, <2>8, <2>9, AnswerAnswers
  <1> QED
    BY <1>1, <1>6, <1>7

\* ex_06b_no_data_report.
LEMMA NoDataReports ==
  ASSUME NodeInv, NEW n \in Nodes, ex_06b_no_data_report(n)
  PROVE  Retires(n) \/ Reports(n)
  <1> DEFINE a == ClearEvents(r[n], {"TXFRS"})
             q == dwt_configurestsmode(a, "OFF")
             dx == RespTxTime(get_rx_timestamp_u64(q), 2 * ReplyDelay("resp_nd"))
             frame == Message(n, "report", h[n].saved)
             started(l) == dwt_starttx_delayed(LoadFrame(dwt_setdelayedtrxtime(q, dx), frame), l)
  <1>1. /\ Prog(n) = "resp_nd" /\ pc[n] = "sending" /\ Happened(n, {"TXFRS"}) /\ h' = h
        /\ \E late \in Lateness :
             Goto(n, started(late), IF started(late).err THEN "listen" ELSE "reporting")
    BY Zenon DEF ex_06b_no_data_report, At
  <1>2. IsResponder(Prog(n))
    BY <1>1 DEF IsResponder
  <1>3. NodeOK(n, Prog(n), r[n], pc[n], h[n]) /\ Single(r[n]) /\ DataOK(h[n]) /\ Timed(r[n])
    BY NodeIs
  <1>4. r[n].power = "IDLE"
    BY <1>1, <1>2, <1>3, IdleAt DEF Happened
  <1>5. /\ Changes(r[n], a, {"ev"}) /\ a.ev = r[n].ev \ {"TXFRS"} /\ Single(a) /\ HasFields(a)
        /\ a.reg = r[n].reg
    BY ClearedIs
  <1> HIDE DEF a
  <1>6. Changes(a, q, {"sts", "spc"}) /\ q.spc = "OFF"
    BY <1>5, StsModeIs
  <1> HIDE DEF q
  <1>7. Changes(r[n], q, {"ev", "sts", "spc"})
    BY <1>5, <1>6, ChangesAdd
  <1>8. q.ev = a.ev /\ q.reg = a.reg
    BY <1>5, <1>6, FieldsThere, Zenon DEF Changes
  <1>9. Single(q)
    BY <1>5, <1>6, SingleKept
  <1>10. get_rx_timestamp_u64(q) = r[n].reg.time
    BY <1>5, <1>8, <1>9, ReadsIs
  <1>11. dx \in Int
    <2>1. r[n].reg.time \in Int
      BY <1>3 DEF Timed
    <2>2. 2 * ReplyDelay("resp_nd") \in Nat
      BY DelaysAre
    <2>3. RespTxTime(r[n].reg.time, 2 * ReplyDelay("resp_nd")) \in Nat
      BY <2>1, <2>2, RespTxTimeIs
    <2> QED
      BY <1>10, <2>3
  <1>12. frame.from = n /\ frame.stamps = h[n].saved
    BY DEF Message
  <1> HIDE DEF dx, frame
  <1>13. PICK late \in Lateness :
           Goto(n, started(late), IF started(late).err THEN "listen" ELSE "reporting")
    BY <1>1
  <1>14. PICK p : p = started(late)
    OBVIOUS
  <1>15. Goto(n, p, IF p.err THEN "listen" ELSE "reporting")
    BY <1>13, <1>14
  <1>16. p = dwt_starttx_delayed(LoadFrame(dwt_setdelayedtrxtime(q, dx), frame), late)
    BY <1>14
  <1> HIDE DEF started
  <1>17. \/ Retires(n)
         \/ Step(n, p, "reporting", h[n]) /\ NodeOK(n, Prog(n), p, "reporting", h[n]) /\ p.power = "TX"
    <2>1. q.ev \subseteq r[n].ev /\ "TXFRS" \notin q.ev
      BY <1>5, <1>8
    <2>2. Prog(n) = "resp_nd" => q.spc = IF "reporting" = "sending" THEN "ND" ELSE "OFF"
      BY <1>6
    <2>3. "reporting" = "reporting" => Prog(n) = "resp_nd"
      BY <1>1
    <2>4. "reporting" = "sending" /\ Prog(n) # "resp_nd" => frame.kind = "resp" /\ frame.from = n
      OBVIOUS
    <2>5. "reporting" = "reporting" => frame.from = n /\ frame.stamps = h[n].saved
      BY <1>12
    <2>9. "reporting" = "sending" /\ Prog(n) = "resp_nd" => frame = NoFrame
      OBVIOUS
    <2>6. pc[n] \in {"await", "sending"} /\ "reporting" \in {"sending", "reporting"}
      BY <1>1
    <2>7. (h' = h /\ h[n] = h[n]) \/ (h' = [h EXCEPT ![n] = h[n]] /\ Pending(n))
      BY <1>1
    <2>8. DataOK(h[n])
      BY <1>3
    <2> QED
      BY ONLY NodeInv, n \in Nodes, <1>2, <1>4, <1>7, <1>11, late \in Lateness, <1>15, <1>16,
         <2>1, <2>2, <2>3, <2>4, <2>5, <2>6, <2>7, <2>8, <2>9, AnswerStarts
  <1>90. n \in Responders
    BY <1>2, RolesAre
  <1> QED
    BY <1>90, <1>1, <1>17, Zenon DEF Reports

\* The end of an answer.
LEMMA AnswerEnds ==
  ASSUME NodeInv, NEW n \in Nodes, Answered(n) \/ ex_06b_no_data_reported(n)
  PROVE  Retires(n)
  <1>1. /\ Prog(n) \in {"resp", "resp_sts", "resp_aes", "beacon", "resp_nd"}
        /\ pc[n] \in {"sending", "reporting"} /\ "TXFRS" \in r[n].ev /\ h' = h
        /\ Goto(n, ClearEvents(r[n], {"TXFRS"}), "listen")
    BY DEF Answered, ex_06b_no_data_reported, At, Answerers, Happened
  <1>2. IsResponder(Prog(n))
    BY <1>1 DEF IsResponder
  <1>3. r[n].power = "IDLE"
    BY <1>1, <1>2, NodeIs, IdleAt
  <1> QED
    BY <1>1, <1>2, <1>3, RetiresCleared

\* A message that could be sealed.
LEMMA SealedSays ==
  ASSUME NEW n, NEW kind, NEW mac, NEW stamps, NEW engine
  PROVE  LET s == Sealed(n, kind, mac, stamps, engine)
         IN  s.failed \/ (s.frame.kind = kind /\ s.frame.from = n /\ s.frame.stamps = stamps)
  <1> DEFINE done == dwt_do_aes(EncryptJob(mac, PayloadLength[kind]), "CCM", engine)
             frame == [Message(n, kind, stamps) EXCEPT
                          !.mac = mac, !.len = SecuredLength(mac, PayloadLength[kind]),
                          !.seal = done.seal]
  <1>1. frame.kind = kind /\ frame.from = n /\ frame.stamps = stamps
    BY DEF Message
  <1> HIDE DEF frame
  <1>2. Sealed(n, kind, mac, stamps, engine)
          = IF done.ret \in NegativeResults \cup AES_ERRORS THEN [failed |-> TRUE, ret |-> done.ret]
            ELSE [failed |-> FALSE, frame |-> frame]
    BY DEF Sealed, frame
  <1> HIDE DEF done
  <1> QED
    BY <1>1, <1>2

\* A message is sealed, and opens at the other end, unless the engine fails.
LEMMA SealedIs ==
  ASSUME NEW n, NEW kind \in {"poll", "resp"}, NEW mac \in Macs, NEW stamps
  PROVE  LET s == Sealed(n, kind, mac, stamps, "OK")
         IN  /\ ~s.failed /\ s.frame.mac = mac
             /\ rx_aes_802_15_4(s.frame, RX_BUF_LEN, mac.src, mac.dst, "OK") = "OK"
             /\ \A engine \in EngineErrors :
                  Sealed(n, kind, mac, stamps, engine) = [failed |-> TRUE, ret |-> engine]
  <1> DEFINE len == PayloadLength[kind]
             done == dwt_do_aes(EncryptJob(mac, len), "CCM", "OK")
             frame == [Message(n, kind, stamps) EXCEPT
                          !.mac = mac, !.len = SecuredLength(mac, len), !.seal = done.seal]
             short == [mac |-> mac, len |-> SecuredLength(mac, len), seal |-> done.seal]
  <1>1. mac.secure /\ mac.level = 7
    BY DEF Macs
  <1>2. len \in 0..SCRATCH_BUFFER_MAX_LEN /\ RX_BUF_LEN \in Nat /\ len <= RX_BUF_LEN
    BY DEF PayloadLength, SCRATCH_BUFFER_MAX_LEN, RX_BUF_LEN
  <1> HIDE DEF len
  <1>3. /\ done.ret = "DONE"
        /\ rx_aes_802_15_4(short, RX_BUF_LEN, mac.src, mac.dst, "OK") = "OK"
    <2>1. mac.level \in {0, 1, 2, 3, 5, 6, 7}
      BY <1>1
    <2> QED
      BY <1>1, <1>2, <2>1, SealedOpens
  <1>4. frame.mac = mac /\ frame.len = SecuredLength(mac, len) /\ frame.seal = done.seal
    <2> HIDE DEF done
    <2> QED
      BY DEF Message
  <1>5. short.mac = mac /\ short.len = SecuredLength(mac, len) /\ short.seal = done.seal
    <2> HIDE DEF done
    <2> QED
      OBVIOUS
  <1>6. ASSUME NEW f
        PROVE  rx_aes_802_15_4(f, RX_BUF_LEN, mac.src, mac.dst, "OK")
                 = rx_aes_802_15_4([mac |-> f.mac, len |-> f.len, seal |-> f.seal],
                                   RX_BUF_LEN, mac.src, mac.dst, "OK")
    <2> DEFINE e == [mac |-> f.mac, len |-> f.len, seal |-> f.seal]
    <2>1. e.mac = f.mac /\ e.len = f.len /\ e.seal = f.seal
      OBVIOUS
    <2> HIDE DEF e
    <2>2. rx_aes_802_15_4(f, RX_BUF_LEN, mac.src, mac.dst, "OK")
            = rx_aes_802_15_4(e, RX_BUF_LEN, mac.src, mac.dst, "OK")
      BY <2>1, Zenon DEF rx_aes_802_15_4
    <2> QED
      BY <2>2 DEF e
  <1>7. Sealed(n, kind, mac, stamps, "OK")
          = IF done.ret \in NegativeResults \cup AES_ERRORS THEN [failed |-> TRUE, ret |-> done.ret]
            ELSE [failed |-> FALSE, frame |-> frame]
    BY DEF Sealed, frame, done, len
  <1>8. [mac |-> frame.mac, len |-> frame.len, seal |-> frame.seal] = short
    BY <1>4, Zenon
  <1>12. ASSUME NEW engine \in EngineErrors
         PROVE  Sealed(n, kind, mac, stamps, engine) = [failed |-> TRUE, ret |-> engine]
    <2> DEFINE job == EncryptJob(mac, len)
    <2>1. dwt_do_aes(job, "CCM", "OK").ret \notin NegativeResults
      BY <1>3 DEF NegativeResults
    <2> HIDE DEF job
    <2>2. dwt_do_aes(job, "CCM", engine) = [ret |-> engine]
      BY <2>1, EngineFails
    <2>3. engine \in NegativeResults \cup AES_ERRORS
      BY DEF AES_ERRORS
    <2>4. dwt_do_aes(EncryptJob(mac, PayloadLength[kind]), "CCM", engine).ret = engine
      BY <2>2 DEF job, len
    <2> QED
      BY <2>3, <2>4, Zenon DEF Sealed
  <1> HIDE DEF done, frame, short
  <1>9. done.ret \notin NegativeResults \cup AES_ERRORS
    BY <1>3 DEF NegativeResults, AES_ERRORS, EngineErrors
  <1>10. Sealed(n, kind, mac, stamps, "OK") = [failed |-> FALSE, frame |-> frame]
    BY <1>7, <1>9, Zenon
  <1>11. rx_aes_802_15_4(frame, RX_BUF_LEN, mac.src, mac.dst, "OK") = "OK"
    BY <1>3, <1>6, <1>8, Zenon
  <1> QED
    BY <1>4, <1>10, <1>11, <1>12

\* The header of a response.
LEMMA HeaderIs ==
  ASSUME NEW mac \in Macs
  PROVE  LET m == ex_06f_header(mac)
         IN  /\ m \in Macs /\ m.cnt = (mac.cnt + 1) % CntMod
             /\ m.src = Address.responder /\ m.dst = Address.initiator
  <1>1. CntMod \in Nat \ {0}
    BY RangingAssumption DEF RangingAssumption
  <1>0. mac.secure = TRUE /\ mac.dst \in Nat /\ mac.src \in Nat /\ mac.level = 7
        /\ mac.cnt \in 0..CntMod - 1 /\ mac.key \in Nat
        /\ mac = [secure |-> mac.secure, dst |-> mac.dst, src |-> mac.src,
                  level |-> mac.level, cnt |-> mac.cnt, key |-> mac.key]
    BY DEF Macs
  <1>2. PICK c \in 0..CntMod - 1 : c = (mac.cnt + 1) % CntMod
    <2>1. mac.cnt + 1 \in Int
      BY <1>0
    <2>2. (mac.cnt + 1) % CntMod \in 0..CntMod - 1
      BY <1>1, <2>1, DivMod
    <2> QED
      BY <2>2
  <1> DEFINE m == [[[mac EXCEPT !.key = Key.responder] EXCEPT !.cnt = c] EXCEPT
                      !.dst = Address.initiator, !.src = Address.responder]
  <1>3. ex_06f_header(mac) = m
    BY <1>2, Zenon DEF ex_06f_header, mac_frame_set_pan_ids_and_addresses,
       mac_frame_update_aux_frame_cnt
  <1>4. Key.responder = 2 /\ Address.initiator = 1 /\ Address.responder = 2
    BY DEF Key, Address
  <1>5. m \in Macs /\ m.cnt = c /\ m.src = Address.responder /\ m.dst = Address.initiator
    <2>1. [mac EXCEPT !.key = 2] \in Macs
      BY DEF Macs
    <2>2. ASSUME NEW a \in Macs
          PROVE  [a EXCEPT !.cnt = c] \in Macs /\ [a EXCEPT !.cnt = c].cnt = c
      BY DEF Macs
    <2>3. ASSUME NEW a \in Macs
          PROVE  LET b == [a EXCEPT !.dst = 1, !.src = 2]
                 IN  b \in Macs /\ b.cnt = a.cnt /\ b.dst = 1 /\ b.src = 2
      BY DEF Macs
    <2> DEFINE a1 == [mac EXCEPT !.key = 2]
               a2 == [a1 EXCEPT !.cnt = c]
               a3 == [a2 EXCEPT !.dst = 1, !.src = 2]
    <2>4. m = a3
      BY <1>4, Zenon
    <2>5. a1 \in Macs
      BY <2>1
    <2> HIDE DEF a1, m
    <2>6. a2 \in Macs /\ a2.cnt = c
      BY <2>2, <2>5
    <2> HIDE DEF a2
    <2>7. a3 \in Macs /\ a3.cnt = a2.cnt /\ a3.dst = 1 /\ a3.src = 2
      BY <2>3, <2>6
    <2> HIDE DEF a3
    <2> QED
      BY <1>4, <2>4, <2>6, <2>7
  <1> QED
    BY <1>2, <1>3, <1>5

\* ex_06f_take.
LEMMA AesTakes ==
  ASSUME NodeInv, NEW n \in Nodes, ex_06f_take(n)
  PROVE  Retires(n) \/ Answers(n)
  <1> DEFINE q == ClearEvents(r[n], {"RXFCG"})
             frame == dwt_readrxdata(q)
             t == get_rx_timestamp_u64(q)
             dx == RespTxTime(t, ReplyDelay("resp_aes"))
             stamps == resp_msg_set_ts(t, RespTxStamp(dx))
             Resp(engine) == Sealed(n, "resp", ex_06f_header(frame.mac), stamps, engine)
             Opening(engine) == rx_aes_802_15_4(frame, RX_BUF_LEN, Address.initiator,
                                                Address.responder, engine)
  <1>0. /\ Prog(n) = "resp_aes" /\ pc[n] = "await" /\ Happened(n, {"RXFCG"} \cup ALL_RX_ERR)
        /\ h' = h
    BY DEF ex_06f_take, At
  <1> DEFINE Leaves(at) == at \in {"listen", "stuck", "broken"} /\ Goto(n, q, at)
             Replies(engine) ==
               /\ Happened(n, {"RXFCG"}) /\ Expected(n, frame, "poll") /\ ~Resp(engine).failed
               /\ Answer(n, q, Resp(engine).frame, dx)
  <1>1. \/ Goto(n, ClearEvents(r[n], ALL_RX_ERR), "listen")
        \/ \E at : Leaves(at)
        \/ \E engine \in EngineResults : Replies(engine)
    <2>1. CASE ~Happened(n, {"RXFCG"})
      BY <2>1, Zenon DEF ex_06f_take
    <2>2. CASE Happened(n, {"RXFCG"})
      <3>1. PICK e1 \in EngineResults :
              IF Opening(e1) # "OK"
              THEN Goto(n, q, StopAt(Opening(e1) = "ERROR" /\ e1 # "OK"))
              ELSE IF Expected(n, frame, "poll") THEN ex_06f_respond(n, q)
              ELSE Goto(n, q, "listen")
        BY <2>2, Zenon DEF ex_06f_take
      <3>2. \A e : StopAt(e) \in {"listen", "stuck", "broken"}
        BY Zenon DEF StopAt
      <3>3. CASE Opening(e1) # "OK"
        <4>1. Goto(n, q, StopAt(Opening(e1) = "ERROR" /\ e1 # "OK"))
          BY <3>1, <3>3, Zenon
        <4> QED
          BY <3>2, <4>1, Zenon
      <3>4. CASE Opening(e1) = "OK" /\ Expected(n, frame, "poll")
        <4>1. PICK e2 \in EngineResults :
                IF Resp(e2).failed THEN Goto(n, q, StopAt(Resp(e2).ret \in EngineErrors))
                ELSE Answer(n, q, Resp(e2).frame, dx)
          BY <1>0, <3>1, <3>4, Zenon DEF ex_06f_respond
        <4>2. CASE Resp(e2).failed
          <5>1. Goto(n, q, StopAt(Resp(e2).ret \in EngineErrors))
            BY <4>1, <4>2, Zenon
          <5> QED
            BY <3>2, <5>1, Zenon
        <4>3. CASE ~Resp(e2).failed
          BY <2>2, <3>4, <4>1, <4>3, Zenon
        <4> QED
          BY <4>2, <4>3
      <3>5. CASE Opening(e1) = "OK" /\ ~Expected(n, frame, "poll")
        <4>1. Goto(n, q, "listen")
          BY <3>1, <3>5, Zenon
        <4> QED
          BY <4>1, Zenon
      <3> QED
        BY <3>3, <3>4, <3>5, Zenon
    <2> QED
      BY <2>1, <2>2, Zenon
  <1>2. IsResponder(Prog(n)) /\ Prog(n) # "resp_nd"
    BY <1>0 DEF IsResponder
  <1>3. NodeOK(n, Prog(n), r[n], pc[n], h[n]) /\ DataOK(h[n])
    BY NodeIs
  <1>4. r[n].ev \cap RxEvents # {}
    BY <1>0 DEF Happened, RxEvents, ALL_RX_GOOD
  <1>5. r[n].power = "IDLE" /\ "TXFRS" \notin r[n].ev
    BY <1>0, <1>2, <1>3, <1>4, IdleAt DEF NodeOK, EventOK
  <1>6. /\ Changes(r[n], q, {"ev"}) /\ q.ev = r[n].ev \ {"RXFCG"} /\ Single(q)
        /\ q.reg = r[n].reg
    BY ClearedIs
  <1>7. frame = r[n].reg.frame /\ t = r[n].reg.time
    BY <1>6, ReadsIs
  <1>8. CASE Goto(n, ClearEvents(r[n], ALL_RX_ERR), "listen")
    BY <1>0, <1>2, <1>5, <1>8, RetiresCleared
  <1>9. ASSUME NEW at, Leaves(at)
        PROVE  Retires(n)
    BY <1>0, <1>2, <1>5, <1>9, RetiresCleared
  <1> HIDE DEF q
  <1>11. ASSUME NEW engine \in EngineResults, Replies(engine)
         PROVE  Retires(n) \/ Answers(n)
    <2> DEFINE resp == Resp(engine)
    <2>0. /\ Happened(n, {"RXFCG"}) /\ Expected(n, frame, "poll") /\ ~resp.failed
          /\ Answer(n, q, resp.frame, dx)
      BY <1>11, Zenon
    <2>1. Pending(n)
      BY <1>0, <2>0 DEF Happened, Pending, PendingOf
    <2>2. r[n].reg.frame # Foreign /\ r[n].reg.frame.kind = "poll"
      BY <1>7, <2>0, ExpectedIs
    <2>3. resp.frame.kind = "resp" /\ resp.frame.from = n /\ resp.frame.stamps = stamps
      BY <2>0, SealedSays
    <2>4. dx = RespTxTime(r[n].reg.time, ReplyDelay(Prog(n)))
      BY <1>0, <1>7
    <2>5. stamps = resp_msg_set_ts(r[n].reg.time, RespTxStamp(dx))
      BY <1>7
    <2>6. ASSUME r[n].reg.frame.mac \in Macs
          PROVE  /\ resp.frame.mac \in Macs /\ Opens(resp.frame)
                 /\ resp.frame.mac.cnt = (r[n].reg.frame.mac.cnt + 1) % CntMod
      <3> DEFINE m == ex_06f_header(frame.mac)
      <3>1. /\ m \in Macs /\ m.cnt = (frame.mac.cnt + 1) % CntMod
            /\ m.src = Address.responder /\ m.dst = Address.initiator
        BY <1>7, <2>6, HeaderIs
      <3> HIDE DEF m
      <3>2. /\ resp.frame.mac = m
            /\ rx_aes_802_15_4(resp.frame, RX_BUF_LEN, m.src, m.dst, "OK") = "OK"
        <4> DEFINE Reply(e) == Sealed(n, "resp", m, stamps, e)
        <4>1. "resp" \in {"poll", "resp"}
          OBVIOUS
        <4>2. /\ Reply("OK").frame.mac = m
              /\ rx_aes_802_15_4(Reply("OK").frame, RX_BUF_LEN, m.src, m.dst, "OK") = "OK"
              /\ \A e \in EngineErrors : Reply(e) = [failed |-> TRUE, ret |-> e]
          BY <3>1, <4>1, SealedIs
        <4>3. resp = Reply(engine)
          BY DEF m
        <4> HIDE DEF resp, Reply
        <4>4. engine \notin EngineErrors
          BY <2>0, <4>2, <4>3
        <4>5. engine = "OK"
          BY <1>11, <4>4 DEF EngineResults
        <4> QED
          BY <4>2, <4>3, <4>5
      <3> HIDE DEF resp
      <3> QED
        BY <1>7, <3>1, <3>2 DEF Opens
    <2> DEFINE f == resp.frame
    <2>7. Answer(n, q, f, dx)
      BY <2>0
    <2>8. /\ Prog(n) # "resp_nd" => f.kind = "resp" /\ f.from = n
          /\ (IF Prog(n) = "resp_nd" THEN h[n].saved ELSE f.stamps)
               = resp_msg_set_ts(r[n].reg.time, RespTxStamp(dx))
          /\ Prog(n) = "resp_aes" /\ r[n].reg.frame.mac \in Macs =>
               /\ f.mac \in Macs /\ Opens(f)
               /\ f.mac.cnt = (r[n].reg.frame.mac.cnt + 1) % CntMod
      BY <1>2, <2>3, <2>5, <2>6
    <2> HIDE DEF f, resp, stamps, dx, t, frame
    <2>9. q.ev \subseteq r[n].ev
      BY <1>6
    <2> QED
      BY <1>0, <1>2, <1>3, <1>5, <1>6, <2>1, <2>2, <2>4, <2>7, <2>8, <2>9, AnswerAnswers
  <1> HIDE DEF Leaves, Replies
  <1> QED
    BY <1>1, <1>8, <1>9, <1>11

-----------------------------------------------------------------------------
(* The initiators' steps *)

\* A step of a node that takes no part.
Bystands(n) ==
  /\ n \notin Initiators /\ n \notin Responders
  /\ \E p, at, d : Step(n, p, at, d) /\ NodeOK(n, Prog(n), p, at, d)

\* An initiator polls.
Polls(n) ==
  n \in Initiators /\ \E p, d :
    LET at == IF Prog(n) \in {"init_sts", "init_nd"} THEN "polled" ELSE "await"
    IN  /\ Step(n, p, at, d) /\ NodeOK(n, Prog(n), p, at, d)
        /\ p.power = "TX" /\ pc[n] = "poll"
        /\ d.last = h[n].last /\ d.cnt = h[n].cnt
        /\ Prog(n) = "init_aes" => d.mac \in Macs /\ d.mac.cnt = d.cnt

\* It listens for the answer.
Hearkens(n) ==
  n \in Initiators /\ \E p :
    /\ Step(n, p, "await", h[n]) /\ NodeOK(n, Prog(n), p, "await", h[n])
    /\ p.power = "RX" /\ p.ev \cap RxEvents = {} /\ p.txtime = r[n].txtime
    /\ Live(n)

\* It listens for the report.
AwaitsReport(n) ==
  n \in Initiators /\ \E p, d :
    /\ Step(n, p, "awaitReport", d) /\ NodeOK(n, Prog(n), p, "awaitReport", d)
    /\ p.power = "RX" /\ p.ev \cap RxEvents = {} /\ p.txtime = r[n].txtime
    /\ Live(n) /\ pc[n] = "await" /\ "RXFR" \in r[n].ev /\ Prog(n) = "init_nd"
    /\ d.saved = Stamps(r[n]) /\ d.last = h[n].last /\ d.cnt = h[n].cnt

\* What an initiator keeps when an exchange is over.
Kept(n, d) ==
  /\ LastOK(n, d.last)
  /\ Prog(n) = "init_aes" => d.mac \in Macs /\ d.mac.cnt = d.cnt

\* It is not in an exchange, or no longer.
Stops(n) ==
  n \in Initiators /\ \E p, at, d :
    /\ Step(n, p, at, d) /\ NodeOK(n, Prog(n), p, at, d)
    /\ p.power # "TX" /\ at \in {"pause", "stuck", "broken", "poll", "report", "halted"}
    /\ at \in {"poll", "report"} => \A m \in Responders : ~Busy(m)
    /\ at = "stuck" => p.reg.frame = Foreign
    /\ Kept(n, d)

\* A radio that has come up, or not.
LEMMA ReadyNode ==
  ASSUME NEW n \in Nodes, NEW q, Ready(q), NEW d, DataOK(d),
         NEW at, at = IF q.err THEN "halted" ELSE FirstWait(n)
  PROVE  LET p == Rest(q, at)
         IN  /\ NodeOK(n, Prog(n), p, at, d) /\ p.power # "TX" /\ p.ev \cap RxEvents = {}
             /\ NodeOK(n, Prog(n), q, at, d) /\ q.power # "TX"
  <1>1. /\ Single(q) /\ Timed(q) /\ q.ev \subseteq StartEvents /\ q.power \in {"IDLE_RC", "IDLE"}
        /\ ~q.err => q.power = "IDLE" /\ q.txant = AntDelay /\ q.rxant = AntDelay
    BY DEF Ready, Starting
  <1>2. StartEvents \subseteq Events /\ StartEvents \cap RxEvents = {} /\ "TXFRS" \notin StartEvents
    BY DEF StartEvents, Events, RxEvents, ALL_RX_GOOD, ALL_RX_ERR, ALL_RX_TO
  <1>3. q.ev \cap RxEvents = {} /\ q.ev \subseteq Events /\ "TXFRS" \notin q.ev
    BY <1>1, <1>2
  <1>4. Eventful(q)
    BY <1>1, <1>3 DEF Eventful, RxEvents
  <1>5. at = "halted" \/ (~q.err /\ at = "poll" /\ n \in Initiators)
          \/ (~q.err /\ at = "listen" /\ n \notin Initiators)
    BY DEF FirstWait
  <1>6. RadioOK(Prog(n), q, at)
    BY <1>1, <1>4, <1>5 DEF RadioOK
  <1>7. PlaceOK(Prog(n), at)
    <2>1. n \in Initiators <=> IsInitiator(Prog(n))
      BY RolesAre
    <2> QED
      BY <1>5, <2>1 DEF PlaceOK, IsInitiator, IsResponder
  <1>8. EventOK(Prog(n), q, at)
    <2>1. RxEnded \subseteq RxEvents
      BY DEF RxEnded, RxEvents, ALL_RX_GOOD, ALL_RX_ERR, ALL_RX_TO
    <2>2. q.power # "TX" /\ q.ev \cap RxEnded = {}
      BY <1>1, <1>3, <2>1
    <2>3. at \notin {"polled", "await", "awaitReport", "sending", "reporting"}
      BY <1>5
    <2> QED
      BY <1>3, <2>2, <2>3 DEF EventOK, PendingOf
  <1>9. SentOK(n, Prog(n), q, at, d)
    BY <1>1 DEF SentOK
  <1>10. NodeOK(n, Prog(n), q, at, d)
    BY <1>6, <1>7, <1>8, <1>9 DEF NodeOK
  <1>11. q.power # "TX"
    BY <1>1
  <1> QED
    BY <1>3, <1>10, <1>11, RestNode

\* Setup.
LEMMA SetupStep ==
  ASSUME NodeInv, QuietInv, LastInv, NEW n \in Nodes, Setup(n)
  PROVE  Retires(n) \/ Stops(n) \/ Bystands(n)
  <1>1. PICK q \in SetupOf(n, r[n]) : Goto(n, q, IF q.err THEN "halted" ELSE FirstWait(n))
    BY DEF Setup
  <1>2. pc[n] = "setup" /\ h' = h
    BY DEF Setup
  <1>3. HasFields(r[n]) /\ DataOK(h[n])
    BY NodeIs
  <1>4. Ready(q)
    BY <1>3, SetUp
  <1>5. PICK at : at = IF q.err THEN "halted" ELSE FirstWait(n)
    OBVIOUS
  <1> DEFINE p == Rest(q, at)
  <1>6. Step(n, p, at, h[n])
    BY <1>1, <1>2, <1>5, GotoStep
  <1>7. NodeOK(n, Prog(n), p, at, h[n]) /\ p.power # "TX" /\ p.ev \cap RxEvents = {}
    BY <1>3, <1>4, <1>5, ReadyNode
  <1> HIDE DEF p
  <1>8. at = "halted" \/ (at = "poll" /\ n \in Initiators) \/ (at = "listen" /\ n \notin Initiators)
    BY <1>5 DEF FirstWait
  <1>9. n \in Initiators <=> IsInitiator(Prog(n))
    BY RolesAre
  <1>10. n \in Responders <=> IsResponder(Prog(n))
    BY RolesAre
  <1>11. CASE n \in Initiators
    <2>1. \A m \in Responders : ~Busy(m)
      BY <1>2, <1>11 DEF QuietInv
    <2>2. Kept(n, h[n])
      BY <1>8, <1>11 DEF LastInv, Kept
    <2>3. at \in {"pause", "stuck", "broken", "poll", "report", "halted"} /\ at # "stuck"
      BY <1>8, <1>11
    <2> QED
      BY <1>6, <1>7, <1>11, <2>1, <2>2, <2>3, Zenon DEF Stops
  <1>12. CASE n \in Responders
    <2>1. ~IsInitiator(Prog(n))
      BY <1>10, <1>12 DEF IsInitiator, IsResponder
    <2>2. at \in {"listen", "await", "stuck", "broken", "halted"}
      BY <1>8, <1>9, <2>1
    <2>3. ~PendingOf(p, at)
      BY <1>8 DEF PendingOf
    <2> QED
      BY <1>6, <1>7, <1>12, <2>2, <2>3, Zenon DEF Retires
  <1>13. CASE n \notin Initiators /\ n \notin Responders
    BY <1>6, <1>7, <1>13, Zenon DEF Bystands
  <1> QED
    BY <1>11, <1>12, <1>13

\* A poll is loaded and sent.
LEMMA PollSends ==
  ASSUME NodeInv, NEW n \in Nodes, IsInitiator(Prog(n)), pc[n] = "poll",
         NEW q, Changes(r[n], q, {"ev", "iv", "ivreg", "sts", "spc"}), q.ev \subseteq r[n].ev,
         NEW f, NEW w, NEW at, at = IF Prog(n) \in {"init_sts", "init_nd"} THEN "polled" ELSE "await",
         Goto(n, dwt_starttx(LoadFrame(q, f), w), at),
         at = "polled" => "TXFRS" \notin q.ev /\ w = FALSE,
         Prog(n) = "init_nd" => q.spc = "ND" /\ f = NoFrame,
         Prog(n) # "init_nd" => f.kind = "poll",
         NEW d, DataOK(d), (h' = h /\ d = h[n]) \/ h' = [h EXCEPT ![n] = d],
         d.last = h[n].last, d.cnt = h[n].cnt,
         Prog(n) = "init_aes" => /\ f.mac \in Macs /\ f.mac.cnt = d.cnt
                                 /\ d.mac \in Macs /\ d.mac.cnt = d.cnt
  PROVE  Polls(n)
  <1> DEFINE p == dwt_starttx(LoadFrame(q, f), w)
  <1>2. HasFields(r[n]) /\ NodeOK(n, Prog(n), r[n], pc[n], h[n]) /\ Timed(r[n])
    BY NodeIs
  <1>3. HasFields(q)
    BY <1>2, ChangesKeep
  <1>4. /\ Changes(q, p, SendChanges)
        /\ p.power = "TX" /\ p.txbuf = f /\ p.ev = q.ev \ {"HPDWARN"} /\ p.w4r = w
    <2>1. SentAtOnce(q, f, w, p)
      BY <1>3, StartIs
    <2> QED
      BY <2>1 DEF SentAtOnce
  <1>5. Goto(n, p, at)
    OBVIOUS
  <1> HIDE DEF p
  <1>6. p.spc = q.spc /\ p.dx = q.dx
    BY <1>3, <1>4, FieldsThere, Zenon DEF Changes, SendChanges
  <1>7. q.dx = r[n].dx
    BY <1>2, FieldsThere, Zenon DEF Changes
  <1>8. Changes(r[n], p, StepChanges)
    BY <1>4, ChangesAdd DEF StepChanges, SendChanges
  <1>9. p.dx \in Int /\ p.ev \subseteq r[n].ev
    BY <1>2, <1>4, <1>6, <1>7 DEF Timed
  <1>10. at # "await" => "TXFRS" \notin p.ev /\ p.w4r = FALSE
    BY <1>4
  <1>11. PlaceOK(Prog(n), at)
    BY DEF PlaceOK, IsInitiator, IsResponder
  <1>12. SentOK(n, Prog(n), p, at, d)
    <2>1. at \notin {"sending", "reporting"}
      OBVIOUS
    <2> QED
      BY <1>4, <2>1 DEF SentOK
  <1>13. r[n].ev \cap RxEnded = {}
    BY <1>2 DEF NodeOK, EventOK
  <1>14. Prog(n) = "init_nd" => p.spc = "ND"
    BY <1>6
  <1>15. Prog(n) # "resp_nd"
    BY DEF IsInitiator
  <1>16. Rest(p, at) = p /\ NodeOK(n, Prog(n), p, at, d)
    <2>1. pc[n] \notin {"setup", "halted"}
      OBVIOUS
    <2>2. p.power = "TX"
      BY <1>4
    <2> QED
      <3>1. r[n].ev \cap RxEvents = {} \/ IsResponder(Prog(n)) \/ r[n].ev \cap RxEnded = {}
        BY <1>13
      <3>2. \/ IsInitiator(Prog(n)) /\ at = (IF Prog(n) \in {"init_sts", "init_nd"} THEN "polled" ELSE "await")
            \/ IsResponder(Prog(n)) /\ at \in {"sending", "reporting"} /\ p.delayed = TRUE
        OBVIOUS
      <3>3. Prog(n) = "resp_nd" => p.spc = IF at = "sending" THEN "ND" ELSE "OFF"
        BY <1>15
      <3> QED
        BY ONLY <1>2, <2>1, <2>2, <1>8, <1>9, <1>10, <1>11, <1>12, <1>14, <3>1, <3>2, <3>3,
           DataOK(d), SendStep
  <1>17. Step(n, p, at, d)
    BY <1>5, <1>16, GotoStep
  <1>90. n \in Initiators
    BY RolesAre
  <1> QED
    BY <1>90, <1>4, <1>16, <1>17, Zenon DEF Polls

\* ex_06a_poll, UWB_poll.
LEMMA PlainPolls ==
  ASSUME NodeInv, NEW n \in Nodes, ex_06a_poll(n) \/ UWB_poll(n)
  PROVE  Polls(n)
  <1> DEFINE f == Message(n, "poll", <<0, 0>>)
             q == ClearEvents(r[n], {"TXFRS"})
  <1>1. /\ Prog(n) \in {"init", "tag"} /\ pc[n] = "poll"
        /\ Goto(n, dwt_starttx(LoadFrame(q, f), TRUE), "await") /\ h' = h
    BY DEF ex_06a_poll, UWB_poll, At
  <1>2. IsInitiator(Prog(n)) /\ Prog(n) \notin {"init_sts", "init_nd", "init_aes"}
    BY <1>1 DEF IsInitiator
  <1>3. Changes(r[n], q, {"ev"}) /\ q.ev = r[n].ev \ {"TXFRS"}
    BY ClearedIs
  <1>4. f.kind = "poll"
    BY DEF Message
  <1>5. DataOK(h[n])
    BY NodeIs
  <1> HIDE DEF f, q
  <1>6. Changes(r[n], q, {"ev", "iv", "ivreg", "sts", "spc"}) /\ q.ev \subseteq r[n].ev
    <2>1. Changes(r[n], q, {"ev", "iv", "ivreg", "sts", "spc"})
      BY <1>3, Zenon DEF Changes
    <2> QED
      BY <1>3, <2>1
  <1>7. PICK at : at = "await"
    OBVIOUS
  <1> QED
    BY <1>1, <1>2, <1>4, <1>5, <1>6, <1>7, PollSends

\* ex_06a_sts_poll, ex_06a_no_data_poll.
LEMMA StsPolls ==
  ASSUME NodeInv, NEW n \in Nodes, ex_06a_sts_poll(n) \/ ex_06a_no_data_poll(n)
  PROVE  Polls(n)
  <1>1. PICK a, f :
          /\ \/ Prog(n) = "init_sts" /\ a = r[n] /\ f = Message(n, "poll", <<0, 0>>)
             \/ Prog(n) = "init_nd" /\ a = dwt_configurestsmode(r[n], "ND") /\ f = NoFrame
          /\ pc[n] = "poll" /\ h' = h
          /\ Goto(n, send_tx_poll_msg(ReloadIV(a), f), "polled")
    BY Zenon DEF ex_06a_sts_poll, ex_06a_no_data_poll, At
  <1>2. HasFields(r[n]) /\ DataOK(h[n])
    BY NodeIs
  <1>3. Changes(r[n], a, {"sts", "spc"}) /\ (Prog(n) = "init_nd" => a.spc = "ND")
    BY <1>1, <1>2, StsModeIs, ChangesNone
  <1>4. HasFields(a)
    BY <1>2, <1>3, ChangesKeep
  <1> DEFINE b == ReloadIV(a)
             q == ClearEvents(b, {"TXFRS"})
  <1>5. Changes(a, b, {"iv", "ivreg"})
    BY <1>4, ReloadIs
  <1>6. HasFields(b)
    BY <1>4, <1>5, ChangesKeep
  <1>7. Goto(n, dwt_starttx(LoadFrame(q, f), FALSE), "polled")
    BY <1>1 DEF send_tx_poll_msg
  <1> HIDE DEF b
  <1>8. Changes(b, q, {"ev"}) /\ q.ev = b.ev \ {"TXFRS"}
    BY <1>6, ClearIs
  <1> HIDE DEF q
  <1>9. a.ev = r[n].ev
    BY <1>2, <1>3, FieldsThere, Zenon DEF Changes
  <1>10. b.ev = a.ev /\ b.spc = a.spc
    BY <1>4, <1>5, FieldsThere, Zenon DEF Changes
  <1>11. q.spc = b.spc
    BY <1>6, <1>8, FieldsThere, Zenon DEF Changes
  <1>12. Changes(r[n], b, {"iv", "ivreg", "sts", "spc"})
    BY <1>3, <1>5, ChangesAdd
  <1>13. Changes(r[n], q, {"ev", "iv", "ivreg", "sts", "spc"}) /\ q.ev \subseteq r[n].ev
    BY <1>8, <1>9, <1>10, <1>12, ChangesAdd
  <1>14. "TXFRS" \notin q.ev /\ (Prog(n) = "init_nd" => q.spc = "ND")
    BY <1>3, <1>8, <1>10, <1>11
  <1>15. Prog(n) \in {"init_sts", "init_nd"} /\ Prog(n) # "init_aes" /\ IsInitiator(Prog(n))
    BY <1>1 DEF IsInitiator
  <1>16. (Prog(n) = "init_nd" => f = NoFrame) /\ (Prog(n) # "init_nd" => f.kind = "poll")
    BY <1>1 DEF Message
  <1>17. PICK at : at = "polled"
    OBVIOUS
  <1> QED
    BY <1>1, <1>2, <1>7, <1>13, <1>14, <1>15, <1>16, <1>17, PollSends

\* The header of a poll.
LEMMA AddressedIs ==
  ASSUME NEW mac \in Macs
  PROVE  LET m == mac_frame_set_pan_ids_and_addresses(
                    [mac EXCEPT !.key = Key.initiator], Address.responder, Address.initiator)
         IN  /\ m \in Macs /\ m.cnt = mac.cnt
             /\ m.src = Address.initiator /\ m.dst = Address.responder
  <1>1. Key.initiator = 1 /\ Address.initiator = 1 /\ Address.responder = 2
    BY DEF Key, Address
  <1> DEFINE a == [mac EXCEPT !.key = 1]
             b == [a EXCEPT !.dst = 2, !.src = 1]
  <1>2. mac_frame_set_pan_ids_and_addresses(
          [mac EXCEPT !.key = Key.initiator], Address.responder, Address.initiator) = b
    BY <1>1, Zenon DEF mac_frame_set_pan_ids_and_addresses
  <1>3. a \in Macs /\ a.cnt = mac.cnt
    BY DEF Macs
  <1> HIDE DEF a
  <1>4. b \in Macs /\ b.cnt = a.cnt /\ b.dst = 2 /\ b.src = 1
    BY <1>3 DEF Macs
  <1> HIDE DEF b
  <1> QED
    BY <1>1, <1>2, <1>3, <1>4

\* An exchange is over, with the radio idle.
LEMMA StopsIdle ==
  ASSUME NodeInv, NEW n \in Nodes, IsInitiator(Prog(n)), pc[n] \notin {"setup", "halted"},
         r[n].power = "IDLE",
         NEW p, Changes(r[n], p, {"ev"}), p.ev \subseteq r[n].ev,
         NEW at \in {"pause", "stuck", "broken", "poll"}, at # "stuck" => p.ev \cap RxEnded = {},
         Goto(n, p, at), NEW d, DataOK(d), (h' = h /\ d = h[n]) \/ h' = [h EXCEPT ![n] = d],
         Kept(n, d), at = "poll" => \A m \in Responders : ~Busy(m),
         at = "stuck" => r[n].reg.frame = Foreign
  PROVE  Stops(n)
  <1> DEFINE w == Rest(p, at)
  <1>1. Step(n, w, at, d)
    BY GotoStep
  <1>2. PlaceOK(Prog(n), at)
    BY DEF PlaceOK, IsInitiator, IsResponder
  <1>3. ~IsResponder(Prog(n))
    BY DEF IsInitiator, IsResponder
  <1>4. HasFields(r[n]) /\ Timed(r[n]) /\ NodeOK(n, Prog(n), r[n], pc[n], h[n])
    BY NodeIs
  <1>5. p.power = "IDLE" /\ p.dx = r[n].dx
    BY <1>4, FieldsThere, Zenon DEF Changes
  <1>6. Changes(r[n], p, StepChanges)
    BY Zenon DEF Changes, StepChanges, SendChanges
  <1>7. NodeOK(n, Prog(n), w, at, d) /\ w.power = "IDLE"
    <2>1. p.dx \in Int /\ p.ev \subseteq r[n].ev \cup {"HPDWARN"}
      BY <1>4, <1>5 DEF Timed
    <2>2. at \in {"listen", "pause", "poll", "report", "stuck", "broken"}
      OBVIOUS
    <2>3. IsResponder(Prog(n)) => "TXFRS" \notin p.ev
      BY <1>3
    <2>4. IsInitiator(Prog(n)) /\ at # "stuck" => p.ev \cap RxEnded = {}
      OBVIOUS
    <2>5. p.power = "IDLE"
      BY <1>5
    <2> QED
      BY ONLY <1>2, <1>4, <1>6, <2>1, <2>2, <2>3, <2>4, <2>5, pc[n] \notin {"setup", "halted"},
         DataOK(d), IdleStep DEF w
  <1>9. at = "stuck" => w.reg.frame = Foreign
    <2>1. p.reg = r[n].reg
      BY <1>4, FieldsThere, Zenon DEF Changes
    <2>2. at = "stuck" => w = p
      BY <1>5 DEF Rest, Settled
    <2> HIDE DEF w
    <2> QED
      BY <2>1, <2>2
  <1> HIDE DEF w
  <1>8. w.power # "TX" /\ at \in {"pause", "stuck", "broken", "poll", "report", "halted"}
        /\ (at \in {"poll", "report"} => \A m \in Responders : ~Busy(m))
    BY <1>7
  <1>90. n \in Initiators
    BY RolesAre
  <1> QED
    BY <1>90, <1>1, <1>7, <1>8, <1>9, Zenon DEF Stops

\* A poll is sealed and opens: the header is always one that can be.  The
\* program stops if the engine fails.
LEMMA AesPolls ==
  ASSUME NodeInv, LastInv, NEW n \in Nodes, ex_06e_poll(n)
  PROVE  Polls(n) \/ Stops(n)
  <1> DEFINE mac == mac_frame_set_pan_ids_and_addresses(
                      [h[n].mac EXCEPT !.key = Key.initiator],
                      Address.responder, Address.initiator)
             Poll(engine) == Sealed(n, "poll", mac, <<0, 0>>, engine)
             d == [h[n] EXCEPT !.mac = mac]
  <1>1. /\ Prog(n) = "init_aes" /\ pc[n] = "poll"
        /\ h' = [h EXCEPT ![n].mac = mac]
    BY Zenon DEF ex_06e_poll, At
  <1>16. PICK engine \in EngineResults :
           IF Poll(engine).failed THEN Goto(n, r[n], StopAt(Poll(engine).ret \in EngineErrors))
           ELSE Goto(n, dwt_starttx(LoadFrame(r[n], Poll(engine).frame), TRUE), "await")
    BY Zenon DEF ex_06e_poll
  <1>2. IsInitiator(Prog(n)) /\ n \in Initiators
    BY <1>1 DEF IsInitiator, Initiators
  <1>3. h[n].mac \in Macs /\ h[n].mac.cnt = h[n].cnt
    BY <1>1, <1>2 DEF LastInv
  <1>4. mac \in Macs /\ mac.cnt = h[n].cnt
    BY <1>3, AddressedIs
  <1> HIDE DEF mac
  <1>5. /\ ~Poll("OK").failed /\ Poll("OK").frame.mac = mac
        /\ \A e \in EngineErrors : Poll(e) = [failed |-> TRUE, ret |-> e]
    <2>1. "poll" \in {"poll", "resp"}
      OBVIOUS
    <2>2. PICK stamps : stamps = <<0, 0>>
      OBVIOUS
    <2> DEFINE Sealing(e) == Sealed(n, "poll", mac, stamps, e)
    <2>3. /\ ~Sealing("OK").failed /\ Sealing("OK").frame.mac = mac
          /\ \A e \in EngineErrors : Sealing(e) = [failed |-> TRUE, ret |-> e]
      BY <1>4, <2>1, SealedIs
    <2>4. \A e : Poll(e) = Sealing(e)
      BY <2>2
    <2> HIDE DEF Poll, Sealing
    <2> QED
      BY <2>3, <2>4
  <1>6. Poll("OK").frame.kind = "poll"
    BY <1>5, SealedSays
  <1>7. engine = "OK" => Goto(n, dwt_starttx(LoadFrame(r[n], Poll("OK").frame), TRUE), "await")
    BY <1>5, <1>16
  <1>17. engine # "OK" => Goto(n, r[n], "broken")
    <2> HIDE DEF Poll
    <2>1. engine # "OK" => engine \in EngineErrors
      BY DEF EngineResults
    <2>2. engine # "OK" => Poll(engine).failed /\ StopAt(Poll(engine).ret \in EngineErrors) = "broken"
      BY <1>5, <2>1 DEF StopAt
    <2> QED
      BY <1>16, <2>2
  <1>8. DataOK(h[n]) /\ HasFields(r[n])
    BY NodeIs
  <1>9. DataOK(d) /\ d.last = h[n].last /\ d.cnt = h[n].cnt /\ d.mac = mac
    <2>1. DOMAIN d = DOMAIN h[n] /\ d.last = h[n].last /\ d.cnt = h[n].cnt /\ d.mac = mac
      BY <1>8, Zenon DEF DataOK
    <2> HIDE DEF d
    <2> QED
      BY <1>8, <2>1 DEF DataOK
  <1>10. h' = [h EXCEPT ![n] = d]
    BY <1>1, Zenon
  <1> HIDE DEF Poll, d
  <1>18. CASE engine # "OK"
    <2>1. NodeOK(n, Prog(n), r[n], pc[n], h[n])
      BY NodeIs
    <2>2. r[n].power = "IDLE"
      BY <1>1, <1>2, <2>1, IdleAt
    <2>3. r[n].ev \cap RxEnded = {}
      BY <1>1, <1>2, <2>1 DEF NodeOK, EventOK
    <2>4. Kept(n, d)
      BY <1>2, <1>4, <1>9 DEF Kept, LastInv
    <2>5. Changes(r[n], r[n], {"ev"}) /\ r[n].ev \subseteq r[n].ev
      BY ChangesNone
    <2>6. PICK p, at : p = r[n] /\ at = "broken"
      OBVIOUS
    <2> QED
      BY <1>1, <1>2, <1>9, <1>10, <1>17, <1>18, <2>2, <2>3, <2>4, <2>5, <2>6, StopsIdle
  <1>19. CASE engine = "OK"
    <2>1. PICK f, at : f = Poll("OK").frame /\ at = "await"
      OBVIOUS
    <2>2. Changes(r[n], r[n], {"ev", "iv", "ivreg", "sts", "spc"}) /\ r[n].ev \subseteq r[n].ev
      BY ChangesNone
    <2>3. Goto(n, dwt_starttx(LoadFrame(r[n], f), TRUE), at)
      BY <1>7, <1>19, <2>1
    <2>4. /\ Prog(n) # "init_nd" /\ Prog(n) \notin {"init_sts", "init_nd"} /\ at # "polled"
          /\ f.kind = "poll" /\ f.mac \in Macs /\ f.mac.cnt = d.cnt
          /\ d.mac \in Macs /\ d.mac.cnt = d.cnt
      BY <1>1, <1>4, <1>5, <1>6, <1>9, <2>1
    <2> QED
      BY <1>1, <1>2, <1>9, <1>10, <2>1, <2>2, <2>3, <2>4, PollSends
  <1> QED
    BY <1>18, <1>19

\* A receiver that is switched on for a time after the last frame.
Opened(n, at, d) ==
  \E p : /\ Step(n, p, at, d) /\ NodeOK(n, Prog(n), p, at, d)
         /\ p.power = "RX" /\ p.ev \cap RxEvents = {} /\ p.txtime = r[n].txtime

\* The receiver is opened.
LEMMA OpensLater ==
  ASSUME NodeInv, NEW n \in Nodes, pc[n] \notin {"setup", "halted"}, r[n].power = "IDLE",
         ~IsResponder(Prog(n)),
         NEW q, Changes(r[n], q, {"timeout", "ev", "sts", "spc"}), q.ev \subseteq r[n].ev,
         NEW late \in BOOLEAN, NEW delay \in Int, NEW c, c.plen \in Int, c.stsLength \in Int,
         NEW at \in {"await", "awaitReport"}, PlaceOK(Prog(n), at),
         Goto(n, DelayedListening(q, delay, c, late), at),
         Prog(n) = "init_nd" => q.spc = IF at = "await" THEN "ND" ELSE "OFF",
         NEW d, DataOK(d), (h' = h /\ d = h[n]) \/ h' = [h EXCEPT ![n] = d]
  PROVE  Opened(n, at, d)
  <1> DEFINE p == DelayedListening(q, delay, c, late)
             w == Rest(p, at)
             time == Ticks(delay - (IF c.plen = 4096 THEN 2048 ELSE c.plen) + StsTime(c)) \div DelayUnit
  <1>1. HasFields(r[n]) /\ NodeOK(n, Prog(n), r[n], pc[n], h[n])
    BY NodeIs
  <1>2. HasFields(q)
    BY <1>1, ChangesKeep
  <1>3. q.power = r[n].power
    BY <1>1, FieldsThere, Zenon DEF Changes
  <1>4. Changes(q, p, DelayedChanges) /\ p.power = "RX"
        /\ p.ev \subseteq (q.ev \cup {"HPDWARN"}) \ RxEvents /\ "TXFRS" \notin p.ev /\ p.dx = time
    <2>1. q.power = "IDLE"
      BY <1>3
    <2> QED
      BY ONLY <1>2, <2>1, late \in BOOLEAN, DelayedListeningIs DEF p, time
  <1>5. time \in Int
    <2>1. Uus \in Nat \ {0} /\ DelayUnit \in Nat \ {0}
      BY RangingAssumption DEF RangingAssumption
    <2>2. ASSUME NEW x \in Int
          PROVE  (x \div Uus) \div DelayUnit \in Int
      BY <2>1
    <2>3. delay - (IF c.plen = 4096 THEN 2048 ELSE c.plen) + c.stsLength \in Int
      OBVIOUS
    <2> DEFINE e == delay - (IF c.plen = 4096 THEN 2048 ELSE c.plen) + c.stsLength
    <2>4. e \in Int
      BY <2>3
    <2>5. time = (e \div Uus) \div DelayUnit
      BY DEF Ticks, StsTime
    <2> HIDE DEF e, time
    <2> QED
      BY <2>2, <2>4, <2>5
  <1>6. Step(n, w, at, d)
    BY GotoStep
  <1> HIDE DEF p, time
  <1>7. p.spc = q.spc
    BY <1>2, <1>4, FieldsThere, Zenon DEF Changes, DelayedChanges
  <1>8. Changes(r[n], p, StepChanges)
    BY <1>4, ChangesAdd DEF StepChanges, SendChanges, DelayedChanges
  <1>9. p.dx \in Int /\ p.ev \subseteq (r[n].ev \cup {"HPDWARN"}) \ RxEvents
    BY <1>4, <1>5
  <1>10. Prog(n) \in {"init_nd", "resp_nd"} => p.spc = IF at = "await" THEN "ND" ELSE "OFF"
    BY <1>7 DEF IsResponder
  <1>11. NodeOK(n, Prog(n), w, at, d) /\ w.power = "RX" /\ w.ev \cap RxEvents = {}
         /\ w.txtime = r[n].txtime
    <2>1. p.power = "RX"
      BY <1>4
    <2>2. IsResponder(Prog(n)) => "TXFRS" \notin p.ev
      OBVIOUS
    <2> QED
      BY ONLY <1>1, <1>8, <1>9, <1>10, <2>1, <2>2, pc[n] \notin {"setup", "halted"},
         at \in {"await", "awaitReport"}, PlaceOK(Prog(n), at), DataOK(d), ListenStep, SMTT(30) DEF w
  <1> HIDE DEF w
  <1> QED
    BY <1>6, <1>11, Zenon DEF Opened

\* The lengths of a preamble and of an STS are numbers.
LEMMA ConfigsAre ==
  \A c \in {config_options, config_option_sp3, config_option_sp0} :
     c.plen \in Int /\ c.stsLength \in Int
  BY DEF config_options, Option33, config_option_sp3, config_option_sp0, Config

\* A poll was sent, and the receiver is opened for its answer.
LEMMA HearkensLater ==
  ASSUME NodeInv, NEW n \in Nodes, Prog(n) \in {"init_sts", "init_nd"}, pc[n] = "polled",
         "TXFRS" \in r[n].ev, h' = h,
         NEW q, Changes(r[n], q, {"timeout"}), NEW delay \in Int,
         NEW c \in {config_options, config_option_sp3, config_option_sp0}, NEW late \in BOOLEAN,
         Goto(n, DelayedListening(q, delay, c, late), "await")
  PROVE  Hearkens(n)
  <1>2. HasFields(r[n]) /\ DataOK(h[n]) /\ NodeOK(n, Prog(n), r[n], pc[n], h[n])
    BY NodeIs
  <1>3. IsInitiator(Prog(n)) /\ ~IsResponder(Prog(n))
    BY DEF IsInitiator, IsResponder
  <1>4. r[n].power = "IDLE"
    BY <1>2, <1>3, IdleAt
  <1>6. q.ev = r[n].ev /\ q.spc = r[n].spc
    BY <1>2, FieldsThere, Zenon DEF Changes
  <1>7. Changes(r[n], q, {"timeout", "ev", "sts", "spc"})
    BY Zenon DEF Changes
  <1>8. PICK at : at = "await"
    OBVIOUS
  <1>9. Prog(n) = "init_nd" => q.spc = IF at = "await" THEN "ND" ELSE "OFF"
    BY <1>2, <1>6, <1>8 DEF NodeOK, EventOK
  <1>10. PlaceOK(Prog(n), at) /\ at \in {"await", "awaitReport"}
    BY <1>3, <1>8 DEF PlaceOK
  <1>11. Opened(n, at, h[n])
    <2>1. c.plen \in Int /\ c.stsLength \in Int
      BY ConfigsAre
    <2>2. pc[n] \notin {"setup", "halted"} /\ q.ev \subseteq r[n].ev
      BY <1>6
    <2>3. Goto(n, DelayedListening(q, delay, c, late), at)
      BY <1>8
    <2> QED
      BY <1>2, <1>3, <1>4, <1>7, <1>9, <1>10, <2>1, <2>2, <2>3, OpensLater
  <1>12. Live(n)
    BY <1>4 DEF Live
  <1>90. n \in Initiators
    BY <1>3, RolesAre
  <1> QED
    BY <1>90, <1>8, <1>11, <1>12, Zenon DEF Opened, Hearkens

\* ex_06a_sts_polled.
LEMMA StsHearkens ==
  ASSUME NodeInv, NEW n \in Nodes, ex_06a_sts_polled(n)
  PROVE  Hearkens(n)
  <1>1. /\ Prog(n) = "init_sts" /\ pc[n] = "polled" /\ "TXFRS" \in r[n].ev /\ h' = h
        /\ \E late \in BOOLEAN : Goto(n, DelayedListening(r[n], 700, config_options, late), "await")
    BY DEF ex_06a_sts_polled, At, Happened
  <1>2. Changes(r[n], r[n], {"timeout"})
    BY ChangesNone
  <1> QED
    BY <1>1, <1>2, HearkensLater

\* ex_06a_no_data_polled.
LEMMA NoDataHearkens ==
  ASSUME NodeInv, NEW n \in Nodes, ex_06a_no_data_polled(n)
  PROVE  Hearkens(n)
  <1> DEFINE q == set_resp_rx_timeout(r[n], 700, config_option_sp3)
  <1>1. /\ Prog(n) = "init_nd" /\ pc[n] = "polled" /\ "TXFRS" \in r[n].ev /\ h' = h
        /\ \E late \in BOOLEAN : Goto(n, DelayedListening(q, 850, config_option_sp3, late), "await")
    BY DEF ex_06a_no_data_polled, At, Happened
  <1>2. Changes(r[n], q, {"timeout"})
    BY NodeIs, RespTimeoutIs
  <1> HIDE DEF q
  <1> QED
    BY <1>1, <1>2, HearkensLater

\* ex_06a_no_data_take, when an answer has come.
LEMMA NoDataAwaits ==
  ASSUME NodeInv, NEW n \in Nodes, ex_06a_no_data_take(n),
         Happened(n, {"RXFR"}), GoodSts(r[n])
  PROVE  AwaitsReport(n)
  <1> DEFINE a == ClearEvents(r[n], ALL_RX_GOOD)
             q == dwt_configurestsmode(a, "OFF")
             delay == 850 + 1050
             d == [h[n] EXCEPT !.saved = Stamps(r[n])]
  <1>1. /\ Prog(n) = "init_nd" /\ pc[n] = "await" /\ "RXFR" \in r[n].ev
        /\ h' = [h EXCEPT ![n].saved = Stamps(r[n])]
        /\ \E late \in BOOLEAN :
             Goto(n, DelayedListening(q, delay, config_option_sp0, late), "awaitReport")
    BY DEF ex_06a_no_data_take, At, Happened
  <1>2. HasFields(r[n]) /\ DataOK(h[n]) /\ NodeOK(n, Prog(n), r[n], pc[n], h[n])
    BY NodeIs
  <1>3. IsInitiator(Prog(n)) /\ ~IsResponder(Prog(n))
    BY <1>1 DEF IsInitiator, IsResponder
  <1>4. r[n].power = "IDLE"
    <2>1. r[n].ev \cap RxEvents # {}
      BY <1>1 DEF RxEvents, ALL_RX_GOOD
    <2> QED
      BY <1>1, <1>2, <2>1, IdleAt
  <1>5. Changes(r[n], a, {"ev"}) /\ a.ev = r[n].ev \ ALL_RX_GOOD /\ HasFields(a)
    BY ClearedIs
  <1> HIDE DEF a
  <1>6. Changes(a, q, {"sts", "spc"}) /\ q.spc = "OFF"
    BY <1>5, StsModeIs
  <1> HIDE DEF q
  <1>7. Changes(r[n], q, {"timeout", "ev", "sts", "spc"})
    BY <1>5, <1>6, ChangesAdd
  <1>8. q.ev = a.ev
    BY <1>5, <1>6, FieldsThere, Zenon DEF Changes
  <1>9. PICK at : at = "awaitReport"
    OBVIOUS
  <1>10. PlaceOK(Prog(n), at) /\ at \in {"await", "awaitReport"} /\ at # "await"
    BY <1>1, <1>3, <1>9 DEF PlaceOK
  <1>11. h' = [h EXCEPT ![n] = d]
    BY <1>1, Zenon
  <1>12. DataOK(d) /\ d.last = h[n].last /\ d.cnt = h[n].cnt /\ d.saved = Stamps(r[n])
    <2>1. DOMAIN d = DOMAIN h[n] /\ d.last = h[n].last /\ d.cnt = h[n].cnt /\ d.saved = Stamps(r[n])
      BY <1>2, Zenon DEF DataOK
    <2> HIDE DEF d
    <2> QED
      BY <1>2, <2>1 DEF DataOK
  <1> HIDE DEF d
  <1>13. Opened(n, at, d)
    <2>1. config_option_sp0.plen \in Int /\ config_option_sp0.stsLength \in Int
      BY ConfigsAre
    <2>2. pc[n] \notin {"setup", "halted"} /\ q.ev \subseteq r[n].ev /\ delay \in Int
      BY <1>1, <1>5, <1>8
    <2>3. PICK late \in BOOLEAN : Goto(n, DelayedListening(q, delay, config_option_sp0, late), at)
      BY <1>1, <1>9
    <2>4. Prog(n) = "init_nd" => q.spc = IF at = "await" THEN "ND" ELSE "OFF"
      BY <1>6, <1>10
    <2> HIDE DEF delay
    <2> QED
      BY <1>3, <1>4, <1>7, <1>10, <1>11, <1>12, <2>1, <2>2, <2>3, <2>4, OpensLater
  <1>14. Live(n)
    BY <1>1, <1>4 DEF Live
  <1>90. n \in Initiators
    BY <1>3, RolesAre
  <1> QED
    BY <1>90, <1>1, <1>9, <1>12, <1>13, <1>14, Zenon DEF Opened, AwaitsReport

\* Of the ends of a reception one kind is up.
LEMMA EndsCleared ==
  ASSUME NEW q, Eventful(q), NEW E,
         \/ "RXFCG" \in q.ev /\ "RXFCG" \in E
         \/ "RXFCG" \notin q.ev /\ ALL_RX_TO \cup ALL_RX_ERR \subseteq E
         \/ RxEnded \subseteq E
  PROVE  (q.ev \ E) \cap RxEnded = {}
  <1>1. RxEnded = {"RXFCG"} \cup (ALL_RX_ERR \cup ALL_RX_TO)
    BY DEF RxEnded
  <1>2. "RXFCG" \in q.ev => q.ev \cap (ALL_RX_ERR \cup ALL_RX_TO) = {}
    BY DEF Eventful, ALL_RX_GOOD
  <1> QED
    BY <1>1, <1>2

\* A reception has ended for an initiator.
LEMMA EndedIs ==
  ASSUME NodeInv, NEW n \in Nodes, IsInitiator(Prog(n)), pc[n] = "await",
         Happened(n, RxEnded) \/ (Prog(n) = "init_nd" /\ Happened(n, NdEnded))
  PROVE  r[n].power = "IDLE"
  <1>1. NodeOK(n, Prog(n), r[n], pc[n], h[n])
    BY NodeIs
  <1>2. Happened(n, RxEnded) => r[n].ev \cap RxEnded # {}
    BY DEF Happened
  <1>3. Happened(n, NdEnded) => r[n].ev \cap RxEvents # {}
    BY DEF Happened, NdEnded, RxEvents, ALL_RX_GOOD, ALL_RX_ERR, ALL_ND_RX_ERR
  <1> QED
    BY <1>1, <1>2, <1>3, IdleAt

\* The exchange is over when a reception has ended.
LEMMA StopsCleared ==
  ASSUME NodeInv, NEW n \in Nodes, IsInitiator(Prog(n)),
         pc[n] = "await" \/ pc[n] = "awaitReport", r[n].power = "IDLE",
         NEW E, \/ "RXFCG" \in r[n].ev /\ "RXFCG" \in E
                \/ "RXFCG" \notin r[n].ev /\ ALL_RX_TO \cup ALL_RX_ERR \subseteq E
                \/ RxEnded \subseteq E,
         NEW at \in {"pause", "stuck", "broken"}, Goto(n, ClearEvents(r[n], E), at),
         NEW d, DataOK(d), (h' = h /\ d = h[n]) \/ h' = [h EXCEPT ![n] = d], Kept(n, d),
         at = "stuck" => r[n].reg.frame = Foreign
  PROVE  Stops(n)
  <1> DEFINE p == ClearEvents(r[n], E)
  <1>1. Changes(r[n], p, {"ev"}) /\ p.ev = r[n].ev \ E
    BY ClearedIs
  <1>2. Eventful(r[n])
    BY NodeIs
  <1>3. (r[n].ev \ E) \cap RxEnded = {}
    BY <1>2, EndsCleared
  <1>4. Goto(n, p, at)
    OBVIOUS
  <1> HIDE DEF p
  <1>5. p.ev \subseteq r[n].ev /\ (at # "stuck" => p.ev \cap RxEnded = {})
        /\ at \in {"pause", "stuck", "broken", "poll"} /\ pc[n] \notin {"setup", "halted"}
        /\ (at = "poll" => \A m \in Responders : ~Busy(m))
    BY <1>1, <1>3
  <1> QED
    BY <1>1, <1>4, <1>5, StopsIdle

\* What CastAssumption says of the cast that is playing.
LEMMA CastIs ==
  ASSUME NodeInv
  PROVE  /\ cast \in Casts /\ OneExchange(cast) /\ ExchangeIsShort(cast)
         /\ \A n \in Nodes : cast.noise[n] \in SUBSET Int /\ cast.clock[n] \in Int
         /\ \A n, m \in Nodes : Distance(n, m) \in Nat /\ Distance(n, m) = Distance(m, n)
         /\ cast.times \subseteq Int
  <1>1. cast \in Casts
    BY DEF NodeInv
  <1>2. /\ cast.clock \in [Nodes -> Int] /\ cast.flight \in [Nodes -> Nat]
        /\ cast.noise \in [Nodes -> SUBSET Int] /\ cast.times \subseteq Int
        /\ OneExchange(cast) /\ ExchangeIsShort(cast)
    BY <1>1, CastAssumption DEF CastAssumption
  <1>3. Nodes \subseteq Nat
    BY RangingAssumption DEF RangingAssumption
  <1>4. ASSUME NEW n \in Nodes, NEW m \in Nodes
        PROVE  Distance(n, m) \in Nat /\ Distance(n, m) = Distance(m, n)
    <2>1. n \in Nat /\ m \in Nat
      BY <1>3
    <2>2. Distance(n, m) = Distance(m, n)
      <3>1. CASE n > m
        BY <2>1, <3>1 DEF Distance
      <3>2. CASE m > n
        BY <2>1, <3>2 DEF Distance
      <3>3. CASE m = n
        BY <3>3 DEF Distance
      <3> QED
        BY <2>1, <3>1, <3>2, <3>3
    <2>3. Distance(n, m) \in Nat
      BY <1>2 DEF Distance
    <2> QED
      BY <2>2, <2>3
  <1> QED
    BY <1>1, <1>2, <1>4

\* A reading of four stamps of one exchange.
LEMMA ReadingOK ==
  ASSUME NodeInv, NEW n \in Nodes, NEW m \in Responders, NEW own, NEW frame, frame.from = m,
         Paired(n, m, own, frame.stamps)
  PROVE  LastOK(n, Reading(n, own, frame))
  <1> DEFINE x == Reading(n, own, frame)
  <1>1. x.from = m /\ x.twice = TwiceFlight(own[1], own[2], frame.stamps[1], frame.stamps[2])
    BY DEF Reading, resp_msg_get_ts
  <1>2. PICK a \in cast.noise[m], b \in cast.noise[n] :
          TwiceFlight(own[1], own[2], frame.stamps[1], frame.stamps[2]) = 2 * Distance(n, m) + a + b
    BY DEF Paired
  <1> HIDE DEF x
  <1>3. m \in Nodes
    BY DEF Responders
  <1>4. a \in Int /\ b \in Int /\ Distance(n, m) \in Int
    BY <1>3, CastIs
  <1>5. x.twice = 2 * Distance(n, m) + b + a
    BY <1>1, <1>2, <1>4
  <1> QED
    BY <1>1, <1>5 DEF LastOK, x

\* What is kept of the data that a step leaves alone.
LEMMA KeptAsIs ==
  ASSUME LastInv, NEW n \in Initiators
  PROVE  Kept(n, h[n])
  BY DEF LastInv, Kept

\* A step that replaces the last reading.
LEMMA KeptLast ==
  ASSUME NodeInv, NEW n \in Initiators, Prog(n) # "init_aes", NEW last, LastOK(n, last)
  PROVE  LET d == [h[n] EXCEPT !.last = last] IN DataOK(d) /\ Kept(n, d)
  <1> DEFINE d == [h[n] EXCEPT !.last = last]
  <1>1. DataOK(h[n])
    BY NodeIs DEF Initiators
  <1>2. DOMAIN d = DOMAIN h[n] /\ d.last = last /\ d.cnt = h[n].cnt
    BY <1>1, Zenon DEF DataOK
  <1> HIDE DEF d
  <1>3. DataOK(d) /\ Kept(n, d)
    BY <1>1, <1>2 DEF DataOK, Kept
  <1> QED
    BY <1>3 DEF d

\* An answer that has the expected prefix is one that was heard.
LEMMA AcceptIs ==
  ASSUME NodeInv, HeardInv, LastInv, NEW n \in Initiators, Prog(n) \notin {"init_nd", "init_aes"},
         pc[n] = "await", "RXFCG" \in r[n].ev, AcceptAnswer(n, "resp")
  PROVE  \E d : /\ DataOK(d) /\ Kept(n, d)
                /\ (h' = h /\ d = h[n]) \/ h' = [h EXCEPT ![n] = d]
  <1>1. n \in Nodes
    BY DEF Initiators
  <1>2. Single(r[n]) /\ DataOK(h[n])
    BY <1>1, NodeIs
  <1> DEFINE frame == r[n].reg.frame
  <1>3. dwt_readrxdata(r[n]) = frame
    BY <1>2, ReadsIs
  <1>4. CASE h' = h
    BY <1>2, <1>4, KeptAsIs
  <1>5. CASE Expected(n, frame, "resp") /\ h' = [h EXCEPT ![n].last = Reading(n, Stamps(r[n]), frame)]
    <2>1. HeardOK(n)
      BY DEF HeardInv
    <2>2. frame # Foreign
      BY <1>1, <1>5, ExpectedIs
    <2>3. frame.from \in Responders /\ Paired(n, frame.from, Stamps(r[n]), frame.stamps)
      BY <2>1, <2>2 DEF HeardOK
    <2> DEFINE last == Reading(n, Stamps(r[n]), frame)
               d == [h[n] EXCEPT !.last = last]
    <2>4. LastOK(n, last)
      BY <1>1, <2>3, ReadingOK
    <2>5. h' = [h EXCEPT ![n] = d]
      BY <1>5, Zenon
    <2> HIDE DEF last
    <2>6. DataOK(d) /\ Kept(n, d)
      BY <2>4, KeptLast
    <2> HIDE DEF d
    <2> QED
      BY <2>5, <2>6
  <1> QED
    BY <1>3, <1>4, <1>5 DEF AcceptAnswer

\* The plain initiator and the one with an STS.
LEMMA PlainStops ==
  ASSUME NodeInv, HeardInv, LastInv, NEW n \in Nodes, ex_06a_take(n) \/ ex_06a_sts_take(n)
  PROVE  Stops(n)
  <1>1. /\ Prog(n) \in {"init", "init_sts"} /\ pc[n] = "await" /\ Happened(n, RxEnded)
        /\ \E E : /\ \/ "RXFCG" \in r[n].ev /\ "RXFCG" \in E
                     \/ "RXFCG" \notin r[n].ev /\ ALL_RX_TO \cup ALL_RX_ERR \subseteq E
                     \/ RxEnded \subseteq E
                  /\ Goto(n, ClearEvents(r[n], E), "pause")
        /\ h' = h \/ ("RXFCG" \in r[n].ev /\ AcceptAnswer(n, "resp"))
    <2>1. CASE ex_06a_take(n)
      <3>1. Prog(n) \in {"init", "init_sts"} /\ pc[n] = "await" /\ Happened(n, RxEnded)
        BY <2>1 DEF ex_06a_take, At
      <3>2. CASE Happened(n, {"RXFCG"})
        <4>1. "RXFCG" \in r[n].ev
          BY <3>2 DEF Happened
        <4>2. Goto(n, ClearEvents(r[n], {"RXFCG"}), "pause") /\ AcceptAnswer(n, "resp")
          BY <2>1, <3>2 DEF ex_06a_take
        <4> QED
          BY <3>1, <4>1, <4>2
      <3>3. CASE ~Happened(n, {"RXFCG"})
        <4>1. "RXFCG" \notin r[n].ev
          BY <3>3 DEF Happened
        <4>2. Goto(n, ClearEvents(r[n], ALL_RX_TO \cup ALL_RX_ERR), "pause") /\ h' = h
          BY <2>1, <3>3 DEF ex_06a_take
        <4> QED
          BY <3>1, <4>1, <4>2
      <3> QED
        BY <3>2, <3>3
    <2>2. CASE ex_06a_sts_take(n)
      <3>1. Prog(n) \in {"init", "init_sts"} /\ pc[n] = "await" /\ Happened(n, RxEnded)
        BY <2>2 DEF ex_06a_sts_take, At
      <3>2. CASE Happened(n, {"RXFCG"}) /\ GoodSts(r[n])
        <4>1. "RXFCG" \in r[n].ev /\ "RXFCG" \in ALL_RX_GOOD
          BY <3>2 DEF Happened, ALL_RX_GOOD
        <4>2. Goto(n, ClearEvents(r[n], ALL_RX_GOOD), "pause") /\ AcceptAnswer(n, "resp")
          BY <2>2, <3>2 DEF ex_06a_sts_take
        <4> QED
          BY <3>1, <4>1, <4>2
      <3>3. CASE ~(Happened(n, {"RXFCG"}) /\ GoodSts(r[n]))
        <4>1. RxEnded \subseteq ALL_RX_GOOD \cup ALL_RX_TO \cup ALL_RX_ERR
          BY DEF RxEnded, ALL_RX_GOOD
        <4>2. Goto(n, ClearEvents(r[n], ALL_RX_GOOD \cup ALL_RX_TO \cup ALL_RX_ERR), "pause")
              /\ h' = h
          BY <2>2, <3>3 DEF ex_06a_sts_take
        <4> QED
          BY <3>1, <4>1, <4>2
      <3> QED
        BY <3>2, <3>3
    <2> QED
      BY <2>1, <2>2
  <1>2. IsInitiator(Prog(n)) /\ n \in Initiators /\ Prog(n) \notin {"init_nd", "init_aes"}
    BY <1>1 DEF IsInitiator, Initiators
  <1>3. r[n].power = "IDLE"
    BY <1>1, <1>2, EndedIs
  <1>4. PICK d : /\ DataOK(d) /\ Kept(n, d)
                 /\ (h' = h /\ d = h[n]) \/ h' = [h EXCEPT ![n] = d]
    <2>1. CASE h' = h
      <3>1. DataOK(h[n]) /\ Kept(n, h[n])
        BY <1>2, NodeIs, KeptAsIs
      <3> QED
        BY <2>1, <3>1
    <2>2. CASE "RXFCG" \in r[n].ev /\ AcceptAnswer(n, "resp")
      BY <1>1, <1>2, <2>2, AcceptIs
    <2> QED
      BY <1>1, <2>1, <2>2
  <1>5. PICK E : /\ \/ "RXFCG" \in r[n].ev /\ "RXFCG" \in E
                    \/ "RXFCG" \notin r[n].ev /\ ALL_RX_TO \cup ALL_RX_ERR \subseteq E
                    \/ RxEnded \subseteq E
                 /\ Goto(n, ClearEvents(r[n], E), "pause")
    BY <1>1
  <1> QED
    BY <1>1, <1>2, <1>3, <1>4, <1>5, StopsCleared

\* The initiator without data: its first frame fails, or the report comes.
LEMMA NoDataStops ==
  ASSUME NodeInv, HeardInv, LastInv, NEW n \in Nodes,
         \/ ex_06a_no_data_take(n) /\ ~(Happened(n, {"RXFR"}) /\ GoodSts(r[n]))
         \/ ex_06a_no_data_report(n)
  PROVE  Stops(n)
  <1>1. /\ Prog(n) = "init_nd" /\ Goto(n, ClearEvents(r[n], AllReception), "pause")
        /\ \/ pc[n] = "await" /\ Happened(n, NdEnded) /\ h' = h
           \/ pc[n] = "awaitReport" /\ Happened(n, RxEnded) /\ ex_06a_no_data_report(n)
    BY DEF ex_06a_no_data_take, ex_06a_no_data_report, At
  <1>2. IsInitiator(Prog(n)) /\ n \in Initiators /\ Prog(n) # "init_aes"
    BY <1>1 DEF IsInitiator, Initiators
  <1>3. NodeOK(n, Prog(n), r[n], pc[n], h[n]) /\ Single(r[n]) /\ DataOK(h[n])
    BY NodeIs
  <1>4. r[n].power = "IDLE"
    <2>1. r[n].ev \cap RxEvents # {}
      BY <1>1 DEF Happened, RxEnded, NdEnded, RxEvents, ALL_RX_GOOD, ALL_RX_ERR, ALL_ND_RX_ERR
    <2> QED
      BY <1>1, <1>3, <2>1, IdleAt
  <1>5. RxEnded \subseteq AllReception
    BY DEF RxEnded, AllReception, ALL_RX_GOOD
  <1> DEFINE frame == r[n].reg.frame
             last == Reading(n, h[n].saved, frame)
  <1>6. dwt_readrxdata(r[n]) = frame
    BY <1>3, ReadsIs
  <1>7. h' = h \/ (/\ pc[n] = "awaitReport" /\ "RXFCG" \in r[n].ev /\ Expected(n, frame, "report")
                   /\ h' = [h EXCEPT ![n].last = last])
    <2>1. CASE pc[n] = "awaitReport" /\ ex_06a_no_data_report(n)
      <3>1. IF Happened(n, {"RXFCG"}) /\ Expected(n, frame, "report")
            THEN h' = [h EXCEPT ![n].last = last] ELSE UNCHANGED h
        BY <1>6, <2>1, Zenon DEF ex_06a_no_data_report
      <3>2. Happened(n, {"RXFCG"}) => "RXFCG" \in r[n].ev
        BY DEF Happened
      <3> HIDE DEF frame, last
      <3> QED
        BY <2>1, <3>1, <3>2
    <2> QED
      BY <1>1, <2>1
  <1>8. \E d : /\ DataOK(d) /\ Kept(n, d)
               /\ (h' = h /\ d = h[n]) \/ h' = [h EXCEPT ![n] = d]
    <2>1. CASE h' = h
      <3>1. DataOK(h[n]) /\ Kept(n, h[n])
        BY <1>2, <1>3, KeptAsIs
      <3> QED
        BY <2>1, <3>1
    <2>2. CASE /\ pc[n] = "awaitReport" /\ "RXFCG" \in r[n].ev /\ Expected(n, frame, "report")
               /\ h' = [h EXCEPT ![n].last = last]
      <3>1. frame # Foreign
        BY <2>2, ExpectedIs
      <3>2. PICK m \in Responders : /\ Paired(n, m, h[n].saved, h[m].saved)
                                    /\ frame.from = m /\ frame.stamps = h[m].saved
        BY <1>2, <2>2, <3>1 DEF HeardInv
      <3>3. Paired(n, m, h[n].saved, frame.stamps)
        BY <3>2
      <3>4. LastOK(n, last)
        BY <3>2, <3>3, ReadingOK
      <3> DEFINE d == [h[n] EXCEPT !.last = last]
      <3>5. h' = [h EXCEPT ![n] = d]
        BY <2>2, Zenon
      <3> HIDE DEF last
      <3>6. DataOK(d) /\ Kept(n, d)
        BY <1>2, <3>4, KeptLast
      <3> HIDE DEF d
      <3> QED
        BY <3>5, <3>6
    <2> QED
      BY <1>7, <2>1, <2>2
  <1>9. PICK d : /\ DataOK(d) /\ Kept(n, d)
                 /\ (h' = h /\ d = h[n]) \/ h' = [h EXCEPT ![n] = d]
    BY <1>8
  <1>10. PICK E : E = AllReception
    OBVIOUS
  <1> HIDE DEF frame, last
  <1> QED
    BY <1>1, <1>2, <1>4, <1>5, <1>9, <1>10, StopsCleared

\* The secured initiator: an answer is opened, and only a frame of another
\* device is not, unless the engine fails.
LEMMA AesStops ==
  ASSUME NodeInv, HeardInv, LastInv, NEW n \in Nodes, ex_06e_take(n)
  PROVE  Stops(n)
  <1> DEFINE frame == r[n].reg.frame
             cnt == (h[n].cnt + 1) % CntMod
             counted == [h[n] EXCEPT !.cnt = cnt,
                                     !.mac = mac_frame_update_aux_frame_cnt(@, cnt)]
             Opening(engine) == rx_aes_802_15_4(frame, RX_BUF_LEN, Address.responder,
                                                Address.initiator, engine)
             last == IF Expected(n, frame, "resp") THEN Reading(n, Stamps(r[n]), frame)
                     ELSE counted.last
             read == [counted EXCEPT !.mac = frame.mac, !.last = last]
             Closes(engine) ==
               /\ Happened(n, {"RXFCG"}) /\ Opening(engine) # "OK"
               /\ Goto(n, ClearEvents(r[n], {"RXFCG"}),
                       StopAt(Opening(engine) = "ERROR" /\ engine # "OK"))
               /\ h' = [h EXCEPT ![n] = counted]
             Reads(engine) ==
               /\ Happened(n, {"RXFCG"}) /\ Opening(engine) = "OK"
               /\ Goto(n, ClearEvents(r[n], {"RXFCG"}), "pause")
               /\ h' = [h EXCEPT ![n] = read]
  <1>1. Prog(n) = "init_aes" /\ pc[n] = "await" /\ Happened(n, RxEnded)
    BY DEF ex_06e_take, At
  <1>2. IsInitiator(Prog(n)) /\ n \in Initiators /\ Prog(n) # "init_nd"
    BY <1>1 DEF IsInitiator, Initiators
  <1>3. Single(r[n]) /\ DataOK(h[n])
    BY NodeIs
  <1>4. dwt_readrxdata(r[n]) = frame
    BY <1>3, ReadsIs
  <1>5. r[n].power = "IDLE"
    BY <1>1, <1>2, EndedIs
  <1>6. \/ /\ ~Happened(n, {"RXFCG"})
           /\ Goto(n, ClearEvents(r[n], ALL_RX_TO \cup ALL_RX_ERR), "pause")
           /\ h' = [h EXCEPT ![n] = counted]
        \/ \E engine \in EngineResults : Closes(engine) \/ Reads(engine)
    BY <1>4, Zenon DEF ex_06e_take
  <1>7. Happened(n, {"RXFCG"}) <=> "RXFCG" \in r[n].ev
    BY DEF Happened
  <1>8. h[n].mac \in Macs /\ LastOK(n, h[n].last)
    BY <1>1, <1>2 DEF LastInv
  <1>9. cnt \in 0..CntMod - 1
    <2>1. CntMod \in Nat \ {0}
      BY RangingAssumption DEF RangingAssumption
    <2>2. h[n].cnt + 1 \in Int
      BY <1>3, <2>1 DEF DataOK
    <2> QED
      BY <2>1, <2>2, DivMod
  <1> HIDE DEF cnt
  <1>10. /\ DOMAIN counted = DOMAIN h[n] /\ counted.cnt = cnt /\ counted.last = h[n].last
         /\ counted.mac = [h[n].mac EXCEPT !.cnt = cnt]
    BY <1>3, Zenon DEF DataOK, mac_frame_update_aux_frame_cnt
  <1>11. [h[n].mac EXCEPT !.cnt = cnt] \in Macs /\ [h[n].mac EXCEPT !.cnt = cnt].cnt = cnt
    BY <1>8, <1>9 DEF Macs
  <1> HIDE DEF counted
  <1>12. DataOK(counted) /\ counted.mac \in Macs /\ counted.mac.cnt = counted.cnt
         /\ LastOK(n, counted.last)
    BY <1>3, <1>8, <1>9, <1>10, <1>11 DEF DataOK
  <1>13. CASE /\ ~Happened(n, {"RXFCG"})
              /\ Goto(n, ClearEvents(r[n], ALL_RX_TO \cup ALL_RX_ERR), "pause")
              /\ h' = [h EXCEPT ![n] = counted]
    <2>1. Kept(n, counted)
      BY <1>12 DEF Kept
    <2> QED
      BY <1>1, <1>2, <1>5, <1>7, <1>12, <1>13, <2>1, StopsCleared
  <1>14. "RXFCG" \in r[n].ev => HeardOK(n)
    BY <1>1, <1>2 DEF HeardInv
  <1>15. ASSUME NEW engine \in EngineResults, Closes(engine)
         PROVE  Stops(n)
    <2>1. PICK at : at = StopAt(Opening(engine) = "ERROR" /\ engine # "OK")
      OBVIOUS
    <2>2. at \in {"stuck", "broken"}
      BY <2>1 DEF StopAt
    <2>3. at = "stuck" => frame = Foreign
      <3>1. SUFFICES ASSUME frame # Foreign
                     PROVE  at = "broken"
        BY <2>2
      <3>2. Opening("OK") = "OK"
        BY <1>1, <1>7, <1>14, <1>15, <3>1 DEF HeardOK, Opens
      <3>3. engine \in EngineErrors
        BY <1>15, <3>2 DEF EngineResults
      <3>4. Opening(engine) = "ERROR" /\ engine # "OK"
        BY <3>2, <3>3, OpeningFails DEF EngineErrors
      <3> QED
        BY <2>1, <3>4 DEF StopAt
    <2>4. Kept(n, counted)
      BY <1>12 DEF Kept
    <2>5. Goto(n, ClearEvents(r[n], {"RXFCG"}), at) /\ Happened(n, {"RXFCG"})
          /\ h' = [h EXCEPT ![n] = counted]
      BY <1>15, <2>1, Zenon
    <2> QED
      BY <1>1, <1>2, <1>5, <1>7, <1>12, <2>2, <2>3, <2>4, <2>5, StopsCleared
  <1>16. ASSUME NEW engine \in EngineResults, Reads(engine)
         PROVE  Stops(n)
    <2>0. /\ Happened(n, {"RXFCG"}) /\ Opening(engine) = "OK"
          /\ Goto(n, ClearEvents(r[n], {"RXFCG"}), "pause")
          /\ h' = [h EXCEPT ![n] = read]
      BY <1>16, Zenon
    <2>1. frame # Foreign
      <3>1. Foreign.mac.secure = FALSE
        BY DEF Foreign, Header
      <3>2. rx_aes_802_15_4(Foreign, RX_BUF_LEN, Address.responder, Address.initiator, engine)
              # "OK"
        BY <3>1 DEF rx_aes_802_15_4, get_security_state
      <3> QED
        BY <2>0, <3>2
    <2>2. /\ frame.from \in Responders /\ Paired(n, frame.from, Stamps(r[n]), frame.stamps)
          /\ frame.mac \in Macs /\ frame.mac.cnt = cnt
      BY <1>1, <1>7, <1>14, <2>0, <2>1 DEF HeardOK, cnt
    <2>3. LastOK(n, Reading(n, Stamps(r[n]), frame))
      BY <2>2, ReadingOK
    <2>4. LastOK(n, last)
      BY <1>12, <2>3
    <2> HIDE DEF last
    <2>5. DOMAIN read = DOMAIN counted /\ read.cnt = counted.cnt /\ read.last = last
          /\ read.mac = frame.mac
      BY <1>12, Zenon DEF DataOK
    <2> HIDE DEF read
    <2>6. DataOK(read) /\ Kept(n, read)
      BY <1>10, <1>12, <2>2, <2>4, <2>5 DEF DataOK, Kept
    <2> QED
      BY <1>1, <1>2, <1>5, <1>7, <2>0, <2>6, StopsCleared
  <1> HIDE DEF Closes, Reads, last, read
  <1> QED
    BY <1>6, <1>13, <1>15, <1>16

\* Pause.
LEMMA PauseStops ==
  ASSUME NodeInv, LastInv, NEW n \in Nodes, Pause(n)
  PROVE  Stops(n)
  <1> DEFINE d == [h[n] EXCEPT !.last = NoReading]
  <1>1. /\ Prog(n) \in {"init", "init_sts", "init_nd", "init_aes"} /\ pc[n] = "pause"
        /\ Goto(n, r[n], "poll") /\ h' = [h EXCEPT ![n].last = NoReading]
        /\ \A m \in Responders : ~Busy(m)
    BY DEF Pause, At, Forget, PauseIsLong
  <1>2. IsInitiator(Prog(n)) /\ n \in Initiators
    BY <1>1 DEF IsInitiator, Initiators
  <1>3. NodeOK(n, Prog(n), r[n], pc[n], h[n]) /\ DataOK(h[n])
    BY NodeIs
  <1>4. r[n].power = "IDLE"
    BY <1>1, <1>2, <1>3, IdleAt
  <1>5. r[n].ev \cap RxEnded = {}
    BY <1>1, <1>2, <1>3 DEF NodeOK, EventOK
  <1>6. h' = [h EXCEPT ![n] = d]
    BY <1>1, Zenon
  <1>7. DOMAIN d = DOMAIN h[n] /\ d.last = NoReading /\ d.cnt = h[n].cnt /\ d.mac = h[n].mac
    BY <1>3, Zenon DEF DataOK
  <1> HIDE DEF d
  <1>8. DataOK(d) /\ Kept(n, d)
    BY <1>2, <1>3, <1>7 DEF DataOK, Kept, LastOK, LastInv
  <1>9. Changes(r[n], r[n], {"ev"}) /\ r[n].ev \subseteq r[n].ev
    BY ChangesNone
  <1> QED
    BY <1>1, <1>2, <1>4, <1>5, <1>6, <1>8, <1>9, StopsIdle

\* A tag that goes on at its place of rest.
LEMMA TagRests ==
  ASSUME NodeInv, NEW n \in Nodes, Prog(n) = "tag", pc[n] \in {"pause", "report"},
         NEW at \in {"poll", "report"}, NEW d, DataOK(d), Kept(n, d),
         \A m \in Responders : ~Busy(m),
         r' = r, pc' = [pc EXCEPT ![n] = at], cast' = cast,
         (h' = h /\ d = h[n]) \/ h' = [h EXCEPT ![n] = d]
  PROVE  Stops(n)
  <1> DEFINE q == r[n]
  <1>1. IsInitiator(Prog(n)) /\ ~IsResponder(Prog(n))
    BY DEF IsInitiator, IsResponder
  <1>2. NodeOK(n, Prog(n), q, pc[n], h[n])
    BY NodeIs
  <1>3. q.power = "IDLE"
    BY <1>1, <1>2, IdleAt
  <1>4. RadioOK(Prog(n), q, at)
    BY <1>2, <1>3 DEF NodeOK, RadioOK
  <1>5. PlaceOK(Prog(n), at)
    BY <1>1 DEF PlaceOK, IsInitiator
  <1>6. EventOK(Prog(n), q, at)
    <2>1. q.ev \cap RxEnded = {}
      BY <1>1, <1>2 DEF NodeOK, EventOK
    <2> QED
      BY <1>1, <1>3, <2>1 DEF EventOK, PendingOf
  <1>7. SentOK(n, Prog(n), q, at, d)
    BY <1>3 DEF SentOK
  <1>8. NodeOK(n, Prog(n), q, at, d)
    BY <1>4, <1>5, <1>6, <1>7 DEF NodeOK
  <1>9. Step(n, q, at, d)
    <2>1. DOMAIN r = Nodes /\ DOMAIN pc = Nodes /\ DOMAIN h = Nodes
      BY DEF NodeInv
    <2>2. DOMAIN h' = Nodes /\ h'[n] = d /\ \A k \in Nodes : k # n => h'[k] = h[k]
      BY <2>1, Zenon
    <2> QED
      BY <2>1, <2>2, Zenon DEF Step
  <1>10. q.power # "TX" /\ at \in {"pause", "stuck", "broken", "poll", "report", "halted"}
         /\ at # "stuck"
    BY <1>3
  <1> HIDE DEF q
  <1>90. n \in Initiators
    BY <1>1, RolesAre
  <1> QED
    BY <1>90, <1>8, <1>9, <1>10, Zenon DEF Stops

\* UWB_pause.
LEMMA TagPauses ==
  ASSUME NodeInv, LastInv, NEW n \in Nodes, UWB_pause(n)
  PROVE  Stops(n)
  <1> DEFINE d == [h[n] EXCEPT !.last = NoReading]
             at == IF round.samples + 1 = cast.samples THEN "report" ELSE "poll"
  <1>1. /\ Prog(n) = "tag" /\ pc[n] = "pause" /\ \A m \in Responders : ~Busy(m)
        /\ r' = r /\ cast' = cast /\ h' = [h EXCEPT ![n].last = NoReading]
        /\ pc' = [pc EXCEPT ![n] = at]
    BY DEF UWB_pause, At, Forget, PauseIsLong
  <1>2. DataOK(h[n])
    BY NodeIs
  <1>3. h' = [h EXCEPT ![n] = d]
    BY <1>1, Zenon
  <1>4. at \in {"poll", "report"}
    OBVIOUS
  <1>5. DOMAIN d = DOMAIN h[n] /\ d.last = NoReading /\ d.cnt = h[n].cnt
    BY <1>2, Zenon DEF DataOK
  <1> HIDE DEF d, at
  <1>6. DataOK(d) /\ Kept(n, d)
    BY <1>1, <1>2, <1>4, <1>5 DEF DataOK, Kept, LastOK
  <1> QED
    BY <1>1, <1>3, <1>4, <1>6, TagRests

\* UWB_report.
LEMMA TagReports ==
  ASSUME NodeInv, QuietInv, LastInv, NEW n \in Nodes, UWB_report(n)
  PROVE  Stops(n)
  <1>1. /\ Prog(n) = "tag" /\ pc[n] = "report" /\ r' = r /\ cast' = cast /\ h' = h
        /\ pc' = [pc EXCEPT ![n] = "poll"]
    BY DEF UWB_report, At
  <1>2. n \in Initiators
    BY <1>1 DEF Initiators
  <1>3. \A m \in Responders : ~Busy(m)
    BY <1>1, <1>2 DEF QuietInv
  <1>4. DataOK(h[n]) /\ Kept(n, h[n])
    BY <1>2, NodeIs, KeptAsIs
  <1>5. PICK at : at = "poll"
    OBVIOUS
  <1> QED
    BY <1>1, <1>3, <1>4, <1>5, TagRests

\* UWB_take.
LEMMA TagTakes ==
  ASSUME NodeInv, HeardInv, LastInv, NEW n \in Nodes, UWB_take(n)
  PROVE  Stops(n)
  <1> DEFINE frame == r[n].reg.frame
             last == Reading(n, Stamps(r[n]), frame)
             E == IF Happened(n, {"RXFCG"}) THEN {"RXFCG"} ELSE ALL_RX_TO \cup ALL_RX_ERR
             p == ClearEvents(r[n], E)
             d == [h[n] EXCEPT !.last = last]
             w == Rest(p, "pause")
  <1>1. Single(r[n]) /\ DataOK(h[n]) /\ NodeOK(n, Prog(n), r[n], pc[n], h[n]) /\ HasFields(r[n])
        /\ DOMAIN r = Nodes /\ DOMAIN pc = Nodes /\ DOMAIN h = Nodes
    BY NodeIs DEF NodeInv
  <1>2. dwt_readrxdata(r[n]) = frame
    BY <1>1, ReadsIs
  <1>3. /\ Prog(n) = "tag" /\ pc[n] = "await" /\ Happened(n, RxEnded) /\ cast' = cast
        /\ r' = [r EXCEPT ![n] = Settled(p, "pause")] /\ pc' = [pc EXCEPT ![n] = "pause"]
        /\ \/ h' = h
           \/ /\ Happened(n, {"RXFCG"}) /\ Expected(n, frame, "resp")
              /\ h' = [h EXCEPT ![n].last = last]
    BY <1>1, <1>2, Zenon DEF UWB_take, At
  <1>4. IsInitiator(Prog(n)) /\ n \in Initiators /\ Prog(n) \notin {"init_nd", "init_aes"}
    BY <1>3 DEF IsInitiator, Initiators
  <1>5. r[n].power = "IDLE"
    BY <1>3, <1>4, EndedIs
  <1>6. Changes(r[n], p, {"ev"}) /\ p.ev = r[n].ev \ E /\ p.power = r[n].power /\ p.dx = r[n].dx
    BY ClearedIs
  <1>7. Settled(p, "pause") = w
    BY <1>5, <1>6 DEF Rest
  <1>8. p.ev \cap RxEnded = {}
    <2>1. Happened(n, {"RXFCG"}) <=> "RXFCG" \in r[n].ev
      BY DEF Happened
    <2>2. \/ "RXFCG" \in r[n].ev /\ "RXFCG" \in E
          \/ "RXFCG" \notin r[n].ev /\ ALL_RX_TO \cup ALL_RX_ERR \subseteq E
          \/ RxEnded \subseteq E
      BY <2>1
    <2>3. Eventful(r[n])
      BY NodeIs
    <2> HIDE DEF E
    <2> QED
      BY <1>6, <2>2, <2>3, EndsCleared
  <1> HIDE DEF p
  <1>9. PICK e : /\ DataOK(e) /\ Kept(n, e)
                 /\ (h' = h /\ e = h[n]) \/ h' = [h EXCEPT ![n] = e]
    <2>1. CASE h' = h
      <3>1. DataOK(h[n]) /\ Kept(n, h[n])
        BY <1>1, <1>4, KeptAsIs
      <3> QED
        BY <2>1, <3>1
    <2>2. CASE /\ Happened(n, {"RXFCG"}) /\ Expected(n, frame, "resp")
               /\ h' = [h EXCEPT ![n].last = last]
      <3>1. HeardOK(n)
        BY <1>3, <1>4, <2>2 DEF HeardInv, Happened
      <3>2. frame # Foreign
        BY <2>2, ExpectedIs
      <3>3. frame.from \in Responders /\ Paired(n, frame.from, Stamps(r[n]), frame.stamps)
        BY <3>1, <3>2 DEF HeardOK
      <3>4. LastOK(n, last)
        BY <3>3, ReadingOK
      <3>5. h' = [h EXCEPT ![n] = d]
        BY <2>2, Zenon
      <3> HIDE DEF last
      <3>6. DataOK(d) /\ Kept(n, d)
        <4>1. Prog(n) # "init_aes"
          BY <1>3
        <4> QED
          BY <1>4, <3>4, <4>1, KeptLast
      <3> HIDE DEF d
      <3> QED
        BY <3>5, <3>6
    <2> HIDE DEF frame, last, d
    <2> QED
      BY <1>3, <2>1, <2>2
  <1>10. Step(n, w, "pause", e)
    <2>1. r' = [r EXCEPT ![n] = w]
      BY <1>3, <1>7
    <2> HIDE DEF w
    <2> QED
      BY <1>3, <1>9, <2>1, StepIs
  <1>11. NodeOK(n, Prog(n), w, "pause", e) /\ w.power = "IDLE"
    <2>1. Changes(r[n], p, StepChanges)
      BY <1>6, Zenon DEF Changes, StepChanges, SendChanges
    <2>2. p.power = "IDLE" /\ p.dx \in Int /\ p.ev \subseteq r[n].ev \cup {"HPDWARN"}
      <3>1. r[n].dx \in Int
        BY NodeIs DEF Timed
      <3> QED
        BY <1>5, <1>6, <3>1
    <2>3. PlaceOK(Prog(n), "pause")
      BY <1>3 DEF PlaceOK, IsInitiator, IsResponder
    <2>4. IsResponder(Prog(n)) => "TXFRS" \notin p.ev
      BY <1>3 DEF IsResponder
    <2>5. IsInitiator(Prog(n)) /\ "pause" # "stuck" => p.ev \cap RxEnded = {}
      BY <1>8
    <2>6. pc[n] \notin {"setup", "halted"} /\ "pause" \in {"listen", "pause", "poll", "report", "stuck", "broken"}
      BY <1>3
    <2>7. DataOK(e)
      BY <1>9
    <2> QED
      BY ONLY <1>1, <2>1, <2>2, <2>3, <2>4, <2>5, <2>6, <2>7, IdleStep DEF w
  <1> HIDE DEF w
  <1>12. w.power # "TX" /\ "pause" \in {"pause", "stuck", "broken", "poll", "report", "halted"}
         /\ "pause" # "stuck"
         /\ ("pause" \in {"poll", "report"} => \A m \in Responders : ~Busy(m))
    BY <1>11
  <1>90. n \in Initiators
    BY <1>4
  <1> QED
    BY <1>90, <1>9, <1>10, <1>11, <1>12, Zenon DEF Stops

\* Every step of a program is of one of these kinds.
LEMMA ProgramSteps ==
  ASSUME IInv, NEW n \in Nodes, Program(n)
  PROVE  \/ Retires(n) \/ Answers(n) \/ Reports(n) \/ Bystands(n)
         \/ Polls(n) \/ Hearkens(n) \/ AwaitsReport(n) \/ Stops(n)
  <1>1. NodeInv /\ QuietInv /\ HeardInv /\ LastInv
    BY DEF IInv
  <1>2. CASE Setup(n)
    BY <1>1, <1>2, SetupStep
  <1>3. CASE Pause(n)
    BY <1>1, <1>3, PauseStops
  <1>4. CASE Answered(n) \/ ex_06b_no_data_reported(n)
    BY <1>1, <1>4, AnswerEnds
  <1>5. CASE ex_06a_poll(n) \/ UWB_poll(n)
    BY <1>1, <1>5, PlainPolls
  <1>6. CASE ex_06a_take(n) \/ ex_06a_sts_take(n)
    BY <1>1, <1>6, PlainStops
  <1>7. CASE ex_06b_listen(n) \/ ex_06f_listen(n) \/ Beacon_listen(n)
    BY <1>1, <1>7, PlainListens
  <1>8. CASE ex_06b_take(n) \/ Beacon_take(n)
    BY <1>1, <1>8, PlainTakes
  <1>9. CASE ex_06a_sts_poll(n) \/ ex_06a_no_data_poll(n)
    BY <1>1, <1>9, StsPolls
  <1>10. CASE ex_06a_sts_polled(n)
    BY <1>1, <1>10, StsHearkens
  <1>11. CASE ex_06b_sts_listen(n)
    BY <1>1, <1>11, StsListens
  <1>12. CASE ex_06b_sts_take(n)
    BY <1>1, <1>12, StsTakes
  <1>13. CASE ex_06a_no_data_polled(n)
    BY <1>1, <1>13, NoDataHearkens
  <1>14. CASE ex_06a_no_data_take(n)
    <2>1. CASE Happened(n, {"RXFR"}) /\ GoodSts(r[n])
      BY <1>1, <1>14, <2>1, NoDataAwaits
    <2>2. CASE ~(Happened(n, {"RXFR"}) /\ GoodSts(r[n]))
      BY <1>1, <1>14, <2>2, NoDataStops
    <2> QED
      BY <2>1, <2>2
  <1>15. CASE ex_06a_no_data_report(n)
    BY <1>1, <1>15, NoDataStops
  <1>16. CASE ex_06b_no_data_listen(n)
    BY <1>1, <1>16, NoDataListens
  <1>17. CASE ex_06b_no_data_take(n)
    BY <1>1, <1>17, NoDataTakes
  <1>18. CASE ex_06b_no_data_report(n)
    BY <1>1, <1>18, NoDataReports
  <1>19. CASE ex_06e_poll(n)
    BY <1>1, <1>19, AesPolls
  <1>20. CASE ex_06e_take(n)
    BY <1>1, <1>20, AesStops
  <1>21. CASE ex_06f_take(n)
    BY <1>1, <1>21, AesTakes
  <1>22. CASE UWB_take(n)
    BY <1>1, <1>22, TagTakes
  <1>23. CASE UWB_pause(n)
    BY <1>1, <1>23, TagPauses
  <1>24. CASE UWB_report(n)
    BY <1>1, <1>24, TagReports
  <1> QED
    BY <1>2, <1>3, <1>4, <1>5, <1>6, <1>7, <1>8, <1>9, <1>10, <1>11, <1>12, <1>13, <1>14, <1>15,
       <1>16, <1>17, <1>18, <1>19, <1>20, <1>21, <1>22, <1>23, <1>24 DEF Program

-----------------------------------------------------------------------------
(* Who takes part in an exchange *)

\* The roles are those of the cast.
LEMMA SameCast ==
  ASSUME cast' = cast
  PROVE  /\ Initiators' = Initiators /\ Responders' = Responders
         /\ \A n \in Nodes : Prog(n)' = Prog(n)
  BY DEF Initiators, Responders, Prog

\* There is one initiator, and the responders are its partners.
LEMMA PartnersAre ==
  ASSUME NodeInv, NEW n \in Initiators
  PROVE  /\ n \in Nodes /\ \A k \in Initiators : k = n
         /\ \A m \in Responders : m \in Nodes /\ m # n /\ Prog(m) = Partner[Prog(n)]
         /\ Prog(n) \in {"init_nd", "init_aes"} => \A l, m \in Responders : l = m
  <1>1. n \in Nodes /\ Prog(n) \in {"init", "init_sts", "init_nd", "init_aes", "tag"}
    BY DEF Initiators
  <1>2. OneExchange(cast)
    BY CastIs
  <1>3. Prog(n) \in DOMAIN Partner
    BY <1>1 DEF Partner
  <1>4. /\ \A m \in Nodes \ {n} : Prog(m) \in {"off", Partner[Prog(n)]}
        /\ Prog(n) \in {"init_nd", "init_aes"} =>
             \A l, m \in Nodes \ {n} : Prog(l) # "off" /\ Prog(m) # "off" => l = m
    BY <1>1, <1>2, <1>3 DEF OneExchange, Prog
  <1>5. Partner[Prog(n)] \in {"resp", "resp_sts", "resp_nd", "resp_aes", "beacon"}
    BY <1>1 DEF Partner
  <1>6. ASSUME NEW k \in Initiators
        PROVE  k = n
    <2>1. k \in Nodes /\ Prog(k) \in {"init", "init_sts", "init_nd", "init_aes", "tag"}
      BY DEF Initiators
    <2> QED
      BY <1>4, <1>5, <2>1
  <1>7. ASSUME NEW m \in Responders
        PROVE  m \in Nodes /\ m # n /\ Prog(m) = Partner[Prog(n)] /\ Prog(m) # "off"
    <2>1. m \in Nodes /\ Prog(m) \in {"resp", "resp_sts", "resp_nd", "resp_aes", "beacon"}
      BY DEF Responders
    <2>2. m # n
      BY <1>1, <2>1
    <2> QED
      BY <1>4, <2>1, <2>2
  <1>8. ASSUME Prog(n) \in {"init_nd", "init_aes"}, NEW l \in Responders, NEW m \in Responders
        PROVE  l = m
    BY <1>4, <1>7, <1>8
  <1> QED
    BY <1>1, <1>6, <1>7, <1>8

\* Which partner belongs to which.
LEMMA PairsAre ==
  ASSUME NodeInv, NEW n \in Initiators, NEW m \in Responders
  PROVE  /\ Prog(n) = "init_nd" <=> Prog(m) = "resp_nd"
         /\ Prog(n) = "init_aes" <=> Prog(m) = "resp_aes"
  <1>1. Prog(m) = Partner[Prog(n)]
    BY PartnersAre
  <1>2. Prog(n) \in {"init", "init_sts", "init_nd", "init_aes", "tag"}
    BY DEF Initiators
  <1> QED
    BY <1>1, <1>2 DEF Partner

-----------------------------------------------------------------------------
(* What the invariant says of one node *)

BusyOf(q, at) ==
  at \in {"sending", "reporting"} \/ (PendingOf(q, at) /\ q.reg.frame # Foreign)

\* Busy, of the radio and the place of a responder.
LEMMA BusyIs ==
  ASSUME NodeInv, NEW m \in Nodes
  PROVE  Busy(m) <=> BusyOf(r[m], pc[m])
  <1>1. dwt_readrxdata(r[m]) = r[m].reg.frame
    BY NodeIs, ReadsIs
  <1> QED
    BY <1>1 DEF Busy, BusyOf, Happened, PendingOf

LiveOf(q, at) == at \in {"polled", "await", "awaitReport"} /\ q.power # "TX"

Quiet(q, at) == at \in {"setup", "poll", "report"} \/ q.power = "TX"

HeardAt(n) ==
  /\ Prog(n) # "init_nd" /\ pc[n] = "await" /\ "RXFCG" \in r[n].ev => HeardOK(n)
  /\ Prog(n) = "init_nd" /\ pc[n] = "await" /\ "RXFR" \in r[n].ev =>
       \E m \in Responders : ~Pending(m) /\ Paired(n, m, Stamps(r[n]), h[m].saved)
  /\ pc[n] = "awaitReport" =>
       \E m \in Responders :
         /\ ~Pending(m) /\ Paired(n, m, h[n].saved, h[m].saved)
         /\ "RXFCG" \in r[n].ev =>
              \/ r[n].reg.frame = Foreign
              \/ r[n].reg.frame.from = m /\ r[n].reg.frame.stamps = h[m].saved

\* HeardInv, initiator by initiator.
LEMMA HeardEach ==
  HeardInv <=> \A n \in Initiators : HeardAt(n)
  BY Zenon DEF HeardInv, HeardAt

\* What the others rely on when nothing of them moves.
LEMMA PollStays ==
  ASSUME NEW n \in Nodes, NEW m \in Nodes, cast' = cast, r'[m].reg = r[m].reg,
         r'[n].txtime = r[n].txtime, h'[n].cnt = h[n].cnt, PollOK(n, m)
  PROVE  PollOK(n, m)'
  BY Zenon DEF PollOK, PollStamp, Prog, Distance

\* An answer that is about to be sent.
LEMMA AnswerStays ==
  ASSUME NEW n \in Nodes, NEW m \in Nodes, cast' = cast, r'[m] = r[m], h'[m] = h[m],
         r'[n].txtime = r[n].txtime, h'[n].cnt = h[n].cnt, AnswerOK(n, m)
  PROVE  AnswerOK(n, m)'
  BY Zenon DEF AnswerOK, PollStamp, Prog, Distance, Told

\* Stamps that are of one exchange stay so.
LEMMA PairStays ==
  ASSUME NEW n, NEW m, cast' = cast, NEW own, NEW told
  PROVE  Paired(n, m, own, told)' <=> Paired(n, m, own, told)
  BY DEF Paired, Distance

\* What an initiator has heard.
LEMMA HeardStays ==
  ASSUME NEW n \in Nodes, cast' = cast, r'[n].reg = r[n].reg, r'[n].txtime = r[n].txtime,
         h'[n].cnt = h[n].cnt, HeardOK(n)
  PROVE  HeardOK(n)'
  <1>1. Responders' = Responders /\ Prog(n)' = Prog(n)
    BY SameCast
  <1>2. Stamps(r[n])' = Stamps(r[n])
    BY DEF Stamps, dwt_readtxtimestamplo32, dwt_readrxtimestamplo32
  <1> QED
    BY <1>1, <1>2, PairStays, Zenon DEF HeardOK

-----------------------------------------------------------------------------
(* A step of one node *)

\* A step leaves the other nodes alone.
LEMMA StepOthers ==
  ASSUME NEW n, NEW p, NEW at, NEW d, Step(n, p, at, d), NEW k \in Nodes, k # n
  PROVE  r'[k] = r[k] /\ pc'[k] = pc[k] /\ h'[k] = h[k]
  BY Zenon DEF Step

\* A responder's step, or one of its radio.
LEMMA ResponderMoves ==
  ASSUME IInv, NEW m \in Responders, NEW p, NEW at, NEW d, Step(m, p, at, d),
         NodeOK(m, Prog(m), p, at, d),
         \A n \in Initiators : Quiet(r[n], pc[n]) => ~BusyOf(p, at),
         \A n \in Initiators : Live(n) /\ PendingOf(p, at) => PollOK(n, m)',
         \A n \in Initiators : Live(n) /\ p.power = "TX" /\ at = "sending" => AnswerOK(n, m)',
         d = h[m] \/ Pending(m),
         Prog(m) = "resp_nd" => ~PendingOf(p, at)
  PROVE  IInv'
  <1>1. NodeInv /\ QuietInv /\ PollInv /\ AnswerInv /\ HeardInv /\ LastInv
    BY DEF IInv
  <1>2. m \in Nodes /\ cast' = cast /\ r'[m] = p /\ pc'[m] = at /\ h'[m] = d
    BY DEF Responders, Step
  <1>3. NodeInv'
    BY <1>1, <1>2, NodeSteps
  <1>4. /\ Initiators' = Initiators /\ Responders' = Responders
        /\ \A n \in Nodes : Prog(n)' = Prog(n)
    BY <1>2, SameCast
  <1>5. ASSUME NEW k \in Nodes, k # m
        PROVE  r'[k] = r[k] /\ pc'[k] = pc[k] /\ h'[k] = h[k]
    BY <1>5, StepOthers
  <1>6. ASSUME NEW n \in Initiators
        PROVE  n \in Nodes /\ n # m /\ r'[n] = r[n] /\ pc'[n] = pc[n] /\ h'[n] = h[n]
    <2>1. n \in Nodes /\ n # m
      BY <1>1, PartnersAre
    <2> QED
      BY <1>5, <2>1
  <1>7. ASSUME NEW k \in Responders
        PROVE  k \in Nodes
    BY DEF Responders
  <1>8. QuietInv'
    <2>1. ASSUME NEW n \in Initiators, Quiet(r[n], pc[n]), NEW k \in Responders
          PROVE  ~BusyOf(r'[k], pc'[k])
      <3>1. CASE k = m
        BY <1>2, <2>1, <3>1
      <3>2. CASE k # m
        <4>1. r'[k] = r[k] /\ pc'[k] = pc[k]
          BY <1>5, <1>7, <3>2
        <4>2. ~Busy(k)
          BY <1>1, <2>1 DEF QuietInv, Quiet
        <4> QED
          BY <1>1, <1>7, <4>1, <4>2, BusyIs
      <3> QED
        BY <3>1, <3>2
    <2>2. ASSUME NEW k \in Responders
          PROVE  Busy(k)' <=> BusyOf(r'[k], pc'[k])
      <3>1. k \in Nodes
        BY <1>7
      <3> QED
        <4>1. dwt_readrxdata(r[k])' = r'[k].reg.frame
          <5>1. Single(r'[k])
            BY <1>3, <3>1 DEF NodeInv, NodeOK, RadioOK
          <5> QED
            BY <5>1, ReadsIs
        <4> QED
          BY <4>1 DEF Busy, BusyOf, Happened, PendingOf
    <2>3. ASSUME NEW n \in Initiators
          PROVE  Quiet(r[n], pc[n])' <=> Quiet(r[n], pc[n])
      BY <1>6 DEF Quiet
    <2>4. ASSUME NEW n \in Initiators, Quiet(r[n], pc[n])', NEW k \in Responders
          PROVE  ~Busy(k)'
      BY <2>1, <2>2, <2>3, <2>4
    <2> QED
      BY <1>4, <2>4 DEF QuietInv, Quiet
  <1>9. PollInv'
    <2>1. ASSUME NEW n \in Initiators, NEW k \in Responders, Live(n)', Pending(k)'
          PROVE  PollOK(n, k)'
      <3>1. Live(n)
        BY <1>6, <2>1 DEF Live
      <3>2. CASE k = m
        <4>1. PendingOf(p, at)
          BY <1>2, <2>1, <3>2 DEF Pending
        <4> QED
          BY <3>1, <3>2, <4>1
      <3>3. CASE k # m
        <4>1. r'[k] = r[k] /\ pc'[k] = pc[k] /\ k \in Nodes
          BY <1>5, <1>7, <3>3
        <4>2. Pending(k)
          BY <2>1, <4>1 DEF Pending
        <4>3. PollOK(n, k)
          BY <1>1, <3>1, <4>2 DEF PollInv
        <4> QED
          BY <1>2, <1>6, <4>1, <4>3, PollStays
      <3> QED
        BY <3>2, <3>3
    <2> QED
      BY <1>4, <2>1 DEF PollInv
  <1>10. AnswerInv'
    <2>1. ASSUME NEW n \in Initiators, NEW k \in Responders, Live(n)', r'[k].power = "TX",
                 pc'[k] = "sending"
          PROVE  AnswerOK(n, k)'
      <3>1. Live(n)
        BY <1>6, <2>1 DEF Live
      <3>2. CASE k = m
        BY <1>2, <2>1, <3>1, <3>2
      <3>3. CASE k # m
        <4>1. r'[k] = r[k] /\ pc'[k] = pc[k] /\ h'[k] = h[k] /\ k \in Nodes
          BY <1>5, <1>7, <3>3
        <4>2. AnswerOK(n, k)
          BY <1>1, <2>1, <3>1, <4>1 DEF AnswerInv
        <4> QED
          BY <1>2, <1>6, <4>1, <4>2, AnswerStays
      <3> QED
        BY <3>2, <3>3
    <2> QED
      BY <1>4, <2>1 DEF AnswerInv
  <1>11. HeardInv'
    <2>1. ASSUME NEW n \in Initiators
          PROVE  HeardAt(n)'
      <3>1. HeardAt(n)
        BY <1>1, HeardEach
      <3>2. ASSUME Prog(n) = "init_nd", NEW k \in Responders, ~Pending(k)
            PROVE  ~Pending(k)' /\ h'[k] = h[k]
        <4>1. CASE k = m
          <5>1. Prog(m) = "resp_nd"
            BY <1>1, <3>2, PairsAre
          <5> QED
            BY <1>2, <3>2, <4>1, <5>1 DEF Pending
        <4>2. CASE k # m
          <5>1. r'[k] = r[k] /\ pc'[k] = pc[k] /\ h'[k] = h[k]
            BY <1>5, <1>7, <4>2
          <5> QED
            BY <3>2, <5>1 DEF Pending
        <4> QED
          BY <4>1, <4>2
      <3>3. pc[n] = "awaitReport" => Prog(n) = "init_nd"
        BY <1>1, <1>6, NodeIs DEF NodeOK, PlaceOK
      <3>4. Prog(n)' = Prog(n)
        BY <1>4, <1>6
      <3>5. ASSUME Prog(n) # "init_nd", pc[n] = "await", "RXFCG" \in r[n].ev
            PROVE  HeardOK(n)'
        <4>1. HeardOK(n)
          BY <3>1, <3>5 DEF HeardAt
        <4> QED
          BY <1>2, <1>6, <4>1, HeardStays
      <3>6. ASSUME Prog(n) = "init_nd", pc[n] = "await", "RXFR" \in r[n].ev
            PROVE  \E k \in Responders : ~Pending(k)' /\ Paired(n, k, Stamps(r[n]), h'[k].saved)
        <4>1. PICK k \in Responders : ~Pending(k) /\ Paired(n, k, Stamps(r[n]), h[k].saved)
          BY <3>1, <3>6 DEF HeardAt
        <4>2. ~Pending(k)' /\ h'[k] = h[k]
          BY <3>2, <3>6, <4>1
        <4> QED
          BY <4>1, <4>2
      <3>7. ASSUME pc[n] = "awaitReport"
            PROVE  \E k \in Responders :
                     /\ ~Pending(k)' /\ Paired(n, k, h[n].saved, h'[k].saved)
                     /\ "RXFCG" \in r[n].ev =>
                          \/ r[n].reg.frame = Foreign
                          \/ r[n].reg.frame.from = k /\ r[n].reg.frame.stamps = h'[k].saved
        <4>1. PICK k \in Responders :
                     /\ ~Pending(k) /\ Paired(n, k, h[n].saved, h[k].saved)
                     /\ "RXFCG" \in r[n].ev =>
                          \/ r[n].reg.frame = Foreign
                          \/ r[n].reg.frame.from = k /\ r[n].reg.frame.stamps = h[k].saved
          BY <3>1, <3>7 DEF HeardAt
        <4>2. ~Pending(k)' /\ h'[k] = h[k]
          BY <3>2, <3>3, <3>7, <4>1
        <4> QED
          BY <4>1, <4>2
      <3>9. Stamps(r[n])' = Stamps(r[n]) /\ Responders' = Responders
        BY <1>4, <1>6
      <3>10. Prog(n)' # "init_nd" /\ pc'[n] = "await" /\ "RXFCG" \in r'[n].ev => HeardOK(n)'
        BY <1>6, <3>4, <3>5
      <3>11. Prog(n)' = "init_nd" /\ pc'[n] = "await" /\ "RXFR" \in r'[n].ev =>
               \E k \in Responders' : ~Pending(k)' /\ Paired(n, k, Stamps(r[n]), h[k].saved)'
        <4>1. SUFFICES ASSUME Prog(n) = "init_nd", pc[n] = "await", "RXFR" \in r[n].ev
                       PROVE  \E k \in Responders' : ~Pending(k)' /\ Paired(n, k, Stamps(r[n]), h[k].saved)'
          BY <1>6, <3>4
        <4>2. PICK k \in Responders : ~Pending(k)' /\ Paired(n, k, Stamps(r[n]), h'[k].saved)
          BY <3>6, <4>1
        <4>3. Paired(n, k, Stamps(r[n]), h[k].saved)'
          BY <1>2, <1>6, <4>2 DEF Paired, Distance
        <4> QED
          BY <3>9, <4>2, <4>3
      <3>12. pc'[n] = "awaitReport" =>
               \E k \in Responders' :
                     /\ ~Pending(k)' /\ Paired(n, k, h[n].saved, h[k].saved)'
                     /\ "RXFCG" \in r'[n].ev =>
                          \/ r'[n].reg.frame = Foreign
                          \/ r'[n].reg.frame.from = k /\ r'[n].reg.frame.stamps = h'[k].saved
        <4>1. SUFFICES ASSUME pc[n] = "awaitReport"
              PROVE \E k \in Responders' :
                     /\ ~Pending(k)' /\ Paired(n, k, h[n].saved, h[k].saved)'
                     /\ "RXFCG" \in r'[n].ev =>
                          \/ r'[n].reg.frame = Foreign
                          \/ r'[n].reg.frame.from = k /\ r'[n].reg.frame.stamps = h'[k].saved
          BY <1>6
        <4>2. PICK k \in Responders :
                     /\ ~Pending(k)' /\ Paired(n, k, h[n].saved, h'[k].saved)
                     /\ "RXFCG" \in r[n].ev =>
                          \/ r[n].reg.frame = Foreign
                          \/ r[n].reg.frame.from = k /\ r[n].reg.frame.stamps = h'[k].saved
          BY <3>7, <4>1
        <4>3. Paired(n, k, h[n].saved, h[k].saved)'
          BY <1>2, <1>6, <4>2 DEF Paired, Distance
        <4> QED
          BY <1>6, <3>9, <4>2, <4>3
      <3> QED
        BY <3>10, <3>11, <3>12 DEF HeardAt
    <2>2. \A n \in Initiators' : HeardAt(n)'
      BY <1>4, <2>1
    <2> QED
      BY <2>2, Zenon DEF HeardInv, HeardAt
  <1>12. LastInv'
    <2>1. ASSUME NEW n \in Initiators
          PROVE  /\ LastOK(n, h[n].last)'
                 /\ (Prog(n) = "init_aes" => h[n].mac \in Macs /\ h[n].mac.cnt = h[n].cnt)'
                 /\ (pc[n] = "stuck" => r[n].reg.frame = Foreign)'
      <3>1. /\ LastOK(n, h[n].last)
            /\ Prog(n) = "init_aes" => h[n].mac \in Macs /\ h[n].mac.cnt = h[n].cnt
            /\ pc[n] = "stuck" => r[n].reg.frame = Foreign
        BY <1>1 DEF LastInv
      <3>2. LastOK(n, h[n].last)'
        BY <1>2, <1>4, <1>6, <3>1, Zenon DEF LastOK, Distance
      <3>3. Prog(n)' = Prog(n)
        BY <1>4, <1>6
      <3> QED
        BY <1>2, <1>6, <3>1, <3>2, <3>3
    <2> QED
      BY <1>4, <2>1 DEF LastInv
  <1> QED
    BY <1>3, <1>8, <1>9, <1>10, <1>11, <1>12 DEF IInv

\* An initiator's step, or one of its radio.
LEMMA InitiatorMoves ==
  ASSUME IInv, NEW n \in Initiators, NEW p, NEW at, NEW d, Step(n, p, at, d),
         NodeOK(n, Prog(n), p, at, d),
         Quiet(p, at) => \A m \in Responders : ~Busy(m),
         LiveOf(p, at) => Live(n) /\ p.txtime = r[n].txtime /\ d.cnt = h[n].cnt,
         HeardAt(n)', Kept(n, d), at = "stuck" => p.reg.frame = Foreign
  PROVE  IInv'
  <1>1. NodeInv /\ QuietInv /\ PollInv /\ AnswerInv /\ HeardInv /\ LastInv
    BY DEF IInv
  <1>2. n \in Nodes /\ cast' = cast /\ r'[n] = p /\ pc'[n] = at /\ h'[n] = d
    BY DEF Initiators, Step
  <1>3. NodeInv'
    BY <1>1, <1>2, NodeSteps
  <1>4. /\ Initiators' = Initiators /\ Responders' = Responders
        /\ \A k \in Nodes : Prog(k)' = Prog(k)
    BY <1>2, SameCast
  <1>5. \A k \in Initiators : k = n
    BY <1>1, PartnersAre
  <1>6. ASSUME NEW k \in Responders
        PROVE  k \in Nodes /\ r'[k] = r[k] /\ pc'[k] = pc[k] /\ h'[k] = h[k]
    <2>1. k \in Nodes /\ k # n
      BY <1>1, PartnersAre
    <2> QED
      BY <2>1, StepOthers
  <1>7. QuietInv'
    <2>1. \A k \in Responders : Busy(k)' <=> Busy(k)
      BY <1>6 DEF Busy, Happened, dwt_readrxdata, CurrentBuffer
    <2>2. (pc'[n] \in {"setup", "poll", "report"} \/ r'[n].power = "TX") =>
             \A m \in Responders : ~Busy(m)'
      BY <1>2, <2>1 DEF Quiet
    <2> QED
      BY <1>4, <1>5, <2>2 DEF QuietInv
  <1>8. Live(n)' => Live(n) /\ r'[n].txtime = r[n].txtime /\ h'[n].cnt = h[n].cnt
    BY <1>2 DEF Live, LiveOf
  <1>9. PollInv'
    <2>1. ASSUME NEW k \in Responders, Live(n)', Pending(k)'
          PROVE  PollOK(n, k)'
      <3>1. Pending(k)
        BY <1>6, <2>1 DEF Pending
      <3>2. PollOK(n, k)
        BY <1>1, <1>8, <2>1, <3>1 DEF PollInv
      <3> QED
        BY <1>2, <1>6, <1>8, <2>1, <3>2, PollStays
    <2> QED
      BY <1>4, <1>5, <2>1 DEF PollInv
  <1>10. AnswerInv'
    <2>1. ASSUME NEW k \in Responders, Live(n)', r'[k].power = "TX", pc'[k] = "sending"
          PROVE  AnswerOK(n, k)'
      <3>1. AnswerOK(n, k)
        BY <1>1, <1>6, <1>8, <2>1 DEF AnswerInv
      <3> QED
        BY <1>2, <1>6, <1>8, <2>1, <3>1, AnswerStays
    <2> QED
      BY <1>4, <1>5, <2>1 DEF AnswerInv
  <1>11. HeardInv'
    <2>1. \A k \in Initiators' : HeardAt(k)'
      BY <1>4, <1>5
    <2> QED
      BY <2>1, Zenon DEF HeardInv, HeardAt
  <1>12. LastInv'
    <2>1. LastOK(n, h[n].last)'
      <3>1. LastOK(n, d.last)
        BY DEF Kept
      <3> QED
        BY <1>2, <1>4, <3>1, Zenon DEF LastOK, Distance
    <2>2. /\ (Prog(n) = "init_aes" => h[n].mac \in Macs /\ h[n].mac.cnt = h[n].cnt)'
          /\ (pc[n] = "stuck" => r[n].reg.frame = Foreign)'
      BY <1>2, <1>4 DEF Kept
    <2> QED
      BY <1>4, <1>5, <2>1, <2>2 DEF LastInv
  <1> QED
    BY <1>3, <1>7, <1>9, <1>10, <1>11, <1>12 DEF IInv

\* A step of a node that takes no part.
LEMMA BystandMoves ==
  ASSUME IInv, NEW n \in Nodes, Bystands(n)
  PROVE  IInv'
  <1>1. NodeInv /\ QuietInv /\ PollInv /\ AnswerInv /\ HeardInv /\ LastInv
    BY DEF IInv
  <1>2. PICK p, at, d : Step(n, p, at, d) /\ NodeOK(n, Prog(n), p, at, d)
    BY DEF Bystands
  <1>3. NodeInv'
    BY <1>1, <1>2, NodeSteps
  <1>4. cast' = cast
    BY <1>2 DEF Step
  <1>5. /\ Initiators' = Initiators /\ Responders' = Responders
        /\ \A k \in Nodes : Prog(k)' = Prog(k)
    BY <1>4, SameCast
  <1>6. ASSUME NEW k \in Initiators \cup Responders
        PROVE  k \in Nodes /\ r'[k] = r[k] /\ pc'[k] = pc[k] /\ h'[k] = h[k]
    <2>1. k \in Nodes /\ k # n
      BY DEF Initiators, Responders, Bystands
    <2> QED
      BY <1>2, <2>1, StepOthers
  <1>7. ASSUME NEW k \in Responders
        PROVE  k \in Nodes /\ r'[k] = r[k] /\ pc'[k] = pc[k] /\ h'[k] = h[k]
    BY <1>6
  <1>8. ASSUME NEW k \in Initiators
        PROVE  k \in Nodes /\ r'[k] = r[k] /\ pc'[k] = pc[k] /\ h'[k] = h[k]
    BY <1>6
  <1>9. QuietInv'
    <2>1. \A k \in Responders : Busy(k)' <=> Busy(k)
      BY <1>7 DEF Busy, Happened, dwt_readrxdata, CurrentBuffer
    <2> QED
      BY <1>1, <1>5, <1>8, <2>1 DEF QuietInv
  <1>10. PollInv'
    <2>1. ASSUME NEW k \in Initiators, NEW m \in Responders, Live(k)', Pending(m)'
          PROVE  PollOK(k, m)'
      <3>1. Live(k) /\ Pending(m)
        BY <1>7, <1>8, <2>1 DEF Live, Pending
      <3>2. PollOK(k, m)
        BY <1>1, <3>1 DEF PollInv
      <3> QED
        BY <1>4, <1>7, <1>8, <3>2, PollStays
    <2> QED
      BY <1>5, <2>1 DEF PollInv
  <1>11. AnswerInv'
    <2>1. ASSUME NEW k \in Initiators, NEW m \in Responders, Live(k)', r'[m].power = "TX",
                 pc'[m] = "sending"
          PROVE  AnswerOK(k, m)'
      <3>1. Live(k) /\ r[m].power = "TX" /\ pc[m] = "sending"
        BY <1>7, <1>8, <2>1 DEF Live
      <3>2. AnswerOK(k, m)
        BY <1>1, <3>1 DEF AnswerInv
      <3> QED
        BY <1>4, <1>7, <1>8, <3>2, AnswerStays
    <2> QED
      BY <1>5, <2>1 DEF AnswerInv
  <1>12. HeardInv'
    <2>1. ASSUME NEW k \in Initiators
          PROVE  HeardAt(k)'
      <3>1. HeardAt(k)
        BY <1>1, HeardEach
      <3>2. Prog(k)' = Prog(k)
        BY <1>5, <1>8
      <3>3. HeardOK(k) => HeardOK(k)'
        BY <1>4, <1>8, HeardStays
      <3>4. \A m \in Responders : Pending(m)' <=> Pending(m)
        BY <1>7 DEF Pending
      <3>5. Stamps(r[k])' = Stamps(r[k])
        BY <1>8
      <3>6. ASSUME NEW m \in Responders
            PROVE  /\ Paired(k, m, Stamps(r[k]), h[m].saved)' <=> Paired(k, m, Stamps(r[k]), h[m].saved)
                   /\ Paired(k, m, h[k].saved, h[m].saved)' <=> Paired(k, m, h[k].saved, h[m].saved)
        BY <1>4, <1>7, <1>8, <3>5 DEF Paired, Distance
      <3>7. \A m \in Responders : h'[m] = h[m]
        BY <1>7
      <3> QED
        BY <1>5, <1>8, <3>1, <3>2, <3>3, <3>4, <3>5, <3>6, <3>7, Zenon DEF HeardAt
    <2>2. \A k \in Initiators' : HeardAt(k)'
      BY <1>5, <2>1
    <2> QED
      BY <2>2, Zenon DEF HeardInv, HeardAt
  <1>13. LastInv'
    <2>1. ASSUME NEW k \in Initiators
          PROVE  /\ LastOK(k, h[k].last)'
                 /\ (Prog(k) = "init_aes" => h[k].mac \in Macs /\ h[k].mac.cnt = h[k].cnt)'
                 /\ (pc[k] = "stuck" => r[k].reg.frame = Foreign)'
      <3>1. /\ LastOK(k, h[k].last)
            /\ Prog(k) = "init_aes" => h[k].mac \in Macs /\ h[k].mac.cnt = h[k].cnt
            /\ pc[k] = "stuck" => r[k].reg.frame = Foreign
        BY <1>1 DEF LastInv
      <3>2. LastOK(k, h[k].last)'
        BY <1>4, <1>5, <1>8, <3>1, Zenon DEF LastOK, Distance
      <3>3. Prog(k)' = Prog(k)
        BY <1>5, <1>8
      <3> QED
        BY <1>4, <1>8, <3>1, <3>2, <3>3
    <2> QED
      BY <1>5, <2>1 DEF LastInv
  <1> QED
    BY <1>3, <1>9, <1>10, <1>11, <1>12, <1>13 DEF IInv

-----------------------------------------------------------------------------
(* A program's step keeps the invariant *)

\* A responder that stops or goes on listening keeps the invariant,
LEMMA RetiresMoves ==
  ASSUME IInv, NEW m \in Nodes, Retires(m)
  PROVE  IInv'
  <1>1. PICK p, at, d :
          /\ Step(m, p, at, d) /\ NodeOK(m, Prog(m), p, at, d)
          /\ p.power # "TX" /\ at \in {"listen", "await", "stuck", "broken", "halted"} /\ ~PendingOf(p, at)
          /\ d = h[m] \/ Pending(m)
    BY Zenon DEF Retires
  <1>2. m \in Responders
    BY DEF Retires
  <1>3. ~BusyOf(p, at)
    BY <1>1 DEF BusyOf
  <1> QED
    BY <1>1, <1>2, <1>3, ResponderMoves

\* one that answers a poll,
LEMMA AnswersMoves ==
  ASSUME IInv, NEW m \in Nodes, Answers(m)
  PROVE  IInv'
  <1>1. PICK p, d :
    /\ Step(m, p, "sending", d) /\ NodeOK(m, Prog(m), p, "sending", d) /\ p.power = "TX"
    /\ Pending(m) /\ r[m].reg.frame # Foreign
    /\ Prog(m) # "resp_nd" => d = h[m] /\ r[m].reg.frame.kind = "poll"
    /\ p.dx = RespTxTime(r[m].reg.time, ReplyDelay(Prog(m)))
    /\ (IF Prog(m) = "resp_nd" THEN d.saved ELSE p.txbuf.stamps)
         = resp_msg_set_ts(r[m].reg.time, RespTxStamp(p.dx))
    /\ Prog(m) = "resp_aes" /\ r[m].reg.frame.mac \in Macs =>
         /\ p.txbuf.mac \in Macs /\ Opens(p.txbuf)
         /\ p.txbuf.mac.cnt = (r[m].reg.frame.mac.cnt + 1) % CntMod
    BY Zenon DEF Answers
  <1>2. m \in Responders
    BY DEF Answers
  <1>3. NodeInv /\ QuietInv /\ PollInv
    BY DEF IInv
  <1>4. \A n \in Initiators : ~Quiet(r[n], pc[n])
    <2>1. Busy(m)
      BY <1>1, <1>3, BusyIs DEF BusyOf, Pending
    <2> QED
      BY <1>2, <1>3, <2>1 DEF QuietInv, Quiet
  <1>5. ASSUME NEW n \in Initiators, Live(n)
        PROVE  AnswerOK(n, m)'
    <2>1. PollOK(n, m)
      BY <1>1, <1>2, <1>3, <1>5 DEF PollInv
    <2>2. /\ \E a \in cast.noise[m] : r[m].reg.time = PollStamp(n, m, a)
          /\ Prog(n) = "init_aes" => r[m].reg.frame.mac \in Macs
                                     /\ r[m].reg.frame.mac.cnt = h[n].cnt
      BY <1>1, <2>1 DEF PollOK
    <2>3. PICK a \in cast.noise[m] : r[m].reg.time = PollStamp(n, m, a)
      BY <2>2
    <2>4. n \in Nodes /\ n # m
      BY <1>2, <1>3, PartnersAre
    <2>5. r'[n] = r[n] /\ h'[n] = h[n]
      BY <1>1, <2>4, StepOthers
    <2>6. cast' = cast /\ r'[m] = p /\ h'[m] = d /\ Prog(m)' = Prog(m) /\ Prog(n)' = Prog(n)
      BY <1>1, <2>4, SameCast DEF Step
    <2>7. PollStamp(n, m, a)' = r[m].reg.time
      BY <2>3, <2>5, <2>6, Zenon DEF PollStamp, Distance
    <2>8. r'[m].dx = RespTxTime(PollStamp(n, m, a)', ReplyDelay(Prog(m)'))
      BY <1>1, <2>6, <2>7
    <2>9. Told(m)' = resp_msg_set_ts(PollStamp(n, m, a)', RespTxStamp(r'[m].dx))
      BY <1>1, <2>6, <2>7 DEF Told
    <2>10. Prog(n)' = "init_aes" =>
             /\ r'[m].txbuf.mac \in Macs /\ Opens(r'[m].txbuf)
             /\ r'[m].txbuf.mac.cnt = (h'[n].cnt + 1) % CntMod
      <3>1. Prog(n) = "init_aes" => Prog(m) = "resp_aes"
        BY <1>2, <1>3, PairsAre
      <3> QED
        BY <1>1, <2>2, <2>5, <2>6, <3>1
    <2>11. a \in cast'.noise[m]
      BY <2>6
    <2> QED
      BY <2>8, <2>9, <2>10, <2>11, Zenon DEF AnswerOK
  <1>6. ~PendingOf(p, "sending") /\ (d = h[m] \/ Pending(m))
    BY <1>1 DEF PendingOf
  <1> QED
    BY <1>1, <1>2, <1>4, <1>5, <1>6, ResponderMoves

\* one that sends its report,
LEMMA ReportsMoves ==
  ASSUME IInv, NEW m \in Nodes, Reports(m)
  PROVE  IInv'
  <1>1. PICK p : /\ Step(m, p, "reporting", h[m]) /\ NodeOK(m, Prog(m), p, "reporting", h[m])
                 /\ p.power = "TX" /\ pc[m] = "sending"
    BY Zenon DEF Reports
  <1>2. m \in Responders
    BY DEF Reports
  <1>3. \A n \in Initiators : ~Quiet(r[n], pc[n])
    <2>1. Busy(m)
      BY <1>1 DEF Busy
    <2> QED
      BY <1>2, <2>1 DEF IInv, QuietInv, Quiet
  <1>4. ~PendingOf(p, "reporting") /\ (h[m] = h[m] \/ Pending(m))
    BY DEF PendingOf
  <1> QED
    BY <1>1, <1>2, <1>3, <1>4, ResponderMoves

\* an initiator that polls,
LEMMA PollsMoves ==
  ASSUME IInv, NEW n \in Nodes, Polls(n)
  PROVE  IInv'
  <1>1. PICK at : at = IF Prog(n) \in {"init_sts", "init_nd"} THEN "polled" ELSE "await"
    OBVIOUS
  <1>2. PICK p, d :
          /\ Step(n, p, at, d) /\ NodeOK(n, Prog(n), p, at, d)
          /\ p.power = "TX" /\ pc[n] = "poll"
          /\ d.last = h[n].last /\ d.cnt = h[n].cnt
          /\ Prog(n) = "init_aes" => d.mac \in Macs /\ d.mac.cnt = d.cnt
    BY <1>1, Zenon DEF Polls
  <1>3. n \in Initiators
    BY DEF Polls
  <1>4. \A m \in Responders : ~Busy(m)
    BY <1>2, <1>3 DEF IInv, QuietInv
  <1>5. ~LiveOf(p, at) /\ at # "stuck"
    BY <1>1, <1>2 DEF LiveOf
  <1>6. HeardAt(n)'
    <2>1. IsInitiator(Prog(n))
      BY <1>3, RolesAre
    <2>2. p.ev \cap RxEnded = {}
      BY <1>2, <2>1 DEF NodeOK, EventOK
    <2>3. r'[n] = p /\ pc'[n] = at /\ Prog(n)' = Prog(n)
      BY <1>2, SameCast DEF Step
    <2>4. "RXFCG" \notin r'[n].ev
      BY <2>2, <2>3 DEF RxEnded
    <2> QED
      BY <1>1, <2>3, <2>4 DEF HeardAt
  <1>7. Kept(n, d)
    BY <1>1, <1>2, <1>3 DEF IInv, LastInv, Kept
  <1> QED
    BY <1>2, <1>3, <1>4, <1>5, <1>6, <1>7, InitiatorMoves

\* one that opens its receiver,
LEMMA HearkensMoves ==
  ASSUME IInv, NEW n \in Nodes, Hearkens(n)
  PROVE  IInv'
  <1>1. PICK p : /\ Step(n, p, "await", h[n]) /\ NodeOK(n, Prog(n), p, "await", h[n])
                 /\ p.power = "RX" /\ p.ev \cap RxEvents = {} /\ p.txtime = r[n].txtime
                 /\ Live(n)
    BY Zenon DEF Hearkens
  <1>2. n \in Initiators
    BY DEF Hearkens
  <1>3. ~Quiet(p, "await")
    BY <1>1 DEF Quiet
  <1>4. HeardAt(n)'
    <2>1. r'[n] = p /\ pc'[n] = "await"
      BY <1>1 DEF Step
    <2>2. "RXFCG" \notin p.ev /\ "RXFR" \notin p.ev
      BY <1>1 DEF RxEvents, ALL_RX_GOOD
    <2> QED
      BY <2>1, <2>2 DEF HeardAt
  <1>5. Kept(n, h[n])
    BY <1>2 DEF IInv, LastInv, Kept
  <1> QED
    BY <1>1, <1>2, <1>3, <1>4, <1>5, InitiatorMoves

\* one that waits for the report,
LEMMA AwaitsReportMoves ==
  ASSUME IInv, NEW n \in Nodes, AwaitsReport(n)
  PROVE  IInv'
  <1>1. PICK p, d :
    /\ Step(n, p, "awaitReport", d) /\ NodeOK(n, Prog(n), p, "awaitReport", d)
    /\ p.power = "RX" /\ p.ev \cap RxEvents = {} /\ p.txtime = r[n].txtime
    /\ Live(n) /\ pc[n] = "await" /\ "RXFR" \in r[n].ev /\ Prog(n) = "init_nd"
    /\ d.saved = Stamps(r[n]) /\ d.last = h[n].last /\ d.cnt = h[n].cnt
    BY Zenon DEF AwaitsReport
  <1>2. n \in Initiators
    BY DEF AwaitsReport
  <1>3. ~Quiet(p, "awaitReport")
    BY <1>1 DEF Quiet
  <1>4. HeardAt(n)'
    <2>1. r'[n] = p /\ pc'[n] = "awaitReport" /\ h'[n] = d /\ cast' = cast
      BY <1>1 DEF Step
    <2>2. "RXFCG" \notin p.ev
      BY <1>1 DEF RxEvents, ALL_RX_GOOD
    <2>3. PICK m \in Responders : ~Pending(m) /\ Paired(n, m, Stamps(r[n]), h[m].saved)
      BY <1>1, <1>2 DEF IInv, HeardInv
    <2>4. m \in Nodes /\ m # n
      BY <1>2, PartnersAre DEF IInv
    <2>5. r'[m] = r[m] /\ pc'[m] = pc[m] /\ h'[m] = h[m]
      BY <1>1, <2>4, StepOthers
    <2>6. ~Pending(m)'
      BY <2>3, <2>5 DEF Pending
    <2>7. Paired(n, m, h[n].saved, h[m].saved)'
      BY <1>1, <2>1, <2>3, <2>5 DEF Paired, Distance
    <2>8. Responders' = Responders
      BY <2>1, SameCast
    <2> QED
      BY <2>1, <2>2, <2>3, <2>6, <2>7, <2>8 DEF HeardAt
  <1>5. Kept(n, d)
    BY <1>1, <1>2 DEF IInv, LastInv, Kept
  <1> QED
    BY <1>1, <1>2, <1>3, <1>4, <1>5, InitiatorMoves

\* and one that has done with an exchange.
LEMMA StopsMoves ==
  ASSUME IInv, NEW n \in Nodes, Stops(n)
  PROVE  IInv'
  <1>1. PICK p, at, d :
    /\ Step(n, p, at, d) /\ NodeOK(n, Prog(n), p, at, d)
    /\ p.power # "TX" /\ at \in {"pause", "stuck", "broken", "poll", "report", "halted"}
    /\ at \in {"poll", "report"} => \A m \in Responders : ~Busy(m)
    /\ at = "stuck" => p.reg.frame = Foreign
    /\ Kept(n, d)
    BY Zenon DEF Stops
  <1>2. n \in Initiators
    BY DEF Stops
  <1>3. (Quiet(p, at) => \A m \in Responders : ~Busy(m)) /\ ~LiveOf(p, at)
    BY <1>1 DEF Quiet, LiveOf
  <1>4. HeardAt(n)'
    <2>1. pc'[n] = at
      BY <1>1 DEF Step
    <2> QED
      BY <1>1, <2>1 DEF HeardAt
  <1> QED
    BY <1>1, <1>2, <1>3, <1>4, InitiatorMoves

\* Every step of a program keeps it.
LEMMA ProgramMoves ==
  ASSUME IInv, NEW n \in Nodes, Program(n)
  PROVE  IInv'
  BY ProgramSteps, RetiresMoves, AnswersMoves, ReportsMoves, BystandMoves, PollsMoves,
     HearkensMoves, AwaitsReportMoves, StopsMoves, Zenon

-----------------------------------------------------------------------------
(* A radio's reception ends *)

EndChanges == {"power", "ev", "reg", "buf", "good", "held", "fill", "iv", "ivreg"}

\* The events of a reception that ends well, and of one that does not.
Ends(E) == E \subseteq ALL_RX_GOOD \/ E \subseteq ALL_RX_ERR \cup ALL_RX_TO

\* The radio afterwards is as its program expects it.
LEMMA EndNode ==
  ASSUME NEW k, NEW g, NEW q, NEW at, NEW d, NodeOK(k, g, q, at, d), q.power = "RX",
         NEW p, Changes(q, p, EndChanges), Single(p), p.power = "IDLE",
         NEW E, Ends(E), p.ev = q.ev \cup E, p.reg.time \in Int,
         g = "resp_nd" /\ PendingOf(p, at) => p.reg.frame # Foreign
  PROVE  NodeOK(k, g, p, at, d) /\ at \in {"await", "awaitReport"}
         /\ p.txtime = q.txtime /\ p.spc = q.spc
  <1>1. RadioOK(g, q, at) /\ PlaceOK(g, at) /\ EventOK(g, q, at) /\ SentOK(k, g, q, at, d) /\ DataOK(d)
    BY DEF NodeOK
  <1>2. HasFields(q)
    BY <1>1 DEF RadioOK, Single
  <1>3. p.txtime = q.txtime /\ p.spc = q.spc /\ p.dx = q.dx /\ p.txant = q.txant /\ p.rxant = q.rxant
    BY <1>2, FieldsThere, Zenon DEF Changes, EndChanges
  <1>4. at \in {"await", "awaitReport"}
    BY <1>1 DEF RadioOK
  <1>5. q.ev \cap RxEvents = {} /\ q.ev \subseteq Events
    BY <1>1 DEF RadioOK, Eventful
  <1>6. E \subseteq Events /\ "TXFRS" \notin E
    BY DEF Ends, Events, ALL_RX_GOOD, ALL_RX_ERR, ALL_RX_TO
  <1>7. p.ev \cap ALL_RX_GOOD = {} \/ p.ev \cap (ALL_RX_ERR \cup ALL_RX_TO) = {}
    <2>1. CASE E \subseteq ALL_RX_GOOD
      <3>1. q.ev \cap (ALL_RX_ERR \cup ALL_RX_TO) = {}
        BY <1>5 DEF RxEvents
      <3> QED
        BY <2>1, <3>1 DEF ALL_RX_GOOD, ALL_RX_ERR, ALL_RX_TO
    <2>2. CASE E \subseteq ALL_RX_ERR \cup ALL_RX_TO
      <3>1. q.ev \cap ALL_RX_GOOD = {}
        BY <1>5 DEF RxEvents
      <3> QED
        BY <2>2, <3>1 DEF ALL_RX_GOOD, ALL_RX_ERR, ALL_RX_TO
    <2> QED
      BY <2>1, <2>2 DEF Ends
  <1>8. Eventful(p)
    BY <1>5, <1>6, <1>7 DEF Eventful
  <1>9. Timed(p)
    BY <1>1, <1>3 DEF Timed, RadioOK
  <1>10. RadioOK(g, p, at)
    BY <1>1, <1>3, <1>4, <1>8, <1>9 DEF RadioOK
  <1>11. EventOK(g, p, at)
    BY <1>1, <1>3, <1>4, <1>6 DEF EventOK
  <1>12. SentOK(k, g, p, at, d)
    BY DEF SentOK
  <1> QED
    BY <1>1, <1>3, <1>4, <1>10, <1>11, <1>12 DEF NodeOK

\* A step of a radio is one of its node.
LEMMA RadioStep ==
  ASSUME NodeInv, NEW n \in Nodes, NEW p, r' = [r EXCEPT ![n] = p],
         UNCHANGED <<cast, pc, h>>
  PROVE  Step(n, p, pc[n], h[n])
  BY Zenon DEF NodeInv, Step

\* A radio listens only for a node that takes part.
LEMMA ListenerIs ==
  ASSUME NodeInv, NEW n \in Nodes, r[n].power = "RX"
  PROVE  /\ n \in Initiators \/ n \in Responders
         /\ n \in Initiators => Live(n) /\ (pc[n] = "awaitReport" => Prog(n) = "init_nd")
         /\ n \in Responders => pc[n] = "await" /\ ~Pending(n) /\ (Prog(n) = "resp_nd" => r[n].spc = "ND")
         /\ Prog(n) = "init_nd" => r[n].spc = IF pc[n] = "await" THEN "ND" ELSE "OFF"
         /\ pc[n] \in {"await", "awaitReport"} /\ r[n].ev \cap RxEvents = {}
  <1>1. NodeOK(n, Prog(n), r[n], pc[n], h[n])
    BY NodeIs
  <1>2. pc[n] \in {"await", "awaitReport"} /\ r[n].ev \cap RxEvents = {}
    BY <1>1 DEF NodeOK, RadioOK, Eventful
  <1>3. n \in Initiators <=> IsInitiator(Prog(n))
    BY RolesAre
  <1>4. n \in Responders <=> IsResponder(Prog(n))
    BY RolesAre
  <1>5. IsInitiator(Prog(n)) \/ IsResponder(Prog(n))
    BY <1>1, <1>2 DEF NodeOK, PlaceOK
  <1>6. ~(IsInitiator(Prog(n)) /\ IsResponder(Prog(n)))
    BY DEF IsInitiator, IsResponder
  <1>7. n \in Initiators => Live(n) /\ (pc[n] = "awaitReport" => Prog(n) = "init_nd")
    BY <1>1, <1>2 DEF Live, NodeOK, PlaceOK
  <1>8. n \in Responders => pc[n] = "await"
    BY <1>1, <1>2, <1>4 DEF NodeOK, PlaceOK
  <1>9. ~Pending(n)
    BY <1>2 DEF Pending, PendingOf, RxEvents, ALL_RX_GOOD
  <1>10. Prog(n) = "resp_nd" => IsResponder(Prog(n))
    BY DEF IsResponder
  <1>11. Prog(n) = "init_nd" => r[n].spc = IF pc[n] = "await" THEN "ND" ELSE "OFF"
    BY <1>1, <1>2 DEF NodeOK, EventOK
  <1>12. n \in Responders => (Prog(n) = "resp_nd" => r[n].spc = "ND")
    BY <1>1, <1>8 DEF NodeOK, EventOK
  <1> QED
    BY <1>2, <1>3, <1>4, <1>5, <1>7, <1>8, <1>9, <1>11, <1>12

\* The invariant survives a timeout,
LEMMA TimesOutMoves ==
  ASSUME IInv, NEW n \in Nodes, TimesOut(n)
  PROVE  IInv'
  <1> DEFINE p == Failed(r[n], "RXTO")
  <1>1. NodeInv /\ LastInv
    BY DEF IInv
  <1>2. r[n].power = "RX" /\ r' = [r EXCEPT ![n] = p] /\ UNCHANGED <<cast, pc, h>>
    BY DEF TimesOut
  <1>3. Single(r[n]) /\ HasFields(r[n]) /\ NodeOK(n, Prog(n), r[n], pc[n], h[n]) /\ Timed(r[n])
    BY <1>1, NodeIs
  <1>4. Changes(r[n], p, {"power", "ev"}) /\ p.power = "IDLE" /\ p.ev = r[n].ev \cup {"RXTO"}
    BY <1>3, FailedIs
  <1> HIDE DEF p
  <1>5. Step(n, p, pc[n], h[n])
    BY <1>1, <1>2, RadioStep
  <1>6. r[n].ev \cap RxEvents = {}
    BY <1>1, <1>2, ListenerIs
  <1>7. "RXFCG" \notin p.ev /\ "RXFR" \notin p.ev
    BY <1>4, <1>6 DEF RxEvents, ALL_RX_GOOD
  <1>8. p.reg = r[n].reg
    BY <1>3, <1>4, FieldsThere, Zenon DEF Changes
  <1>9. NodeOK(n, Prog(n), p, pc[n], h[n]) /\ pc[n] \in {"await", "awaitReport"}
        /\ p.txtime = r[n].txtime
    <2>1. Single(p)
      BY <1>3, <1>4, SingleKept
    <2>2. Changes(r[n], p, EndChanges)
      BY <1>4, Zenon DEF Changes, EndChanges
    <2>3. Ends({"RXTO"})
      BY DEF Ends, ALL_RX_TO
    <2>4. p.reg.time \in Int
      BY <1>3, <1>8 DEF Timed
    <2>5. Prog(n) = "resp_nd" /\ PendingOf(p, pc[n]) => p.reg.frame # Foreign
      BY <1>7 DEF PendingOf
    <2> QED
      BY <1>2, <1>3, <1>4, <2>1, <2>2, <2>3, <2>4, <2>5, EndNode
  <1>10. ~PendingOf(p, pc[n]) /\ ~BusyOf(p, pc[n])
    BY <1>7, <1>9 DEF PendingOf, BusyOf
  <1>11. CASE n \in Initiators
    <2>1. ~Quiet(p, pc[n]) /\ pc[n] # "stuck"
      BY <1>4, <1>9 DEF Quiet
    <2>2. Live(n)
      BY <1>1, <1>2, <1>11, ListenerIs
    <2>3. Kept(n, h[n])
      BY <1>1, <1>9, <1>11 DEF LastInv, Kept
    <2>4. HeardAt(n)'
      <3>1. r'[n] = p /\ pc'[n] = pc[n] /\ h'[n] = h[n] /\ cast' = cast
        BY <1>5 DEF Step
      <3>2. pc[n] = "awaitReport" =>
              \E m \in Responders : ~Pending(m) /\ Paired(n, m, h[n].saved, h[m].saved)
        BY <1>11 DEF IInv, HeardInv
      <3>3. ASSUME NEW m \in Responders
            PROVE  /\ Pending(m)' <=> Pending(m)
                   /\ Paired(n, m, h[n].saved, h[m].saved)' <=> Paired(n, m, h[n].saved, h[m].saved)
        <4>1. m \in Nodes /\ m # n
          BY <1>1, <1>11, PartnersAre
        <4>2. r'[m] = r[m] /\ pc'[m] = pc[m] /\ h'[m] = h[m]
          BY <1>5, <4>1, StepOthers
        <4> QED
          BY <3>1, <4>2 DEF Pending, Paired, Distance
      <3>4. Responders' = Responders
        BY <3>1, SameCast
      <3> QED
        BY <1>7, <3>1, <3>2, <3>3, <3>4 DEF HeardAt
    <2> QED
      BY <1>5, <1>9, <1>11, <2>1, <2>2, <2>3, <2>4, InitiatorMoves
  <1>12. CASE n \in Responders
    <2>1. pc[n] # "sending"
      BY <1>9
    <2> QED
      BY <1>5, <1>9, <1>10, <1>12, <2>1, ResponderMoves
  <1> QED
    BY <1>1, <1>2, <1>11, <1>12, ListenerIs

\* and a frame of another device.
LEMMA ForeignFrameMoves ==
  ASSUME IInv, NEW n \in Nodes, ForeignFrame(n)
  PROVE  IInv'
  <1> DEFINE slot == [NoSlot EXCEPT !.frame = Foreign]
             p == Received(r[n], slot)
             E == {"RXFR", "RXFCG", "CIADONE"}
  <1>1. NodeInv /\ LastInv
    BY DEF IInv
  <1>2. cast.foreign /\ r[n].power = "RX" /\ r[n].spc = "OFF" /\ r' = [r EXCEPT ![n] = p]
        /\ UNCHANGED <<cast, pc, h>>
    BY DEF ForeignFrame
  <1>3. Single(r[n]) /\ HasFields(r[n]) /\ NodeOK(n, Prog(n), r[n], pc[n], h[n])
    BY <1>1, NodeIs
  <1>4. slot.frame = Foreign /\ slot.time = 0
    BY Zenon DEF NoSlot
  <1> HIDE DEF slot
  <1>5. /\ Changes(r[n], p, {"power", "ev", "reg", "buf", "good", "held", "fill"})
        /\ p.power = "IDLE" /\ p.reg = slot /\ Single(p)
        /\ p.ev = r[n].ev \cup (IF r[n].spc = "ND" THEN {"RXFR", "CIADONE"} ELSE E)
    BY <1>3, ReceivedIs
  <1> HIDE DEF p
  <1>6. p.ev = r[n].ev \cup E
    BY <1>2, <1>5
  <1>7. Step(n, p, pc[n], h[n])
    BY <1>1, <1>2, RadioStep
  <1>8. Prog(n) # "resp_nd" /\ (Prog(n) = "init_nd" => pc[n] = "awaitReport")
    <2>1. Prog(n) = "resp_nd" => n \in Responders
      BY DEF Responders
    <2> QED
      BY <1>1, <1>2, <2>1, ListenerIs
  <1>9. NodeOK(n, Prog(n), p, pc[n], h[n]) /\ pc[n] \in {"await", "awaitReport"}
        /\ p.txtime = r[n].txtime
    <2>1. Changes(r[n], p, EndChanges)
      BY <1>5, Zenon DEF Changes, EndChanges
    <2>2. Ends(E)
      BY DEF Ends, ALL_RX_GOOD
    <2>3. p.reg.time \in Int
      BY <1>4, <1>5
    <2> HIDE DEF E
    <2> QED
      BY <1>2, <1>3, <1>5, <1>6, <1>8, <2>1, <2>2, <2>3, EndNode
  <1>10. CASE n \in Initiators
    <2>1. ~Quiet(p, pc[n]) /\ pc[n] # "stuck"
      BY <1>5, <1>9 DEF Quiet
    <2>2. Live(n)
      BY <1>1, <1>2, <1>10, ListenerIs
    <2>3. Kept(n, h[n])
      BY <1>1, <1>9, <1>10 DEF LastInv, Kept
    <2>4. HeardAt(n)'
      <3>1. r'[n] = p /\ pc'[n] = pc[n] /\ h'[n] = h[n] /\ cast' = cast
        BY <1>7 DEF Step
      <3>2. pc[n] = "awaitReport" =>
              \E m \in Responders : ~Pending(m) /\ Paired(n, m, h[n].saved, h[m].saved)
        BY <1>10 DEF IInv, HeardInv
      <3>3. ASSUME NEW m \in Responders
            PROVE  /\ Pending(m)' <=> Pending(m)
                   /\ Paired(n, m, h[n].saved, h[m].saved)' <=> Paired(n, m, h[n].saved, h[m].saved)
        <4>1. m \in Nodes /\ m # n
          BY <1>1, <1>10, PartnersAre
        <4>2. r'[m] = r[m] /\ pc'[m] = pc[m] /\ h'[m] = h[m]
          BY <1>7, <4>1, StepOthers
        <4> QED
          BY <3>1, <4>2 DEF Pending, Paired, Distance
      <3>4. Responders' = Responders /\ Prog(n)' = Prog(n)
        BY <3>1, SameCast
      <3>5. r'[n].reg.frame = Foreign /\ cast'.foreign
        BY <1>2, <1>4, <1>5, <3>1
      <3>6. HeardOK(n)'
        BY <3>5 DEF HeardOK
      <3> QED
        BY <1>8, <3>1, <3>2, <3>3, <3>4, <3>5, <3>6 DEF HeardAt
    <2> QED
      BY <1>7, <1>9, <1>10, <2>1, <2>2, <2>3, <2>4, InitiatorMoves
  <1>11. CASE n \in Responders
    <2>1. pc[n] # "sending" /\ ~BusyOf(p, pc[n])
      BY <1>4, <1>5, <1>9 DEF BusyOf
    <2>2. \A k \in Initiators : PollOK(k, n)'
      <3>1. r'[n].reg.frame = Foreign
        BY <1>4, <1>5, <1>7 DEF Step
      <3> QED
        BY <3>1 DEF PollOK
    <2> QED
      BY <1>7, <1>8, <1>9, <1>11, <2>1, <2>2, ResponderMoves
  <1> QED
    BY <1>1, <1>2, <1>10, <1>11, ListenerIs

-----------------------------------------------------------------------------
(* The arithmetic of an answer *)

\* Times a whole number of turns apart show the same clock.
LEMMA SameClock ==
  ASSUME NEW x \in Int, NEW y \in Int, NEW q \in Int, x = y + (q * ClockSize)
  PROVE  Clock(x) = Clock(y)
  <1>1. ClockSize \in Nat \ {0}
    BY DelaysAre
  <1>2. y % ClockSize \in 0..ClockSize - 1
    BY <1>1, DivMod
  <1>3. PICK p \in Int : y = (p * ClockSize) + (y % ClockSize)
    BY <1>1, DivMod
  <1> DEFINE e == y % ClockSize
  <1>4. e \in 0..ClockSize - 1 /\ y = (p * ClockSize) + e
    BY <1>2, <1>3
  <1> HIDE DEF e
  <1>5. x = ((p + q) * ClockSize) + e
    <2>1. (p + q) * ClockSize = (p * ClockSize) + (q * ClockSize)
      BY <1>1
    <2> QED
      BY <1>1, <1>4, <2>1
  <1>6. p + q \in Int
    OBVIOUS
  <1>7. x % ClockSize = e
    BY <1>1, <1>4, <1>5, <1>6, RestIs
  <1> QED
    BY <1>7 DEF Clock, e

\* A response is promised for less than two steps of a delayed time before the
\* end of its delay.
LEMMA PromisedIs ==
  ASSUME NEW u \in Int, NEW delay \in Nat
  PROVE  LET x == RespTxStamp(RespTxTime(Clock(u), delay))
         IN  x \in Int /\ \E rest \in 0..2 * DelayUnit - 1, q \in Int :
               x = (u + Ticks(delay) + AntDelay - rest) + (q * ClockSize)
  <1> DEFINE K == ClockSize \div DelayUnit
             s == Clock(u) + Ticks(delay)
             y == s \div DelayUnit
             dx == y % K
             e == dx % 2
  <1>1. /\ K \in Nat \ {0} /\ DelayUnit \in Nat \ {0} /\ AntDelay \in Nat
        /\ ClockSize \in Nat \ {0} /\ Ticks(delay) \in Int
    BY DelaysAre DEF Ticks
  <1>2. K * DelayUnit = ClockSize
    <2>1. ClockSize = (K * DelayUnit) + (ClockSize % DelayUnit)
      BY <1>1
    <2>2. ClockSize % DelayUnit = 0
      BY CastAssumption DEF CastAssumption
    <2> HIDE DEF K
    <2> QED
      BY <1>1, <2>1, <2>2
  <1> HIDE DEF K
  <1>3. Clock(u) \in Int /\ \E q \in Int : u = (q * ClockSize) + Clock(u)
    <2>1. u % ClockSize \in 0..ClockSize - 1
      BY <1>1, DivMod
    <2>2. \E q \in Int : u = (q * ClockSize) + (u % ClockSize)
      BY <1>1, DivMod
    <2>3. Clock(u) = u % ClockSize
      BY DEF Clock
    <2>4. Clock(u) \in 0..ClockSize - 1
      BY <2>1, <2>3
    <2>5. Clock(u) \in Int
      BY <1>1, <2>4
    <2> QED
      BY ONLY <2>2, <2>3, <2>5, Zenon
  <1>4. PICK q1 \in Int : u = (q1 * ClockSize) + Clock(u)
    BY <1>3
  <1> DEFINE c == Clock(u)
             ticks == Ticks(delay)
  <1>5. c \in Int /\ ticks \in Int /\ u = (q1 * ClockSize) + c /\ s = c + ticks
    BY <1>1, <1>3, <1>4
  <1> HIDE DEF s, c, ticks
  <1>6. s \in Int
    BY <1>5
  <1>7. y \in Int /\ s % DelayUnit \in 0..DelayUnit - 1 /\ s = (y * DelayUnit) + (s % DelayUnit)
    BY <1>1, <1>6
  <1> DEFINE e1 == s % DelayUnit
  <1>8. e1 \in 0..DelayUnit - 1 /\ s = (y * DelayUnit) + e1
    BY <1>7
  <1> HIDE DEF e1, y
  <1>9. dx \in 0..K - 1 /\ \E q \in Int : y = (q * K) + dx
    BY <1>1, <1>7, DivMod
  <1>10. PICK q2 \in Int : y = (q2 * K) + dx
    BY <1>9
  <1>11. dx \in Nat
    BY <1>1, <1>9
  <1> HIDE DEF dx
  <1>12. e \in 0..1
    BY <1>11
  <1> HIDE DEF e
  <1>13. (dx - e) * DelayUnit = (s - e1 - (e * DelayUnit)) - (q2 * ClockSize)
    <2>1. (dx - e) * DelayUnit = (dx * DelayUnit) - (e * DelayUnit)
      BY <1>1, <1>11, <1>12
    <2>2. y * DelayUnit = ((q2 * K) * DelayUnit) + (dx * DelayUnit)
      BY <1>1, <1>10, <1>11
    <2>3. (q2 * K) * DelayUnit = q2 * (K * DelayUnit)
      BY <1>1
    <2>4. (q2 * K) * DelayUnit = q2 * ClockSize
      BY <1>2, <2>3
    <2> QED
      BY <1>1, <1>6, <1>7, <1>8, <1>11, <1>12, <2>1, <2>2, <2>4
  <1> DEFINE x == ((dx - e) * DelayUnit) + AntDelay
             rest == e1 + (e * DelayUnit)
             q == -(q1 + q2)
  <1>14. rest \in 0..2 * DelayUnit - 1 /\ q \in Int
    <2>1. CASE e = 0
      BY <1>1, <1>8, <2>1
    <2>2. CASE e = 1
      BY <1>1, <1>8, <2>2
    <2> QED
      BY <1>12, <2>1, <2>2
  <1>15. x = (u + ticks + AntDelay - rest) + (q * ClockSize)
    <2>1. q * ClockSize = -(q1 * ClockSize) - (q2 * ClockSize)
      BY <1>1
    <2>2. c + (q1 * ClockSize) = u
      BY <1>5, <1>1
    <2>3. q * ClockSize \in Int /\ q1 * ClockSize \in Int /\ q2 * ClockSize \in Int
          /\ e * DelayUnit \in Int
      BY <1>1, <1>12, <1>14
    <2> QED
      BY <1>1, <1>5, <1>8, <1>13, <2>1, <2>2, <2>3
  <1>16. x \in Int
    BY <1>1, <1>11, <1>12
  <1>17. x = RespTxStamp(RespTxTime(Clock(u), delay))
    BY DEF RespTxStamp, RespTxTime, s, y, dx, e, K
  <1> HIDE DEF x, rest, q
  <1>18. \E p1 \in 0..2 * DelayUnit - 1, p2 \in Int :
           x = (u + ticks + AntDelay - p1) + (p2 * ClockSize)
    BY <1>14, <1>15
  <1> QED
    BY <1>16, <1>17, <1>18 DEF ticks

\* A poll leaves at t and arrives after far and a ticks; the answer arrives
\* after far and b ticks.  The clocks are cn and cm ahead.
GivesFlights(t, cn, cm, far, a, b, delay) ==
  LET u == t - cn + cm + far + a
      x == RespTxStamp(RespTxTime(Clock(u), delay))
  IN  TwiceFlight(LowStamp(t), LowStamp(Clock(x - cm + far + cn + b)),
                  LowStamp(Clock(u)), LowStamp(x)) = 2 * far + a + b

\* The stamps of an answer, and of the poll it answers, give the flights of
\* both, if the exchange is short.
LEMMA AnswerPairs ==
  ASSUME NEW t \in Int, NEW cn \in Int, NEW cm \in Int, NEW far \in Nat,
         NEW a \in Int, NEW b \in Int, NEW delay \in Nat,
         Ticks(delay) + AntDelay < HalfStamp,
         2 * far + a + b + Ticks(delay) + AntDelay < HalfStamp,
         2 * far + a + b >= 2 * DelayUnit - HalfStamp
  PROVE  GivesFlights(t, cn, cm, far, a, b, delay)
  <1> DEFINE u == t - cn + cm + far + a
             x == RespTxStamp(RespTxTime(Clock(u), delay))
             ticks == Ticks(delay)
  <1>1. u \in Int
    OBVIOUS
  <1>2. /\ HalfStamp \in Nat \ {0} /\ DelayUnit \in Nat \ {0} /\ AntDelay \in Nat
        /\ ClockSize \in Nat \ {0} /\ 2 * DelayUnit <= HalfStamp
    BY DelaysAre, RangingAssumption, CastAssumption DEF RangingAssumption, CastAssumption
  <1>3. ticks \in Nat
    <2>1. Uus \in Nat \ {0}
      BY DelaysAre
    <2> QED
      BY <2>1 DEF Ticks
  <1>4. /\ ticks + AntDelay < HalfStamp /\ 2 * far + a + b + ticks + AntDelay < HalfStamp
    OBVIOUS
  <1>5. PICK rest \in 0..2 * DelayUnit - 1, q \in Int :
           x = (u + ticks + AntDelay - rest) + (q * ClockSize)
    BY <1>1, PromisedIs
  <1>6. x \in Int
    BY <1>1, PromisedIs
  <1> HIDE DEF ticks, x
  <1> DEFINE v == u + ticks + AntDelay - rest
             w == v - cm + far + cn + b
             y == x - cm + far + cn + b
  <1>7. v \in Int /\ w \in Int /\ y \in Int
    BY <1>1, <1>2, <1>3, <1>6
  <1>8. x = v + (q * ClockSize)
    BY <1>5
  <1>9. y = w + (q * ClockSize)
    <2>1. q * ClockSize \in Int
      BY <1>2
    <2> QED
      BY <1>7, <1>8, <2>1
  <1>10. Clock(x) = Clock(v) /\ Clock(y) = Clock(w)
    <2> HIDE DEF v, w, y
    <2> QED
      BY <1>6, <1>7, <1>8, <1>9, SameClock
  <1>11. v - u = ticks + AntDelay - rest
    BY <1>1, <1>2, <1>3
  <1>12. w - t = 2 * far + a + b + ticks + AntDelay - rest
    BY <1>2, <1>3
  <1>13. v - u \in -HalfStamp..HalfStamp - 1
    BY <1>2, <1>3, <1>4, <1>11
  <1>14. w - t \in -HalfStamp..HalfStamp - 1
    <2> DEFINE f == 2 * far + a + b
    <2>1. f \in Int /\ f >= 2 * DelayUnit - HalfStamp /\ f + ticks + AntDelay < HalfStamp
          /\ w - t = f + ticks + AntDelay - rest
      BY <1>4, <1>12
    <2> HIDE DEF f, w
    <2>2. w - t < HalfStamp /\ w - t >= -HalfStamp
      BY <1>2, <1>3, <2>1
    <2> QED
      BY <1>2, <1>7, <2>2
  <1>15. SignedDiff(LowStamp(Clock(v)), LowStamp(Clock(u))) = v - u
    <2> HIDE DEF v, u
    <2> QED
      BY <1>1, <1>7, <1>13, SignedDiffExact
  <1>16. SignedDiff(LowStamp(Clock(w)), LowStamp(Clock(t))) = w - t
    <2> HIDE DEF w
    <2> QED
      BY <1>7, <1>14, SignedDiffExact
  <1>17. /\ LowStamp(t) = LowStamp(Clock(t)) /\ LowStamp(x) = LowStamp(Clock(v))
         /\ LowStamp(Clock(y)) = LowStamp(Clock(w))
    BY <1>6, <1>10, LowOfClockIs
  <1>18. TwiceFlight(LowStamp(t), LowStamp(Clock(y)), LowStamp(Clock(u)), LowStamp(x))
           = (w - t) - (v - u)
    BY <1>15, <1>16, <1>17 DEF TwiceFlight
  <1>19. (w - t) - (v - u) = 2 * far + a + b
    <2> HIDE DEF v, w
    <2> QED
      BY <1>2, <1>3, <1>11, <1>12, <1>1, <1>7
  <1> QED
    BY <1>18, <1>19, Zenon DEF GivesFlights, x

-----------------------------------------------------------------------------
(* A frame that is sent *)

\* The sender afterwards.
LEMMA SentNode ==
  ASSUME NEW k, NEW g, NEW q, NEW at, NEW d, NodeOK(k, g, q, at, d), q.power = "TX", NEW t \in Int
  PROVE  LET p == Settled(SequenceUsed(Sent(q, t)), at)
         IN  /\ NodeOK(k, g, p, at, d) /\ p.power \in {"IDLE", "RX"} /\ p.txtime = t
             /\ IsInitiator(g) => p.ev \cap RxEnded = {}
             /\ at \in {"polled", "await", "sending", "reporting"}
  <1> DEFINE a == Sent(q, t)
             s == SequenceUsed(a)
  <1>1. RadioOK(g, q, at) /\ PlaceOK(g, at) /\ EventOK(g, q, at) /\ SentOK(k, g, q, at, d) /\ DataOK(d)
    BY DEF NodeOK
  <1>2. Single(q) /\ HasFields(q) /\ Eventful(q) /\ Timed(q)
    BY <1>1 DEF RadioOK, Single
  <1>3. /\ Changes(q, a, {"power", "ev", "late", "txerr", "w4r", "delayed", "txtime"})
        /\ a.txtime = t
        /\ \/ a.power = "IDLE" /\ a.ev = q.ev \cup {"TXFRS"}
           \/ a.power = "RX" /\ a.ev = (q.ev \cup {"TXFRS"}) \ RxEvents
        /\ q.w4r = FALSE => a.power = "IDLE"
    BY <1>2, SentIs
  <1>4. HasFields(a)
    BY <1>2, <1>3, ChangesKeep
  <1> HIDE DEF a
  <1>5. Changes(a, s, {"iv", "ivreg"})
    BY <1>4, UsedIs
  <1> HIDE DEF s
  <1>6. Changes(q, s, {"power", "ev", "late", "txerr", "w4r", "delayed", "txtime", "iv", "ivreg"})
    BY <1>3, <1>5, ChangesAdd
  <1>7. s.power = a.power /\ s.ev = a.ev /\ s.txtime = a.txtime
    BY <1>4, <1>5, FieldsThere, Zenon DEF Changes
  <1>8. /\ s.dx = q.dx /\ s.reg = q.reg /\ s.spc = q.spc /\ s.txant = q.txant /\ s.rxant = q.rxant
    BY <1>2, <1>6, FieldsThere, Zenon DEF Changes
  <1>9. Single(s)
    BY <1>2, <1>6, SingleKept
  <1>10. Timed(s)
    BY <1>2, <1>3, <1>7, <1>8 DEF Timed
  <1>11. \/ IsInitiator(g) /\ at = IF g \in {"init_sts", "init_nd"} THEN "polled" ELSE "await"
         \/ IsResponder(g) /\ at \in {"sending", "reporting"} /\ q.delayed = TRUE
    BY <1>1 DEF RadioOK
  <1>12. at \in {"polled", "await", "sending", "reporting"}
    BY <1>11
  <1>13. s.power = "RX" => at = "await"
    BY <1>1, <1>3, <1>7, <1>12 DEF EventOK
  <1>14. Eventful(s)
    <2>1. CASE s.power = "IDLE" /\ s.ev = q.ev \cup {"TXFRS"}
      BY <1>2, <2>1 DEF Eventful, Events, ALL_RX_GOOD, ALL_RX_ERR, ALL_RX_TO
    <2>2. CASE s.power = "RX" /\ s.ev = (q.ev \cup {"TXFRS"}) \ RxEvents
      BY <1>2, <2>2 DEF Eventful, Events, RxEvents
    <2> QED
      BY <1>3, <1>7, <2>1, <2>2
  <1>15. RadioOK(g, s, at)
    BY <1>1, <1>3, <1>7, <1>8, <1>9, <1>10, <1>12, <1>13, <1>14 DEF RadioOK
  <1>16. EventOK(g, s, at)
    <2>1. s.power # "TX" /\ ~(at \in {"setup", "poll", "pause", "report"})
      BY <1>3, <1>7, <1>12
    <2>2. IsResponder(g) => at \in {"sending", "reporting"}
      BY <1>11 DEF IsInitiator, IsResponder
    <2>3. ~(g = "resp_nd" /\ PendingOf(s, at))
      BY <2>2 DEF PendingOf, IsResponder
    <2> QED
      BY <1>1, <1>8, <2>1, <2>2, <2>3 DEF EventOK
  <1>17. SentOK(k, g, s, at, d)
    BY <1>3, <1>7 DEF SentOK
  <1>18. NodeOK(k, g, s, at, d)
    BY <1>1, <1>15, <1>16, <1>17 DEF NodeOK
  <1>19. IsInitiator(g) => s.ev \cap RxEnded = {}
    <2>1. IsInitiator(g) => q.ev \cap RxEnded = {}
      BY <1>1 DEF EventOK
    <2>2. "TXFRS" \notin RxEnded
      BY DEF RxEnded, ALL_RX_ERR, ALL_RX_TO
    <2>3. s.ev \subseteq q.ev \cup {"TXFRS"}
      BY <1>3, <1>7
    <2> QED
      BY <2>1, <2>2, <2>3
  <1> DEFINE p == Rest(s, at)
  <1>20. NodeOK(k, g, p, at, d) /\ p.power = s.power /\ p.ev = s.ev /\ p.txtime = s.txtime
    <2>1. at \notin Resting
      BY <1>12 DEF Resting
    <2> QED
      BY <1>18, <2>1, RestNode
  <1>21. p = Settled(s, at)
    BY <1>3, <1>7 DEF Rest
  <1> HIDE DEF p
  <1> QED
    BY <1>3, <1>7, <1>12, <1>19, <1>20, <1>21 DEF s, a

\* A radio that fails to receive a frame, and one that receives it.
Fails(q, p) ==
  /\ Changes(q, p, EndChanges) /\ Single(p) /\ p.power = "IDLE"
  /\ p.reg = q.reg /\ \E e \in {"RXERR", "RXSTO"} : p.ev = q.ev \cup {e}

Takes(q, frame, time, p) ==
  /\ Changes(q, p, EndChanges) /\ Single(p) /\ p.power = "IDLE"
  /\ p.reg.frame = frame /\ p.reg.time = time
  /\ p.ev = q.ev \cup (IF q.spc = "ND" THEN {"RXFR", "CIADONE"} ELSE {"RXFR", "RXFCG", "CIADONE"})

\* The chip's failed reception is one,
LEMMA FailsIs ==
  ASSUME NEW q, Single(q), NEW e \in {"RXERR", "RXSTO"}
  PROVE  Fails(q, SequenceUsed(Failed(q, e)))
  <1> DEFINE a == Failed(q, e)
             p == SequenceUsed(a)
  <1>1. HasFields(q)
    BY DEF Single
  <1>2. Changes(q, a, {"power", "ev"}) /\ a.power = "IDLE" /\ a.ev = q.ev \cup {e}
    BY <1>1, FailedIs
  <1>3. HasFields(a)
    BY <1>1, <1>2, ChangesKeep
  <1> HIDE DEF a
  <1>4. Changes(a, p, {"iv", "ivreg"})
    BY <1>3, UsedIs
  <1> HIDE DEF p
  <1>5. p.power = a.power /\ p.ev = a.ev
    BY <1>3, <1>4, FieldsThere, Zenon DEF Changes
  <1>6. Changes(q, p, {"power", "ev", "iv", "ivreg"})
    BY <1>2, <1>4, ChangesAdd
  <1>7. p.reg = q.reg
    BY <1>1, <1>6, FieldsThere, Zenon DEF Changes
  <1>8. Single(p)
    BY <1>6, SingleKept
  <1>9. Changes(q, p, EndChanges)
    BY <1>6, Zenon DEF Changes, EndChanges
  <1> QED
    BY <1>2, <1>5, <1>7, <1>8, <1>9, Zenon DEF Fails, p, a

\* and its reception the other.
LEMMA TakesIs ==
  ASSUME NEW q, Single(q), NEW slot
  PROVE  Takes(q, slot.frame, slot.time, SequenceUsed(Received(q, slot)))
  <1> DEFINE a == Received(q, slot)
             p == SequenceUsed(a)
  <1>1. HasFields(q)
    BY DEF Single
  <1>2. /\ Changes(q, a, {"power", "ev", "reg", "buf", "good", "held", "fill"})
        /\ a.power = "IDLE" /\ a.reg = slot /\ Single(a)
        /\ a.ev = q.ev \cup (IF q.spc = "ND" THEN {"RXFR", "CIADONE"}
                             ELSE {"RXFR", "RXFCG", "CIADONE"})
    BY ReceivedIs
  <1>3. HasFields(a)
    BY <1>1, <1>2, ChangesKeep
  <1> HIDE DEF a
  <1>4. Changes(a, p, {"iv", "ivreg"})
    BY <1>3, UsedIs
  <1> HIDE DEF p
  <1>5. p.power = a.power /\ p.ev = a.ev /\ p.reg = a.reg
    BY <1>3, <1>4, FieldsThere, Zenon DEF Changes
  <1>6. Changes(q, p, EndChanges)
    BY <1>2, <1>4, ChangesAdd DEF EndChanges
  <1>7. Single(p)
    BY <1>2, <1>4, SingleKept
  <1> QED
    BY <1>2, <1>5, <1>6, <1>7, Zenon DEF Takes, p, a

\* What a radio that listens makes of a frame.
Listens(k, time, m) ==
  \/ r'[m] = r[m]
  \/ /\ r[m].power = "RX" /\ r[m].spc = r[k].spc
     /\ \/ Fails(r[m], r'[m])
        \/ \E a \in cast.noise[m] :
             Takes(r[m], r[k].txbuf, ReceiveStamp(m, time + Distance(m, k), a), r'[m])

\* The frame of k leaves at a time.
Sends(k, time) ==
  /\ r[k].power = "TX" /\ time \in Int /\ (r[k].delayed => time = DelayedTime(k))
  /\ cast' = cast /\ pc' = pc /\ h' = h /\ DOMAIN r' = Nodes
  /\ r'[k] = Settled(SequenceUsed(Sent(r[k], SendStamp(k, time))), pc[k])
  /\ \A m \in Nodes \ {k} : Listens(k, time, m)

\* The chips' clocks are numbers.
LEMMA StampsAre ==
  ASSUME NodeInv, NEW k \in Nodes, NEW t \in Int, pc[k] \notin {"setup", "halted"}
  PROVE  /\ SendStamp(k, t) = Clock(t + cast.clock[k]) /\ SendStamp(k, t) \in Int
         /\ \A a \in Int : /\ ReceiveStamp(k, t, a) = Clock(t + cast.clock[k] + a)
                           /\ ReceiveStamp(k, t, a) \in Int
         /\ DelayedTime(k) \in Int
  <1>1. cast.clock[k] \in Int /\ AntDelay \in Nat /\ DelayUnit \in Nat
    BY CastIs, DelaysAre
  <1>2. r[k].txant = AntDelay /\ r[k].rxant = AntDelay /\ r[k].dx \in Int
    BY NodeIs DEF NodeOK, RadioOK, Timed
  <1>3. \A x \in Int : Clock(x) \in Int
    <2>1. ClockSize \in Nat \ {0}
      BY DelaysAre
    <2>2. ASSUME NEW x \in Int
          PROVE  Clock(x) \in Int
      <3>1. x % ClockSize \in 0..ClockSize - 1
        BY <2>1, DivMod
      <3>2. x % ClockSize \in Int
        BY <2>1, <3>1
      <3> QED
        BY <3>2 DEF Clock
    <2> QED
      BY <2>2
  <1> DEFINE c == cast.clock[k]
  <1>4. c \in Int
    BY <1>1
  <1>5. SendStamp(k, t) = Clock(t + c - AntDelay + AntDelay)
    BY <1>2 DEF SendStamp
  <1>6. \A a : ReceiveStamp(k, t, a) = Clock(t + c + AntDelay - AntDelay + a)
    BY <1>2 DEF ReceiveStamp
  <1> HIDE DEF c
  <1>7. t + c - AntDelay + AntDelay = t + c /\ \A a \in Int : t + c + AntDelay - AntDelay + a = t + c + a
    BY <1>1, <1>4
  <1>8. DelayedTime(k) \in Int
    <2> DEFINE x == (r[k].dx - (r[k].dx % 2)) * DelayUnit - cast.clock[k] + AntDelay
    <2>1. x \in Int
      BY <1>1, <1>2
    <2> HIDE DEF x
    <2>2. Clock(x) \in Int
      BY <1>3, <2>1
    <2> QED
      BY <2>2 DEF DelayedTime, x
  <1>9. SendStamp(k, t) = Clock(t + c) /\ \A a \in Int : ReceiveStamp(k, t, a) = Clock(t + c + a)
    BY <1>5, <1>6, <1>7
  <1>10. Clock(t + c) \in Int /\ \A a \in Int : Clock(t + c + a) \in Int
    BY <1>3, <1>4
  <1> QED
    BY <1>8, <1>9, <1>10 DEF c

\* A radio sends only what its program has told it to.
LEMMA SenderIs ==
  ASSUME NodeInv, NEW k \in Nodes, r[k].power = "TX"
  PROVE  /\ pc[k] \in {"polled", "await", "sending", "reporting"}
         /\ k \in Initiators \/ (k \in Responders /\ pc[k] \in {"sending", "reporting"}
                                 /\ r[k].delayed = TRUE)
         /\ k \in Responders => k \notin Initiators
         /\ SentOK(k, Prog(k), r[k], pc[k], h[k])
  <1>1. NodeOK(k, Prog(k), r[k], pc[k], h[k])
    BY NodeIs
  <1>2. (k \in Initiators <=> IsInitiator(Prog(k))) /\ (k \in Responders <=> IsResponder(Prog(k)))
    BY RolesAre
  <1>3. ~(IsInitiator(Prog(k)) /\ IsResponder(Prog(k)))
    BY DEF IsInitiator, IsResponder
  <1> QED
    BY <1>1, <1>2, <1>3 DEF NodeOK, RadioOK

\* ChipSends, in these words.
LEMMA SendsIs ==
  ASSUME NodeInv, NEW k \in Nodes, ChipSends(k)
  PROVE  \E time : Sends(k, time)
  <1> DEFINE L == { m \in Nodes \ {k} : /\ r[m].power = "RX" /\ r[m].spc = r[k].spc
                                          /\ {m, k} \notin cast.apart }
  <1>1. PICK time \in (IF r[k].delayed THEN {DelayedTime(k)} ELSE cast.times) :
         \E f \in [L -> UNION {Outcomes(m) : m \in L}] :
           /\ \A m \in L : f[m] \in Outcomes(m)
           /\ r' = [ m \in Nodes |->
                    IF m = k THEN Settled(SequenceUsed(Sent(r[k], SendStamp(k, time))), pc[k])
                    ELSE IF m \in L THEN Hears(m, k, time, f[m])
                    ELSE r[m] ]
    BY Zenon DEF ChipSends
  <1>2. PICK f : /\ \A m \in L : f[m] \in Outcomes(m)
           /\ r' = [ m \in Nodes |->
                    IF m = k THEN Settled(SequenceUsed(Sent(r[k], SendStamp(k, time))), pc[k])
                    ELSE IF m \in L THEN Hears(m, k, time, f[m])
                    ELSE r[m] ]
    BY <1>1, Zenon
  <1>3. r[k].power = "TX" /\ cast' = cast /\ pc' = pc /\ h' = h
    BY Zenon DEF ChipSends
  <1>4. time \in Int /\ (r[k].delayed => time = DelayedTime(k))
    <2>1. pc[k] \notin {"setup", "halted"}
      BY <1>3, SenderIs
    <2>2. DelayedTime(k) \in Int
      <3>1. 0 \in Int
        OBVIOUS
      <3> QED
        BY <2>1, <3>1, StampsAre
    <2>3. cast.times \subseteq Int
      BY CastIs
    <2> QED
      BY <1>1, <2>2, <2>3
  <1>5. DOMAIN r' = Nodes /\ r'[k] = Settled(SequenceUsed(Sent(r[k], SendStamp(k, time))), pc[k])
    BY <1>2, Zenon
  <1>6. ASSUME NEW m \in Nodes, m # k
        PROVE  Listens(k, time, m)
    <2>1. CASE m \notin L
      <3>1. r'[m] = r[m]
        BY <1>2, <1>6, <2>1, Zenon
      <3> QED
        BY <3>1 DEF Listens
    <2>2. CASE m \in L
      <3> DEFINE o == f[m]
                 slot == [ frame |-> r[k].txbuf,
                           time |-> ReceiveStamp(m, time + Distance(m, k), o.noise),
                           sts |-> o.how = "good" /\ r[m].iv = r[k].iv ]
      <3>1. r'[m] = Hears(m, k, time, o)
        BY <1>2, <1>6, <2>2, Zenon
      <3>2. r[m].power = "RX" /\ r[m].spc = r[k].spc /\ o \in Outcomes(m)
        BY <1>2, <2>2
      <3>3. Single(r[m])
        BY NodeIs
      <3>4. cast.faults \subseteq {"failed", "missed", "badsts"}
        BY CastIs, CastAssumption DEF CastAssumption
      <3> HIDE DEF o
      <3>5. CASE o.how = "missed"
        BY <3>1, <3>5 DEF Hears, Listens
      <3>6. CASE o.how = "failed"
        <4>1. PICK e \in {"RXERR", "RXSTO"} : r'[m] = SequenceUsed(Failed(r[m], e))
          BY <3>1, <3>6 DEF Hears
        <4> QED
          BY <3>2, <3>3, <4>1, FailsIs DEF Listens
      <3>7. CASE o.how # "missed" /\ o.how # "failed"
        <4>1. o.noise \in cast.noise[m]
          BY <3>2, <3>4, <3>7 DEF Outcomes
        <4>2. r'[m] = SequenceUsed(Received(r[m], slot))
          BY <3>1, <3>7 DEF Hears
        <4>3. slot.frame = r[k].txbuf
              /\ slot.time = ReceiveStamp(m, time + Distance(m, k), o.noise)
          OBVIOUS
        <4> HIDE DEF slot
        <4>4. Takes(r[m], r[k].txbuf, ReceiveStamp(m, time + Distance(m, k), o.noise), r'[m])
          BY <3>3, <4>2, <4>3, TakesIs
        <4> QED
          BY <3>2, <4>1, <4>4 DEF Listens
      <3> QED
        BY <3>5, <3>6, <3>7
    <2> QED
      BY <2>1, <2>2
  <1> QED
    BY <1>3, <1>4, <1>5, <1>6, Zenon DEF Sends

-----------------------------------------------------------------------------
(* A frame leaves *)

\* Which modes the programs without data send in.
LEMMA ModesAre ==
  ASSUME NodeInv, NEW k \in Responders, r[k].power = "TX", Prog(k) = "resp_nd"
  PROVE  /\ pc[k] = "sending" => r[k].spc = "ND"
         /\ pc[k] = "reporting" => r[k].spc = "OFF"
  <1>1. k \in Nodes
    BY DEF Responders
  <1>2. EventOK(Prog(k), r[k], pc[k])
    BY <1>1, NodeIs DEF NodeOK
  <1> QED
    BY <1>2 DEF EventOK

\* A radio that hears the frame is as its program expects it.
LEMMA HearerNode ==
  ASSUME NodeInv, NEW k \in Nodes, NEW time, Sends(k, time), NEW m \in Nodes, m # k
  PROVE  /\ NodeOK(m, Prog(m), r'[m], pc[m], h[m])
         /\ r'[m].txtime = r[m].txtime
         /\ r'[m] = r[m] \/ (r[m].power = "RX" /\ r'[m].power = "IDLE")
  <1> DEFINE p == r'[m]
  <1>1. NodeOK(m, Prog(m), r[m], pc[m], h[m]) /\ Timed(r[m])
    BY NodeIs
  <1>2. Listens(k, time, m) /\ r[k].power = "TX" /\ time \in Int
    BY DEF Sends
  <1>3. CASE r'[m] = r[m]
    BY <1>1, <1>3
  <1>4. CASE r[m].power = "RX" /\ r[m].spc = r[k].spc /\ Fails(r[m], p)
    <2>1. r[m].ev \cap RxEvents = {}
      BY <1>4, ListenerIs
    <2>20. PICK e \in {"RXERR", "RXSTO"} : p.ev = r[m].ev \cup {e}
      BY <1>4 DEF Fails
    <2>2. Ends({e})
      BY DEF Ends, ALL_RX_ERR
    <2>3. p.reg.time \in Int
      BY <1>1, <1>4 DEF Fails, Timed
    <2>4. ~PendingOf(p, pc[m])
      BY <1>4, <2>1 DEF Fails, PendingOf, RxEvents, ALL_RX_GOOD
    <2>5. /\ Changes(r[m], p, EndChanges) /\ Single(p) /\ p.power = "IDLE"
          /\ p.ev = r[m].ev \cup {e}
      BY <1>4, <2>20 DEF Fails
    <2>6. r[m].power = "RX"
      BY <1>4
    <2> HIDE DEF p
    <2>7. NodeOK(m, Prog(m), p, pc[m], h[m]) /\ p.txtime = r[m].txtime
      BY <1>1, <2>2, <2>3, <2>4, <2>5, <2>6, EndNode
    <2> QED
      BY <2>5, <2>6, <2>7 DEF p
  <1>5. ASSUME r[m].power = "RX", r[m].spc = r[k].spc, NEW a \in cast.noise[m],
               Takes(r[m], r[k].txbuf, ReceiveStamp(m, time + Distance(m, k), a), p)
        PROVE  NodeOK(m, Prog(m), p, pc[m], h[m]) /\ p.txtime = r[m].txtime /\ p.power = "IDLE"
    <2> DEFINE E == IF r[m].spc = "ND" THEN {"RXFR", "CIADONE"} ELSE {"RXFR", "RXFCG", "CIADONE"}
               x == ReceiveStamp(m, time + Distance(m, k), a)
    <2>1. Ends(E)
      BY DEF Ends, ALL_RX_GOOD
    <2>2. x \in Int
      <3>1. Distance(m, k) \in Nat /\ a \in Int
        BY CastIs
      <3>2. time + Distance(m, k) \in Int
        BY <1>2, <3>1
      <3>3. pc[m] \notin {"setup", "halted"}
        BY <1>5, ListenerIs
      <3> QED
        BY <3>1, <3>2, <3>3, StampsAre
    <2>3. /\ Changes(r[m], p, EndChanges) /\ Single(p) /\ p.power = "IDLE"
          /\ p.ev = r[m].ev \cup E /\ p.reg.time = x /\ p.reg.frame = r[k].txbuf
      BY <1>5 DEF Takes
    <2>4. Prog(m) = "resp_nd" => r[k].txbuf # Foreign
      <3>1. SUFFICES ASSUME Prog(m) = "resp_nd" PROVE r[k].txbuf # Foreign
        OBVIOUS
      <3>2. m \in Responders
        BY <3>1 DEF Responders
      <3>3. r[m].spc = "ND"
        BY <1>5, <3>1, <3>2, ListenerIs
      <3>4. SentOK(k, Prog(k), r[k], pc[k], h[k])
        BY <1>2, SenderIs
      <3>5. CASE k \in Initiators
        <4>1. Prog(k) = "init_nd"
          BY <3>1, <3>2, <3>5, PairsAre
        <4> QED
          BY <1>2, <3>4, <4>1, CastAssumption DEF SentOK, CastAssumption
      <3>6. CASE k \in Responders /\ pc[k] \in {"sending", "reporting"}
        <4>1. CASE Prog(k) = "resp_nd"
          <5>1. pc[k] = "sending"
            BY <1>2, <1>5, <3>3, <3>6, <4>1, ModesAre
          <5> QED
            BY <1>2, <3>4, <4>1, <5>1, CastAssumption DEF SentOK, CastAssumption
        <4>2. CASE Prog(k) # "resp_nd"
          <5>1. pc[k] # "reporting"
            <6>1. PlaceOK(Prog(k), pc[k])
              BY NodeIs DEF NodeOK
            <6> QED
              BY <4>2, <6>1 DEF PlaceOK
          <5>2. r[k].txbuf.kind = "resp"
            BY <1>2, <3>4, <3>6, <4>2, <5>1 DEF SentOK
          <5> QED
            BY <5>2 DEF Foreign
        <4> QED
          BY <4>1, <4>2
      <3> QED
        BY <1>2, <3>5, <3>6, SenderIs
    <2>5. r[m].power = "RX"
      BY <1>5
    <2>6. Prog(m) = "resp_nd" /\ PendingOf(p, pc[m]) => p.reg.frame # Foreign
      BY <2>3, <2>4
    <2> HIDE DEF p, E, x
    <2>7. NodeOK(m, Prog(m), p, pc[m], h[m]) /\ p.txtime = r[m].txtime
      BY <1>1, <2>1, <2>2, <2>3, <2>5, <2>6, EndNode
    <2> QED
      BY <2>3, <2>7
  <1> QED
    BY <1>2, <1>3, <1>4, <1>5 DEF Listens, Fails

\* All nodes are as they should be when the frame has left.
LEMMA SendsNode ==
  ASSUME NodeInv, NEW k \in Nodes, NEW time, Sends(k, time)
  PROVE  /\ NodeInv' /\ r'[k].power \in {"IDLE", "RX"}
         /\ r'[k].txtime = SendStamp(k, time)
         /\ k \in Initiators => r'[k].ev \cap RxEnded = {}
  <1>1. r[k].power = "TX" /\ time \in Int /\ cast' = cast /\ pc' = pc /\ h' = h /\ DOMAIN r' = Nodes
        /\ r'[k] = Settled(SequenceUsed(Sent(r[k], SendStamp(k, time))), pc[k])
    BY DEF Sends
  <1>2. pc[k] \in {"polled", "await", "sending", "reporting"}
    BY <1>1, SenderIs
  <1>3. SendStamp(k, time) \in Int
    BY <1>1, <1>2, StampsAre
  <1>4. NodeOK(k, Prog(k), r[k], pc[k], h[k])
    BY NodeIs
  <1>5. /\ NodeOK(k, Prog(k), r'[k], pc[k], h[k]) /\ r'[k].power \in {"IDLE", "RX"}
        /\ r'[k].txtime = SendStamp(k, time)
        /\ IsInitiator(Prog(k)) => r'[k].ev \cap RxEnded = {}
    BY <1>1, <1>3, <1>4, SentNode
  <1>6. ASSUME NEW m \in Nodes
        PROVE  NodeOK(m, Prog(m), r[m], pc[m], h[m])'
    <2>1. NodeOK(m, Prog(m), r'[m], pc[m], h[m])
      BY <1>5, HearerNode
    <2>2. Prog(m)' = Prog(m)
      BY <1>1 DEF Prog
    <2> QED
      BY <1>1, <2>1, <2>2
  <1>7. NodeInv'
    <2>1. cast \in Casts /\ DOMAIN pc = Nodes /\ DOMAIN h = Nodes
      BY DEF NodeInv
    <2> QED
      BY <1>1, <1>6, <2>1 DEF NodeInv
  <1> QED
    BY <1>5, <1>7, RolesAre

\* An initiator's frame leaves: whoever receives it has the stamp of its poll.
LEMMA PollLeaves ==
  ASSUME IInv, NEW k \in Initiators, NEW time, Sends(k, time)
  PROVE  IInv'
  <1>1. NodeInv /\ QuietInv /\ PollInv /\ AnswerInv /\ HeardInv /\ LastInv
    BY DEF IInv
  <1>2. k \in Nodes /\ \A n \in Initiators : n = k
    BY <1>1, PartnersAre
  <1>3. r[k].power = "TX" /\ time \in Int /\ cast' = cast /\ pc' = pc /\ h' = h
    BY DEF Sends
  <1>4. /\ Initiators' = Initiators /\ Responders' = Responders
        /\ \A n \in Nodes : Prog(n)' = Prog(n)
    BY <1>3, SameCast
  <1>5. /\ NodeInv' /\ r'[k].power \in {"IDLE", "RX"} /\ r'[k].txtime = SendStamp(k, time)
        /\ r'[k].ev \cap RxEnded = {}
    BY <1>1, <1>2, SendsNode
  <1>6. \A m \in Responders : ~Busy(m) /\ m \in Nodes /\ m # k
    BY <1>1, <1>3, PartnersAre DEF QuietInv
  <1>7. pc[k] \in {"polled", "await"} /\ (Prog(k) = "init_nd" => pc[k] = "polled")
    <2>1. RadioOK(Prog(k), r[k], pc[k]) /\ IsInitiator(Prog(k))
      BY <1>1, <1>2, NodeIs, RolesAre DEF NodeOK
    <2>2. ~IsResponder(Prog(k))
      BY <2>1 DEF IsInitiator, IsResponder
    <2> QED
      BY <1>3, <2>1, <2>2 DEF RadioOK
  <1>8. QuietInv'
    BY <1>2, <1>3, <1>4, <1>5, <1>7 DEF QuietInv
  <1>9. ASSUME NEW m \in Responders, Pending(m)'
        PROVE  PollOK(k, m)'
    <2>1. m \in Nodes /\ m # k /\ ~BusyOf(r[m], pc[m])
      BY <1>1, <1>6, BusyIs
    <2>2. Listens(k, time, m)
      BY <2>1 DEF Sends
    <2>3. CASE r'[m] = r[m]
      <3>1. r'[m].reg.frame = Foreign
        BY <1>3, <1>9, <2>1, <2>3 DEF Pending, BusyOf
      <3> QED
        BY <3>1 DEF PollOK
    <2>4. CASE r[m].power = "RX" /\ Fails(r[m], r'[m])
      <3>1. r[m].ev \cap RxEvents = {}
        BY <1>1, <2>1, <2>4, ListenerIs
      <3>2. "RXFCG" \notin r'[m].ev /\ "RXFR" \notin r'[m].ev
        BY <2>4, <3>1 DEF Fails, RxEvents, ALL_RX_GOOD
      <3> QED
        BY <1>9, <3>2 DEF Pending, PendingOf
    <2>5. ASSUME r[m].power = "RX", NEW a \in cast.noise[m],
                 Takes(r[m], r[k].txbuf, ReceiveStamp(m, time + Distance(m, k), a), r'[m])
          PROVE  PollOK(k, m)'
      <3>1. /\ a \in Int /\ Distance(m, k) \in Nat /\ cast.clock[m] \in Int /\ cast.clock[k] \in Int
        BY <1>1, <1>2, <2>1, CastIs
      <3>2. r'[m].reg.frame = r[k].txbuf /\ r'[m].reg.time = ReceiveStamp(m, time + Distance(m, k), a)
        BY <2>5 DEF Takes
      <3>3. time + Distance(m, k) \in Int
        BY <1>3, <3>1
      <3>4. pc[m] \notin {"setup", "halted"}
        BY <1>1, <2>1, <2>5, ListenerIs
      <3>5. r'[m].reg.time = Clock(time + Distance(m, k) + cast.clock[m] + a)
        BY <1>1, <2>1, <3>1, <3>2, <3>3, <3>4, StampsAre
      <3>6. r'[k].txtime = Clock(time + cast.clock[k])
        BY <1>1, <1>2, <1>3, <1>5, <1>7, StampsAre
      <3> DEFINE w == -cast.clock[k] + cast.clock[m] + Distance(m, k) + a
                 v == time + cast.clock[k]
      <3>7. Clock(Clock(v) + w) = Clock(v + w)
        <4>1. v \in Int /\ w \in Int
          BY <1>3, <3>1
        <4> HIDE DEF v, w
        <4> QED
          BY <4>1, ClockShift
      <3>8. v + w = time + Distance(m, k) + cast.clock[m] + a
        BY <1>3, <3>1
      <3>9. r'[k].txtime \in Int
        <4>1. SendStamp(k, time) \in Int
          BY <1>1, <1>2, <1>3, <1>7, StampsAre
        <4> QED
          BY <1>5, <4>1
      <3>10. r'[k].txtime - cast.clock[k] + cast.clock[m] + Distance(m, k) + a = Clock(v) + w
        <4> DEFINE t == r'[k].txtime
        <4>1. t \in Int /\ t = Clock(v)
          BY <3>6, <3>9
        <4> HIDE DEF t, v
        <4>2. t - cast.clock[k] + cast.clock[m] + Distance(m, k) + a = t + w
          BY <3>1, <4>1
        <4> QED
          BY <4>1, <4>2 DEF t
      <3>11. r'[m].reg.time = Clock(r'[k].txtime - cast.clock[k] + cast.clock[m] + Distance(m, k) + a)
        BY ONLY <3>5, <3>7, <3>8, <3>10
      <3>12. r'[m].reg.time = PollStamp(k, m, a)'
        BY ONLY <3>11, <1>3, Zenon DEF PollStamp, Distance
      <3>13. Prog(k) = "init_aes" => r[k].txbuf.mac \in Macs /\ r[k].txbuf.mac.cnt = h[k].cnt
        <4>1. SentOK(k, Prog(k), r[k], pc[k], h[k])
          BY <1>1, <1>2, <1>3, SenderIs
        <4> QED
          BY <1>3, <4>1 DEF SentOK
      <3>14. \E a1 \in cast'.noise[m] : r'[m].reg.time = PollStamp(k, m, a1)'
        BY <1>3, <2>5, <3>12
      <3>15. Prog(k)' = "init_aes" => r'[m].reg.frame.mac \in Macs /\ r'[m].reg.frame.mac.cnt = h'[k].cnt
        BY <1>2, <1>3, <1>4, <3>2, <3>13
      <3> QED
        BY <3>14, <3>15 DEF PollOK
    <2> QED
      BY <2>2, <2>3, <2>4, <2>5 DEF Listens
  <1>10. PollInv'
    BY <1>2, <1>4, <1>9 DEF PollInv
  <1>11. AnswerInv'
    <2>1. \A m \in Responders : pc[m] # "sending"
      BY <1>6 DEF Busy
    <2> QED
      BY <1>3, <1>4, <2>1 DEF AnswerInv
  <1>12. HeardInv'
    <2>1. HeardAt(k)'
      BY <1>3, <1>4, <1>2, <1>5, <1>7 DEF HeardAt, RxEnded
    <2>2. \A n \in Initiators' : HeardAt(n)'
      BY <1>2, <1>4, <2>1
    <2> QED
      BY <2>2, Zenon DEF HeardInv, HeardAt
  <1>13. LastInv'
    <2>1. LastOK(k, h[k].last)'
      <3>1. LastOK(k, h[k].last)
        BY <1>1 DEF LastInv
      <3> QED
        BY <1>3, <1>4, <3>1, Zenon DEF LastOK, Distance
    <2>2. /\ (Prog(k) = "init_aes" => h[k].mac \in Macs /\ h[k].mac.cnt = h[k].cnt)'
          /\ (pc[k] = "stuck" => r[k].reg.frame = Foreign)'
      BY <1>1, <1>2, <1>3, <1>4, <1>7 DEF LastInv
    <2> QED
      BY <1>2, <1>4, <2>1, <2>2 DEF LastInv
  <1> QED
    BY <1>5, <1>8, <1>10, <1>11, <1>12, <1>13 DEF IInv

\* An answer arrives: with the poll it answers it makes one exchange.
LEMMA AnswerArrives ==
  ASSUME NodeInv, NEW n \in Initiators, NEW m \in Responders, AnswerOK(n, m),
         pc[m] \notin {"setup", "halted"}, pc[n] \notin {"setup", "halted"},
         NEW b \in cast.noise[n], NEW q, q.txtime = r[n].txtime,
         q.reg.time = ReceiveStamp(n, DelayedTime(m) + Distance(n, m), b)
  PROVE  Paired(n, m, Stamps(q), Told(m))
  <1>1. n \in Nodes /\ m \in Nodes
    BY PartnersAre
  <1>2. PICK a \in cast.noise[m] :
          /\ r[m].dx = RespTxTime(PollStamp(n, m, a), ReplyDelay(Prog(m)))
          /\ Told(m) = resp_msg_set_ts(PollStamp(n, m, a), RespTxStamp(r[m].dx))
    BY Zenon DEF AnswerOK
  <1> DEFINE t == r[n].txtime
             cn == cast.clock[n]
             cm == cast.clock[m]
             far == Distance(n, m)
             delay == ReplyDelay(Prog(m))
             u == t - cn + cm + far + a
             x == RespTxStamp(r[m].dx)
             z == x - cm
             w == far + cn + b
  <1>3. t \in Int /\ r[m].dx \in Int
    BY <1>1, NodeIs DEF Timed
  <1>4. cn \in Int /\ cm \in Int /\ far \in Nat /\ a \in Int /\ b \in Int
    BY <1>1, CastIs
  <1>5. delay \in Nat /\ AntDelay \in Nat /\ DelayUnit \in Nat
    BY DelaysAre
  <1>6. /\ Ticks(delay) + AntDelay < HalfStamp
        /\ 2 * far + a + b + Ticks(delay) + AntDelay < HalfStamp
        /\ 2 * far + a + b >= 2 * DelayUnit - HalfStamp
    <2>1. ExchangeIsShort(cast)
      BY CastIs
    <2>2. /\ Ticks(ReplyDelay(cast.prog[m])) + AntDelay < HalfStamp
          /\ (2 * cast.flight[IF m > n THEN m ELSE n] + a + b)
               + (Ticks(ReplyDelay(cast.prog[m])) + AntDelay) < HalfStamp
          /\ 2 * cast.flight[IF m > n THEN m ELSE n] + a + b >= 2 * DelayUnit - HalfStamp
      BY <1>1, <2>1, Zenon DEF ExchangeIsShort
    <2>3. delay = ReplyDelay(cast.prog[m])
      BY DEF Prog
    <2>4. far = cast.flight[IF m > n THEN m ELSE n]
      <3>1. Distance(m, n) = cast.flight[IF m > n THEN m ELSE n]
        BY DEF Distance
      <3> QED
        BY <1>1, <3>1, CastIs
    <2>5. Uus \in Nat \ {0}
      BY DelaysAre
    <2>6. Ticks(delay) \in Nat
      BY <1>5, <2>5 DEF Ticks
    <2> HIDE DEF delay, far
    <2> QED
      BY <1>4, <1>5, <2>2, <2>3, <2>4, <2>6
  <1>7. PollStamp(n, m, a) = Clock(u)
    <2>1. Distance(m, n) = far
      BY <1>1, CastIs
    <2> QED
      BY <2>1 DEF PollStamp
  <1>8. r[m].dx = RespTxTime(Clock(u), delay)
    BY <1>2, <1>7
  <1>9. x = (r[m].dx - (r[m].dx % 2)) * DelayUnit + AntDelay /\ x \in Int
    BY <1>3, <1>5 DEF RespTxStamp
  <1>10. DelayedTime(m) = Clock(z)
    <2> DEFINE y == (r[m].dx - (r[m].dx % 2)) * DelayUnit
    <2>1. y \in Int /\ x = y + AntDelay
      BY <1>3, <1>5, <1>9
    <2>2. DelayedTime(m) = Clock(y - cm + AntDelay)
      BY DEF DelayedTime
    <2> HIDE DEF y, x
    <2>3. y - cm + AntDelay = z
      BY <1>4, <1>5, <2>1
    <2> QED
      BY <2>2, <2>3
  <1>11. q.reg.time = Clock(Clock(z) + w)
    <2> DEFINE s == DelayedTime(m)
    <2>1. s \in Int
      <3>1. 0 \in Int
        OBVIOUS
      <3> QED
        BY <1>1, <3>1, StampsAre
    <2>2. s = Clock(z)
      BY <1>10
    <2> HIDE DEF s, z
    <2>3. s + far \in Int
      BY <1>4, <2>1
    <2>4. ReceiveStamp(n, s + far, b) = Clock(s + far + cn + b)
      BY <1>1, <1>4, <2>3, StampsAre, ZenonT(60)
    <2>5. s + far + cn + b = s + w
      BY <1>4, <2>1
    <2> QED
      BY <2>2, <2>4, <2>5 DEF s
  <1>12. q.reg.time = Clock(x - cm + far + cn + b)
    <2>1. z \in Int /\ w \in Int
      BY <1>4, <1>9
    <2>2. z + w = x - cm + far + cn + b
      <3> HIDE DEF x
      <3> QED
        BY <1>4, <1>9
    <2> HIDE DEF z, w, x
    <2>3. Clock(Clock(z) + w) = Clock(z + w)
      BY <2>1, ClockShift
    <2> QED
      BY <1>11, <2>2, <2>3
  <1>13. TwiceFlight(LowStamp(t), LowStamp(Clock(x - cm + far + cn + b)), LowStamp(Clock(u)), LowStamp(x))
           = 2 * far + a + b
    <2> DEFINE x0 == RespTxStamp(RespTxTime(Clock(t - cn + cm + far + a), delay))
    <2>1. x = x0
      BY <1>8
    <2> HIDE DEF t, cn, cm, far, delay, x
    <2>2. TwiceFlight(LowStamp(t), LowStamp(Clock(x0 - cm + far + cn + b)),
                      LowStamp(Clock(t - cn + cm + far + a)), LowStamp(x0)) = 2 * far + a + b
      <3>1. t \in Int
        BY <1>3
      <3>2. cn \in Int /\ cm \in Int /\ far \in Nat /\ a \in Int /\ b \in Int /\ delay \in Nat
        BY <1>4, <1>5
      <3>3. GivesFlights(t, cn, cm, far, a, b, delay)
        BY ONLY <3>1, <3>2, <1>6, AnswerPairs
      <3> QED
        BY ONLY <3>3, Zenon DEF GivesFlights, x0
    <2> HIDE DEF x0
    <2> QED
      BY <2>1, <2>2
  <1>14. Stamps(q) = <<LowStamp(t), LowStamp(Clock(x - cm + far + cn + b))>>
    BY <1>12 DEF Stamps, dwt_readtxtimestamplo32, dwt_readrxtimestamplo32
  <1>15. Told(m) = <<LowStamp(Clock(u)), LowStamp(x)>>
    BY <1>2, <1>7 DEF resp_msg_set_ts
  <1>16. /\ Stamps(q)[1] = LowStamp(t) /\ Stamps(q)[2] = LowStamp(Clock(x - cm + far + cn + b))
         /\ Told(m)[1] = LowStamp(Clock(u)) /\ Told(m)[2] = LowStamp(x)
    <2> HIDE DEF t, x, u, cm, cn, far
    <2> QED
      BY <1>14, <1>15
  <1>17. TwiceFlight(Stamps(q)[1], Stamps(q)[2], Told(m)[1], Told(m)[2]) = 2 * Distance(n, m) + a + b
    BY ONLY <1>13, <1>16
  <1> QED
    BY <1>17 DEF Paired

\* An answer that arrives pairs with the poll of the program that hears it.
LEMMA PairedThen ==
  ASSUME cast' = cast, NEW n, NEW k, Paired(n, k, Stamps(r'[n]), r[k].txbuf.stamps),
         r'[n].reg.frame.from = k, r'[n].reg.frame.stamps = r[k].txbuf.stamps
  PROVE  Paired(n, r[n].reg.frame.from, Stamps(r[n]), r[n].reg.frame.stamps)'
  <1>1. \E own, told : own = Stamps(r'[n]) /\ told = r[k].txbuf.stamps
    OBVIOUS
  <1>2. PICK own, told : own = Stamps(r'[n]) /\ told = r[k].txbuf.stamps
    BY <1>1
  <1>3. Paired(n, k, own, told)
    BY <1>2
  <1>4. Paired(n, k, own, told)'
    BY <1>3 DEF Paired, Distance
  <1> QED
    BY <1>2, <1>4

\* What an initiator knows after an answer, or a report, has left.
LEMMA AnswerHeard ==
  ASSUME IInv, NEW k \in Responders, k \notin Initiators, NEW time, Sends(k, time), NEW n \in Initiators
  PROVE  HeardAt(n)'
  <1>1. NodeInv /\ AnswerInv /\ HeardInv
    BY DEF IInv
  <1>2. n \in Nodes /\ k \in Nodes /\ n # k
    BY <1>1, PartnersAre
  <1>3. r[k].power = "TX" /\ time \in Int /\ cast' = cast /\ pc' = pc /\ h' = h
        /\ (r[k].delayed => time = DelayedTime(k)) /\ Listens(k, time, n)
    BY <1>2 DEF Sends
  <1>4. /\ Initiators' = Initiators /\ Responders' = Responders /\ Prog(n)' = Prog(n)
    BY <1>2, <1>3, SameCast
  <1>5. /\ pc[k] \in {"sending", "reporting"} /\ time = DelayedTime(k)
        /\ SentOK(k, Prog(k), r[k], pc[k], h[k])
    BY <1>1, <1>2, <1>3, SenderIs
  <1>6. HeardAt(n)
    BY <1>1, HeardEach
  <1>7. ~Pending(k)' /\ h'[k] = h[k]
    BY <1>3, <1>5 DEF Pending, PendingOf
  <1>8. Prog(n) = "init_nd" => \A m \in Responders : m = k
    BY <1>1, PartnersAre
  <1>9. Prog(n) = "init_nd" <=> Prog(k) = "resp_nd"
    BY <1>1, PairsAre
  <1>10. pc[n] = "awaitReport" => Prog(n) = "init_nd"
    BY <1>1, <1>2, NodeIs DEF NodeOK, PlaceOK
  <1>11. pc[n] = "awaitReport" => Paired(n, k, h[n].saved, h[k].saved)
    BY <1>6, <1>8, <1>10 DEF HeardAt
  <1>12. pc[n] = "awaitReport" => Paired(n, k, h[n].saved, h[k].saved)'
    BY <1>3, <1>11 DEF Paired, Distance
  <1>13. pc[k] = "reporting" => Prog(k) = "resp_nd"
    <2>1. PlaceOK(Prog(k), pc[k])
      BY <1>1, <1>2, NodeIs DEF NodeOK
    <2> QED
      BY <2>1 DEF PlaceOK
  <1>14. CASE r'[n] = r[n]
    <2>1. HeardOK(n) => HeardOK(n)'
      BY <1>2, <1>3, <1>14, HeardStays
    <2>2. Prog(n) # "init_nd" /\ pc[n] = "await" /\ "RXFCG" \in r[n].ev => HeardOK(n)'
      BY <1>6, <2>1 DEF HeardAt
    <2>3. Prog(n) = "init_nd" /\ pc[n] = "await" /\ "RXFR" \in r[n].ev =>
            Paired(n, k, Stamps(r[n]), h[k].saved)
      BY <1>6, <1>8 DEF HeardAt
    <2>4. Paired(n, k, Stamps(r[n]), h[k].saved) => Paired(n, k, Stamps(r[n]), h[k].saved)'
      BY <1>3, <1>14 DEF Paired, Distance, Stamps, dwt_readtxtimestamplo32, dwt_readrxtimestamplo32
    <2>5. pc[n] = "awaitReport" /\ "RXFCG" \in r[n].ev =>
              \/ r[n].reg.frame = Foreign
              \/ r[n].reg.frame.from = k /\ r[n].reg.frame.stamps = h[k].saved
      BY <1>6, <1>8, <1>10 DEF HeardAt
    <2> QED
      BY <1>3, <1>4, <1>7, <1>12, <1>14, <2>2, <2>3, <2>4, <2>5 DEF HeardAt
  <1>15. CASE r[n].power = "RX" /\ Fails(r[n], r'[n])
    <2>1. r[n].ev \cap RxEvents = {}
      BY <1>1, <1>2, <1>15, ListenerIs
    <2>2. "RXFCG" \notin r'[n].ev /\ "RXFR" \notin r'[n].ev
      BY <1>15, <2>1 DEF Fails, RxEvents, ALL_RX_GOOD
    <2> QED
      BY <1>3, <1>4, <1>7, <1>12, <2>2 DEF HeardAt
  <1>16. ASSUME r[n].power = "RX", r[n].spc = r[k].spc, NEW b \in cast.noise[n],
                Takes(r[n], r[k].txbuf, ReceiveStamp(n, time + Distance(n, k), b), r'[n])
         PROVE  HeardAt(n)'
    <2>1. Live(n) /\ pc[n] \in {"await", "awaitReport"} /\ r[n].ev \cap RxEvents = {}
          /\ (Prog(n) = "init_nd" => r[n].spc = IF pc[n] = "await" THEN "ND" ELSE "OFF")
      BY <1>1, <1>2, <1>16, ListenerIs
    <2>2. r'[n].reg.frame = r[k].txbuf /\ r'[n].txtime = r[n].txtime
          /\ r'[n].reg.time = ReceiveStamp(n, DelayedTime(k) + Distance(n, k), b)
      BY <1>1, <1>2, <1>5, <1>16, HearerNode DEF Takes
    <2>3. pc[k] = "sending" => AnswerOK(n, k)
      BY <1>1, <1>3, <2>1 DEF AnswerInv
    <2>4. pc[k] = "sending" => Paired(n, k, Stamps(r'[n]), Told(k))
      <3>1. pc[k] \notin {"setup", "halted"} /\ pc[n] \notin {"setup", "halted"}
        BY <1>5, <2>1
      <3> DEFINE q == r'[n]
      <3>2. q.txtime = r[n].txtime /\ q.reg.time = ReceiveStamp(n, DelayedTime(k) + Distance(n, k), b)
        BY <2>2
      <3> HIDE DEF q
      <3>3. pc[k] = "sending" => Paired(n, k, Stamps(q), Told(k))
        BY <1>1, <1>16, <2>3, <3>1, <3>2, AnswerArrives
      <3> QED
        BY <3>3 DEF q
    <2>5. CASE Prog(n) # "init_nd"
      <3>1. pc[k] = "sending" /\ pc[n] = "await" /\ Prog(k) # "resp_nd"
        BY <1>5, <1>9, <1>10, <1>13, <2>1, <2>5
      <3>2. r[k].txbuf.kind = "resp" /\ r[k].txbuf.from = k
        BY <1>3, <1>5, <3>1 DEF SentOK
      <3>3. Paired(n, k, Stamps(r'[n]), r[k].txbuf.stamps)
        BY <2>4, <3>1 DEF Told
      <3> DEFINE frame == r'[n].reg.frame
      <3>4. frame = r[k].txbuf
        BY <2>2
      <3>5. frame.kind = "resp" /\ frame.from = k
        BY <3>2, <3>4
      <3>6. frame.from = k /\ frame.stamps = r[k].txbuf.stamps
        BY <3>4, <3>5
      <3>7. Paired(n, r[n].reg.frame.from, Stamps(r[n]), r[n].reg.frame.stamps)'
        BY <1>3, <3>3, <3>6, PairedThen
      <3>8. Prog(n) = "init_aes" => /\ frame.mac \in Macs /\ Opens(frame)
                                    /\ frame.mac.cnt = (h[n].cnt + 1) % CntMod
        BY <2>3, <3>1, <3>4 DEF AnswerOK
      <3>9. HeardOK(n)'
        BY <1>3, <1>4, <3>5, <3>7, <3>8 DEF HeardOK
      <3> QED
        BY <1>3, <1>4, <2>5, <3>1, <3>9 DEF HeardAt
    <2>6. CASE Prog(n) = "init_nd" /\ pc[n] = "await"
      <3>1. pc[k] = "sending" /\ Prog(k) = "resp_nd"
        <4>1. Prog(k) = "resp_nd" /\ r[k].spc = "ND"
          BY <1>9, <1>16, <2>1, <2>6
        <4>2. pc[k] # "reporting"
          BY <1>1, <1>3, <4>1, ModesAre
        <4> QED
          BY <1>5, <4>1, <4>2
      <3>2. Paired(n, k, Stamps(r'[n]), h[k].saved)
        BY <2>4, <3>1 DEF Told
      <3>3. Paired(n, k, Stamps(r[n]), h[k].saved)'
        BY <1>3, <3>2 DEF Paired, Distance, Stamps, dwt_readtxtimestamplo32, dwt_readrxtimestamplo32
      <3> QED
        BY <1>3, <1>4, <1>7, <2>6, <3>3 DEF HeardAt
    <2>7. CASE Prog(n) = "init_nd" /\ pc[n] = "awaitReport"
      <3>1. Prog(k) = "resp_nd" /\ r[k].spc = "OFF"
        BY <1>9, <1>16, <2>1, <2>7
      <3>2. pc[k] = "reporting"
        BY <1>1, <1>3, <1>5, <3>1, ModesAre
      <3>3. r'[n].reg.frame.from = k /\ r'[n].reg.frame.stamps = h[k].saved
        BY <1>3, <1>5, <2>2, <3>2 DEF SentOK
      <3> QED
        BY <1>3, <1>4, <1>7, <1>12, <2>7, <3>3 DEF HeardAt
    <2> QED
      BY <2>1, <2>5, <2>6, <2>7
  <1> QED
    BY <1>3, <1>14, <1>15, <1>16 DEF Listens

\* A responder's frame leaves.
LEMMA AnswerLeaves ==
  ASSUME IInv, NEW k \in Responders, k \notin Initiators, NEW time, Sends(k, time)
  PROVE  IInv'
  <1>1. NodeInv /\ QuietInv /\ PollInv /\ AnswerInv /\ HeardInv /\ LastInv
    BY DEF IInv
  <1>2. k \in Nodes
    BY DEF Responders
  <1>3. r[k].power = "TX" /\ time \in Int /\ cast' = cast /\ pc' = pc /\ h' = h
    BY DEF Sends
  <1>4. /\ Initiators' = Initiators /\ Responders' = Responders
        /\ \A n \in Nodes : Prog(n)' = Prog(n)
    BY <1>3, SameCast
  <1>5. NodeInv' /\ r'[k].power \in {"IDLE", "RX"}
    BY <1>1, <1>2, SendsNode
  <1>6. pc[k] \in {"sending", "reporting"} /\ SentOK(k, Prog(k), r[k], pc[k], h[k])
    BY <1>1, <1>2, <1>3, SenderIs
  <1>7. Busy(k)
    BY <1>6 DEF Busy
  <1>8. ASSUME NEW m \in Nodes, m # k
        PROVE  /\ r'[m].txtime = r[m].txtime
               /\ r'[m] = r[m] \/ (r[m].power = "RX" /\ r'[m].power = "IDLE")
    BY <1>1, <1>2, <1>8, HearerNode
  <1>9. ASSUME NEW n \in Initiators
        PROVE  /\ n \in Nodes /\ n # k /\ r'[n].txtime = r[n].txtime /\ r'[n].power # "TX"
               /\ pc[n] \notin {"setup", "poll", "report"} /\ r[n].power # "TX"
    <2>1. n \in Nodes /\ n # k
      BY <1>1, PartnersAre
    <2>2. pc[n] \notin {"setup", "poll", "report"} /\ r[n].power # "TX"
      BY <1>1, <1>7 DEF QuietInv
    <2> QED
      BY <1>8, <2>1, <2>2
  <1>10. QuietInv'
    BY <1>3, <1>4, <1>9 DEF QuietInv
  <1>11. ASSUME NEW n \in Initiators, Live(n)'
         PROVE  Live(n)
    BY <1>3, <1>9, <1>11 DEF Live
  <1>12. ASSUME NEW n \in Initiators, NEW m \in Responders, Live(n)', Pending(m)'
         PROVE  PollOK(n, m)'
    <2>1. m # k
      BY <1>3, <1>6, <1>12 DEF Pending, PendingOf
    <2>2. m \in Nodes /\ n \in Nodes /\ r'[n].txtime = r[n].txtime /\ Live(n)
      BY <1>9, <1>11, <1>12 DEF Responders
    <2>3. Listens(k, time, m)
      BY <2>1, <2>2 DEF Sends
    <2>4. CASE r'[m] = r[m]
      <3>1. PollOK(n, m)
        BY <1>1, <1>3, <1>12, <2>2, <2>4 DEF Pending, PollInv
      <3> QED
        BY <1>3, <2>2, <2>4, <3>1, PollStays
    <2>5. CASE r[m].power = "RX" /\ Fails(r[m], r'[m])
      <3>1. r[m].ev \cap RxEvents = {}
        BY <1>1, <2>2, <2>5, ListenerIs
      <3>2. "RXFCG" \notin r'[m].ev /\ "RXFR" \notin r'[m].ev
        BY <2>5, <3>1 DEF Fails, RxEvents, ALL_RX_GOOD
      <3> QED
        BY <1>12, <3>2 DEF Pending, PendingOf
    <2>6. CASE r'[m].reg.frame = r[k].txbuf
      <3>1. Prog(m) # "resp_nd" /\ Prog(k) # "resp_nd"
        <4>1. Prog(n) = "init_nd" => m = k
          BY <1>1, PartnersAre
        <4> QED
          BY <1>1, <2>1, <4>1, PairsAre
      <3>2. pc[k] = "sending"
        <4>1. PlaceOK(Prog(k), pc[k])
          BY <1>1, <1>2, NodeIs DEF NodeOK
        <4> QED
          BY <1>6, <3>1, <4>1 DEF PlaceOK
      <3>3. r[k].txbuf.kind = "resp"
        BY <1>3, <1>6, <3>1, <3>2 DEF SentOK
      <3>4. Prog(m)' # "resp_nd" /\ r'[m].reg.frame.kind # "poll"
        BY <1>4, <2>2, <2>6, <3>1, <3>3
      <3> QED
        BY <3>4 DEF PollOK
    <2> QED
      BY <2>3, <2>4, <2>5, <2>6 DEF Listens, Takes
  <1>13. PollInv'
    BY <1>4, <1>12 DEF PollInv
  <1>14. AnswerInv'
    <2>1. ASSUME NEW n \in Initiators, NEW m \in Responders, Live(n)', r'[m].power = "TX",
                 pc'[m] = "sending"
          PROVE  AnswerOK(n, m)'
      <3>1. m \in Nodes /\ m # k
        BY <1>5, <2>1 DEF Responders
      <3>2. r'[m] = r[m]
        BY <1>8, <2>1, <3>1
      <3>3. n \in Nodes /\ r'[n].txtime = r[n].txtime /\ Live(n)
        BY <1>9, <1>11, <2>1
      <3>4. AnswerOK(n, m)
        BY <1>1, <1>3, <2>1, <3>2, <3>3 DEF AnswerInv
      <3> QED
        BY <1>3, <3>1, <3>2, <3>3, <3>4, AnswerStays
    <2> QED
      BY <1>4, <2>1 DEF AnswerInv
  <1>15. HeardInv'
    <2>1. \A n \in Initiators' : HeardAt(n)'
      BY <1>4, AnswerHeard
    <2> QED
      BY <2>1, Zenon DEF HeardInv, HeardAt
  <1>16. LastInv'
    <2>1. ASSUME NEW n \in Initiators
          PROVE  /\ LastOK(n, h[n].last)'
                 /\ (Prog(n) = "init_aes" => h[n].mac \in Macs /\ h[n].mac.cnt = h[n].cnt)'
                 /\ (pc[n] = "stuck" => r[n].reg.frame = Foreign)'
      <3>1. /\ LastOK(n, h[n].last)
            /\ Prog(n) = "init_aes" => h[n].mac \in Macs /\ h[n].mac.cnt = h[n].cnt
            /\ pc[n] = "stuck" => r[n].reg.frame = Foreign
        BY <1>1 DEF LastInv
      <3>2. LastOK(n, h[n].last)'
        BY <1>3, <1>4, <3>1, Zenon DEF LastOK, Distance
      <3>3. r[n].power = "RX" => pc[n] # "stuck"
        BY <1>1, <1>9, ListenerIs
      <3>4. r'[n] = r[n] \/ r[n].power = "RX"
        BY <1>8, <1>9
      <3> QED
        BY <1>3, <1>4, <1>9, <3>1, <3>2, <3>3, <3>4
    <2> QED
      BY <1>4, <2>1 DEF LastInv
  <1> QED
    BY <1>5, <1>10, <1>13, <1>14, <1>15, <1>16 DEF IInv

\* The invariant survives a frame, whoever sends it and whoever hears it.
LEMMA ChipSendsMoves ==
  ASSUME IInv, NEW k \in Nodes, ChipSends(k)
  PROVE  IInv'
  <1>1. NodeInv
    BY DEF IInv
  <1>2. PICK time : Sends(k, time)
    BY <1>1, SendsIs
  <1>3. r[k].power = "TX"
    BY <1>2 DEF Sends
  <1>4. k \in Initiators \/ (k \in Responders /\ k \notin Initiators)
    BY <1>1, <1>3, SenderIs
  <1> QED
    BY <1>2, <1>4, PollLeaves, AnswerLeaves

-----------------------------------------------------------------------------
(* The invariant holds *)

\* A radio that was only powered up.
LEMMA PoweredIs ==
  LET q == PoweredUp({})
  IN  HasFields(q) /\ Single(q) /\ Eventful(q) /\ Timed(q) /\ q.power = "IDLE_RC"
      /\ q.ev \cap RxEvents = {} /\ "TXFRS" \notin q.ev /\ q.w4r = FALSE
  <1> DEFINE q == PoweredUp({})
  <1>1. DOMAIN q = DOMAIN LocalData \cup DOMAIN ChipReset \cup {"otp"}
    BY Zenon DEF PoweredUp
  <1>2. DOMAIN LocalData = {"dbl", "mode", "sts", "cb", "tuned", "dgcOtp", "diag", "err"}
    BY DEF LocalData
  <1>3. DOMAIN ChipReset = {"power", "ev", "enable", "double", "rearm", "fill", "held", "good", "buf",
          "reg", "ptrB", "txbuf", "late", "txerr", "w4r", "dx", "txtime", "timeout", "ops", "gain", "chan",
          "code", "spc", "iv", "ivreg", "clocks", "rf", "test", "aon", "wake", "atx2slp", "ainit",
          "txant", "rxant", "delayed", "gpio"}
    BY DEF ChipReset
  <1>4. HasFields(q)
    <2> HIDE DEF q
    <2> QED
      BY <1>1, <1>2, <1>3 DEF HasFields, Fields
  <1>5. /\ \A f \in DOMAIN LocalData : q[f] = LocalData[f]
        /\ \A f \in DOMAIN ChipReset : f \notin DOMAIN LocalData => q[f] = ChipReset[f]
    <2> DEFINE A == DOMAIN LocalData
               B == DOMAIN ChipReset
               S == A \cup B \cup {"otp"}
    <2>1. q = [f \in S |-> CASE f \in A -> LocalData[f] [] f \in B -> ChipReset[f] [] OTHER -> {}]
      BY Zenon DEF PoweredUp
    <2> HIDE DEF A, B, q
    <2>2. ASSUME NEW f \in A
          PROVE  q[f] = LocalData[f]
      <3>1. q[f] = CASE f \in A -> LocalData[f] [] f \in B -> ChipReset[f] [] OTHER -> {}
        BY <2>1
      <3>2. f \notin B
        BY <1>2, <1>3 DEF A, B
      <3> QED
        BY <3>1, <3>2
    <2>3. ASSUME NEW f \in B, f \notin A
          PROVE  q[f] = ChipReset[f]
      BY <2>1, <2>3
    <2> QED
      BY <2>2, <2>3, Zenon DEF A, B
  <1> HIDE DEF q
  <1>7. q.dbl = "OFF"
    BY <1>2, <1>5 DEF LocalData
  <1>8. /\ q.power = ChipReset.power /\ q.ev = ChipReset.ev /\ q.double = ChipReset.double
        /\ q.rearm = ChipReset.rearm /\ q.fill = ChipReset.fill /\ q.buf = ChipReset.buf
        /\ q.reg = ChipReset.reg /\ q.w4r = ChipReset.w4r /\ q.dx = ChipReset.dx
        /\ q.txtime = ChipReset.txtime /\ q.atx2slp = ChipReset.atx2slp
    BY <1>2, <1>3, <1>5
  <1>9. /\ q.power = "IDLE_RC" /\ q.ev = {"SPIRDY", "RCINIT"} /\ q.double = FALSE
        /\ q.rearm = FALSE /\ q.fill = 0 /\ q.buf = [b \in 0..1 |-> NoSlot] /\ q.reg = NoSlot
        /\ q.w4r = FALSE /\ q.dx = 0 /\ q.txtime = 0 /\ q.atx2slp = FALSE
    <2> QED
      BY <1>8, Zenon DEF ChipReset
  <1>10. DOMAIN q.buf = 0..1 /\ q.buf[0] = q.reg
    BY <1>9
  <1>11. Single(q)
    BY <1>4, <1>7, <1>9, <1>10 DEF Single
  <1>12. q.ev \cap RxEvents = {} /\ "TXFRS" \notin q.ev /\ q.ev \subseteq Events
    BY <1>9 DEF RxEvents, ALL_RX_GOOD, ALL_RX_ERR, ALL_RX_TO, Events
  <1>13. Eventful(q)
    BY <1>9, <1>12 DEF Eventful, RxEvents
  <1>14. Timed(q)
    BY <1>9 DEF Timed, NoSlot
  <1> QED
    BY <1>4, <1>9, <1>11, <1>12, <1>13, <1>14 DEF q

\* Every node is as it should be before it starts.
LEMMA InitNode ==
  ASSUME Init, NEW n \in Nodes
  PROVE  /\ NodeOK(n, Prog(n), r[n], pc[n], h[n]) /\ r[n].power # "TX"
         /\ pc[n] \in {"setup", "poll", "listen"}
         /\ h[n].last = NoReading /\ h[n].mac = Header(0, 0, 0, 0) /\ h[n].cnt = 0
  <1>1. h[n] = [saved |-> <<0, 0>>, mac |-> Header(0, 0, 0, 0), cnt |-> 0, last |-> NoReading]
    BY DEF Init
  <1>2. DataOK(h[n]) /\ h[n].last = NoReading /\ h[n].mac = Header(0, 0, 0, 0) /\ h[n].cnt = 0
    <2>1. CntMod \in Nat \ {0}
      BY RangingAssumption DEF RangingAssumption
    <2>2. 0 \in 0..CntMod - 1
      BY <2>1
    <2> QED
      BY <1>1, <2>2 DEF DataOK
  <1>3. HasFields(PoweredUp({}))
    BY PoweredIs
  <1>4. CASE cast.up
    <2>1. r[n] = (CHOOSE q \in SetupOf(n, PoweredUp({})) : ~q.err) /\ pc[n] = FirstWait(n)
      BY <1>4 DEF Init
    <2>2. \E q \in SetupOf(n, PoweredUp({})) : ~q.err
      BY <1>3, SetUp
    <2>3. r[n] \in SetupOf(n, PoweredUp({})) /\ ~r[n].err
      BY <2>1, <2>2, Zenon
    <2>4. Ready(r[n])
      BY <1>3, <2>3, SetUp
    <2>5. PICK q : q = r[n]
      OBVIOUS
    <2>6. PICK at : at = pc[n]
      OBVIOUS
    <2>7. at = IF q.err THEN "halted" ELSE FirstWait(n)
      BY <2>1, <2>3, <2>5, <2>6
    <2>8. NodeOK(n, Prog(n), q, at, h[n]) /\ q.power # "TX"
      BY <1>2, <2>4, <2>5, <2>7, ReadyNode
    <2> QED
      BY <1>2, <2>1, <2>5, <2>6, <2>8 DEF FirstWait
  <1>5. CASE ~cast.up
    <2>1. r[n] = PoweredUp({}) /\ pc[n] = "setup"
      BY <1>5 DEF Init
    <2> DEFINE q == r[n]
    <2>2. /\ Single(q) /\ Eventful(q) /\ Timed(q) /\ q.power = "IDLE_RC"
          /\ q.ev \cap RxEvents = {} /\ "TXFRS" \notin q.ev /\ q.w4r = FALSE
      BY <2>1, PoweredIs
    <2> HIDE DEF q
    <2>3. RadioOK(Prog(n), q, "setup")
      BY <2>2 DEF RadioOK
    <2>4. PlaceOK(Prog(n), "setup")
      BY DEF PlaceOK
    <2>5. EventOK(Prog(n), q, "setup")
      <3>1. RxEnded \subseteq RxEvents
        BY DEF RxEnded, RxEvents, ALL_RX_GOOD, ALL_RX_ERR, ALL_RX_TO
      <3> QED
        BY <2>2, <3>1 DEF EventOK, PendingOf
    <2>6. SentOK(n, Prog(n), q, "setup", h[n])
      BY <2>2 DEF SentOK
    <2>7. NodeOK(n, Prog(n), q, "setup", h[n])
      BY <1>2, <2>3, <2>4, <2>5, <2>6 DEF NodeOK
    <2> QED
      BY <1>2, <2>1, <2>2, <2>7 DEF q
  <1> QED
    BY <1>4, <1>5

\* The invariant holds at first,
LEMMA InitInv == Init => IInv
  <1> SUFFICES ASSUME Init
               PROVE  IInv
    OBVIOUS
  <1>1. \A n \in Nodes : NodeOK(n, Prog(n), r[n], pc[n], h[n]) /\ r[n].power # "TX"
         /\ pc[n] \in {"setup", "poll", "listen"}
         /\ h[n].last = NoReading /\ h[n].mac = Header(0, 0, 0, 0) /\ h[n].cnt = 0
    BY InitNode
  <1>2. NodeInv
    <2>1. cast \in Casts /\ DOMAIN r = Nodes /\ DOMAIN pc = Nodes /\ DOMAIN h = Nodes
      BY DEF Init
    <2> QED
      BY <1>1, <2>1 DEF NodeInv
  <1>3. ASSUME NEW n \in Initiators \cup Responders
        PROVE  /\ n \in Nodes /\ ~Busy(n) /\ ~Live(n) /\ r[n].power # "TX"
               /\ pc[n] \notin {"await", "awaitReport", "stuck", "broken"}
    <2>1. n \in Nodes
      BY DEF Initiators, Responders
    <2> QED
      BY <1>1, <2>1 DEF Busy, Live
  <1>4. QuietInv /\ PollInv /\ AnswerInv
    BY <1>3 DEF QuietInv, PollInv, AnswerInv
  <1>5. HeardInv
    BY <1>3 DEF HeardInv
  <1>6. LastInv
    <2>1. Header(0, 0, 0, 0) \in Macs /\ Header(0, 0, 0, 0).cnt = 0
      <3>1. CntMod \in Nat \ {0}
        BY RangingAssumption DEF RangingAssumption
      <3>2. 0 \in 0..CntMod - 1
        BY <3>1
      <3> QED
        BY <3>2 DEF Header, Macs
    <2>2. \A n \in Initiators : LastOK(n, h[n].last)
      BY <1>1, <1>3 DEF LastOK
    <2> QED
      BY <1>1, <1>3, <2>1, <2>2 DEF LastInv
  <1> QED
    BY <1>2, <1>4, <1>5, <1>6 DEF IInv

\* Nothing moves.
LEMMA NothingMoves ==
  ASSUME IInv, UNCHANGED vars
  PROVE  IInv'
  <1>1. /\ cast' = cast /\ r' = r /\ pc' = pc /\ h' = h
    BY DEF vars
  <1>2. NodeInv'
    BY <1>1 DEF IInv, NodeInv, Prog
  <1>3. /\ Initiators' = Initiators /\ Responders' = Responders
        /\ \A n \in Nodes : Prog(n)' = Prog(n)
    BY <1>1, SameCast
  <1>4. \A n \in Initiators : n \in Nodes
    BY DEF Initiators
  <1>5. \A n \in Responders : n \in Nodes
    BY DEF Responders
  <1>6. QuietInv'
    BY <1>1, <1>3 DEF IInv, QuietInv, Busy, Happened
  <1>7. PollInv'
    <2>1. ASSUME NEW n \in Initiators, NEW m \in Responders, PollOK(n, m)
          PROVE  PollOK(n, m)'
      BY <1>1, <1>4, <1>5, <2>1, PollStays
    <2> QED
      BY <1>1, <1>3, <2>1 DEF IInv, PollInv, Live, Pending
  <1>8. AnswerInv'
    <2>1. ASSUME NEW n \in Initiators, NEW m \in Responders, AnswerOK(n, m)
          PROVE  AnswerOK(n, m)'
      BY <1>1, <1>4, <1>5, <2>1, AnswerStays
    <2> QED
      BY <1>1, <1>3, <2>1 DEF IInv, AnswerInv, Live
  <1>9. HeardInv'
    <2>1. ASSUME NEW n \in Initiators
          PROVE  HeardAt(n)'
      <3>1. HeardAt(n)
        BY HeardEach DEF IInv
      <3>2. HeardOK(n) => HeardOK(n)'
        BY <1>1, <1>4, HeardStays
      <3>3. \A m : (Paired(n, m, Stamps(r[n]), h[m].saved) => Paired(n, m, Stamps(r[n]), h[m].saved)')
              /\ (Paired(n, m, h[n].saved, h[m].saved) => Paired(n, m, h[n].saved, h[m].saved)')
        BY <1>1 DEF Paired, Distance
      <3>4. \A m : Pending(m)' <=> Pending(m)
        BY <1>1 DEF Pending
      <3> QED
        BY <1>1, <1>3, <1>4, <3>1, <3>2, <3>3, <3>4 DEF HeardAt
    <2>2. \A n \in Initiators' : HeardAt(n)'
      BY <1>3, <2>1
    <2> QED
      BY <2>2, Zenon DEF HeardInv, HeardAt
  <1>10. LastInv'
    <2>1. ASSUME NEW n \in Initiators, LastOK(n, h[n].last)
          PROVE  LastOK(n, h[n].last)'
      BY <1>1, <1>3, <2>1, Zenon DEF LastOK, Distance
    <2> QED
      BY <1>1, <1>3, <1>4, <2>1 DEF IInv, LastInv
  <1> QED
    BY <1>2, <1>6, <1>7, <1>8, <1>9, <1>10 DEF IInv

\* and every step keeps it.
LEMMA NextInv == IInv /\ [Next]_vars => IInv'
  <1> SUFFICES ASSUME IInv, [Next]_vars
               PROVE  IInv'
    OBVIOUS
  <1>1. CASE Next
    BY <1>1, ProgramMoves, ChipSendsMoves, TimesOutMoves, ForeignFrameMoves, Zenon DEF Next
  <1>2. CASE UNCHANGED vars
    BY <1>2, NothingMoves
  <1> QED
    BY <1>1, <1>2

-----------------------------------------------------------------------------
(* Types *)

\* What the types rest on beside IInv and TableInv.
CountInv ==
  /\ pc = [n \in Nodes |-> pc[n]]
  /\ round.samples \in 0..cast.samples - 1
  /\ DOMAIN server.signals = Devices

\* Only a program's step moves it, and no other.
LEMMA PlacesStay ==
  ASSUME IInv, pc = [n \in Nodes |-> pc[n]], [Next]_vars
  PROVE  pc' = [n \in Nodes |-> pc'[n]] /\ cast' = cast
  <1>1. ASSUME NEW n \in Nodes, Program(n)
        PROVE  \E at : (pc' = pc \/ pc' = [pc EXCEPT ![n] = at]) /\ cast' = cast
    <2>1. CASE Retires(n)
      BY <2>1, Zenon DEF Retires, Step
    <2>2. CASE Answers(n)
      BY <2>2, Zenon DEF Answers, Step
    <2>3. CASE Reports(n)
      BY <2>3, Zenon DEF Reports, Step
    <2>4. CASE Bystands(n)
      BY <2>4, Zenon DEF Bystands, Step
    <2>5. CASE Polls(n)
      BY <2>5, Zenon DEF Polls, Step
    <2>6. CASE Hearkens(n)
      BY <2>6, Zenon DEF Hearkens, Step
    <2>7. CASE AwaitsReport(n)
      BY <2>7, Zenon DEF AwaitsReport, Step
    <2>8. CASE Stops(n)
      BY <2>8, Zenon DEF Stops, Step
    <2> QED
      BY <1>1, <2>1, <2>2, <2>3, <2>4, <2>5, <2>6, <2>7, <2>8, ProgramSteps
  <1>2. ASSUME NEW n \in Nodes, NEW at, pc' = [pc EXCEPT ![n] = at]
        PROVE  pc' = [k \in Nodes |-> pc'[k]]
    <2>1. DOMAIN pc = Nodes
      BY DEF IInv, NodeInv
    <2> QED
      BY <1>2, <2>1
  <1>3. CASE pc' = pc /\ cast' = cast
    BY <1>3
  <1>4. ASSUME NEW n \in Nodes, Program(n)
        PROVE  pc' = [k \in Nodes |-> pc'[k]] /\ cast' = cast
    BY <1>1, <1>2, <1>3, <1>4, Zenon
  <1>5. ASSUME NEW n \in Nodes, ChipSends(n) \/ TimesOut(n) \/ ForeignFrame(n)
        PROVE  pc' = pc /\ cast' = cast
    BY <1>5, Zenon DEF ChipSends, TimesOut, ForeignFrame
  <1>6. CASE UNCHANGED vars
    BY <1>3, <1>6 DEF vars
  <1> QED
    BY <1>3, <1>4, <1>5, <1>6, Zenon DEF Next

\* CountInv holds at first,
LEMMA InitCounts == Init => CountInv
  <1> SUFFICES ASSUME Init
               PROVE  CountInv
    OBVIOUS
  <1>1. cast.samples \in Nat \ {0}
    BY RangingAssumption DEF RangingAssumption, Init
  <1>2. pc = [n \in Nodes |-> pc[n]]
    BY DEF Init
  <1>3. round.samples = 0
    BY DEF Init
  <1>4. server.signals = [b \in Devices |-> Unheard]
    BY DEF Init
  <1> QED
    BY <1>1, <1>2, <1>3, <1>4 DEF CountInv

\* and every step keeps it.
LEMMA NextCounts == IInv /\ TableInv /\ CountInv /\ [Next]_vars => CountInv'
  <1> SUFFICES ASSUME IInv, TableInv, CountInv, [Next]_vars
               PROVE  CountInv'
    OBVIOUS
  <1>1. pc' = [n \in Nodes |-> pc'[n]] /\ cast' = cast
    BY PlacesStay DEF CountInv
  <1>2. cast.samples \in Nat \ {0}
    BY RangingAssumption DEF RangingAssumption, IInv, NodeInv
  <1>3. Devices' = Devices
    BY <1>1, SameCast DEF Devices
  <1>4. round = [samples |-> round.samples, table |-> round.table]
    BY DEF TableInv
  <1>5. CASE UNCHANGED <<round, server>>
    BY <1>1, <1>3, <1>5 DEF CountInv
  <1>6. ASSUME NEW n \in Nodes, UWB_take(n)
        PROVE  CountInv'
    <2>1. UNCHANGED server
      BY <1>6, Zenon DEF UWB_take
    <2>2. round'.samples = round.samples
      <3>1. round' = round \/ \E t : round' = [round EXCEPT !.table = t]
        BY <1>6, Zenon DEF UWB_take
      <3>2. ASSUME NEW t, round' = [round EXCEPT !.table = t]
            PROVE  round'.samples = round.samples
        BY <1>4, <3>2
      <3> QED
        BY <3>1, <3>2
    <2> QED
      BY <1>1, <1>3, <2>1, <2>2 DEF CountInv
  <1>7. ASSUME NEW n \in Nodes, UWB_pause(n)
        PROVE  CountInv'
    <2>1. UNCHANGED server
      BY <1>7, Zenon DEF UWB_pause
    <2>2. round'.samples = IF round.samples + 1 = cast.samples THEN 0 ELSE round.samples + 1
      BY <1>4, <1>7 DEF UWB_pause
    <2>3. round'.samples \in 0..cast.samples - 1
      BY <1>2, <2>2 DEF CountInv
    <2> QED
      BY <1>1, <1>3, <2>1, <2>3 DEF CountInv
  <1>8. ASSUME NEW n \in Nodes, UWB_report(n)
        PROVE  CountInv'
    <2>1. round'.samples = round.samples
      BY <1>4, <1>8 DEF UWB_report
    <2>2. DOMAIN server'.signals = Devices
      <3> DEFINE told == [ signals |-> updateSignals(server.signals, UDP_message(round.table)),
                           fix |-> UDP_message(round.table) ]
      <3>1. server' = server \/ server' = told
        BY <1>8, Zenon DEF UWB_report
      <3>2. told.signals = updateSignals(server.signals, UDP_message(round.table))
        OBVIOUS
      <3>3. DOMAIN updateSignals(server.signals, UDP_message(round.table)) = DOMAIN server.signals
        BY Zenon DEF updateSignals
      <3> HIDE DEF told
      <3> QED
        BY <3>1, <3>2, <3>3 DEF CountInv
    <2> QED
      BY <1>1, <1>3, <2>1, <2>2 DEF CountInv
  <1>9. ASSUME NEW n \in Nodes, ChipSends(n) \/ TimesOut(n) \/ ForeignFrame(n)
        PROVE  UNCHANGED <<round, server>>
    BY <1>9, Zenon DEF ChipSends, TimesOut, ForeignFrame
  <1>10. ASSUME NEW n \in Nodes, Program(n)
         PROVE  CountInv'
    BY <1>5, <1>6, <1>7, <1>8, <1>10, OthersLeaveIt
  <1>11. CASE UNCHANGED vars
    BY <1>5, <1>11 DEF vars
  <1> QED
    BY <1>5, <1>9, <1>10, <1>11, Zenon DEF Next

\* The types follow,
LEMMA TypesFollow == IInv /\ TableInv /\ CountInv => RangingTypeOK
  <1> SUFFICES ASSUME IInv, TableInv, CountInv
               PROVE  RangingTypeOK
    OBVIOUS
  <1> DEFINE Places == {"setup", "poll", "polled", "await", "awaitReport", "pause",
                        "report", "listen", "sending", "reporting", "halted", "stuck", "broken"}
  <1>1. ASSUME NEW n \in Nodes
        PROVE  /\ pc[n] \in Places
               /\ r[n].power \in {"IDLE_RC", "IDLE", "TX", "RX"} /\ r[n].ev \subseteq Events
               /\ h[n].cnt \in 0..CntMod - 1
    <2>1. NodeOK(n, Prog(n), r[n], pc[n], h[n]) /\ Eventful(r[n]) /\ DataOK(h[n])
      BY NodeIs DEF IInv
    <2>2. pc[n] \in Places
      BY <2>1 DEF NodeOK, PlaceOK
    <2> QED
      BY <2>1, <2>2 DEF Eventful, DataOK
  <1>2. pc \in [Nodes -> Places]
    <2> HIDE DEF Places
    <2>1. pc = [n \in Nodes |-> pc[n]] /\ \A n \in Nodes : pc[n] \in Places
      BY <1>1 DEF CountInv
    <2> QED
      BY <2>1
  <1>3. cast \in Casts
    BY DEF IInv, NodeInv
  <1> QED
    BY <1>1, <1>2, <1>3 DEF RangingTypeOK, TableInv, CountInv

\* and so does the soundness of every exchange.
LEMMA SoundnessFollows == IInv => ExchangesAreSound
  <1> SUFFICES ASSUME IInv, NEW n \in Initiators
               PROVE  /\ h[n].last # NoReading =>
                           \E a \in cast.noise[n], b \in cast.noise[h[n].last.from] :
                             h[n].last.twice = 2 * Distance(n, h[n].last.from) + a + b
                      /\ Prog(n) = "init_aes" /\ pc[n] = "poll" => h[n].mac.cnt = h[n].cnt
                      /\ pc[n] = "stuck" => dwt_readrxdata(r[n]) = Foreign
    BY Zenon DEF ExchangesAreSound
  <1>1. n \in Nodes /\ Single(r[n])
    BY NodeIs DEF IInv, Initiators
  <1>2. dwt_readrxdata(r[n]) = r[n].reg.frame
    BY <1>1, ReadsIs
  <1> QED
    BY <1>2 DEF IInv, LastInv, LastOK

-----------------------------------------------------------------------------
(* Sums, averages and the three closest *)

\* A nonempty set of numbers has a least element.
LEMMA LeastOf ==
  ASSUME NEW T, T \subseteq Nat, T # {}
  PROVE  \E x \in T : \A y \in T : x <= y
  <1> DEFINE R == OpToRel(<, Nat)
  <1>1. IsWellFoundedOn(R, Nat)
    BY NatLessThanWellFounded
  <1>2. \A x, y \in Nat : <<y, x>> \in R <=> y < x
    BY DEF OpToRel
  <1> HIDE DEF R
  <1>3. PICK x \in T : \A y \in T : ~ (<<y, x>> \in R)
    BY <1>1, WFMin
  <1>4. ASSUME NEW y \in T
        PROVE  x <= y
    <2>1. x \in Nat /\ y \in Nat
      OBVIOUS
    <2>2. ~ (y < x)
      BY <1>2, <1>3, <2>1, Zenon
    <2> QED
      BY <2>1, <2>2
  <1> QED
    BY <1>3, <1>4

\* Induction, as a set that holds 0 and the successor of each member.
LEMMA InductionSet ==
  ASSUME NEW S, 0 \in S, \A n \in Nat : n \in S => n + 1 \in S
  PROVE  Nat \subseteq S
  <1> SUFFICES ASSUME Nat \ S # {}
               PROVE  FALSE
    OBVIOUS
  <1>1. PICK x \in Nat \ S : \A y \in Nat \ S : x <= y
    BY LeastOf
  <1>2. x # 0
    OBVIOUS
  <1>3. x - 1 \in Nat /\ x - 1 \in S
    BY <1>1, <1>2
  <1> QED
    BY <1>3

\* p puts the first n values of f in ascending order.
Sorts(p, f, n) ==
  /\ \A i, j \in 1..n : p[i] = p[j] => i = j
  /\ \A i, j \in 1..n : i < j => f[p[i]] <= f[p[j]]

\* Any readings can be sorted: one more is put before those that are higher.
LEMMA SortExists ==
  ASSUME NEW n \in Nat, NEW f \in [1..n -> Int]
  PROVE  \E p \in [1..n -> 1..n] : Sorts(p, f, n)
  <1> DEFINE Z == {k \in Nat : k <= n => \E p \in [1..k -> 1..k] : Sorts(p, f, k)}
  <1>1. 0 \in Z
    <2>1. [i \in 1..0 |-> i] \in [1..0 -> 1..0]
      OBVIOUS
    <2>2. Sorts([i \in 1..0 |-> i], f, 0)
      BY DEF Sorts
    <2> QED
      BY <2>1, <2>2
  <1>2. ASSUME NEW k \in Nat, k \in Z
        PROVE  k + 1 \in Z
    <2>1. SUFFICES ASSUME k + 1 <= n
                   PROVE  \E p \in [1..(k + 1) -> 1..(k + 1)] : Sorts(p, f, k + 1)
      OBVIOUS
    <2>2. PICK p \in [1..k -> 1..k] : Sorts(p, f, k)
      BY <1>2, <2>1
    <2> DEFINE T == {i \in 1..k : f[k + 1] < f[p[i]]} \cup {k + 1}
    <2>3. PICK at \in T : \A i \in T : at <= i
      <3>1. T \subseteq Nat /\ T # {}
        OBVIOUS
      <3> HIDE DEF T
      <3> QED
        BY <3>1, LeastOf
    <2> DEFINE q == [i \in 1..(k + 1) |-> IF i < at THEN p[i]
                                          ELSE IF i = at THEN k + 1 ELSE p[i - 1]]
    <2>4. at \in 1..(k + 1)
      OBVIOUS
    <2>5. ASSUME NEW i \in 1..k
          PROVE  /\ p[i] \in 1..k /\ f[p[i]] \in Int /\ f[k + 1] \in Int
                 /\ i < at => f[p[i]] <= f[k + 1]
                 /\ at <= i => f[k + 1] <= f[p[i]]
      <3>1. p[i] \in 1..k
        BY <2>2
      <3>2. p[i] \in 1..n /\ k + 1 \in 1..n
        BY <2>1, <3>1
      <3>3. f[p[i]] \in Int /\ f[k + 1] \in Int
        BY <3>2
      <3>4. i < at => i \notin T
        BY <2>3, <2>4
      <3>5. ASSUME i < at
            PROVE  f[p[i]] <= f[k + 1]
        <4>1. ~(f[k + 1] < f[p[i]])
          BY <3>4, <3>5
        <4> QED
          BY <3>3, <4>1
      <3>6. ASSUME at <= i
            PROVE  f[k + 1] <= f[p[i]]
        <4>1. at \in 1..k /\ f[k + 1] < f[p[at]]
          BY <2>4, <3>6
        <4>2. p[at] \in 1..n
          BY <2>1, <2>2, <4>1
        <4>3. f[p[at]] \in Int
          BY <4>2
        <4>4. at = i \/ f[p[at]] <= f[p[i]]
          <5>1. at = i \/ at < i
            BY <3>6, <4>1
          <5> HIDE DEF T
          <5> QED
            BY <2>2, <4>1, <5>1 DEF Sorts
        <4> QED
          BY <3>3, <4>1, <4>3, <4>4
      <3> QED
        BY <3>1, <3>3, <3>5, <3>6
    <2>6. ASSUME NEW i \in 1..(k + 1)
          PROVE  /\ q[i] \in 1..(k + 1)
                 /\ i < at => i \in 1..k /\ q[i] = p[i]
                 /\ i = at => q[i] = k + 1
                 /\ at < i => i - 1 \in 1..k /\ q[i] = p[i - 1]
      <3>1. i < at => i \in 1..k /\ q[i] = p[i]
        BY <2>4
      <3>2. i = at => q[i] = k + 1
        BY <2>4
      <3>3. at < i => i - 1 \in 1..k /\ q[i] = p[i - 1]
        BY <2>4
      <3>4. q[i] \in 1..(k + 1)
        <4> HIDE DEF q, T
        <4> QED
          BY <2>4, <2>5, <3>1, <3>2, <3>3
      <3> QED
        BY <3>1, <3>2, <3>3, <3>4
    <2>7. q \in [1..(k + 1) -> 1..(k + 1)]
      <3>1. q = [i \in 1..(k + 1) |-> q[i]]
        OBVIOUS
      <3> HIDE DEF q
      <3> QED
        BY <2>6, <3>1
    <2> HIDE DEF q, T
    <2>8. ASSUME NEW i \in 1..(k + 1), NEW j \in 1..(k + 1), q[i] = q[j]
          PROVE  i = j
      <3>1. \A l \in 1..k : p[l] \in 1..k /\ p[l] # k + 1
        BY <2>5
      <3>2. \A l, m \in 1..k : p[l] = p[m] => l = m
        BY <2>2 DEF Sorts
      <3>3. CASE i < at
        <4>1. i \in 1..k /\ q[i] = p[i]
          BY <2>6, <3>3
        <4>2. p[i] # k + 1
          BY <3>1, <4>1
        <4>3. j < at \/ at < j
          <5>1. j = at => q[j] = k + 1
            BY <2>6
          <5>2. j # at
            BY <2>8, <4>1, <4>2, <5>1, Zenon
          <5> QED
            BY <2>4, <5>2
        <4>4. j < at => j \in 1..k /\ q[j] = p[j]
          BY <2>6
        <4>5. at < j => j - 1 \in 1..k /\ q[j] = p[j - 1] /\ j - 1 # i
          BY <2>4, <2>6, <3>3
        <4> QED
          BY <2>8, <3>2, <4>1, <4>3, <4>4, <4>5, Zenon
      <3>4. CASE i = at
        <4>1. q[i] = k + 1
          BY <2>6, <3>4
        <4>2. j < at => j \in 1..k /\ q[j] = p[j] /\ p[j] # k + 1
          BY <2>6, <3>1
        <4>3. at < j => j - 1 \in 1..k /\ q[j] = p[j - 1] /\ p[j - 1] # k + 1
          BY <2>6, <3>1
        <4> QED
          BY <2>4, <2>8, <3>4, <4>1, <4>2, <4>3
      <3>5. CASE at < i
        <4>1. i - 1 \in 1..k /\ q[i] = p[i - 1]
          BY <2>6, <3>5
        <4>2. p[i - 1] # k + 1
          BY <3>1, <4>1
        <4>3. j < at \/ at < j
          <5>1. j = at => q[j] = k + 1
            BY <2>6
          <5>2. j # at
            BY <2>8, <4>1, <4>2, <5>1, Zenon
          <5> QED
            BY <2>4, <5>2
        <4>4. j < at => j \in 1..k /\ q[j] = p[j] /\ i - 1 # j
          BY <2>4, <2>6, <3>5
        <4>5. at < j => j - 1 \in 1..k /\ q[j] = p[j - 1]
          BY <2>6
        <4>6. i - 1 = j - 1 => i = j
          OBVIOUS
        <4> QED
          BY <2>8, <3>2, <4>1, <4>3, <4>4, <4>5, <4>6, Zenon
      <3> QED
        BY <2>4, <3>3, <3>4, <3>5
    <2>9. ASSUME NEW i \in 1..(k + 1), NEW j \in 1..(k + 1), i < j
          PROVE  f[q[i]] <= f[q[j]]
      <3>1. \A l, m \in 1..k : l < m => f[p[l]] <= f[p[m]]
        BY <2>2 DEF Sorts
      <3>2. CASE j < at
        <4>1. i < at /\ i \in 1..k /\ j \in 1..k
          BY <2>4, <2>9, <3>2
        <4>2. q[i] = p[i] /\ q[j] = p[j]
          BY <2>6, <3>2, <4>1
        <4> QED
          BY <2>9, <3>1, <4>1, <4>2
      <3>3. CASE j = at
        <4>1. i < at /\ i \in 1..k
          BY <2>4, <2>9, <3>3
        <4>2. q[i] = p[i] /\ q[j] = k + 1
          BY <2>6, <3>3, <4>1
        <4> QED
          BY <2>5, <4>1, <4>2
      <3>4. CASE at < j /\ i < at
        <4>1. i \in 1..k /\ j - 1 \in 1..k /\ q[i] = p[i] /\ q[j] = p[j - 1]
          BY <2>6, <3>4
        <4>2. at <= j - 1
          BY <2>4, <3>4
        <4>3. /\ f[p[i]] <= f[k + 1] /\ f[k + 1] <= f[p[j - 1]]
              /\ f[p[i]] \in Int /\ f[p[j - 1]] \in Int /\ f[k + 1] \in Int
          BY <2>5, <3>4, <4>1, <4>2
        <4>4. \A x, y, z \in Int : x <= y /\ y <= z => x <= z
          OBVIOUS
        <4> QED
          BY <4>1, <4>3, <4>4, Zenon
      <3>5. CASE at < j /\ i = at
        <4>1. q[i] = k + 1 /\ j - 1 \in 1..k /\ q[j] = p[j - 1]
          BY <2>6, <3>5
        <4>2. at <= j - 1
          BY <2>4, <3>5
        <4> QED
          BY <2>5, <4>1, <4>2
      <3>6. CASE at < j /\ at < i
        <4>1. i - 1 \in 1..k /\ j - 1 \in 1..k /\ q[i] = p[i - 1] /\ q[j] = p[j - 1]
          BY <2>6, <3>6
        <4>2. i - 1 < j - 1
          BY <2>9
        <4> QED
          BY <3>1, <4>1, <4>2
      <3> QED
        BY <2>4, <3>2, <3>3, <3>4, <3>5, <3>6
    <2> QED
      BY <2>7, <2>8, <2>9 DEF Sorts
  <1>3. n \in Z
    <2> HIDE DEF Z
    <2> QED
      BY <1>1, <1>2, InductionSet
  <1>4. n <= n
    OBVIOUS
  <1> QED
    BY <1>3, <1>4

\* How the community modules sum up a sequence: over its places, in an order that
\* CHOOSE picks.
Pick(s) == CHOOSE x \in s : TRUE

SumTurns(f, g) ==
  [s \in SUBSET DOMAIN f |-> IF s = {} THEN 0 ELSE f[Pick(s)] + g[s \ {Pick(s)}]]

Total(f) == (CHOOSE g : g = SumTurns(f, g))[DOMAIN f]

\* g has the sums of f over all subsets of S.
Sums(S, f, g) ==
  /\ g \in [SUBSET S -> Int]
  /\ \A s \in SUBSET S : g[s] = IF s = {} THEN 0 ELSE f[Pick(s)] + g[s \ {Pick(s)}]

\* The sums over a finite set exist.
LEMMA SumExists ==
  ASSUME NEW S, IsFiniteSet(S), NEW f \in [S -> Int]
  PROVE  \E g : Sums(S, f, g)
  <1> DEFINE Upto(k, g) ==
               /\ g \in [SUBSET S -> Int]
               /\ \A s \in SUBSET S : Cardinality(s) <= k =>
                    g[s] = IF s = {} THEN 0 ELSE f[Pick(s)] + g[s \ {Pick(s)}]
             Z == {k \in Nat : \E g : Upto(k, g)}
  <1>1. \A s \in SUBSET S : IsFiniteSet(s) /\ Cardinality(s) \in Nat /\ Cardinality(s) <= Cardinality(S)
    BY FS_Subset, FS_CardinalityType
  <1>2. \A s \in SUBSET S : s # {} => Pick(s) \in s
    BY DEF Pick
  <1>3. \A s \in SUBSET S : s # {} => /\ s \ {Pick(s)} \in SUBSET S
                                      /\ Cardinality(s \ {Pick(s)}) = Cardinality(s) - 1
    BY <1>1, <1>2, FS_RemoveElement
  <1>4. 0 \in Z
    <2> DEFINE g == [s \in SUBSET S |-> 0]
    <2>1. \A s \in SUBSET S : Cardinality(s) <= 0 => s = {}
      BY <1>1, FS_EmptySet
    <2>2. Upto(0, g)
      BY <2>1
    <2> QED
      BY <2>2
  <1>5. ASSUME NEW k \in Nat, k \in Z
        PROVE  k + 1 \in Z
    <2>1. PICK g0 : Upto(k, g0)
      BY <1>5
    <2> DEFINE g == [s \in SUBSET S |->
                       IF Cardinality(s) <= k THEN g0[s] ELSE f[Pick(s)] + g0[s \ {Pick(s)}]]
    <2>2. ASSUME NEW s \in SUBSET S, ~(Cardinality(s) <= k)
          PROVE  s # {} /\ Pick(s) \in S
      <3>1. s # {}
        BY <2>2, FS_EmptySet
      <3> QED
        BY <3>1, <1>2
    <2>3. g \in [SUBSET S -> Int]
      <3>1. ASSUME NEW s \in SUBSET S
            PROVE  g[s] \in Int
        <4>1. CASE Cardinality(s) <= k
          BY <2>1, <4>1
        <4>2. CASE ~(Cardinality(s) <= k)
          <5>1. f[Pick(s)] \in Int /\ g0[s \ {Pick(s)}] \in Int
            BY <2>1, <2>2, <1>3, <4>2
          <5> QED
            BY <4>2, <5>1
        <4> QED
          BY <4>1, <4>2
      <3> QED
        BY <3>1
    <2>4. ASSUME NEW s \in SUBSET S, Cardinality(s) <= k + 1
          PROVE  g[s] = IF s = {} THEN 0 ELSE f[Pick(s)] + g[s \ {Pick(s)}]
      <3>1. CASE s = {}
        <4>1. Cardinality(s) <= k
          BY <3>1, FS_EmptySet
        <4>2. g[s] = g0[s] /\ g0[s] = 0
          BY <2>1, <3>1, <4>1
        <4> HIDE DEF g
        <4> QED
          BY <3>1, <4>2
      <3>2. CASE s # {}
        <4>1. Cardinality(s \ {Pick(s)}) <= k /\ s \ {Pick(s)} \in SUBSET S
          BY <1>1, <1>3, <2>4, <3>2
        <4>2. g[s \ {Pick(s)}] = g0[s \ {Pick(s)}]
          BY <4>1
        <4>3. g[s] = f[Pick(s)] + g0[s \ {Pick(s)}]
          BY <2>1, <3>2
        <4> HIDE DEF g
        <4> QED
          BY <3>2, <4>2, <4>3
      <3> QED
        BY <3>1, <3>2
    <2> HIDE DEF g
    <2>5. Upto(k + 1, g)
      BY <2>3, <2>4
    <2>6. k + 1 \in Nat
      OBVIOUS
    <2> HIDE DEF Upto
    <2> QED
      BY <2>5, <2>6
  <1>6. Cardinality(S) \in Z
    <2> HIDE DEF Z
    <2> QED
      BY <1>4, <1>5, InductionSet, FS_CardinalityType
  <1>7. PICK g : Upto(Cardinality(S), g)
    BY <1>6
  <1>8. Sums(S, f, g)
    BY <1>1, <1>7 DEF Sums
  <1> QED
    BY <1>8


\* FoldSeq, with addition, is that sum.
LEMMA FoldIsTotal ==
  ASSUME NEW f
  PROVE  FoldSeq(+, 0, f) = Total(f)
  BY DEF FoldSeq, FoldFunction, FoldFunctionOnSet, MapThenFoldSet, Total, SumTurns, Pick

\* A sum is between as many times the bounds of what is added.
LEMMA SumBetween ==
  ASSUME NEW n \in Nat, NEW f \in [1..n -> Int], NEW low \in Int, NEW high \in Int,
         \A i \in 1..n : low <= f[i] /\ f[i] <= high
  PROVE  Total(f) \in Int /\ low * n <= Total(f) /\ Total(f) <= high * n
  <1> DEFINE S == 1..n
  <1>1. IsFiniteSet(S) /\ DOMAIN f = S /\ Cardinality(S) = n
    BY FS_Interval
  <1> DEFINE g == CHOOSE u : u = SumTurns(f, u)
  <1>2. g = SumTurns(f, g)
    <2>1. f \in [S -> Int]
      OBVIOUS
    <2>2. PICK u : Sums(S, f, u)
      BY <1>1, <2>1, SumExists
    <2>3. u = [s \in SUBSET S |-> u[s]]
      BY <2>2 DEF Sums
    <2>4. u = SumTurns(f, u)
      BY <1>1, <2>2, <2>3 DEF Sums, SumTurns
    <2> QED
      BY <2>4
  <1>3. Total(f) = g[S]
    BY <1>1 DEF Total
  <1> HIDE DEF g
  <1>4. \A s \in SUBSET S : g[s] = IF s = {} THEN 0 ELSE f[Pick(s)] + g[s \ {Pick(s)}]
    BY <1>1, <1>2 DEF SumTurns
  <1> DEFINE Between(s) == /\ g[s] \in Int /\ low * Cardinality(s) <= g[s]
                           /\ g[s] <= high * Cardinality(s)
             Z == {k \in Nat : \A s \in SUBSET S : Cardinality(s) = k => Between(s)}
  <1>5. \A s \in SUBSET S : IsFiniteSet(s) /\ Cardinality(s) \in Nat
    BY <1>1, FS_Subset, FS_CardinalityType
  <1>6. 0 \in Z
    <2>1. ASSUME NEW s \in SUBSET S, Cardinality(s) = 0
          PROVE  Between(s)
      <3>1. s = {}
        BY <1>5, <2>1, FS_EmptySet
      <3>2. g[s] = 0
        BY <1>4, <3>1
      <3>3. low * 0 = 0 /\ high * 0 = 0
        OBVIOUS
      <3> QED
        BY <2>1, <3>2, <3>3
    <2> HIDE DEF Between
    <2> QED
      BY <2>1
  <1>7. ASSUME NEW k \in Nat, k \in Z
        PROVE  k + 1 \in Z
    <2>1. ASSUME NEW s \in SUBSET S, Cardinality(s) = k + 1
          PROVE  Between(s)
      <3>1. s # {}
        BY <2>1, FS_EmptySet
      <3> DEFINE x == Pick(s)
                 t == s \ {x}
      <3>2. x \in s
        BY <3>1 DEF Pick
      <3>3. g[s] = f[x] + g[t]
        BY <1>4, <3>1
      <3>4. Cardinality(t) = k /\ t \in SUBSET S
        <4>1. Cardinality(t) = Cardinality(s) - 1
          BY <1>5, <3>2, FS_RemoveElement
        <4>2. t \in SUBSET S
          OBVIOUS
        <4> HIDE DEF t
        <4> QED
          BY <2>1, <4>1, <4>2
      <3> HIDE DEF x, t
      <3>5. g[t] \in Int /\ low * k <= g[t] /\ g[t] <= high * k
        BY <1>7, <3>4
      <3>6. f[x] \in Int /\ low <= f[x] /\ f[x] <= high
        BY <3>2
      <3>7. low * (k + 1) = low * k + low /\ high * (k + 1) = high * k + high
        OBVIOUS
      <3>8. low * k \in Int /\ high * k \in Int
        OBVIOUS
      <3> QED
        BY <2>1, <3>3, <3>5, <3>6, <3>7, <3>8
    <2> HIDE DEF Between
    <2> QED
      BY <2>1
  <1>8. Between(S)
    <2>1. n \in Z
      <3> HIDE DEF Z
      <3> QED
        BY <1>6, <1>7, InductionSet
    <2> HIDE DEF Between
    <2> QED
      BY <1>1, <2>1
  <1> QED
    BY <1>1, <1>3, <1>8

\* Factors keep an order.
LEMMA TimesMono ==
  ASSUME NEW x \in Int, NEW y \in Int, NEW c \in Nat, x <= y
  PROVE  x * c \in Int /\ y * c \in Int /\ x * c <= y * c
  <1>1. PICK d \in Nat : y = x + d
    <2>1. y - x \in Nat
      OBVIOUS
    <2> QED
      BY <2>1
  <1>2. d * c >= 0 /\ y * c = x * c + d * c
    BY <1>1
  <1>3. x * c \in Int /\ d * c \in Int
    BY <1>1
  <1> QED
    BY <1>2, <1>3

\* What a quotient is between.
LEMMA QuotientIs ==
  ASSUME NEW s \in Int, NEW n \in Nat \ {0}
  PROVE  /\ s \div n \in Int
         /\ (s \div n) * n <= s /\ s < (s \div n + 1) * n
  BY Z3

\* An average of readings between two, rounded, is between these two, rounded.
LEMMA HundredthsBetween ==
  ASSUME NEW count \in Nat \ {0}, NEW sum \in Int, NEW low \in Int, NEW high \in Int,
         low * count <= sum, sum <= high * count
  PROVE  /\ Hundredths(sum, count) \in Int
         /\ Hundredths(low, 1) \in Int /\ Hundredths(high, 1) \in Int
         /\ Hundredths(low, 1) <= Hundredths(sum, count)
         /\ Hundredths(sum, count) <= Hundredths(high, 1)
  <1> DEFINE C == Centimetres
             X == sum * C + count
             L == low * C + 1
             H == high * C + 1
             n == 2 * count
             q == X \div n
             a == L \div 2
             b == H \div 2
  <1>1. C \in Nat
    BY RangingAssumption DEF RangingAssumption
  <1>2. X \in Int /\ L \in Int /\ H \in Int /\ n \in Nat \ {0} /\ 2 \in Nat \ {0}
    BY <1>1
  <1>3. q \in Int /\ q * n <= X /\ X < (q + 1) * n
    <2> HIDE DEF X, n
    <2> QED
      BY <1>2, QuotientIs
  <1>4. /\ a \in Int /\ a * 2 <= L /\ L < (a + 1) * 2
        /\ b \in Int /\ b * 2 <= H /\ H < (b + 1) * 2
    <2> HIDE DEF L, H
    <2> QED
      BY <1>2, QuotientIs
  <1>5. L * count <= X /\ X <= H * count /\ L * count \in Int /\ H * count \in Int
    <2>1. low * count \in Int /\ high * count \in Int
      OBVIOUS
    <2>2. (low * count) * C <= sum * C /\ sum * C <= (high * count) * C
          /\ (low * count) * C \in Int /\ (high * count) * C \in Int /\ sum * C \in Int
      BY <1>1, <2>1, TimesMono
    <2>3. L * count = (low * count) * C + count /\ H * count = (high * count) * C + count
      BY <1>1
    <2> HIDE DEF L, H
    <2> QED
      BY <2>2, <2>3
  <1>6. Hundredths(sum, count) = q /\ Hundredths(low, 1) = a /\ Hundredths(high, 1) = b
    <2>1. 2 * 1 = 2
      OBVIOUS
    <2> QED
      BY <2>1 DEF Hundredths
  <1> HIDE DEF X, L, H, q, a, b
  <1>7. /\ a * n = (a * 2) * count /\ (b + 1) * n = ((b + 1) * 2) * count
        /\ a * 2 \in Int /\ (b + 1) * 2 \in Int
    BY <1>4
  <1> HIDE DEF n
  <1>8. ASSUME q < a
        PROVE  FALSE
    <2>1. (q + 1) * n <= a * n /\ (q + 1) * n \in Int /\ a * n \in Int
      <3>1. q + 1 <= a /\ q + 1 \in Int /\ n \in Nat
        BY <1>2, <1>3, <1>4, <1>8
      <3> QED
        BY <1>4, <3>1, TimesMono
    <2>2. (a * 2) * count <= L * count
      BY <1>2, <1>4, <1>7, TimesMono
    <2> QED
      BY <1>2, <1>3, <1>5, <1>7, <2>1, <2>2
  <1>9. ASSUME b < q
        PROVE  FALSE
    <2>1. (b + 1) * n <= q * n /\ (b + 1) * n \in Int /\ q * n \in Int
      <3>1. b + 1 <= q /\ b + 1 \in Int /\ n \in Nat
        BY <1>2, <1>3, <1>4, <1>9
      <3> QED
        BY <1>3, <3>1, TimesMono
    <2>2. (H + 1) * count <= ((b + 1) * 2) * count /\ (H + 1) * count \in Int
      <3>1. H + 1 <= (b + 1) * 2 /\ H + 1 \in Int
        BY <1>2, <1>4, <1>7
      <3> QED
        BY <1>7, <3>1, TimesMono
    <2>3. (H + 1) * count = H * count + count
      BY <1>2
    <2> QED
      BY <1>2, <1>3, <1>5, <1>7, <2>1, <2>2, <2>3
  <1> QED
    BY <1>3, <1>4, <1>6, <1>8, <1>9

\* Sorted readings are the same readings, in ascending order.
LEMMA SortedIs ==
  ASSUME NEW s \in Seq(Int)
  PROVE  LET t == Sorted(s)
         IN  /\ t \in [1..Len(s) -> Int]
             /\ \A i \in 1..Len(s) : \E j \in 1..Len(s) : t[i] = s[j]
             /\ \A i, j \in 1..Len(s) : i < j => t[i] <= t[j]
  <1> DEFINE n == Len(s)
             p == CHOOSE p \in [1..n -> 1..n] :
                    /\ \A i, j \in 1..n : p[i] = p[j] => i = j
                    /\ \A i, j \in 1..n : i < j => s[p[i]] <= s[p[j]]
  <1>1. n \in Nat /\ s \in [1..n -> Int]
    BY LenProperties
  <1>2. p \in [1..n -> 1..n] /\ \A i, j \in 1..n : i < j => s[p[i]] <= s[p[j]]
    <2>1. \E u \in [1..n -> 1..n] : Sorts(u, s, n)
      <3> HIDE DEF n
      <3> QED
        BY <1>1, SortExists
    <2>2. \E u \in [1..n -> 1..n] : /\ \A i, j \in 1..n : u[i] = u[j] => i = j
                                    /\ \A i, j \in 1..n : i < j => s[u[i]] <= s[u[j]]
      <3> HIDE DEF n
      <3> QED
        BY <2>1, Zenon DEF Sorts
    <2> HIDE DEF n
    <2> QED
      BY <2>2, Zenon
  <1>3. Sorted(s) = [i \in 1..n |-> s[p[i]]]
    BY DEF Sorted
  <1> HIDE DEF n, p
  <1>4. \A i \in 1..n : Sorted(s)[i] = s[p[i]] /\ p[i] \in 1..n /\ s[p[i]] \in Int
    BY <1>1, <1>2, <1>3
  <1>5. Sorted(s) \in [1..n -> Int]
    BY <1>3, <1>4
  <1>6. \A i, j \in 1..n : i < j => Sorted(s)[i] <= Sorted(s)[j]
    BY <1>2, <1>4
  <1> QED
    BY <1>4, <1>5, <1>6 DEF n

\* The average of a beacon's readings is between two of them.
LEMMA AverageIs ==
  ASSUME NEW s \in Seq(Int), s # <<>>
  PROVE  \E i, j \in 1..Len(s) : /\ avgDistance(s) \in Int
                                 /\ Hundredths(s[i], 1) <= avgDistance(s)
                                 /\ avgDistance(s) <= Hundredths(s[j], 1)
  <1> DEFINE n == Len(s)
             t == Sorted(s)
             k == n \div TrimOneIn
             m == n - k - (k + 1) + 1
             u == Trimmed(s)
  <1>1. n \in Nat \ {0}
    BY LenProperties, EmptySeq
  <1>2. /\ t \in [1..n -> Int]
        /\ \A i \in 1..n : \E j \in 1..n : t[i] = s[j]
        /\ \A i, j \in 1..n : i < j => t[i] <= t[j]
    <2> HIDE DEF t
    <2> QED
      BY SortedIs DEF t
  <1>3. k \in Nat /\ m \in Nat \ {0} /\ k + m <= n
    <2>1. TrimOneIn \in Nat \ {0} /\ 3 <= TrimOneIn
      BY RangingAssumption DEF RangingAssumption
    <2>2. k \in Int /\ k * TrimOneIn <= n /\ n < (k + 1) * TrimOneIn
      <3> HIDE DEF n
      <3> QED
        BY <1>1, <2>1, QuotientIs
    <2> HIDE DEF k, n
    <2>3. 0 <= k
      <3>1. SUFFICES ASSUME k + 1 <= 0
                     PROVE  FALSE
        BY <2>2
      <3>2. (k + 1) * TrimOneIn <= 0 * TrimOneIn /\ 0 * TrimOneIn = 0 /\ (k + 1) * TrimOneIn \in Int
        BY <2>1, <2>2, <3>1, TimesMono
      <3> QED
        BY <1>1, <2>2, <3>2
    <2>4. k * 3 <= k * TrimOneIn
      <3>1. 3 * k <= TrimOneIn * k
        BY <2>1, <2>2, <2>3, TimesMono
      <3> QED
        BY <2>1, <2>2, <3>1
    <2>5. k * TrimOneIn \in Int
      BY <2>1, <2>2
    <2> QED
      BY <1>1, <2>2, <2>3, <2>4, <2>5
  <1>4. /\ u \in [1..m -> Int] /\ Len(u) = m
        /\ \A i \in 1..m : k + i \in 1..n /\ u[i] = t[k + i]
    <2>1. u = SubSeq(t, k + 1, n - k)
      BY DEF Trimmed
    <2> HIDE DEF u, t, k, m, n
    <2>2. \A i \in (k + 1)..(n - k) : t[i] \in Int
      BY <1>1, <1>2, <1>3
    <2>3. k + 1 \in Int /\ n - k \in Int
      BY <1>1, <1>3
    <2>4. /\ u \in Seq(Int)
          /\ Len(u) = IF k + 1 <= n - k THEN (n - k) - (k + 1) + 1 ELSE 0
          /\ \A i \in 1..((n - k) - (k + 1) + 1) : u[i] = t[(k + 1) + i - 1]
      BY <2>1, <2>2, <2>3, SubSeqProperties
    <2>5. m = (n - k) - (k + 1) + 1 /\ k + 1 <= n - k
      BY <1>1, <1>3 DEF m
    <2>6. Len(u) = m /\ \A i \in 1..m : u[i] = t[(k + 1) + i - 1]
      BY <2>4, <2>5
    <2>7. \A i \in 1..m : k + i \in 1..n /\ (k + 1) + i - 1 = k + i
      BY <1>1, <1>3
    <2>8. u \in [1..m -> Int]
      BY <2>4, <2>6, LenProperties
    <2> QED
      BY <2>6, <2>7, <2>8
  <1> DEFINE low == t[k + 1]
             high == t[k + m]
  <1> HIDE DEF u, t, k, m, n, low, high
  <1>5. /\ k + 1 \in 1..n /\ k + m \in 1..n /\ low \in Int /\ high \in Int
        /\ \A i \in 1..m : low <= u[i] /\ u[i] <= high
    <2>1. k + 1 \in 1..n /\ k + m \in 1..n
      BY <1>1, <1>3
    <2>2. low \in Int /\ high \in Int
      BY <1>2, <2>1 DEF low, high
    <2>3. ASSUME NEW i \in 1..m
          PROVE  low <= u[i] /\ u[i] <= high
      <3>1. k + i \in 1..n /\ u[i] = t[k + i]
        BY <1>4
      <3>2. k + 1 = k + i \/ k + 1 < k + i
        BY <1>3
      <3>3. k + i = k + m \/ k + i < k + m
        BY <1>3
      <3>4. t[k + 1] \in Int /\ t[k + m] \in Int
        BY <2>2 DEF low, high
      <3>5. t[k + 1] <= t[k + i]
        <4>1. CASE k + 1 = k + i
          <5>1. t[k + 1] = t[k + i]
            BY <4>1, Zenon
          <5> QED
            BY <3>4, <5>1
        <4>2. CASE k + 1 < k + i
          BY <1>2, <2>1, <3>1, <4>2, Zenon
        <4> QED
          BY <3>2, <4>1, <4>2
      <3>6. t[k + i] <= t[k + m]
        <4>1. CASE k + i = k + m
          <5>1. t[k + i] = t[k + m]
            BY <4>1, Zenon
          <5> QED
            BY <3>4, <5>1
        <4>2. CASE k + i < k + m
          BY <1>2, <2>1, <3>1, <4>2, Zenon
        <4> QED
          BY <3>3, <4>1, <4>2
      <3> QED
        BY <3>1, <3>5, <3>6 DEF low, high
    <2> QED
      BY <2>1, <2>2, <2>3
  <1>6. Total(u) \in Int /\ low * m <= Total(u) /\ Total(u) <= high * m
    BY <1>3, <1>4, <1>5, SumBetween
  <1>7. avgDistance(s) = Hundredths(Total(u), m)
    <2>1. FoldSeq(+, 0, u) = Total(u)
      BY FoldIsTotal
    <2>2. u = Trimmed(s)
      BY DEF u
    <2> QED
      BY <1>4, <2>1, <2>2 DEF avgDistance
  <1>8. /\ avgDistance(s) \in Int /\ Hundredths(low, 1) <= avgDistance(s)
        /\ avgDistance(s) <= Hundredths(high, 1)
    BY <1>3, <1>5, <1>6, <1>7, HundredthsBetween
  <1>9. PICK i \in 1..n : low = s[i]
    BY <1>2, <1>5 DEF low
  <1>10. PICK j \in 1..n : high = s[j]
    BY <1>2, <1>5 DEF high
  <1> QED
    BY <1>8, <1>9, <1>10 DEF n

\* Of three elements, there are at most three.
LEMMA ThreeAre ==
  ASSUME NEW x, NEW y, NEW z
  PROVE  /\ IsFiniteSet({x, y, z}) /\ Cardinality({x, y, z}) <= 3
         /\ x # y /\ x # z /\ y # z => Cardinality({x, y, z}) = 3
  <1>1. IsFiniteSet({x}) /\ Cardinality({x}) = 1
    BY FS_Singleton
  <1>2. IsFiniteSet({x} \cup {y}) /\ Cardinality({x} \cup {y}) = IF y \in {x} THEN 1 ELSE 2
    BY <1>1, FS_AddElement
  <1>3. /\ IsFiniteSet(({x} \cup {y}) \cup {z})
        /\ Cardinality(({x} \cup {y}) \cup {z}) =
             IF z \in {x} \cup {y} THEN Cardinality({x} \cup {y}) ELSE Cardinality({x} \cup {y}) + 1
    BY <1>2, FS_AddElement
  <1>4. ({x} \cup {y}) \cup {z} = {x, y, z}
    OBVIOUS
  <1> QED
    BY <1>2, <1>3, <1>4

\* x, y and z are heard, and closer than all others of S.
AreClosest(S, v, x, y, z) ==
  /\ S \in SUBSET Int /\ IsFiniteSet(S) /\ v \in [S -> Int]
  /\ x \in S /\ y \in S /\ z \in S /\ x # y /\ x # z /\ y # z
  /\ v[x] >= 0 /\ v[y] >= 0 /\ v[z] >= 0
  /\ \A b \in S \ {x, y, z} : v[x] < v[b] /\ v[y] < v[b] /\ v[z] < v[b]

\* The three closest are the three that are closer than all others.
LEMMA ThreeClosest ==
  ASSUME NEW S, NEW v, NEW x, NEW y, NEW z, AreClosest(S, v, x, y, z)
  PROVE  {getThreeClosestUWBs(v)[i] : i \in 1..3} = {x, y, z}
  <1> USE DEF AreClosest
  <1> DEFINE V == {b \in DOMAIN v : v[b] >= 0}
             nearer(a, b) == v[a] < v[b] \/ (v[a] = v[b] /\ a < b)
             N(b) == {a \in V : nearer(a, b)}
             before(b) == Cardinality({a \in V : nearer(a, b)})
             H == {x, y, z}
             t == getThreeClosestUWBs(v)
  <1>1. DOMAIN v = S /\ H \subseteq V /\ V \subseteq S /\ IsFiniteSet(V)
        /\ Cardinality(V) \in Nat /\ 3 <= Cardinality(V)
    <2>1. DOMAIN v = S /\ H \subseteq V /\ V \subseteq S
      OBVIOUS
    <2> HIDE DEF V, H
    <2>2. IsFiniteSet(V) /\ Cardinality(V) \in Nat
      BY <2>1, FS_Subset, FS_CardinalityType
    <2>3. Cardinality(H) = 3
      BY ThreeAre DEF H
    <2>4. Cardinality(H) <= Cardinality(V)
      BY <2>1, <2>2, FS_Subset
    <2> QED
      BY <2>1, <2>2, <2>3, <2>4
  <1>2. t = [i \in 1..3 |-> CHOOSE b \in V : before(b) = i - 1]
    <2>1. t = [i \in 1..(IF Cardinality(V) < 3 THEN Cardinality(V) ELSE 3) |->
                 CHOOSE b \in V : before(b) = i - 1]
      BY Zenon DEF getThreeClosestUWBs
    <2>2. ~(Cardinality(V) < 3)
      BY <1>1
    <2> HIDE DEF V, before, t
    <2> QED
      BY <2>1, <2>2
  <1>3. ASSUME NEW a \in V
        PROVE  a \in Int /\ v[a] \in Int
    BY <1>1
  <1>4. ASSUME NEW b \in V
        PROVE  IsFiniteSet(N(b)) /\ Cardinality(N(b)) \in Nat /\ b \notin N(b)
    <2>1. N(b) \subseteq V
      OBVIOUS
    <2>2. b \notin N(b)
      BY <1>3
    <2> HIDE DEF V, N
    <2> QED
      BY <1>1, <2>1, <2>2, FS_Subset, FS_CardinalityType
  <1>5. ASSUME NEW a \in V, NEW b \in V, nearer(a, b)
        PROVE  Cardinality(N(a)) < Cardinality(N(b))
    <2>1. N(a) \cup {a} \subseteq N(b)
      <3>1. ASSUME NEW c \in V, nearer(c, a)
            PROVE  nearer(c, b)
        <4>1. /\ a \in Int /\ b \in Int /\ c \in Int
              /\ v[a] \in Int /\ v[b] \in Int /\ v[c] \in Int
          BY <1>3
        <4> HIDE DEF V
        <4> QED
          BY <1>5, <3>1, <4>1
      <3> HIDE DEF V
      <3> QED
        BY <1>5, <3>1
    <2> HIDE DEF V, N, nearer
    <2>2. Cardinality(N(a) \cup {a}) = Cardinality(N(a)) + 1
      BY <1>4, FS_AddElement
    <2>3. Cardinality(N(a) \cup {a}) <= Cardinality(N(b))
      BY <1>4, <2>1, FS_Subset
    <2>4. Cardinality(N(a)) \in Nat /\ Cardinality(N(b)) \in Nat
      BY <1>4
    <2> QED
      BY <2>2, <2>3, <2>4
  <1>6. ASSUME NEW a \in V, NEW b \in V, a # b
        PROVE  Cardinality(N(a)) # Cardinality(N(b))
    <2>1. nearer(a, b) \/ nearer(b, a)
      <3>1. a \in Int /\ b \in Int /\ v[a] \in Int /\ v[b] \in Int
        BY <1>3
      <3> HIDE DEF V
      <3> QED
        BY <1>6, <3>1
    <2> HIDE DEF V, N, nearer
    <2>2. Cardinality(N(a)) < Cardinality(N(b)) \/ Cardinality(N(b)) < Cardinality(N(a))
      BY <1>5, <2>1
    <2>3. Cardinality(N(a)) \in Nat /\ Cardinality(N(b)) \in Nat
      BY <1>4
    <2> QED
      BY <2>2, <2>3
  <1>7. ASSUME NEW b \in H
        PROVE  Cardinality(N(b)) \in 0..2
    <2>1. b \in V
      BY <1>1
    <2>2. N(b) \subseteq H
      <3>1. ASSUME NEW c \in V, c \notin H
            PROVE  ~nearer(c, b)
        <4>1. c \in S \ {x, y, z}
          BY <1>1, <3>1
        <4>2. v[b] < v[c]
          BY <4>1
        <4>3. v[b] \in Int /\ v[c] \in Int
          BY <1>3, <2>1
        <4> HIDE DEF V, H
        <4> QED
          BY <4>2, <4>3
      <3> HIDE DEF V, H, nearer
      <3> QED
        BY <3>1
    <2> HIDE DEF V, N
    <2>3. b \notin N(b) /\ Cardinality(N(b)) \in Nat /\ IsFiniteSet(N(b))
      BY <1>4, <2>1
    <2>4. Cardinality(N(b) \cup {b}) = Cardinality(N(b)) + 1
      BY <2>3, FS_AddElement
    <2>5. IsFiniteSet(H) /\ Cardinality(H) <= 3 /\ Cardinality(H) \in Nat
      BY ThreeAre, FS_CardinalityType
    <2> HIDE DEF H
    <2>6. Cardinality(N(b) \cup {b}) <= Cardinality(H)
      BY <2>2, <2>5, FS_Subset
    <2> QED
      BY <2>3, <2>4, <2>5, <2>6
  <1>8. \A b : before(b) = Cardinality(N(b))
    OBVIOUS
  <1>9. ASSUME NEW b \in H
        PROVE  /\ before(b) + 1 \in 1..3
               /\ \A i \in 1..3 : i = before(b) + 1 => t[i] = b
    <2>1. before(b) \in 0..2
      BY <1>7, <1>8, Zenon
    <2>2. b \in V
      BY <1>1
    <2>3. \A a \in V : a # b => before(a) # before(b)
      BY <1>6, <1>8, <2>2, Zenon
    <2> HIDE DEF V, before, t
    <2>4. ASSUME NEW i \in 1..3, i = before(b) + 1
          PROVE  t[i] = b
      <3>1. before(b) = i - 1
        BY <2>1, <2>4
      <3>2. \A a \in V : before(a) = i - 1 => a = b
        BY <2>3, <3>1
      <3>3. (CHOOSE a \in V : before(a) = i - 1) = b
        BY <2>2, <3>1, <3>2
      <3> QED
        BY <1>2, <3>3
    <2> QED
      BY <2>1, <2>4
  <1>10. before(x) # before(y) /\ before(x) # before(z) /\ before(y) # before(z)
    <2>1. x \in V /\ y \in V /\ z \in V
      BY <1>1
    <2> QED
      BY <1>6, <1>8, <2>1, Zenon
  <1>11. before(x) \in 0..2 /\ before(y) \in 0..2 /\ before(z) \in 0..2
    <2>1. x \in H /\ y \in H /\ z \in H
      OBVIOUS
    <2> HIDE DEF H
    <2> QED
      BY <1>7, <1>8, <2>1, Zenon
  <1>12. \A i \in 1..3 : i = before(x) + 1 \/ i = before(y) + 1 \/ i = before(z) + 1
    <2> HIDE DEF before
    <2> QED
      BY <1>10, <1>11
  <1> HIDE DEF before, t, V, N
  <1>13. ASSUME NEW i \in 1..3
         PROVE  t[i] \in H
    BY <1>9, <1>12
  <1>14. ASSUME NEW b \in H
         PROVE  \E i \in 1..3 : t[i] = b
    BY <1>9
  <1> HIDE DEF H
  <1>15. {t[i] : i \in 1..3} = H
    BY <1>13, <1>14
  <1> QED
    BY <1>15 DEF t, H

\* A distance in the datagram is less than a metre off.
LEMMA CutIs ==
  ASSUME NEW cm \in Int, NEW lost
  PROVE  CutDigits(cm, lost) \in Int /\ CutDigits(cm, lost) - cm \in -99..99
  <1> DEFINE size == IF cm < 0 THEN -cm ELSE cm
             kept == CASE lost = 0 -> size
                       [] lost = 1 -> size - (size % 10)
                       [] OTHER -> size - (size % 100)
  <1>1. size \in Nat /\ size % 10 \in 0..9 /\ size % 100 \in 0..99
    BY Z3
  <1>2. CutDigits(cm, lost) = IF cm < 0 THEN -kept ELSE kept
    BY DEF CutDigits
  <1> HIDE DEF size
  <1>3. kept \in Int /\ size - kept \in 0..99
    <2>1. CASE lost = 0
      BY <1>1, <2>1
    <2>2. CASE lost = 1
      BY <1>1, <2>2
    <2>3. CASE lost # 0 /\ lost # 1
      <3>1. kept = size - (size % 100)
        BY <2>3
      <3> HIDE DEF kept
      <3> QED
        BY <1>1, <3>1
    <2> QED
      BY <2>1, <2>2, <2>3
  <1>4. size = IF cm < 0 THEN -cm ELSE cm
    BY DEF size
  <1> HIDE DEF kept
  <1> QED
    BY <1>2, <1>3, <1>4

-----------------------------------------------------------------------------
(* The server's position *)

\* What a reading of a beacon can come to, in half ticks.
ReadingsOf(n, m) ==
  { 2 * Distance(n, m) + a + b : a \in cast.noise[n], b \in cast.noise[m] }

HeardEntry(n, b) ==
  /\ b.id \in Responders /\ b.readings # <<>>
  /\ \A j \in 1..Len(b.readings) : b.readings[j] \in ReadingsOf(n, b.id)

\* What the tag keeps are readings of beacons that answered it.
HeardTable ==
  \A n \in Initiators : \A i \in 1..Len(round.table) : HeardEntry(n, round.table[i])

\* One reading more keeps it so.
LEMMA RecordedHeard ==
  ASSUME NEW I, NEW D, NEW table \in Seq(Entries(I, D)), SoundTable(table), NEW n,
         \A i \in 1..Len(table) : HeardEntry(n, table[i]),
         NEW id \in Responders, NEW distance \in ReadingsOf(n, id)
  PROVE  LET t == Recorded(table, id, distance)
         IN  \A i \in 1..Len(t) : HeardEntry(n, t[i])
  <1> DEFINE found == FindOrAdd(table, id)
             at == Entry(found, id)
             J == I \cup {id}
             old == found[at].readings
             new == [id |-> id, readings |-> Append(old, distance)]
             added == [found EXCEPT ![at] = new]
             fresh == [id |-> id, readings |-> <<>>]
  <1>1. /\ found \in Seq(Entries(J, D))
        /\ SoundTable(found)
        /\ at \in 1..Len(found)
        /\ found[at].id = id
    BY FindOrAddSound
  <1>2. Recorded(table, id, distance) = IF Len(old) < MAX_READINGS THEN added ELSE found
    BY DEF Recorded
  <1>3. /\ \A i \in 1..Len(found) : i # at => HeardEntry(n, found[i])
        /\ HeardEntry(n, found[at]) \/ found[at] = fresh
    <2>1. CASE Entry(table, id) # 0
      <3>1. found = table
        BY <2>1 DEF FindOrAdd
      <3> HIDE DEF found, at, fresh
      <3> QED
        BY <1>1, <3>1
    <2>2. CASE Entry(table, id) = 0
      <3>1. found = Append(table, fresh)
        BY <2>2 DEF FindOrAdd
      <3>2. table \in Seq(Entries(J, D)) /\ fresh \in Entries(J, D)
        BY TablesGrow, EmptySeq DEF Entries
      <3>3. /\ Len(found) = Len(table) + 1
            /\ \A i \in 1..Len(table) : found[i] = table[i]
            /\ found[Len(table) + 1] = fresh
        BY <3>1, <3>2, AppendProperties
      <3>4. Len(table) \in Nat
        BY LenProperties
      <3>5. fresh.id = id
        OBVIOUS
      <3> HIDE DEF found, at, fresh
      <3>6. at = Len(table) + 1
        <4>1. DOMAIN found = 1..Len(found)
          BY <1>1, LenProperties
        <4>2. Len(table) + 1 \in DOMAIN found /\ at \in DOMAIN found
          BY <1>1, <3>3, <3>4, <4>1
        <4> QED
          BY <1>1, <3>3, <3>5, <4>2 DEF SoundTable
      <3>7. \A i \in 1..Len(found) : i # at => i \in 1..Len(table)
        BY <3>3, <3>4, <3>6
      <3> QED
        BY <3>3, <3>6, <3>7
    <2> QED
      BY <2>1, <2>2
  <1>4. found[at] \in Entries(J, D) /\ old \in Seq(D) /\ Len(old) \in Nat
    <2>1. found[at] \in Entries(J, D)
      BY <1>1, ElementOfSeq
    <2>2. old \in Seq(D)
      BY <2>1 DEF Entries
    <2> QED
      BY <2>1, <2>2, LenProperties
  <1> HIDE DEF found, at
  <1>5. CASE Len(old) < MAX_READINGS
    <2>1. \A j \in 1..Len(old) : old[j] \in ReadingsOf(n, id)
      <3>1. CASE HeardEntry(n, found[at])
        BY <1>1, <3>1 DEF HeardEntry
      <3>2. CASE found[at] = fresh
        <4>1. old = <<>> /\ Len(old) = 0
          BY <3>2, EmptySeq
        <4> QED
          BY <4>1
      <3> QED
        BY <1>3, <3>1, <3>2
    <2> DEFINE E == D \cup {distance}
    <2>2. old \in Seq(E) /\ distance \in E
      BY <1>4, SeqMonotonic
    <2> HIDE DEF E
    <2>3. /\ Append(old, distance) # <<>>
          /\ Len(Append(old, distance)) = Len(old) + 1
          /\ \A j \in 1..Len(old) : Append(old, distance)[j] = old[j]
          /\ Append(old, distance)[Len(old) + 1] = distance
      BY <2>2, AppendProperties
    <2>4. \A j \in 1..Len(Append(old, distance)) : Append(old, distance)[j] \in ReadingsOf(n, id)
      <3> HIDE DEF old
      <3>1. \A j \in 1..Len(Append(old, distance)) : j \in 1..Len(old) \/ j = Len(old) + 1
        BY <1>4, <2>3
      <3> QED
        BY <2>1, <2>3, <3>1
    <2>5. new.id = id /\ new.readings = Append(old, distance)
      OBVIOUS
    <2> HIDE DEF old, new
    <2>6. HeardEntry(n, new)
      BY <2>3, <2>4, <2>5 DEF HeardEntry
    <2>7. DOMAIN found = 1..Len(found) /\ Len(found) \in Nat
      BY <1>1, LenProperties
    <2>8. \A i \in 1..Len(found) : added[i] = IF i = at THEN new ELSE found[i]
      BY <1>1, <2>7
    <2>9. Len(added) = Len(found)
      <3>1. DOMAIN added = 1..Len(found)
        BY <2>7
      <3> HIDE DEF added
      <3> QED
        BY <2>7, <3>1
    <2> HIDE DEF added
    <2> QED
      BY <1>2, <1>3, <1>5, <2>6, <2>8, <2>9 DEF old
  <1>6. CASE ~(Len(old) < MAX_READINGS)
    <2>1. MAX_READINGS \in Nat \ {0}
      BY RangingAssumption DEF RangingAssumption
    <2>2. found[at] # fresh
      <3>1. ASSUME found[at] = fresh
            PROVE  FALSE
        <4>1. Len(old) = 0
          BY <3>1, EmptySeq
        <4> QED
          BY <1>6, <2>1, <4>1
      <3> QED
        BY <3>1
    <2> HIDE DEF old, fresh
    <2>3. \A i \in 1..Len(found) : HeardEntry(n, found[i])
      BY <1>3, <2>2
    <2> QED
      BY <1>2, <1>6, <2>3 DEF old
  <1> QED
    BY <1>5, <1>6

\* What UWB_take writes into the table.
LEMMA TakesHeard ==
  ASSUME NodeInv, HeardInv, NEW n \in Nodes, UWB_take(n)
  PROVE  /\ n \in Initiators /\ cast' = cast /\ server' = server
         /\ \/ round' = round
            \/ \E id \in Responders : \E v \in ReadingsOf(n, id) :
                 round' = [round EXCEPT !.table = Recorded(@, id, v)]
  <1> DEFINE frame == r[n].reg.frame
             last == Reading(n, Stamps(r[n]), frame)
  <1>1. dwt_readrxdata(r[n]) = frame
    BY NodeIs, ReadsIs
  <1>2. /\ Prog(n) = "tag" /\ pc[n] = "await" /\ cast' = cast /\ server' = server
        /\ \/ round' = round
           \/ /\ Happened(n, {"RXFCG"}) /\ Expected(n, frame, "resp")
              /\ round' = [round EXCEPT !.table = Recorded(@, frame.from, last.twice)]
    BY <1>1, Zenon DEF UWB_take, At
  <1>3. n \in Initiators
    BY <1>2 DEF Initiators
  <1>4. ASSUME Happened(n, {"RXFCG"}), Expected(n, frame, "resp")
        PROVE  frame.from \in Responders /\ last.twice \in ReadingsOf(n, frame.from)
    <2>1. HeardOK(n)
      BY <1>2, <1>3, <1>4 DEF HeardInv, Happened
    <2>2. frame # Foreign
      BY <1>4, ExpectedIs
    <2>3. frame.from \in Responders /\ Paired(n, frame.from, Stamps(r[n]), frame.stamps)
      BY <2>1, <2>2 DEF HeardOK
    <2> DEFINE m == frame.from
    <2>4. last.twice = TwiceFlight(Stamps(r[n])[1], Stamps(r[n])[2], frame.stamps[1], frame.stamps[2])
      BY DEF Reading, resp_msg_get_ts
    <2> HIDE DEF frame, last, m
    <2>5. PICK a \in cast.noise[m], b \in cast.noise[n] : last.twice = 2 * Distance(n, m) + a + b
      BY <2>3, <2>4 DEF Paired, m
    <2>6. a \in Int /\ b \in Int /\ Distance(n, m) \in Int
      <3>1. m \in Nodes
        BY <2>3 DEF Responders, m
      <3> QED
        BY <3>1, CastIs
    <2>7. last.twice = 2 * Distance(n, m) + b + a
      BY <2>5, <2>6
    <2> QED
      BY <2>3, <2>7 DEF ReadingsOf, m
  <1> HIDE DEF last, frame
  <1> QED
    BY <1>2, <1>3, <1>4

\* What is heard is a matter of the cast alone.
LEMMA ReadingsStay ==
  ASSUME cast' = cast
  PROVE  /\ Initiators' = Initiators /\ Responders' = Responders /\ Devices' = Devices
         /\ \A n, m : ReadingsOf(n, m)' = ReadingsOf(n, m)
         /\ \A n, m : Measured(n, m)' = Measured(n, m)
  <1>1. Initiators' = Initiators /\ Responders' = Responders
    BY SameCast
  <1>2. Devices' = Devices
    BY <1>1 DEF Devices
  <1>3. \A n, m : ReadingsOf(n, m)' = ReadingsOf(n, m)
    BY DEF ReadingsOf, Distance
  <1>4. \A n, m : Measured(n, m)' = Measured(n, m)
    BY DEF Measured, Distance
  <1> QED
    BY <1>1, <1>2, <1>3, <1>4

\* HeardTable is an invariant.
LEMMA InitHeard == Init => HeardTable
  <1> SUFFICES ASSUME Init
               PROVE  HeardTable
    OBVIOUS
  <1>1. round.table = <<>>
    BY DEF Init
  <1>2. Len(round.table) = 0
    BY <1>1, EmptySeq
  <1> QED
    BY <1>2 DEF HeardTable

\* A step enters only what a beacon's answer came to.
LEMMA NextHeard ==
  ASSUME IInv, TableInv, HeardTable, [Next]_vars, cast' = cast
  PROVE  HeardTable'
  <1>1. NodeInv /\ HeardInv
    BY DEF IInv
  <1>2. ASSUME NEW t, round'.table = t,
               \A n \in Initiators : \A i \in 1..Len(t) : HeardEntry(n, t[i])
        PROVE  HeardTable'
    <2>1. \A n \in Initiators : \A i \in 1..Len(t) :
            /\ t[i].id \in Responders' /\ t[i].readings # <<>>
            /\ \A j \in 1..Len(t[i].readings) : t[i].readings[j] \in ReadingsOf(n, t[i].id)'
      BY <1>2, ReadingsStay, ZenonT(60) DEF HeardEntry
    <2>2. Initiators' = Initiators
      BY ReadingsStay
    <2> QED
      BY <1>2, <2>1, <2>2, Zenon DEF HeardTable, HeardEntry
  <1>3. CASE round'.table = round.table
    BY <1>2, <1>3, Zenon DEF HeardTable
  <1>4. round = [samples |-> round.samples, table |-> round.table]
    BY DEF TableInv
  <1>5. ASSUME NEW n \in Nodes, UWB_take(n)
        PROVE  HeardTable'
    <2>1. CASE round' = round
      BY <1>3, <2>1
    <2>2. ASSUME NEW id \in Responders, NEW v \in ReadingsOf(n, id),
                 round' = [round EXCEPT !.table = Recorded(@, id, v)]
          PROVE  HeardTable'
      <3>1. n \in Initiators
        BY <1>1, <1>5, TakesHeard
      <3>2. PICK I, D : round.table \in Seq(Entries(I, D))
        BY DEF TableInv
      <3> DEFINE t == Recorded(round.table, id, v)
      <3>3. \A i \in 1..Len(round.table) : HeardEntry(n, round.table[i])
        BY <3>1 DEF HeardTable
      <3>4. \A i \in 1..Len(t) : HeardEntry(n, t[i])
        BY <2>2, <3>2, <3>3, RecordedHeard DEF TableInv
      <3>5. round'.table = t
        BY <1>4, <2>2
      <3>6. \A k \in Initiators : k = n
        BY <1>1, <3>1, PartnersAre
      <3> HIDE DEF t
      <3>7. \A k \in Initiators : \A i \in 1..Len(t) : HeardEntry(k, t[i])
        BY <3>4, <3>6
      <3> QED
        BY <1>2, <3>5, <3>7
    <2> QED
      BY <1>1, <1>5, <2>1, <2>2, TakesHeard
  <1>6. ASSUME NEW n \in Nodes, UWB_pause(n)
        PROVE  HeardTable'
    BY <1>3, <1>4, <1>6 DEF UWB_pause
  <1>7. ASSUME NEW n \in Nodes, UWB_report(n)
        PROVE  HeardTable'
    <2>1. round'.table = <<>>
      BY <1>4, <1>7 DEF UWB_report
    <2>2. Len(<<>>) = 0
      BY EmptySeq
    <2>3. PICK t : t = <<>>
      OBVIOUS
    <2>4. \A n_1 \in Initiators : \A i \in 1..Len(t) : HeardEntry(n_1, t[i])
      BY <2>2, <2>3
    <2> QED
      BY <1>2, <2>1, <2>3, <2>4
  <1>8. ASSUME NEW n \in Nodes, ChipSends(n) \/ TimesOut(n) \/ ForeignFrame(n)
        PROVE  HeardTable'
    BY <1>3, <1>8, Zenon DEF ChipSends, TimesOut, ForeignFrame
  <1>9. ASSUME NEW n \in Nodes, Program(n)
        PROVE  HeardTable'
    BY <1>3, <1>5, <1>6, <1>7, <1>9, OthersLeaveIt
  <1>10. CASE UNCHANGED vars
    BY <1>3, <1>10 DEF vars
  <1> QED
    BY <1>8, <1>9, <1>10, Zenon DEF Next

\* What FixIsSound says of a datagram.
FixOK(fix, signals) ==
  /\ Cardinality({fix[i].id : i \in 1..3}) = 3
  /\ \E n \in Initiators : \A i \in 1..3 :
       /\ fix[i].id \in Responders
       /\ \E low, high \in Measured(n, fix[i].id) : low <= fix[i].meant /\ fix[i].meant <= high
  /\ (\A i \in 1..3 : Digits(fix[i].meant) <= 5) =>
       /\ \A i \in 1..3 : fix[i].told - fix[i].meant \in IF i = 3 THEN -99..99 ELSE {0}
       /\ \/ \E i \in 1..3 : fix[i].told < 0
          \/ {getThreeClosestUWBs(signals)[i] : i \in 1..3} = {fix[i].id : i \in 1..3}

\* FixIsSound is FixOK of the server's datagram.
LEMMA FixIs == FixIsSound <=> (server.fix # NoFix => FixOK(server.fix, server.signals))
  BY Zenon DEF FixIsSound, FixOK

\* What the datagram tells of a beacon.
LEMMA MessageIs ==
  ASSUME NodeInv, NEW n \in Initiators, NEW I, NEW D, NEW table \in Seq(Entries(I, D)),
         \A i \in 1..Len(table) : HeardEntry(n, table[i]), 3 <= Len(table),
         NEW i \in 1..3
  PROVE  LET fix == UDP_message(table)
         IN  /\ fix[i].id = table[i].id /\ fix[i].id \in Responders
             /\ fix[i].meant \in Int /\ fix[i].told \in Int
             /\ \E low, high \in Measured(n, fix[i].id) : low <= fix[i].meant /\ fix[i].meant <= high
             /\ fix[i].told - fix[i].meant \in IF i = 3 THEN -99..99 ELSE {0}
  <1> DEFINE fix == UDP_message(table)
             s == table[i].readings
             m == table[i].id
             lost == CharactersLost([j \in 1..3 |-> avgDistance(table[j].readings)])
  <1>1. /\ fix[i].id = m /\ fix[i].meant = avgDistance(s)
        /\ fix[i].told = IF i = 3 THEN CutDigits(avgDistance(s), lost) ELSE avgDistance(s)
    BY DEF UDP_message
  <1>2. HeardEntry(n, table[i]) /\ table[i] \in Entries(I, D)
    <2>1. i \in 1..Len(table)
      <3>1. Len(table) \in Nat
        BY LenProperties
      <3> QED
        BY <3>1
    <2> QED
      BY <2>1, ElementOfSeq
  <1>3. m \in Responders /\ s # <<>> /\ \A j \in 1..Len(s) : s[j] \in ReadingsOf(n, m)
    BY <1>2 DEF HeardEntry
  <1>4. n \in Nodes /\ m \in Nodes
    BY <1>3 DEF Initiators, Responders
  <1>5. s \in Seq(Int)
    <2>1. s \in Seq(D)
      BY <1>2 DEF Entries
    <2> HIDE DEF s, m
    <2>2. ReadingsOf(n, m) \subseteq Int
      <3>1. Distance(n, m) \in Int /\ cast.noise[n] \subseteq Int /\ cast.noise[m] \subseteq Int
        BY <1>4, CastIs
      <3> QED
        BY <3>1 DEF ReadingsOf
    <2>3. \A j \in 1..Len(s) : s[j] \in Int
      BY <1>3, <2>2
    <2>4. s = [j \in 1..Len(s) |-> s[j]] /\ Len(s) \in Nat
      BY <2>1, LenProperties
    <2>5. s \in [1..Len(s) -> Int]
      BY <2>3, <2>4
    <2> QED
      BY <2>4, <2>5, SeqDef
  <1> HIDE DEF s, m, lost, fix
  <1>6. PICK a \in 1..Len(s), b \in 1..Len(s) :
          /\ avgDistance(s) \in Int
          /\ Hundredths(s[a], 1) <= avgDistance(s) /\ avgDistance(s) <= Hundredths(s[b], 1)
    BY <1>3, <1>5, AverageIs
  <1>7. \A v \in ReadingsOf(n, m) : Hundredths(v, 1) \in Measured(n, m)
    <2>1. ASSUME NEW v \in ReadingsOf(n, m)
          PROVE  Hundredths(v, 1) \in Measured(n, m)
      <3>1. PICK x \in cast.noise[n], y \in cast.noise[m] : v = 2 * Distance(n, m) + x + y
        BY DEF ReadingsOf
      <3>2. Hundredths(2 * Distance(n, m) + x + y, 1) \in Measured(n, m)
        BY DEF Measured
      <3> QED
        BY <3>1, <3>2
    <2> QED
      BY <2>1
  <1>8. Hundredths(s[a], 1) \in Measured(n, m) /\ Hundredths(s[b], 1) \in Measured(n, m)
    BY <1>3, <1>7
  <1>9. fix[i].told \in Int
        /\ fix[i].told - fix[i].meant \in IF i = 3 THEN -99..99 ELSE {0}
    <2>1. CASE i = 3
      <3>1. fix[i].told = CutDigits(avgDistance(s), lost)
        BY <1>1, <2>1
      <3> QED
        BY <1>1, <1>6, <2>1, <3>1, CutIs
    <2>2. CASE i # 3
      BY <1>1, <1>6, <2>2
    <2> QED
      BY <2>1, <2>2
  <1>10. \E low, high \in Measured(n, m) : low <= fix[i].meant /\ fix[i].meant <= high
    BY <1>1, <1>6, <1>8
  <1> QED
    BY <1>1, <1>3, <1>6, <1>9, <1>10 DEF fix, m

\* A distance of at most five characters is less than the server's default.
LEMMA DigitsAre ==
  ASSUME NEW cm \in Int, Digits(cm) <= 5
  PROVE  cm < 10000
  <1>1. CASE cm < 0
    BY <1>1
  <1>2. CASE ~(cm < 0)
    <2>1. ~(cm < 10000) => Digits(cm) = 6
      BY <1>2 DEF Digits
    <2> QED
      BY <2>1
  <1> QED
    BY <1>1, <1>2

\* The devices of the server are numbered, and finitely many.
LEMMA DevicesAre == Devices \in SUBSET Int /\ IsFiniteSet(Devices)
  <1>1. Nodes \subseteq Nat /\ IsFiniteSet(Nodes)
    BY RangingAssumption DEF RangingAssumption
  <1>2. Responders \in SUBSET Nodes
    BY DEF Responders
  <1>3. Cardinality(Nodes) \in Nat /\ IsFiniteSet(Responders)
    BY <1>1, <1>2, FS_CardinalityType, FS_Subset
  <1>4. IsFiniteSet(Responders \cup {1 + Cardinality(Nodes)})
    BY <1>3, FS_AddElement
  <1>5. Devices \in SUBSET Int
    <2>1. 1 + Cardinality(Nodes) \in Int
      BY <1>3
    <2>2. Responders \subseteq Int
      BY <1>1, <1>2
    <2> QED
      BY <2>1, <2>2 DEF Devices
  <1> QED
    BY <1>4, <1>5 DEF Devices

\* The server's signals after a datagram of three beacons.
LEMMA SignalsAre ==
  ASSUME NEW signals, DOMAIN signals = Devices, NEW data, DOMAIN data = 1..3,
         \A i \in 1..3 : data[i].id \in Devices /\ data[i].told \in Int,
         \A i, j \in 1..3 : data[i].id = data[j].id => i = j
  PROVE  LET v == updateSignals(signals, data)
         IN  /\ v \in [Devices -> Int]
             /\ \A i \in 1..3 : v[data[i].id] = data[i].told
             /\ \A b \in Devices : (\A i \in 1..3 : data[i].id # b) => Default <= v[b]
  <1> DEFINE v == updateSignals(signals, data)
  <1>1. v = [b \in Devices |->
               IF \E i \in 1..3 : data[i].id = b
               THEN data[CHOOSE i \in 1..3 : data[i].id = b].told
               ELSE IF signals[b] = Unheard THEN Unheard ELSE Default]
    BY DEF updateSignals
  <1> HIDE DEF v
  <1>2. ASSUME NEW i \in 1..3
        PROVE  v[data[i].id] = data[i].told
    <2> DEFINE b == data[i].id
    <2>1. (CHOOSE j \in 1..3 : data[j].id = b) = i
      OBVIOUS
    <2>2. b \in Devices /\ data[i].id = b
      OBVIOUS
    <2> HIDE DEF b
    <2>3. v[b] = data[CHOOSE j \in 1..3 : data[j].id = b].told
      BY <1>1, <2>2
    <2> QED
      BY <2>1, <2>3 DEF b
  <1>3. ASSUME NEW b \in Devices, \A i \in 1..3 : data[i].id # b
        PROVE  v[b] \in Int /\ Default <= v[b]
    <2>1. v[b] = IF signals[b] = Unheard THEN Unheard ELSE Default
      BY <1>1, <1>3
    <2> QED
      BY <2>1 DEF Unheard, Default
  <1>4. v \in [Devices -> Int]
    <2>1. ASSUME NEW b \in Devices
          PROVE  v[b] \in Int
      <3>1. CASE \E i \in 1..3 : data[i].id = b
        BY <1>2, <3>1
      <3>2. CASE \A i \in 1..3 : data[i].id # b
        BY <1>3, <3>2
      <3> QED
        BY <3>1, <3>2
    <2>2. v = [b \in Devices |-> v[b]]
      BY <1>1
    <2> QED
      BY <2>1, <2>2
  <1> QED
    BY <1>2, <1>3, <1>4 DEF v

\* A datagram of a sound table is as FixIsSound says.
LEMMA DatagramIs ==
  ASSUME NodeInv, NEW n \in Initiators, NEW I, NEW D, NEW table \in Seq(Entries(I, D)),
         SoundTable(table), \A i \in 1..Len(table) : HeardEntry(n, table[i]),
         3 <= Len(table), NEW signals, DOMAIN signals = Devices
  PROVE  FixOK(UDP_message(table), updateSignals(signals, UDP_message(table)))
  <1> DEFINE fix == UDP_message(table)
             v == updateSignals(signals, fix)
             x == fix[1].id
             y == fix[2].id
             z == fix[3].id
  <1>1. ASSUME NEW i \in 1..3
        PROVE  /\ fix[i].id = table[i].id /\ fix[i].id \in Responders
               /\ fix[i].meant \in Int /\ fix[i].told \in Int
               /\ \E low, high \in Measured(n, fix[i].id) :
                    low <= fix[i].meant /\ fix[i].meant <= high
               /\ fix[i].told - fix[i].meant \in IF i = 3 THEN -99..99 ELSE {0}
    <2> HIDE DEF fix
    <2> QED
      BY MessageIs DEF fix
  <1>2. DOMAIN fix = 1..3
    BY DEF UDP_message
  <1> HIDE DEF fix
  <1>3. ASSUME NEW i \in 1..3, NEW j \in 1..3, fix[i].id = fix[j].id
        PROVE  i = j
    <2>1. Len(table) \in Nat /\ DOMAIN table = 1..Len(table)
      BY LenProperties
    <2>2. i \in DOMAIN table /\ j \in DOMAIN table
      BY <2>1
    <2>3. table[i].id = table[j].id
      BY <1>1, <1>3
    <2> QED
      BY <2>2, <2>3 DEF SoundTable
  <1>4. x # y /\ x # z /\ y # z
    BY <1>3
  <1>5. {fix[i].id : i \in 1..3} = {x, y, z}
    BY Z3
  <1>6. Responders \subseteq Devices
    BY DEF Devices
  <1>7. x \in Devices /\ y \in Devices /\ z \in Devices
    BY <1>1, <1>6
  <1>8. /\ v \in [Devices -> Int]
        /\ \A i \in 1..3 : v[fix[i].id] = fix[i].told
        /\ \A b \in Devices : (\A i \in 1..3 : fix[i].id # b) => Default <= v[b]
    <2>1. \A i \in 1..3 : fix[i].id \in Devices /\ fix[i].told \in Int
      BY <1>1, <1>6
    <2>2. \A i, j \in 1..3 : fix[i].id = fix[j].id => i = j
      BY <1>3
    <2> QED
      BY <1>2, <2>1, <2>2, SignalsAre
  <1> HIDE DEF v
  <1>9. ASSUME \A i \in 1..3 : Digits(fix[i].meant) <= 5, \A i \in 1..3 : ~(fix[i].told < 0)
        PROVE  {getThreeClosestUWBs(v)[i] : i \in 1..3} = {x, y, z}
    <2>1. ASSUME NEW i \in 1..3
          PROVE  0 <= v[fix[i].id] /\ v[fix[i].id] < Default
      <3>1. fix[i].meant < 10000 /\ fix[i].meant \in Int /\ fix[i].told \in Int
        BY <1>1, <1>9, DigitsAre
      <3>2. fix[i].told - fix[i].meant \in IF i = 3 THEN -99..99 ELSE {0}
        BY <1>1
      <3>3. PICK told : told = fix[i].told
        OBVIOUS
      <3>4. PICK meant : meant = fix[i].meant
        OBVIOUS
      <3>5. told \in Int /\ meant \in Int /\ meant < 10000
        BY <3>1, <3>3, <3>4
      <3>6. ~(told < 0)
        BY <1>9, <3>3
      <3>7. told - meant \in IF i = 3 THEN -99..99 ELSE {0}
        BY <3>2, <3>3, <3>4, Zenon
      <3>8. 0 <= told /\ told < 99900
        <4>1. CASE i = 3
          <5>1. told - meant \in -99..99
            BY <3>7, <4>1, Zenon
          <5> QED
            BY ONLY <3>5, <3>6, <5>1
        <4>2. CASE i # 3
          <5>1. told - meant \in {0}
            BY <3>7, <4>2, Zenon
          <5>2. told - meant = 0
            BY <5>1
          <5> QED
            BY ONLY <3>5, <3>6, <5>2
        <4> QED
          BY <4>1, <4>2
      <3>9. v[fix[i].id] = told
        BY <1>8, <3>3
      <3>10. 0 <= told /\ told < Default
        BY <3>5, <3>8 DEF Default
      <3> QED
        BY <3>9, <3>10, Zenon
    <2>2. v[x] >= 0 /\ v[y] >= 0 /\ v[z] >= 0 /\ v[x] < Default /\ v[y] < Default /\ v[z] < Default
          /\ v[x] \in Int /\ v[y] \in Int /\ v[z] \in Int
      BY <1>7, <1>8, <2>1
    <2>3. ASSUME NEW b \in Devices \ {x, y, z}
          PROVE  v[x] < v[b] /\ v[y] < v[b] /\ v[z] < v[b]
      <3>1. \A i \in 1..3 : fix[i].id # b
        BY <1>5
      <3>2. Default <= v[b] /\ v[b] \in Int
        BY <1>8, <3>1
      <3> QED
        BY <2>2, <3>2 DEF Default
    <2> HIDE DEF x, y, z
    <2>4. v[x] >= 0 /\ v[y] >= 0 /\ v[z] >= 0
      BY <2>2
    <2>5. \A b \in Devices \ {x, y, z} : v[x] < v[b] /\ v[y] < v[b] /\ v[z] < v[b]
      BY <2>3
    <2>6. v \in [Devices -> Int]
      BY <1>8
    <2>7. Devices \in SUBSET Int /\ IsFiniteSet(Devices)
      BY DevicesAre
    <2> QED
      <3>1. AreClosest(Devices, v, x, y, z)
        BY <1>4, <1>7, <2>4, <2>5, <2>6, <2>7, Zenon DEF AreClosest
      <3> QED
        BY ONLY <3>1, ThreeClosest
  <1>10. Cardinality({fix[i].id : i \in 1..3}) = 3
    <2> HIDE DEF x, y, z
    <2>1. Cardinality({x, y, z}) = 3
      BY <1>4, ThreeAre
    <2> QED
      BY <1>5, <2>1, Zenon
  <1>11. \A i \in 1..3 :
           /\ fix[i].id \in Responders
           /\ \E low, high \in Measured(n, fix[i].id) :
                low <= fix[i].meant /\ fix[i].meant <= high
    BY <1>1
  <1>12. \A i \in 1..3 : fix[i].told - fix[i].meant \in IF i = 3 THEN -99..99 ELSE {0}
    BY <1>1
  <1>13. (\A i \in 1..3 : Digits(fix[i].meant) <= 5) =>
           \/ \E i \in 1..3 : fix[i].told < 0
           \/ {getThreeClosestUWBs(v)[i] : i \in 1..3} = {fix[i].id : i \in 1..3}
    BY <1>5, <1>9
  <1> HIDE DEF x, y, z
  <1>14. FixOK(fix, v)
    BY <1>10, <1>11, <1>12, <1>13, Zenon DEF FixOK
  <1> QED
    BY <1>14 DEF fix, v

\* A fix that is sound stays so: it depends on the cast alone.
LEMMA FixStays ==
  ASSUME cast' = cast, NEW f, NEW s, server'.fix = f, server'.signals = s,
         f = NoFix \/ FixOK(f, s)
  PROVE  FixIsSound'
  <1>1. /\ Initiators' = Initiators /\ Responders' = Responders
        /\ \A n, m : Measured(n, m)' = Measured(n, m)
    BY ReadingsStay
  <1>2. CASE f = NoFix
    BY <1>2 DEF FixIsSound
  <1>3. CASE FixOK(f, s)
    <2>1. Cardinality({f[i].id : i \in 1..3}) = 3
      BY <1>3, Zenon DEF FixOK
    <2>2. PICK n \in Initiators : \A i \in 1..3 :
            /\ f[i].id \in Responders
            /\ \E low, high \in Measured(n, f[i].id) : low <= f[i].meant /\ f[i].meant <= high
      BY <1>3, Zenon DEF FixOK
    <2>3. ASSUME NEW i \in 1..3
          PROVE  /\ f[i].id \in Responders'
                 /\ \E low, high \in Measured(n, f[i].id)' :
                      low <= f[i].meant /\ f[i].meant <= high
      <3>1. Measured(n, f[i].id)' = Measured(n, f[i].id)
        BY <1>1
      <3> QED
        BY <1>1, <2>2, <3>1
    <2>4. (\A i \in 1..3 : Digits(f[i].meant) <= 5) =>
            /\ \A i \in 1..3 : f[i].told - f[i].meant \in IF i = 3 THEN -99..99 ELSE {0}
            /\ \/ \E i \in 1..3 : f[i].told < 0
               \/ {getThreeClosestUWBs(s)[i] : i \in 1..3} = {f[i].id : i \in 1..3}
      BY <1>3, Zenon DEF FixOK
    <2>5. n \in Initiators'
      BY <1>1, <2>2
    <2>6. FixOK(f, s)'
      BY <2>1, <2>3, <2>4, <2>5, Zenon DEF FixOK
    <2> QED
      BY <2>6, Zenon DEF FixIsSound, FixOK
  <1> QED
    BY <1>2, <1>3

\* FixIsSound is an invariant, too.
LEMMA NextFix ==
  ASSUME IInv, TableInv, CountInv, HeardTable, FixIsSound, [Next]_vars, cast' = cast
  PROVE  FixIsSound'
  <1>1. NodeInv
    BY DEF IInv
  <1>2. ASSUME server' = server
        PROVE  FixIsSound'
    <2>1. server.fix = NoFix \/ FixOK(server.fix, server.signals)
      BY FixIs
    <2> QED
      BY <1>2, <2>1, FixStays
  <1>3. ASSUME NEW n \in Nodes, UWB_report(n)
        PROVE  FixIsSound'
    <2> DEFINE fix == UDP_message(round.table)
               v == updateSignals(server.signals, fix)
    <2>1. n \in Initiators
      BY <1>3 DEF UWB_report, At, Initiators
    <2>2. server' = server \/ (~(Len(round.table) < 3) /\ server' = [signals |-> v, fix |-> fix])
      BY <1>3, Zenon DEF UWB_report
    <2>3. CASE ~(Len(round.table) < 3) /\ server' = [signals |-> v, fix |-> fix]
      <3>1. PICK I, D : round.table \in Seq(Entries(I, D))
        BY DEF TableInv
      <3>2. Len(round.table) \in Nat
        BY <3>1, LenProperties
      <3>3. 3 <= Len(round.table)
        BY <2>3, <3>2
      <3>4. \A i \in 1..Len(round.table) : HeardEntry(n, round.table[i])
        BY <2>1 DEF HeardTable
      <3>5. FixOK(fix, v)
        BY <1>1, <2>1, <3>1, <3>3, <3>4, DatagramIs DEF TableInv, CountInv
      <3>6. server'.fix = fix /\ server'.signals = v
        BY <2>3
      <3> HIDE DEF fix, v
      <3> QED
        BY <3>5, <3>6, FixStays
    <2> QED
      BY <1>2, <2>2, <2>3
  <1>4. ASSUME NEW n \in Nodes, UWB_take(n) \/ UWB_pause(n)
        PROVE  server' = server
    BY <1>4, Zenon DEF UWB_take, UWB_pause
  <1>5. ASSUME NEW n \in Nodes, ChipSends(n) \/ TimesOut(n) \/ ForeignFrame(n)
        PROVE  server' = server
    BY <1>5, Zenon DEF ChipSends, TimesOut, ForeignFrame
  <1>6. ASSUME NEW n \in Nodes, Program(n)
        PROVE  FixIsSound'
    BY <1>2, <1>3, <1>4, <1>6, OthersLeaveIt
  <1>7. CASE UNCHANGED vars
    BY <1>2, <1>7 DEF vars
  <1> QED
    BY <1>2, <1>5, <1>6, <1>7, Zenon DEF Next

-----------------------------------------------------------------------------
\* RangingTypeOK.
THEOREM RangingTypes == Spec => []RangingTypeOK
  <1>1. Init => IInv /\ TableInv /\ CountInv
    BY InitInv, InitTable, InitCounts
  <1>2. IInv /\ TableInv /\ CountInv /\ [Next]_vars => (IInv /\ TableInv /\ CountInv)'
    BY NextInv, StepTable, NextCounts
  <1> QED
    BY <1>1, <1>2, TypesFollow, PTL DEF Spec

\* ExchangesAreSound.
THEOREM Exchanges == Spec => []ExchangesAreSound
  BY InitInv, NextInv, SoundnessFollows, PTL DEF Spec

\* FixIsSound: the server's position is computed from three different beacons
\* that answered the tag, each at a distance between two that can have been
\* measured.  Of the third less than a metre is cut off, and the server picks
\* these three unless a distance is negative.
THEOREM Fixes == Spec => []FixIsSound
  <1> DEFINE Inv == IInv /\ TableInv /\ CountInv /\ HeardTable /\ FixIsSound
  <1>1. Init => Inv
    <2>1. Init => FixIsSound
      BY DEF Init, FixIsSound
    <2> QED
      BY <2>1, InitInv, InitTable, InitCounts, InitHeard
  <1>2. Inv /\ [Next]_vars => Inv'
    <2> SUFFICES ASSUME Inv, [Next]_vars
                 PROVE  Inv'
      OBVIOUS
    <2>1. cast' = cast
      BY PlacesStay DEF CountInv
    <2> QED
      BY <2>1, NextInv, StepTable, NextCounts, NextHeard, NextFix
  <1> QED
    BY <1>1, <1>2, PTL DEF Spec
=============================================================================
