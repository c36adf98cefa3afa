-------------------------- MODULE Dw3000HostProofs --------------------------
(***************************************************************************)
(* Proofs about the driver and its host, for any configurations of the two *)
(* channels: frames are read once, whole and in order, a radio on the air  *)
(* is tuned to its configuration, and nothing is sent late.                *)
(*                                                                         *)
(* First what the driver's calls do to the radio, then the invariant, then *)
(* the steps of the application's main thread, of dwt_isr, of the chip and *)
(* of the polling programs.                                                *)
(***************************************************************************)
EXTENDS Dw3000Host, SequenceTheorems, TLAPS

\* p is q but for some fields.
Changes(q, p, fields) ==
  /\ DOMAIN p = DOMAIN q
  /\ \A f \in DOMAIN q : f \notin fields => p[f] = q[f]

\* Changes add up.
LEMMA ChangesAdd ==
  ASSUME NEW q, NEW p, NEW o, NEW S, NEW T, NEW U, Changes(q, p, S), Changes(p, o, T),
         S \cup T \subseteq U
  PROVE  Changes(q, o, U)
  BY Zenon DEF Changes

\* A radio that did not change.
LEMMA ChangesNone ==
  ASSUME NEW q, NEW S
  PROVE  Changes(q, q, S)
  BY Zenon DEF Changes

\* The fields the proofs speak of.
Fields == {"dbl", "mode", "sts", "cb", "err", "power", "ev", "enable", "double", "rearm", "fill",
           "held", "good", "buf", "reg", "ptrB", "txbuf", "late", "txerr", "w4r", "dx", "txtime", "ops",
           "gain", "chan", "code", "spc", "clocks", "rf", "aon", "wake", "atx2slp", "ainit",
           "diag", "delayed", "test", "tuned", "dgcOtp"}

HasFields(q) == Fields \subseteq DOMAIN q

\* Each field by its name.
LEMMA FieldsThere ==
  ASSUME NEW q, HasFields(q)
  PROVE  /\ "dbl" \in DOMAIN q /\ "mode" \in DOMAIN q /\ "sts" \in DOMAIN q /\ "cb" \in DOMAIN q
         /\ "err" \in DOMAIN q /\ "power" \in DOMAIN q /\ "ev" \in DOMAIN q
         /\ "enable" \in DOMAIN q /\ "double" \in DOMAIN q /\ "rearm" \in DOMAIN q
         /\ "fill" \in DOMAIN q /\ "held" \in DOMAIN q /\ "good" \in DOMAIN q
         /\ "buf" \in DOMAIN q /\ "reg" \in DOMAIN q /\ "ptrB" \in DOMAIN q
         /\ "txbuf" \in DOMAIN q /\ "late" \in DOMAIN q /\ "txerr" \in DOMAIN q
         /\ "w4r" \in DOMAIN q
         /\ "dx" \in DOMAIN q /\ "txtime" \in DOMAIN q /\ "ops" \in DOMAIN q
         /\ "gain" \in DOMAIN q /\ "chan" \in DOMAIN q /\ "code" \in DOMAIN q
         /\ "spc" \in DOMAIN q /\ "clocks" \in DOMAIN q /\ "rf" \in DOMAIN q
         /\ "aon" \in DOMAIN q /\ "wake" \in DOMAIN q /\ "atx2slp" \in DOMAIN q
         /\ "ainit" \in DOMAIN q /\ "diag" \in DOMAIN q /\ "delayed" \in DOMAIN q
         /\ "test" \in DOMAIN q /\ "tuned" \in DOMAIN q /\ "dgcOtp" \in DOMAIN q
  BY Zenon DEF HasFields, Fields

\* A radio keeps its fields.
LEMMA ChangesKeep ==
  ASSUME NEW q, NEW p, NEW S, Changes(q, p, S), HasFields(q)
  PROVE  HasFields(p)
  BY Zenon DEF Changes, HasFields

RxEvents == ALL_RX_GOOD \cup ALL_RX_ERR \cup ALL_RX_TO

\* What of a reception is pending.
Seen(q) == q.ev \cap RxEvents

\* The radio is sending or listening.
OnAir(q) == q.power \in {"RX", "TX"}

-----------------------------------------------------------------------------
(***************************************************************************)
(* The driver's calls: which fields of a radio they change, and to what    *)
(***************************************************************************)

\* Events are cleared.
LEMMA ClearIs ==
  ASSUME NEW q, HasFields(q), NEW E
  PROVE  LET p == ClearEvents(q, E)
         IN  Changes(q, p, {"ev"}) /\ p.ev = q.ev \ E
  BY FieldsThere, Zenon DEF ClearEvents, Changes

\* A frame is loaded.
LEMMA LoadIs ==
  ASSUME NEW q, HasFields(q), NEW f
  PROVE  Changes(q, LoadFrame(q, f), {"txbuf", "err"})
  BY FieldsThere, Zenon DEF LoadFrame, Changes

\* CMD_TX, at once.
LEMMA CmdTxIs ==
  ASSUME NEW q, HasFields(q), NEW w4r
  PROVE  LET p == CMD_TX(q, FALSE, "none", w4r)
         IN  /\ Changes(q, p, {"power", "w4r", "late", "txerr", "delayed", "ev"})
             /\ p.power = "TX" /\ p.w4r = w4r /\ p.late = FALSE /\ p.ev = q.ev \ {"HPDWARN"}
  BY FieldsThere, Zenon DEF CMD_TX, Changes

\* The chip says that a delayed time has passed.
Warned(q) == "HPDWARN" \in q.ev \/ q.txerr = TRUE

\* CMD_TX at a time that may have passed.
LEMMA CmdTxDelayedIs ==
  ASSUME NEW q, HasFields(q), NEW late \in Lateness, NEW w4r
  PROVE  LET p == CMD_TX(q, TRUE, late, w4r)
         IN  /\ Changes(q, p, {"power", "w4r", "late", "txerr", "delayed", "ev"})
             /\ p.power = "TX" /\ p.late \in BOOLEAN /\ (p.late => Warned(p))
             /\ p.ev \subseteq q.ev \cup {"HPDWARN"}
  <1>1. LET p == CMD_TX(q, TRUE, "HPDWARN", w4r)
        IN  /\ Changes(q, p, {"power", "w4r", "late", "txerr", "delayed", "ev"})
            /\ p.power = "TX" /\ p.late \in BOOLEAN /\ p.ev = q.ev \cup {"HPDWARN"}
    BY FieldsThere, Zenon DEF CMD_TX, Changes
  <1>2. LET p == CMD_TX(q, TRUE, "TXERR", w4r)
        IN  /\ Changes(q, p, {"power", "w4r", "late", "txerr", "delayed", "ev"})
            /\ p.power = "TX" /\ p.late \in BOOLEAN /\ p.txerr = TRUE
            /\ p.ev = q.ev \ {"HPDWARN"}
    BY FieldsThere, Zenon DEF CMD_TX, Changes
  <1>3. LET p == CMD_TX(q, TRUE, "none", w4r)
        IN  /\ Changes(q, p, {"power", "w4r", "late", "txerr", "delayed", "ev"})
            /\ p.power = "TX" /\ p.late = FALSE /\ p.ev = q.ev \ {"HPDWARN"}
    BY FieldsThere, Zenon DEF CMD_TX, Changes
  <1>4. CASE late = "HPDWARN"
    BY <1>1, <1>4, Zenon DEF Warned
  <1>5. CASE late = "TXERR"
    BY <1>2, <1>5, Zenon DEF Warned
  <1>6. CASE late = "none"
    BY <1>3, <1>6, Zenon
  <1> QED
    BY <1>4, <1>5, <1>6 DEF Lateness

SendChanges == {"txbuf", "err", "power", "w4r", "late", "txerr", "delayed", "ev", "dx"}

\* dwt_starttx.
Starts(q, p, w4r) ==
  /\ Changes(q, p, SendChanges)
  /\ p.power = "TX" /\ p.w4r = w4r /\ p.late = FALSE /\ p.ev = q.ev \ {"HPDWARN"}
  /\ p.err = FALSE

\* What a started transmission changes.
LEMMA StartIs ==
  ASSUME NEW q, HasFields(q), NEW w4r
  PROVE  Starts(q, dwt_starttx(q, w4r), w4r)
  <1> DEFINE a == CMD_TX(q, FALSE, "none", w4r)
             p == [a EXCEPT !.err = FALSE]
  <1>1. /\ Changes(q, a, {"power", "w4r", "late", "txerr", "delayed", "ev"})
        /\ a.power = "TX" /\ a.w4r = w4r /\ a.late = FALSE /\ a.ev = q.ev \ {"HPDWARN"}
    BY CmdTxIs
  <1>2. HasFields(a)
    BY <1>1, ChangesKeep
  <1>3. p = dwt_starttx(q, w4r)
    BY DEF dwt_starttx
  <1> HIDE DEF a
  <1>4. Changes(a, p, {"err"}) /\ p.err = FALSE
    BY <1>2, FieldsThere, Zenon DEF Changes
  <1> HIDE DEF p
  <1>5. p.power = a.power /\ p.w4r = a.w4r /\ p.late = a.late /\ p.ev = a.ev
    BY <1>2, <1>4, FieldsThere, Zenon DEF Changes
  <1>6. Changes(q, p, SendChanges)
    BY <1>1, <1>4, ChangesAdd DEF SendChanges
  <1>7. Starts(q, p, w4r)
    BY <1>1, <1>4, <1>5, <1>6, Zenon DEF Starts
  <1> QED
    BY <1>3, <1>7

\* A frame that the application sends, at once or at a time.
Sends(q, p) ==
  /\ Changes(q, p, SendChanges)
  /\ p.power = "TX"
  /\ p.late \in BOOLEAN /\ (p.late => Warned(p))
  /\ p.ev \subseteq q.ev \cup {"HPDWARN"}

\* A frame sent at once,
LEMMA SendAtOnce ==
  ASSUME NEW q, HasFields(q), NEW w4r
  PROVE  /\ Sends(q, dwt_starttx(LoadFrame(q, 0), w4r))
         /\ dwt_starttx(LoadFrame(q, 0), w4r).late = FALSE
  <1> DEFINE a == LoadFrame(q, 0)
             p == dwt_starttx(a, w4r)
  <1>1. Changes(q, a, {"txbuf", "err"})
    BY LoadIs
  <1>2. HasFields(a)
    BY <1>1, ChangesKeep
  <1>3. a.ev = q.ev
    BY <1>1, FieldsThere, Zenon DEF Changes
  <1> HIDE DEF a
  <1>4. /\ Changes(a, p, SendChanges)
        /\ p.power = "TX" /\ p.w4r = w4r /\ p.late = FALSE /\ p.ev = a.ev \ {"HPDWARN"}
    BY <1>2, StartIs DEF Starts
  <1> HIDE DEF p
  <1>5. Changes(q, p, SendChanges)
    BY <1>1, <1>4, ChangesAdd DEF SendChanges
  <1>6. Sends(q, p) /\ p.late = FALSE
    BY <1>3, <1>4, <1>5, Zenon DEF Sends
  <1> QED
    BY <1>6 DEF a, p

\* and one that is sent at a time, or is too late.
LEMMA SendLater ==
  ASSUME NEW q, HasFields(q), NEW late \in Lateness, NEW w4r
  PROVE  Sends(q, StartDelayed(dwt_setdelayedtrxtime(LoadFrame(q, 0), 0), late, w4r))
  <1> DEFINE a == LoadFrame(q, 0)
             b == dwt_setdelayedtrxtime(a, 0)
             p == StartDelayed(b, late, w4r)
  <1>1. Changes(q, a, {"txbuf", "err"})
    BY LoadIs
  <1>2. HasFields(a)
    BY <1>1, ChangesKeep
  <1> HIDE DEF a
  <1>3. Changes(a, b, {"dx"})
    BY <1>2, FieldsThere, Zenon DEF dwt_setdelayedtrxtime, Changes
  <1>4. HasFields(b)
    BY <1>2, <1>3, ChangesKeep
  <1>5. a.ev = q.ev /\ b.ev = a.ev
    BY <1>1, <1>2, <1>3, FieldsThere, Zenon DEF Changes
  <1> HIDE DEF b
  <1>6. /\ Changes(b, p, {"power", "w4r", "late", "txerr", "delayed", "ev"})
        /\ p.power = "TX" /\ p.late \in BOOLEAN /\ (p.late => Warned(p))
        /\ p.ev \subseteq b.ev \cup {"HPDWARN"}
    BY <1>4, CmdTxDelayedIs, Zenon DEF StartDelayed
  <1> HIDE DEF p
  <1>7. Changes(q, b, {"txbuf", "err", "dx"})
    BY <1>1, <1>3, ChangesAdd
  <1>8. Changes(q, p, SendChanges)
    BY <1>6, <1>7, ChangesAdd DEF SendChanges
  <1>11. Sends(q, p)
    BY <1>5, <1>6, <1>8, Zenon DEF Sends
  <1> QED
    BY <1>11 DEF a, b, p

\* CMD_TXRXOFF.
LEMMA OffIs ==
  ASSUME NEW q, HasFields(q)
  PROVE  LET p == CMD_TXRXOFF(q)
         IN  /\ Changes(q, p, {"power", "w4r", "late", "txerr", "delayed"})
             /\ p.power = IF q.power \in {"TX", "RX"} THEN "IDLE" ELSE q.power
             /\ p.late = FALSE
  BY FieldsThere, Zenon DEF CMD_TXRXOFF, Changes

\* The check of a delayed transmission.
LEMMA CheckIs ==
  ASSUME NEW q, HasFields(q)
  PROVE  LET p == CheckDelayed(q)
         IN  /\ Changes(q, p, {"power", "w4r", "late", "txerr", "delayed", "err"})
             /\ Warned(q) => ~OnAir(p)
             /\ ~Warned(q) => p.power = q.power /\ p.late = q.late
  <1> DEFINE p == CheckDelayed(q)
  <1>1. CASE Warned(q)
    <2> DEFINE a == CMD_TXRXOFF(q)
    <2>1. /\ Changes(q, a, {"power", "w4r", "late", "txerr", "delayed"})
          /\ a.power = IF q.power \in {"TX", "RX"} THEN "IDLE" ELSE q.power
      BY OffIs
    <2>2. HasFields(a)
      BY <2>1, ChangesKeep
    <2>3. p = [a EXCEPT !.err = TRUE]
      BY <1>1 DEF CheckDelayed, Warned
    <2> HIDE DEF a, p
    <2>4. Changes(a, p, {"err"})
      BY <2>2, <2>3, FieldsThere, Zenon DEF Changes
    <2>5. p.power = a.power
      BY <2>2, <2>4, FieldsThere, Zenon DEF Changes
    <2>6. Changes(q, p, {"power", "w4r", "late", "txerr", "delayed", "err"})
      BY <2>1, <2>4, ChangesAdd
    <2>7. ~OnAir(p)
      BY <2>1, <2>5 DEF OnAir
    <2> QED
      BY <1>1, <2>6, <2>7, Zenon DEF p
  <1>2. CASE ~Warned(q)
    <2>1. p = [q EXCEPT !.err = FALSE]
      BY <1>2 DEF CheckDelayed, Warned
    <2> HIDE DEF p
    <2>2. Changes(q, p, {"err"})
      BY <2>1, FieldsThere, Zenon DEF Changes
    <2>3. p.power = q.power /\ p.late = q.late
      BY <2>2, FieldsThere, Zenon DEF Changes
    <2>4. Changes(q, p, {"power", "w4r", "late", "txerr", "delayed", "err"})
      BY <2>2, Zenon DEF Changes
    <2> QED
      BY <1>2, <2>3, <2>4, Zenon DEF p
  <1> QED
    BY <1>1, <1>2, Zenon

\* A receiver that is switched on.
LEMMA SwitchOnIs ==
  ASSUME NEW q, HasFields(q)
  PROVE  LET p == SwitchOn(q)
         IN  Changes(q, p, {"power", "ev"}) /\ p.power = "RX" /\ p.ev = q.ev \ RxEvents
  BY FieldsThere, Zenon DEF SwitchOn, Changes, RxEvents

ListenChanges == {"power", "ev", "err", "w4r", "late", "txerr", "delayed"}

\* A radio told to listen: it does, with nothing pending, or nothing came of it.
Listens(q, p) ==
  /\ Changes(q, p, ListenChanges)
  /\ p.power # "TX"
  /\ OnAir(p) => Seen(p) = {}
  /\ Seen(p) = Seen(q) \/ Seen(p) = {}

\* CMD_RX.
LEMMA CmdRxIs ==
  ASSUME NEW q, HasFields(q), ~OnAir(q)
  PROVE  Listens(q, CMD_RX(q))
  <1> DEFINE p == CMD_RX(q)
  <1>1. CASE q.power = "IDLE"
    <2>1. p = SwitchOn(q)
      BY <1>1 DEF CMD_RX
    <2>2. Changes(q, p, {"power", "ev"}) /\ p.power = "RX" /\ p.ev = q.ev \ RxEvents
      BY <2>1, SwitchOnIs
    <2> HIDE DEF p
    <2>3. Changes(q, p, ListenChanges)
      BY <2>2, Zenon DEF Changes, ListenChanges
    <2>4. Seen(p) = {}
      BY <2>2, Zenon DEF Seen
    <2> QED
      BY <2>2, <2>3, <2>4 DEF Listens, p
  <1>2. CASE q.power # "IDLE"
    <2>1. p = q
      BY <1>2 DEF CMD_RX
    <2> QED
      BY <2>1, ChangesNone DEF Listens, OnAir
  <1> QED
    BY <1>1, <1>2

\* Further fields that do not matter.
LEMMA ListensOn ==
  ASSUME NEW q, NEW a, NEW p, Listens(a, p), Changes(q, a, ListenChanges),
         Seen(a) = Seen(q)
  PROVE  Listens(q, p)
  <1>1. Changes(q, p, ListenChanges)
    BY ChangesAdd DEF Listens
  <1> QED
    BY <1>1 DEF Listens

\* An error that was noted before does not matter.
LEMMA ListensErr ==
  ASSUME NEW q, NEW a, HasFields(a), NEW e, Listens(q, a)
  PROVE  Listens(q, [a EXCEPT !.err = e])
  <1> DEFINE p == [a EXCEPT !.err = e]
  <1>1. Changes(a, p, {"err"})
    BY FieldsThere, Zenon DEF Changes
  <1>2. p.power = a.power /\ p.ev = a.ev
    BY <1>1, FieldsThere, Zenon DEF Changes
  <1> HIDE DEF p
  <1>3. Changes(q, p, ListenChanges)
    BY <1>1, ChangesAdd DEF Listens, ListenChanges
  <1>4. Seen(p) = Seen(a) /\ (OnAir(p) => OnAir(a))
    BY <1>2, Zenon DEF Seen, OnAir
  <1>5. Listens(q, p)
    BY <1>2, <1>3, <1>4, Zenon DEF Listens
  <1> QED
    BY <1>5 DEF p

\* dwt_rxenable, in every mode.
LEMMA RxEnableIs ==
  ASSUME NEW q, HasFields(q), ~OnAir(q), NEW mode, NEW late \in BOOLEAN
  PROVE  Listens(q, dwt_rxenable(q, mode, late))
  <1> DEFINE p == dwt_rxenable(q, mode, late)
  <1>1. CASE mode = "IMMEDIATE"
    <2> DEFINE a == CMD_RX(q)
    <2>1. Listens(q, a)
      BY CmdRxIs
    <2>2. HasFields(a)
      BY <2>1, ChangesKeep DEF Listens
    <2>3. p = [a EXCEPT !.err = FALSE]
      BY <1>1 DEF dwt_rxenable
    <2> HIDE DEF a, p
    <2>4. Listens(q, p)
      BY <2>1, <2>2, <2>3, ListensErr
    <2> QED
      BY <2>4 DEF p
  <1>2. CASE mode # "IMMEDIATE" /\ ~late
    <2> DEFINE a == ClearEvents(q, {"HPDWARN"})
               b == CMD_RX(a)
    <2>1. Changes(q, a, {"ev"}) /\ a.ev = q.ev \ {"HPDWARN"}
      BY ClearIs
    <2>2. HasFields(a) /\ a.power = q.power
      BY <2>1, ChangesKeep, FieldsThere, Zenon DEF Changes
    <2>3. ~OnAir(a)
      BY <2>2 DEF OnAir
    <2>4. Seen(a) = Seen(q)
      BY <2>1 DEF Seen, RxEvents, ALL_RX_GOOD, ALL_RX_ERR, ALL_RX_TO
    <2>5. Changes(q, a, ListenChanges)
      BY <2>1, Zenon DEF Changes, ListenChanges
    <2>6. p = [b EXCEPT !.err = FALSE]
      BY <1>2 DEF dwt_rxenable
    <2> HIDE DEF a, p
    <2>7. Listens(a, b)
      BY <2>2, <2>3, CmdRxIs
    <2>8. HasFields(b)
      BY <2>2, <2>7, ChangesKeep DEF Listens
    <2> HIDE DEF b
    <2>9. Listens(q, b)
      BY <2>4, <2>5, <2>7, ListensOn
    <2>10. Listens(q, p)
      BY <2>6, <2>8, <2>9, ListensErr
    <2> QED
      BY <2>10 DEF p
  <1>3. CASE mode # "IMMEDIATE" /\ late
    <2> DEFINE a == CMD_TXRXOFF(q)
               off == [a EXCEPT !.err = TRUE, !.ev = @ \cup {"HPDWARN"}]
    <2>1. /\ Changes(q, a, {"power", "w4r", "late", "txerr", "delayed"})
          /\ a.power = IF q.power \in {"TX", "RX"} THEN "IDLE" ELSE q.power
      BY OffIs
    <2>2. HasFields(a) /\ a.ev = q.ev
      BY <2>1, ChangesKeep, FieldsThere, Zenon DEF Changes
    <2> HIDE DEF a
    <2>3. /\ Changes(a, off, {"err", "ev"}) /\ off.ev = a.ev \cup {"HPDWARN"}
          /\ off.power = a.power
      BY <2>2, FieldsThere, Zenon DEF Changes
    <2>4. HasFields(off)
      BY <2>2, <2>3, ChangesKeep
    <2>5. p = IF mode = "IDLE_ON_DLY_ERR" THEN off ELSE CMD_RX(off)
      BY <1>3 DEF dwt_rxenable, a
    <2> HIDE DEF off, p
    <2>6. Changes(q, off, ListenChanges)
      BY <2>1, <2>3, ChangesAdd DEF ListenChanges
    <2>7. Seen(off) = Seen(q)
      BY <2>2, <2>3 DEF Seen, RxEvents, ALL_RX_GOOD, ALL_RX_ERR, ALL_RX_TO
    <2>8. ~OnAir(off)
      BY <2>1, <2>3 DEF OnAir
    <2>9. Listens(q, off)
      BY <2>6, <2>7, <2>8 DEF Listens, OnAir
    <2>10. Listens(off, CMD_RX(off))
      BY <2>4, <2>8, CmdRxIs
    <2>11. Listens(q, CMD_RX(off))
      BY <2>6, <2>7, <2>10, ListensOn
    <2>12. Listens(q, p)
      BY <2>5, <2>9, <2>11
    <2> QED
      BY <2>12 DEF p
  <1> QED
    BY <1>1, <1>2, <1>3

\* Calibration leaves the transmitter as it was, and its clocks to the chip.
LEMMA CalibrateIs ==
  ASSUME NEW q, HasFields(q), NEW chan
  PROVE  LET p == dwt_calcpgcount(q, chan)
         IN  Changes(q, p, {"clocks", "rf"}) /\ p.rf = {} /\ p.clocks = "AUTO"
  <1> DEFINE a == dwt_force_clocks(q, "TX")
             b == dwt_enable_rf_tx(a, chan)
             c == dwt_disable_rf_tx(b)
             p == dwt_force_clocks(c, "AUTO")
  <1>1. Changes(q, a, {"clocks"})
    BY FieldsThere, Zenon DEF dwt_force_clocks, Changes
  <1>2. HasFields(a)
    BY <1>1, ChangesKeep
  <1> HIDE DEF a
  <1>3. Changes(a, b, {"rf"})
    BY <1>2, FieldsThere, Zenon DEF dwt_enable_rf_tx, Changes
  <1>4. HasFields(b)
    BY <1>2, <1>3, ChangesKeep
  <1> HIDE DEF b
  <1>5. Changes(b, c, {"rf"}) /\ c.rf = {}
    BY <1>4, FieldsThere, Zenon DEF dwt_disable_rf_tx, Changes
  <1>6. HasFields(c)
    BY <1>4, <1>5, ChangesKeep
  <1> HIDE DEF c
  <1>7. Changes(c, p, {"clocks"}) /\ p.clocks = "AUTO"
    BY <1>6, FieldsThere, Zenon DEF dwt_force_clocks, Changes
  <1>8. p = dwt_calcpgcount(q, chan)
    BY DEF dwt_calcpgcount, a, b, c
  <1> HIDE DEF p
  <1>9. p.rf = {}
    BY <1>5, <1>6, <1>7, FieldsThere, Zenon DEF Changes
  <1>10. Changes(q, b, {"clocks", "rf"})
    BY <1>1, <1>3, ChangesAdd
  <1>11. Changes(b, p, {"clocks", "rf"})
    BY <1>5, <1>7, ChangesAdd
  <1>12. Changes(q, p, {"clocks", "rf"})
    BY <1>10, <1>11, ChangesAdd
  <1> QED
    BY <1>7, <1>8, <1>9, <1>12

\* A test of the transmitter.
LEMMA TestIs ==
  ASSUME NEW q, HasFields(q), NEW chan
  PROVE  /\ Changes(q, dwt_configcwmode(q, chan), {"clocks", "rf", "test"})
         /\ Changes(q, dwt_configcontinuousframemode(q, chan), {"clocks", "rf", "test"})
  <1> DEFINE a == dwt_enable_rf_tx(q, chan)
             b == dwt_force_clocks(a, "TX")
  <1>1. Changes(q, a, {"rf"})
    BY FieldsThere, Zenon DEF dwt_enable_rf_tx, Changes
  <1>2. HasFields(a)
    BY <1>1, ChangesKeep
  <1> HIDE DEF a
  <1>3. Changes(a, b, {"clocks"})
    BY <1>2, FieldsThere, Zenon DEF dwt_force_clocks, Changes
  <1>4. HasFields(b)
    BY <1>2, <1>3, ChangesKeep
  <1> HIDE DEF b
  <1>5. ASSUME NEW t PROVE Changes(q, [b EXCEPT !.test = t], {"clocks", "rf", "test"})
    <2>1. Changes(b, [b EXCEPT !.test = t], {"test"})
      BY <1>4, FieldsThere, Zenon DEF Changes
    <2>2. Changes(q, b, {"clocks", "rf"})
      BY <1>1, <1>3, ChangesAdd
    <2> QED
      BY <2>1, <2>2, ChangesAdd
  <1> QED
    BY <1>5 DEF dwt_configcwmode, dwt_configcontinuousframemode, a, b

\* dwt_initialise.
LEMMA InitialiseIs ==
  ASSUME NEW q, HasFields(q)
  PROVE  LET p == dwt_initialise(q)
         IN  /\ Changes(q, p, {"dbl", "mode", "sts", "cb", "err", "tuned", "dgcOtp"})
             /\ p.dbl = "OFF" /\ p.cb = FALSE
  <1> DEFINE a == [q EXCEPT !.dbl = "OFF", !.mode = {"RUNSAR"}, !.sts = "OFF", !.cb = FALSE]
             p == dwt_initialise(q)
  <1>1. Changes(q, a, {"dbl", "mode", "sts", "cb"}) /\ a.dbl = "OFF" /\ a.cb = FALSE
    BY FieldsThere, Zenon DEF Changes
  <1>2. HasFields(a)
    BY <1>1, ChangesKeep
  <1>3. \/ p = [a EXCEPT !.err = TRUE]
        \/ p = [a EXCEPT !.tuned = "TRIM" \in q.otp, !.dgcOtp = "DGC" \in q.otp, !.err = FALSE]
    BY DEF dwt_initialise
  <1> HIDE DEF a, p
  <1>4. Changes(a, p, {"err", "tuned", "dgcOtp"})
    <2>1. Changes(a, [a EXCEPT !.err = TRUE], {"err", "tuned", "dgcOtp"})
      BY <1>2, FieldsThere, Zenon DEF Changes
    <2>2. Changes(a, [a EXCEPT !.tuned = "TRIM" \in q.otp, !.dgcOtp = "DGC" \in q.otp,
                              !.err = FALSE], {"err", "tuned", "dgcOtp"})
      BY <1>2, FieldsThere, Zenon DEF Changes
    <2> QED
      BY <1>3, <2>1, <2>2
  <1>5. p.dbl = a.dbl /\ p.cb = a.cb
    BY <1>2, <1>4, FieldsThere, Zenon DEF Changes
  <1>6. Changes(q, p, {"dbl", "mode", "sts", "cb", "err", "tuned", "dgcOtp"})
    BY <1>1, <1>4, ChangesAdd
  <1> QED
    BY <1>1, <1>5, <1>6 DEF p

AltFlags == {"ALT_OPS", "SEL_OPS1", "SEL_OPS2"}

\* Channel, code and what selects the operating parameters are those of c.
TunedTo(q, c) ==
  q.chan = c.chan /\ q.code = c.txCode /\ q.mode \cap AltFlags = OpsFlags(OpsOf(c))

ConfigureChanges == {"sts", "spc", "mode", "ops", "chan", "code", "clocks", "power", "ainit", "ev",
                     "gain", "err"}

Configured(q, c, p) ==
  /\ Changes(q, p, ConfigureChanges)
  /\ p.power \in {q.power, "IDLE"} /\ p.ev \ {"CPLOCK"} = q.ev \ {"CPLOCK"}
  /\ TunedTo(p, c) /\ p.ops = OpsOf(c) /\ p.clocks = "AUTO"
  /\ p.sts = c.stsMode /\ p.spc = c.stsMode
  /\ p.err \in BOOLEAN /\ (~p.err => p.gain = c.chan)

\* The gain tables of a channel.
LEMMA LoadGainIs ==
  ASSUME NEW q, HasFields(q), NEW chan \in Channels
  PROVE  LET p == LoadGain(q, chan)
         IN  Changes(q, p, {"gain"}) /\ p.gain = chan
  <1>1. CASE q.dgcOtp
    BY <1>1, FieldsThere, Zenon DEF LoadGain, _dwt_kick_dgc_on_wakeup, Changes
  <1>2. CASE ~q.dgcOtp
    <2>1. chan = 5 \/ chan = 9
      BY DEF Channels
    <2>2. (IF chan = 5 THEN 5 ELSE 9) = chan
      BY <2>1
    <2>3. LoadGain(q, chan) = [q EXCEPT !.gain = chan]
      BY <1>2, <2>2 DEF LoadGain, dwt_configmrxlut
    <2> QED
      BY <2>3, FieldsThere, Zenon DEF Changes
  <1> QED
    BY <1>1, <1>2

\* The operating parameters have flags of their own.
LEMMA FlagsAreAlt ==
  ASSUME NEW ops, NEW m
  PROVE  ((m \ AltFlags) \cup OpsFlags(ops)) \cap AltFlags = OpsFlags(ops)
  <1>1. OpsFlags(ops) \subseteq AltFlags
    BY DEF OpsFlags, AltFlags
  <1> QED
    BY <1>1

\* dwt_configure.
LEMMA ConfigureIs ==
  ASSUME NEW q, HasFields(q), NEW c, c.rxCode \in 9..24, c.chan \in Channels,
         NEW p \in dwt_configure(q, c)
  PROVE  Configured(q, c, p)
  <1> DEFINE ops == OpsOf(c)
             sts == dwt_configurestsmode(q, c.stsMode)
             tuned == [sts EXCEPT
                  !.mode = (@ \ {"ALT_OPS", "SEL_OPS1", "SEL_OPS2"}) \cup OpsFlags(ops),
                  !.ops = ops, !.chan = c.chan, !.code = c.txCode]
             forced == dwt_force_clocks(tuned, "AUTO")
             state == dwt_setdwstate(tuned, "IDLE")
             idle == [state EXCEPT !.ev = @ \ {"CPLOCK"}]
             locked == [idle EXCEPT !.ev = @ \cup {"CPLOCK"}]
             loaded == LoadGain(locked, c.chan)
             unlocked == [idle EXCEPT !.err = TRUE, !.power = q.power]
  <1>1. /\ Changes(q, sts, {"sts", "spc"}) /\ sts.sts = c.stsMode /\ sts.spc = c.stsMode
    BY FieldsThere, Zenon DEF dwt_configurestsmode, Changes
  <1>2. HasFields(sts)
    BY <1>1, ChangesKeep
  <1>3. dwt_configure(q, c) = {unlocked} \cup dwt_pgf_cal(loaded)
    BY DEF dwt_configure
  <1>a. dwt_pgf_cal(loaded) = {[loaded EXCEPT !.err = e] : e \in BOOLEAN}
    BY DEF dwt_pgf_cal
  <1>b. PICK e \in BOOLEAN : p = unlocked \/ p = [loaded EXCEPT !.err = e]
    BY <1>3, <1>a
  <1> HIDE DEF sts
  <1>4. /\ Changes(sts, tuned, {"mode", "ops", "chan", "code"})
        /\ tuned.mode = (sts.mode \ AltFlags) \cup OpsFlags(ops)
        /\ tuned.ops = ops /\ tuned.chan = c.chan /\ tuned.code = c.txCode
    BY <1>2, FieldsThere, Zenon DEF Changes, AltFlags
  <1>5. HasFields(tuned)
    BY <1>2, <1>4, ChangesKeep
  <1>6. TunedTo(tuned, c)
    BY <1>4, FlagsAreAlt DEF TunedTo
  <1>7. Changes(q, tuned, {"sts", "spc", "mode", "ops", "chan", "code"})
    BY <1>1, <1>4, ChangesAdd
  <1>8. tuned.sts = c.stsMode /\ tuned.spc = c.stsMode
    BY <1>1, <1>2, <1>4, FieldsThere, Zenon DEF Changes
  <1> HIDE DEF tuned
  <1>9. state = [forced EXCEPT !.power = "IDLE", !.ainit = TRUE]
    BY DEF dwt_setdwstate
  <1>10. Changes(tuned, forced, {"clocks"}) /\ forced.clocks = "AUTO"
    BY <1>5, FieldsThere, Zenon DEF dwt_force_clocks, Changes
  <1>11. HasFields(forced)
    BY <1>5, <1>10, ChangesKeep
  <1> HIDE DEF forced, state
  <1>12. Changes(forced, state, {"power", "ainit"}) /\ state.power = "IDLE"
    BY <1>9, <1>11, FieldsThere, Zenon DEF Changes
  <1>13. HasFields(state)
    BY <1>11, <1>12, ChangesKeep
  <1>14. Changes(tuned, state, {"clocks", "power", "ainit"}) /\ state.clocks = "AUTO"
    <2>1. state.clocks = forced.clocks
      BY <1>11, <1>12, FieldsThere, Zenon DEF Changes
    <2> QED
      BY <1>10, <1>12, <2>1, ChangesAdd
  <1>15. Changes(state, idle, {"ev"}) /\ idle.ev = state.ev \ {"CPLOCK"}
    BY <1>13, FieldsThere, Zenon DEF Changes
  <1>16. HasFields(idle)
    BY <1>13, <1>15, ChangesKeep
  <1> HIDE DEF idle
  <1>17. Changes(idle, locked, {"ev"}) /\ locked.ev = idle.ev \cup {"CPLOCK"}
    BY <1>16, FieldsThere, Zenon DEF Changes
  <1>18. HasFields(locked)
    BY <1>16, <1>17, ChangesKeep
  <1> HIDE DEF locked
  <1>19. Changes(locked, loaded, {"gain"}) /\ loaded.gain = c.chan
    BY <1>18, LoadGainIs
  <1>20. HasFields(loaded)
    BY <1>18, <1>19, ChangesKeep
  <1> HIDE DEF loaded
  <1>21. Changes(idle, unlocked, {"err", "power"}) /\ unlocked.err = TRUE
         /\ unlocked.power = q.power
    BY <1>16, FieldsThere, Zenon DEF Changes
  <1> HIDE DEF unlocked
  <1>22. Changes(loaded, [loaded EXCEPT !.err = e], {"err"}) /\ [loaded EXCEPT !.err = e].err = e
    BY <1>20, FieldsThere, Zenon DEF Changes
  <1>23. \A o, S : Changes(tuned, o, S) /\ S \cap {"chan", "code", "mode", "ops", "sts", "spc"} = {} =>
           /\ TunedTo(o, c) /\ o.ops = OpsOf(c) /\ o.sts = c.stsMode /\ o.spc = c.stsMode
    <2> SUFFICES ASSUME NEW o, NEW S, Changes(tuned, o, S),
                        S \cap {"chan", "code", "mode", "ops", "sts", "spc"} = {}
                 PROVE  TunedTo(o, c) /\ o.ops = OpsOf(c) /\ o.sts = c.stsMode /\ o.spc = c.stsMode
      OBVIOUS
    <2>1. /\ o.chan = tuned.chan /\ o.code = tuned.code /\ o.mode = tuned.mode
          /\ o.ops = tuned.ops /\ o.sts = tuned.sts /\ o.spc = tuned.spc
      BY <1>5, FieldsThere, Zenon DEF Changes
    <2> QED
      BY <1>4, <1>6, <1>8, <2>1, Zenon DEF TunedTo
  <1>24. Changes(tuned, idle, {"clocks", "power", "ainit", "ev"}) /\ idle.clocks = "AUTO"
         /\ idle.power = "IDLE"
    <2>1. idle.clocks = state.clocks /\ idle.power = state.power
      BY <1>13, <1>15, FieldsThere, Zenon DEF Changes
    <2> QED
      BY <1>12, <1>14, <1>15, <2>1, ChangesAdd
  <1>25. idle.ev \ {"CPLOCK"} = q.ev \ {"CPLOCK"}
    <2>1. tuned.ev = q.ev
      BY <1>7, FieldsThere, Zenon DEF Changes
    <2>2. state.ev = tuned.ev
      BY <1>5, <1>14, FieldsThere, Zenon DEF Changes
    <2> QED
      BY <1>15, <2>1, <2>2
  <1>26. CASE p = unlocked
    <2>1. Changes(tuned, p, {"clocks", "power", "ainit", "ev", "err"})
      BY <1>21, <1>24, <1>26, ChangesAdd
    <2>2. TunedTo(p, c) /\ p.ops = OpsOf(c) /\ p.sts = c.stsMode /\ p.spc = c.stsMode
      BY <1>23, <2>1
    <2>3. p.clocks = idle.clocks /\ p.ev = idle.ev
      BY <1>16, <1>21, <1>26, FieldsThere, Zenon DEF Changes
    <2>4. Changes(q, p, ConfigureChanges)
      BY <1>7, <2>1, ChangesAdd DEF ConfigureChanges
    <2> QED
      BY <1>21, <1>24, <1>25, <1>26, <2>2, <2>3, <2>4 DEF Configured
  <1>27. CASE p = [loaded EXCEPT !.err = e]
    <2>1. Changes(idle, loaded, {"ev", "gain"})
      BY <1>17, <1>19, ChangesAdd
    <2>2. Changes(idle, p, {"ev", "gain", "err"})
      BY <1>22, <1>27, <2>1, ChangesAdd
    <2>3. Changes(tuned, p, {"clocks", "power", "ainit", "ev", "gain", "err"})
      BY <1>24, <2>2, ChangesAdd
    <2>4. TunedTo(p, c) /\ p.ops = OpsOf(c) /\ p.sts = c.stsMode /\ p.spc = c.stsMode
      BY <1>23, <2>3
    <2>5. p.clocks = idle.clocks /\ p.power = idle.power
      BY <1>16, <2>2, FieldsThere, Zenon DEF Changes
    <2>6. Changes(q, p, ConfigureChanges)
      BY <1>7, <2>3, ChangesAdd DEF ConfigureChanges
    <2>7. p.ev = loaded.ev /\ p.gain = loaded.gain
      BY <1>20, <1>22, <1>27, FieldsThere, Zenon DEF Changes
    <2>8. loaded.ev = locked.ev
      BY <1>18, <1>19, FieldsThere, Zenon DEF Changes
    <2>9. p.ev \ {"CPLOCK"} = q.ev \ {"CPLOCK"}
      BY <1>17, <1>25, <2>7, <2>8
    <2> QED
      BY <1>19, <1>22, <1>24, <1>27, <2>4, <2>5, <2>6, <2>7, <2>9 DEF Configured
  <1> QED
    BY <1>b, <1>26, <1>27

-----------------------------------------------------------------------------
\* What the application sets after a configuration.
PreparedBy(q, events, level, double) ==
  dwt_setdblrxbuffmode(
    dwt_configciadiag(
      dwt_setinterrupt(
        dwt_setcallbacks(
          ClearEvents([q EXCEPT !.held = {}, !.good = {}, !.fill = 0], q.ev)),
        events, "ENABLE_INT_ONLY"),
      level),
    double, "MAN")

PrepareChanges ==
  {"held", "good", "fill", "ev", "cb", "enable", "diag", "double", "rearm", "dbl", "ptrB"}

\* What that leaves.
Prepared(q, p, events, level, double) ==
  /\ Changes(q, p, PrepareChanges)
  /\ p.held = {} /\ p.fill = 0 /\ p.ev = {} /\ p.cb = TRUE /\ p.enable = events
  /\ p.diag = level /\ p.double = double /\ p.rearm = FALSE
  /\ p.dbl = IF double THEN "BUF0" ELSE "OFF"
  /\ double => p.ptrB = TRUE

\* What the application sets afterwards changes no more than that.
LEMMA PreparedIs ==
  ASSUME NEW q, HasFields(q), NEW events, NEW level, NEW double \in BOOLEAN
  PROVE  Prepared(q, PreparedBy(q, events, level, double), events, level, double)
  <1> DEFINE a == [q EXCEPT !.held = {}, !.good = {}, !.fill = 0]
             b == ClearEvents(a, q.ev)
             c == dwt_setcallbacks(b)
             d == dwt_setinterrupt(c, events, "ENABLE_INT_ONLY")
             e == dwt_configciadiag(d, level)
             p == dwt_setdblrxbuffmode(e, double, "MAN")
  <1>1. Changes(q, a, {"held", "good", "fill"}) /\ a.held = {} /\ a.fill = 0
    BY FieldsThere, Zenon DEF Changes
  <1>2. HasFields(a) /\ a.ev = q.ev
    <2>1. HasFields(a)
      BY <1>1, ChangesKeep
    <2>2. a.ev = q.ev
      BY FieldsThere, Zenon
    <2> QED
      BY <2>1, <2>2
  <1> HIDE DEF a
  <1>3. Changes(a, b, {"ev"}) /\ b.ev = {}
    <2>1. Changes(a, b, {"ev"}) /\ b.ev = a.ev \ q.ev
      BY <1>2, ClearIs
    <2> QED
      BY <1>2, <2>1
  <1>4. HasFields(b)
    BY <1>2, <1>3, ChangesKeep
  <1> HIDE DEF b
  <1>5. Changes(b, c, {"cb"}) /\ c.cb = TRUE
    BY <1>4, FieldsThere, Zenon DEF dwt_setcallbacks, Changes
  <1>6. HasFields(c)
    BY <1>4, <1>5, ChangesKeep
  <1> HIDE DEF c
  <1>7. Changes(c, d, {"enable"}) /\ d.enable = events
    BY <1>6, FieldsThere, Zenon DEF dwt_setinterrupt, Changes
  <1>8. HasFields(d)
    BY <1>6, <1>7, ChangesKeep
  <1> HIDE DEF d
  <1>9. Changes(d, e, {"diag"}) /\ e.diag = level
    BY <1>8, FieldsThere, Zenon DEF dwt_configciadiag, Changes
  <1>10. HasFields(e)
    BY <1>8, <1>9, ChangesKeep
  <1> HIDE DEF e
  <1>11. /\ Changes(e, p, {"double", "rearm", "dbl", "ptrB"})
         /\ p.double = double /\ p.rearm = FALSE /\ p.dbl = IF double THEN "BUF0" ELSE "OFF"
         /\ double => p.ptrB = TRUE
    <2>1. CASE double = TRUE
      BY <1>10, <2>1, FieldsThere, Zenon DEF dwt_setdblrxbuffmode, Changes
    <2>2. CASE double = FALSE
      BY <1>10, <2>2, FieldsThere, Zenon DEF dwt_setdblrxbuffmode, Changes
    <2> QED
      BY <2>1, <2>2
  <1>12. p = PreparedBy(q, events, level, double)
    BY DEF PreparedBy, a, b, c, d, e
  <1> HIDE DEF p
  <1>13. p.diag = e.diag /\ e.enable = d.enable /\ p.enable = e.enable
    BY <1>8, <1>9, <1>10, <1>11, FieldsThere, Zenon DEF Changes
  <1>14. p.cb = e.cb /\ e.cb = d.cb /\ d.cb = c.cb
    BY <1>6, <1>7, <1>8, <1>9, <1>10, <1>11, FieldsThere, Zenon DEF Changes
  <1>15. p.ev = e.ev /\ e.ev = d.ev /\ d.ev = c.ev /\ c.ev = b.ev
    BY <1>4, <1>5, <1>6, <1>7, <1>8, <1>9, <1>10, <1>11, FieldsThere, Zenon DEF Changes
  <1>16. /\ p.held = e.held /\ e.held = d.held /\ d.held = c.held /\ c.held = b.held
         /\ b.held = a.held
    BY <1>2, <1>3, <1>4, <1>5, <1>6, <1>7, <1>8, <1>9, <1>10, <1>11, FieldsThere, Zenon
       DEF Changes
  <1>17. /\ p.fill = e.fill /\ e.fill = d.fill /\ d.fill = c.fill /\ c.fill = b.fill
         /\ b.fill = a.fill
    BY <1>2, <1>3, <1>4, <1>5, <1>6, <1>7, <1>8, <1>9, <1>10, <1>11, FieldsThere, Zenon
       DEF Changes
  <1>18. Changes(q, b, PrepareChanges)
    BY <1>1, <1>3, ChangesAdd DEF PrepareChanges
  <1>19. Changes(q, c, PrepareChanges)
    BY <1>5, <1>18, ChangesAdd DEF PrepareChanges
  <1>20. Changes(q, d, PrepareChanges)
    BY <1>7, <1>19, ChangesAdd DEF PrepareChanges
  <1>21. Changes(q, e, PrepareChanges)
    BY <1>9, <1>20, ChangesAdd DEF PrepareChanges
  <1>22. Changes(q, p, PrepareChanges)
    BY <1>11, <1>21, ChangesAdd DEF PrepareChanges
  <1>23. /\ p.held = {} /\ p.fill = 0 /\ p.ev = {} /\ p.cb = TRUE /\ p.enable = events
         /\ p.diag = level /\ p.double = double /\ p.rearm = FALSE
         /\ p.dbl = IF double THEN "BUF0" ELSE "OFF"
         /\ double => p.ptrB = TRUE
    BY <1>1, <1>3, <1>5, <1>7, <1>9, <1>11, <1>13, <1>14, <1>15, <1>16, <1>17, Zenon
  <1>24. Prepared(q, p, events, level, double)
    BY <1>22, <1>23 DEF Prepared
  <1> QED
    BY <1>12, <1>24

\* The application puts the radio to sleep.
LEMMA SleepIs ==
  ASSUME NEW q, HasFields(q)
  PROVE  LET p == dwt_entersleep(dwt_configuresleep(q, {"CONFIG"}, {"WAKE_CSN", "SLP_EN"}), "IDLE")
         IN  /\ Changes(q, p, {"mode", "aon", "wake", "ainit", "power"})
             /\ p.mode = q.mode \cup {"CONFIG"} /\ "CONFIG" \in p.aon
             /\ "WAKE_CSN" \in p.wake /\ p.power = "SLEEP"
  <1> DEFINE a == dwt_configuresleep(q, {"CONFIG"}, {"WAKE_CSN", "SLP_EN"})
             p == dwt_entersleep(a, "IDLE")
  <1>1. /\ Changes(q, a, {"mode", "aon", "wake"})
        /\ a.mode = q.mode \cup {"CONFIG"} /\ a.aon = q.mode \cup {"CONFIG"}
        /\ a.wake = {"WAKE_CSN", "SLP_EN"}
    BY FieldsThere, Zenon DEF dwt_configuresleep, Changes
  <1>2. HasFields(a)
    BY <1>1, ChangesKeep
  <1>3. "SLP_EN" \in a.wake
    BY <1>1
  <1> HIDE DEF a
  <1>4. Changes(a, p, {"ainit", "power"}) /\ p.power = "SLEEP"
    BY <1>2, <1>3, FieldsThere, Zenon DEF dwt_entersleep, Changes
  <1> HIDE DEF p
  <1>5. p.mode = a.mode /\ p.aon = a.aon /\ p.wake = a.wake
    BY <1>2, <1>4, FieldsThere, Zenon DEF Changes
  <1>6. Changes(q, p, {"mode", "aon", "wake", "ainit", "power"})
    BY <1>1, <1>4, ChangesAdd
  <1>7. /\ Changes(q, p, {"mode", "aon", "wake", "ainit", "power"})
        /\ p.mode = q.mode \cup {"CONFIG"} /\ "CONFIG" \in p.aon
        /\ "WAKE_CSN" \in p.wake /\ p.power = "SLEEP"
    BY <1>1, <1>4, <1>5, <1>6
  <1> QED
    BY <1>7 DEF p, a

\* A reset goes back to the values out of reset; the driver's data stay.
ResetTo(q, p) ==
  /\ HasFields(p)
  /\ p.power = "IDLE_RC" /\ p.ev = {"SPIRDY", "RCINIT"} /\ p.enable = {"SPIRDY"}
  /\ p.double = FALSE /\ p.rearm = FALSE /\ p.fill = 0 /\ p.held = {}
  /\ p.buf = [b \in 0..1 |-> NoSlot] /\ p.late = FALSE /\ p.w4r = FALSE /\ p.ops = "SHORT"
  /\ p.clocks = "AUTO" /\ p.rf = {} /\ p.atx2slp = FALSE /\ p.wake = {}
  /\ p.cb = q.cb /\ p.sts = q.sts /\ p.diag = q.diag

\* Reset.
LEMMA ResetIs ==
  ASSUME NEW q, HasFields(q)
  PROVE  ResetTo(q, Reset(q)) /\ Reset(q).dbl = q.dbl /\ Reset(q).mode = q.mode
         /\ DOMAIN Reset(q) = DOMAIN q
  <1>1. HasFields(Reset(q)) /\ DOMAIN Reset(q) = DOMAIN q
    BY Zenon DEF Reset, HasFields
  <1>2. LET p == Reset(q)
        IN  /\ p.power = "IDLE_RC" /\ p.ev = {"SPIRDY", "RCINIT"} /\ p.enable = {"SPIRDY"}
            /\ p.double = FALSE /\ p.rearm = FALSE /\ p.fill = 0 /\ p.held = {}
    BY FieldsThere, Zenon DEF Reset, ChipReset
  <1>3. LET p == Reset(q)
        IN  /\ p.buf = [b \in 0..1 |-> NoSlot] /\ p.late = FALSE /\ p.w4r = FALSE
            /\ p.ops = "SHORT"
            /\ p.clocks = "AUTO" /\ p.rf = {} /\ p.atx2slp = FALSE /\ p.wake = {}
    BY FieldsThere, Zenon DEF Reset, ChipReset
  <1>4. LET p == Reset(q)
        IN  /\ p.cb = q.cb /\ p.sts = q.sts /\ p.diag = q.diag
            /\ p.dbl = q.dbl /\ p.mode = q.mode
    BY FieldsThere, Zenon DEF Reset, ChipReset
  <1> QED
    BY <1>1, <1>2, <1>3, <1>4, Zenon DEF ResetTo

\* dwt_softreset.
LEMMA SoftResetIs ==
  ASSUME NEW q, HasFields(q)
  PROVE  ResetTo(q, dwt_softreset(q))
  <1> DEFINE a == dwt_clearaonconfig(q)
             b == Reset(a)
             p == [b EXCEPT !.dbl = "BUF0", !.mode = {}]
  <1>1. Changes(q, a, {"aon", "wake"})
    BY FieldsThere, Zenon DEF dwt_clearaonconfig, Changes
  <1>2. HasFields(a)
    BY <1>1, ChangesKeep
  <1>3. a.cb = q.cb /\ a.sts = q.sts /\ a.diag = q.diag
    BY <1>1, FieldsThere, Zenon DEF Changes
  <1>4. p = dwt_softreset(q)
    BY DEF dwt_softreset
  <1> HIDE DEF a
  <1>5. ResetTo(a, b)
    BY <1>2, ResetIs
  <1>6. HasFields(b)
    BY <1>5 DEF ResetTo
  <1> HIDE DEF b
  <1>7. Changes(b, p, {"dbl", "mode"})
    BY <1>6, FieldsThere, Zenon DEF Changes
  <1>8. HasFields(p)
    BY <1>6, <1>7, ChangesKeep
  <1> HIDE DEF p
  <1>9. /\ p.power = b.power /\ p.ev = b.ev /\ p.enable = b.enable
        /\ p.double = b.double /\ p.rearm = b.rearm /\ p.fill = b.fill /\ p.held = b.held
        /\ p.buf = b.buf /\ p.late = b.late /\ p.w4r = b.w4r /\ p.ops = b.ops
        /\ p.clocks = b.clocks /\ p.rf = b.rf /\ p.atx2slp = b.atx2slp /\ p.wake = b.wake
        /\ p.cb = b.cb /\ p.sts = b.sts /\ p.diag = b.diag
    BY <1>6, <1>7, FieldsThere, Zenon DEF Changes
  <1>10. ResetTo(q, p)
    BY <1>3, <1>5, <1>8, <1>9, Zenon DEF ResetTo
  <1> QED
    BY <1>4, <1>10

-----------------------------------------------------------------------------
(***************************************************************************)
(* Waking up                                                               *)
(***************************************************************************)

\* The wake-up of a radio that keeps its configuration.
LEMMA WokenIs ==
  ASSUME NEW q, HasFields(q), "CONFIG" \in q.aon
  PROVE  LET p == Woken(q)
         IN  /\ HasFields(p)
             /\ p.power \in {"IDLE", "IDLE_RC"} /\ p.ev = {"SPIRDY", "RCINIT"}
             /\ p.enable = q.enable /\ p.chan = q.chan /\ p.code = q.code /\ p.spc = q.spc
             /\ p.double = FALSE /\ p.rearm = FALSE /\ p.fill = 0
             /\ p.buf = [b \in 0..1 |-> NoSlot] /\ p.late = FALSE /\ p.ops = "SHORT"
             /\ p.clocks = "AUTO" /\ p.rf = {} /\ (q.atx2slp = FALSE => p.atx2slp = FALSE)
             /\ p.cb = q.cb /\ p.sts = q.sts /\ p.diag = q.diag /\ p.dbl = q.dbl /\ p.mode = q.mode
  <1> DEFINE a == Reset(q)
             p == Woken(q)
  <1>1. ResetTo(q, a) /\ a.dbl = q.dbl /\ a.mode = q.mode
    BY ResetIs
  <1>2. HasFields(a)
    BY <1>1 DEF ResetTo
  <1>3. p = [a EXCEPT
               !.chan = IF "CONFIG" \in q.aon THEN q.chan ELSE @,
               !.code = IF "CONFIG" \in q.aon THEN q.code ELSE @,
               !.spc = IF "CONFIG" \in q.aon THEN q.spc ELSE @,
               !.enable = IF "CONFIG" \in q.aon THEN q.enable ELSE @,
               !.atx2slp = "CONFIG" \in q.aon /\ q.atx2slp,
               !.ainit = "CONFIG" \in q.aon /\ q.ainit,
               !.power = IF "CONFIG" \in q.aon /\ q.ainit THEN "IDLE" ELSE @,
               !.aon = q.aon, !.wake = q.wake, !.txbuf = q.txbuf]
    BY DEF Woken
  <1> DEFINE S == {"chan", "code", "spc", "enable", "atx2slp", "ainit", "power", "aon", "wake", "txbuf"}
  <1> HIDE DEF a, p
  <1>4. DOMAIN p = DOMAIN a
    BY <1>3, Zenon
  <1>5. Changes(a, p, S)
    BY <1>3, Zenon DEF Changes
  <1>6. p.chan = q.chan /\ p.code = q.code /\ p.spc = q.spc /\ p.enable = q.enable
    BY <1>2, <1>3, FieldsThere, Zenon
  <1>7. p.power \in {"IDLE", "IDLE_RC"}
    <2>1. p.power = IF "CONFIG" \in q.aon /\ q.ainit THEN "IDLE" ELSE a.power
      BY <1>2, <1>3, FieldsThere, Zenon
    <2> QED
      BY <1>1, <2>1 DEF ResetTo
  <1>8. p.atx2slp = ("CONFIG" \in q.aon /\ q.atx2slp)
    BY <1>2, <1>3, FieldsThere, Zenon
  <1>9. q.atx2slp = FALSE => p.atx2slp = FALSE
    BY <1>8
  <1>10. HasFields(p)
    BY <1>2, <1>5, ChangesKeep
  <1>11. /\ p.ev = a.ev /\ p.double = a.double /\ p.rearm = a.rearm /\ p.fill = a.fill
         /\ p.buf = a.buf /\ p.late = a.late /\ p.ops = a.ops /\ p.clocks = a.clocks
         /\ p.rf = a.rf /\ p.cb = a.cb /\ p.sts = a.sts /\ p.diag = a.diag /\ p.dbl = a.dbl
         /\ p.mode = a.mode
    BY <1>2, <1>5, FieldsThere, Zenon DEF Changes
  <1>12. /\ p.ev = {"SPIRDY", "RCINIT"}
         /\ p.double = FALSE /\ p.rearm = FALSE /\ p.fill = 0
         /\ p.buf = [b \in 0..1 |-> NoSlot] /\ p.late = FALSE /\ p.ops = "SHORT"
         /\ p.clocks = "AUTO" /\ p.rf = {}
         /\ p.cb = q.cb /\ p.sts = q.sts /\ p.diag = q.diag /\ p.dbl = q.dbl /\ p.mode = q.mode
    BY <1>1, <1>11, Zenon DEF ResetTo
  <1> QED
    BY <1>6, <1>7, <1>9, <1>10, <1>12, Zenon DEF p

\* The operating parameters are selected again.
LEMMA KickIs ==
  ASSUME NEW q, HasFields(q), NEW c, q.ops = "SHORT", q.mode \cap AltFlags = OpsFlags(OpsOf(c))
  PROVE  LET p == _dwt_kick_ops_table_on_wakeup(q)
         IN  Changes(q, p, {"ops"}) /\ p.ops = OpsOf(c)
  <1> DEFINE sel == q.mode \cap {"ALT_OPS", "SEL_OPS1", "SEL_OPS2"}
             new == CASE sel = {"ALT_OPS"} -> "LONG"
                      [] sel = {"ALT_OPS", "SEL_OPS1"} -> "SCP"
                      [] OTHER -> q.ops
  <1>1. sel = OpsFlags(OpsOf(c))
    BY DEF AltFlags
  <1>2. OpsOf(c) \in {"LONG", "SHORT", "SCP"}
    BY DEF OpsOf
  <1>3. new = OpsOf(c)
    <2>1. CASE OpsOf(c) = "LONG"
      BY <1>1, <2>1 DEF OpsFlags
    <2>2. CASE OpsOf(c) = "SCP"
      <3>1. sel = {"ALT_OPS", "SEL_OPS1"}
        BY <1>1, <2>2 DEF OpsFlags
      <3>2. "SEL_OPS1" \in sel
        BY <3>1
      <3>3. sel # {"ALT_OPS"}
        BY <3>2
      <3> QED
        BY <2>2, <3>1, <3>3
    <2>3. CASE OpsOf(c) = "SHORT"
      <3>1. sel = {}
        BY <1>1, <2>3 DEF OpsFlags
      <3>2. sel # {"ALT_OPS"} /\ sel # {"ALT_OPS", "SEL_OPS1"}
        BY <3>1
      <3> QED
        BY <2>3, <3>2
    <2> QED
      BY <1>2, <2>1, <2>2, <2>3
  <1>4. _dwt_kick_ops_table_on_wakeup(q) = [q EXCEPT !.ops = new]
    BY FieldsThere, Zenon DEF _dwt_kick_ops_table_on_wakeup
  <1> HIDE DEF new
  <1> QED
    BY <1>3, <1>4, FieldsThere, Zenon DEF Changes

\* dwt_restoreconfig.
RestoreChanges == {"ptrB", "ops", "gain"}

\* It selects the operating parameters, and loads the gain of a code that needs it.
LEMMA RestoreIs ==
  ASSUME NEW q, HasFields(q), NEW c, q.ops = "SHORT", TunedTo(q, c), c.chan \in Channels
  PROVE  LET p == dwt_restoreconfig(q)
         IN  /\ Changes(q, p, RestoreChanges) /\ p.ops = OpsOf(c)
             /\ c.txCode \in {16, 24} => p.gain = c.chan
             /\ p.gain \in {q.gain, c.chan}
  <1> DEFINE a == [q EXCEPT !.ptrB = TRUE]
             b == _dwt_kick_ops_table_on_wakeup(a)
             p == dwt_restoreconfig(q)
  <1>1. Changes(q, a, {"ptrB"})
    BY FieldsThere, Zenon DEF Changes
  <1>2. HasFields(a)
    BY <1>1, ChangesKeep
  <1>3. a.ops = q.ops /\ a.mode = q.mode
    BY <1>1, FieldsThere, Zenon DEF Changes
  <1>4. p = IF CodeRead(q.code) \in 9..24 THEN LoadGain(b, q.chan) ELSE b
    BY DEF dwt_restoreconfig
  <1> HIDE DEF a, p
  <1>5. Changes(a, b, {"ops"}) /\ b.ops = OpsOf(c)
    BY <1>2, <1>3, KickIs DEF TunedTo
  <1>6. HasFields(b)
    BY <1>2, <1>5, ChangesKeep
  <1> HIDE DEF b
  <1>7. Changes(b, LoadGain(b, q.chan), {"gain"}) /\ LoadGain(b, q.chan).gain = q.chan
    BY <1>6, LoadGainIs DEF TunedTo
  <1>8. Changes(b, p, {"gain"})
    BY <1>4, <1>7, ChangesNone
  <1>9. p.ops = b.ops
    BY <1>6, <1>8, FieldsThere, Zenon DEF Changes
  <1>10. Changes(q, p, RestoreChanges)
    <2>1. Changes(q, b, {"ptrB", "ops"})
      BY <1>1, <1>5, ChangesAdd
    <2> QED
      BY <1>8, <2>1, ChangesAdd DEF RestoreChanges
  <1>11. ASSUME c.txCode \in {16, 24}
         PROVE  p.gain = c.chan
    <2>1. CodeRead(q.code) \in 9..24
      <3>1. CodeRead(16) = 16 /\ CodeRead(24) = 24
        BY DEF CodeRead
      <3> QED
        BY <1>11, <3>1 DEF TunedTo
    <2> QED
      BY <1>4, <1>7, <2>1 DEF TunedTo
  <1>12. p.gain \in {q.gain, c.chan}
    <2>1. Changes(q, b, {"ptrB", "ops"})
      BY <1>1, <1>5, ChangesAdd
    <2>2. b.gain = q.gain
      BY <2>1, FieldsThere, Zenon DEF Changes
    <2> QED
      BY <1>4, <1>7, <2>2 DEF TunedTo
  <1> QED
    BY <1>5, <1>9, <1>10, <1>11, <1>12 DEF p

\* The events of a reception.
Arrived(q) == IF q.spc = "ND" THEN {"RXFR", "CIADONE"} ELSE ALL_RX_GOOD

SentChanges == {"ev", "late", "txerr", "w4r", "delayed", "txtime", "power"}

\* A transmission ends: nothing is on the air, or the receiver has opened.
LEMMA SentIs ==
  ASSUME NEW q, HasFields(q), NEW t
  PROVE  LET p == Sent(q, t)
         IN  /\ Changes(q, p, SentChanges) /\ p.power # "TX" /\ p.late = FALSE /\ p.w4r = FALSE
             /\ p.power = "RX" => Seen(p) = {} /\ q.w4r
             /\ p.power # "RX" => p.ev = q.ev \cup {"TXFRS"}
             /\ q.atx2slp = TRUE /\ "SLP_EN" \in q.wake /\ q.enable = {} => p.power = "SLEEP"
  <1> DEFINE a == [q EXCEPT !.ev = @ \cup {"TXFRS"}, !.late = FALSE, !.txerr = FALSE, !.w4r = FALSE,
                        !.delayed = FALSE, !.txtime = t, !.power = "IDLE"]
             s == [a EXCEPT !.power = "SLEEP"]
             p == Sent(q, t)
  <1>1. /\ Changes(q, a, SentChanges) /\ a.ev = q.ev \cup {"TXFRS"} /\ a.power = "IDLE"
        /\ a.late = FALSE /\ a.w4r = FALSE
    BY FieldsThere, Zenon DEF Changes, SentChanges
  <1>2. HasFields(a)
    BY <1>1, ChangesKeep
  <1>3. p = IF q.atx2slp /\ "SLP_EN" \in q.wake /\ ~IrqLine(a) THEN s
            ELSE IF q.w4r THEN SwitchOn(a) ELSE a
    BY DEF Sent
  <1>e. a.enable = q.enable
    BY <1>1, FieldsThere, Zenon DEF Changes, SentChanges
  <1> HIDE DEF a, p
  <1>4. Changes(a, s, {"power"}) /\ s.power = "SLEEP"
    BY <1>2, FieldsThere, Zenon DEF Changes
  <1>5. s.ev = a.ev /\ s.late = a.late /\ s.w4r = a.w4r
    BY <1>2, <1>4, FieldsThere, Zenon DEF Changes
  <1>6. Changes(q, s, SentChanges)
    BY <1>1, <1>4, ChangesAdd DEF SentChanges
  <1>7. /\ Changes(a, SwitchOn(a), {"power", "ev"}) /\ SwitchOn(a).power = "RX"
        /\ SwitchOn(a).ev = a.ev \ RxEvents
    BY <1>2, SwitchOnIs
  <1>g. SwitchOn(a).late = a.late /\ SwitchOn(a).w4r = a.w4r
    BY <1>2, <1>7, FieldsThere, Zenon DEF Changes
  <1>8. Changes(q, SwitchOn(a), SentChanges)
    BY <1>1, <1>7, ChangesAdd DEF SentChanges
  <1>9. Seen(SwitchOn(a)) = {}
    BY <1>7 DEF Seen
  <1> HIDE DEF s
  <1>10. Changes(q, p, SentChanges)
    BY <1>1, <1>3, <1>6, <1>8
  <1>11. p.power # "TX" /\ p.late = FALSE /\ p.w4r = FALSE
    BY <1>1, <1>3, <1>4, <1>5, <1>7, <1>g
  <1>12. p.power = "RX" => Seen(p) = {} /\ q.w4r
    BY <1>1, <1>3, <1>4, <1>9
  <1>13. p.power # "RX" => p.ev = q.ev \cup {"TXFRS"}
    BY <1>1, <1>3, <1>5, <1>7
  <1>14. q.atx2slp = TRUE /\ "SLP_EN" \in q.wake /\ q.enable = {} => p.power = "SLEEP"
    <2>1. q.enable = {} => ~IrqLine(a)
      BY <1>e DEF IrqLine
    <2> QED
      BY <1>3, <1>4, <2>1
  <1> QED
    BY <1>10, <1>11, <1>12, <1>13, <1>14, Zenon DEF p

ReceivedChanges == {"power", "reg", "buf", "ev", "good", "held", "fill"}

\* A received frame is in the buffer that was to be filled.
ReceivedAs(q, p, slot) ==
  /\ Changes(q, p, ReceivedChanges)
  /\ p.power = "IDLE" /\ p.reg = slot /\ p.ev = q.ev \cup Arrived(q)
  /\ DOMAIN p.buf = 0..1 /\ p.buf[q.fill] = slot
  /\ \A b \in 0..1 : b # q.fill => p.buf[b] = q.buf[b]
  /\ p.held = IF q.double THEN q.held \cup {q.fill} ELSE q.held
  /\ p.fill = IF q.double THEN 1 - q.fill ELSE q.fill

\* A reception into a buffer that is free.
LEMMA ReceivedIs ==
  ASSUME NEW q, HasFields(q), q.rearm = FALSE, q.fill \in 0..1, DOMAIN q.buf = 0..1,
         q.double \in BOOLEAN, q.double => q.fill \notin q.held, NEW slot
  PROVE  ReceivedAs(q, Received(q, slot), slot)
  <1> DEFINE p == Received(q, slot)
             power == IF q.rearm THEN "RX" ELSE "IDLE"
             events == IF q.spc = "ND" THEN {"RXFR", "CIADONE"} ELSE {"RXFR", "RXFCG", "CIADONE"}
             good == IF q.double THEN q.good \cup {q.fill} ELSE q.good
             held == IF q.double THEN q.held \cup {q.fill} ELSE q.held
             fill == IF q.double THEN 1 - q.fill ELSE q.fill
  <1>1. p = [q EXCEPT !.power = power, !.reg = slot, !.buf[q.fill] = slot,
                      !.ev = q.ev \cup events, !.good = good, !.held = held, !.fill = fill]
    <2>1. ~(q.double /\ q.fill \in q.held)
      OBVIOUS
    <2> QED
      BY <2>1, FieldsThere, Zenon DEF Received
  <1>2. power = "IDLE" /\ events = Arrived(q)
    BY DEF Arrived, ALL_RX_GOOD
  <1> HIDE DEF p, power, events, good, held, fill
  <1>3. Changes(q, p, ReceivedChanges)
    BY <1>1, Zenon DEF Changes, ReceivedChanges
  <1>4. p.power = power /\ p.reg = slot /\ p.ev = q.ev \cup events /\ p.held = held /\ p.fill = fill
    BY <1>1, FieldsThere, Zenon
  <1>5. p.buf = [q.buf EXCEPT ![q.fill] = slot]
    BY <1>1, FieldsThere, Zenon
  <1>6. /\ DOMAIN p.buf = 0..1 /\ p.buf[q.fill] = slot
        /\ \A b \in 0..1 : b # q.fill => p.buf[b] = q.buf[b]
    BY <1>5
  <1> QED
    BY <1>2, <1>3, <1>4, <1>6, Zenon DEF ReceivedAs, p, held, fill

\* A reception that fails, or does not come.
LEMMA FailedIs ==
  ASSUME NEW q, HasFields(q), NEW event
  PROVE  LET p == Failed(q, event)
         IN  Changes(q, p, {"power", "ev"}) /\ p.power = "IDLE" /\ p.ev = q.ev \cup {event}
  BY FieldsThere, Zenon DEF Failed, Changes

\* A buffer goes back to the chip.
LEMMA FreeIs ==
  ASSUME NEW q, HasFields(q)
  PROVE  LET p == dwt_signal_rx_buff_free(q)
         IN  /\ Changes(q, p, {"held", "dbl"})
             /\ p.held = q.held \ {CurrentBuffer(q)}
             /\ p.dbl = IF q.dbl = "BUF1" THEN "BUF0" ELSE "BUF1"
  <1> DEFINE b == CurrentBuffer(q)
  <1>1. dwt_signal_rx_buff_free(q) = [q EXCEPT !.held = @ \ {b},
            !.dbl = IF @ = "BUF1" THEN "BUF0" ELSE "BUF1"]
    BY DEF dwt_signal_rx_buff_free
  <1> HIDE DEF b
  <1> QED
    BY <1>1, FieldsThere, Zenon DEF Changes, b

\* A frame in a buffer, and what is read of it.
Slot(f) == [frame |-> f, time |-> f, sts |-> TRUE]

ReadingOf(f) == [data |-> f, diag |-> f, stamp |-> f, known |-> TRUE]

\* The driver reads two buffers, and of their sets a level that is named.
TwoBuffers(q) ==
  q.dbl \in {"BUF0", "BUF1"} /\ q.ptrB = TRUE /\ q.diag \in DOMAIN DiagnosticFields

\* What is read of the frame in the current of two buffers.
LEMMA ReadsTwo ==
  ASSUME NEW f, TwoBuffers(r), r.buf[CurrentBuffer(r)] = Slot(f)
  PROVE  Reading = ReadingOf(f)
  <1>1. RxSlot(r) = r.buf[CurrentBuffer(r)]
    BY DEF RxSlot, CurrentBuffer, TwoBuffers
  <1>f. /\ Slot(f).frame = f /\ Slot(f).time = f
    BY DEF Slot
  <1>3. dwt_readdiagnostics(r) =
          [of |-> f, read |-> DiagnosticFields[r.diag], filled |-> DiagnosticFields[r.diag]]
    BY <1>1, <1>f DEF dwt_readdiagnostics, SetDiagnostics, TwoBuffers
  <1>4. dwt_readrxdata(r) = f /\ dwt_readrxtimestamp(r) = f
    BY <1>1, <1>f DEF dwt_readrxdata, dwt_readrxtimestamp
  <1> DEFINE d == dwt_readdiagnostics(r)
  <1>5. d.of = f /\ (d.filled \subseteq d.read) = TRUE
    BY <1>3
  <1>6. Reading = [data |-> dwt_readrxdata(r), diag |-> d.of, stamp |-> dwt_readrxtimestamp(r),
                   known |-> d.filled \subseteq d.read]
    BY Zenon DEF Reading
  <1> HIDE DEF d
  <1> QED
    BY <1>4, <1>5, <1>6, Zenon DEF ReadingOf

\* What is read of the frame in the only buffer.
LEMMA ReadsOne ==
  ASSUME NEW f, r.dbl = "OFF", r.buf[0] = Slot(f),
         r.reg = Slot(f)
  PROVE  Reading = ReadingOf(f)
  <1>1. RxSlot(r) = r.reg
    BY DEF RxSlot
  <1>f. /\ Slot(f).frame = f /\ Slot(f).time = f
    BY DEF Slot
  <1>2. CurrentBuffer(r) = 0
    BY DEF CurrentBuffer
  <1> DEFINE fields == IF r.diag = "ALL" THEN AllFields ELSE AllFields \ {"power"}
  <1>a. RegisterDiagnostics(r) = [read |-> fields, filled |-> fields]
    BY DEF RegisterDiagnostics
  <1> HIDE DEF fields
  <1>3. dwt_readdiagnostics(r) = [of |-> f, read |-> fields, filled |-> fields]
    BY <1>1, <1>a, <1>f DEF dwt_readdiagnostics
  <1>4. dwt_readrxdata(r) = f /\ dwt_readrxtimestamp(r) = f
    BY <1>1, <1>2, <1>f DEF dwt_readrxdata, dwt_readrxtimestamp
  <1> DEFINE d == dwt_readdiagnostics(r)
  <1>5. d.of = f /\ (d.filled \subseteq d.read) = TRUE
    BY <1>3
  <1>6. Reading = [data |-> dwt_readrxdata(r), diag |-> d.of, stamp |-> dwt_readrxtimestamp(r),
                   known |-> d.filled \subseteq d.read]
    BY Zenon DEF Reading
  <1> HIDE DEF d
  <1> QED
    BY <1>4, <1>5, <1>6, Zenon DEF ReadingOf

(***************************************************************************)
(* The inductive invariant                                                 *)
(***************************************************************************)

Ready(ph) == ph \in {"configured", "restored"}

\* The interrupts the application enables.
EnableOf(q) == {"TXFRS", "RXERR", "RXTO"} \cup IF q.sts = "ND" THEN {"RXFR"} ELSE {"RXFCG"}

\* The settings of the radio are those of the configuration.
SettingFields == {"rearm", "atx2slp", "mode", "chan", "code", "cb", "sts", "spc", "enable", "ops",
                  "clocks", "gain", "rf"}

SettingsOK(q, ph, c) ==
  /\ HasFields(q) /\ q.rearm = FALSE /\ q.atx2slp = FALSE /\ c.chan \in Channels
  /\ ph # "test" => q.rf = {}
  /\ ph \in {"configured", "restored", "asleep"} =>
       TunedTo(q, c) /\ q.cb = TRUE /\ q.sts = q.spc /\ q.enable = EnableOf(q)
  /\ Ready(ph) => q.ops = OpsOf(c) /\ q.clocks = "AUTO"
  /\ ph = "configured" => q.gain = c.chan
  /\ ph = "restored" /\ c.txCode \in {16, 24} => q.gain = c.chan

\* Nothing is pending while the radio is on the air.
AirOK(q) ==
  /\ DOMAIN q.buf = 0..1
  /\ Seen(q) \in {{}, Arrived(q), {"RXERR"}, {"RXTO"}}
  /\ OnAir(q) => Seen(q) = {}

\* A radio that is not set up has nothing for the application.
IdleOK(q, ph, d) ==
  /\ ph \in {"reset", "initialised", "configured", "asleep", "restored", "test", "failed"}
  /\ ~Ready(ph) => d = 0 /\ ~OnAir(q) /\ Seen(q) = {}
  /\ ph = "asleep" => /\ q.power = "SLEEP" /\ "WAKE_CSN" \in q.wake /\ "CONFIG" \in q.aon
                      /\ q.dbl = "OFF" /\ ~IrqLine(q)
  /\ ph = "initialised" => q.cb = FALSE
  /\ ph \in {"failed", "test"} /\ q.cb = TRUE => ~IrqLine(q)

\* What dwt_isr read on entry and has not handled is still pending.
IsrPlaces == {"none", "tx", "ready", "good", "callback", "callback2", "free", "bad", "timeout"}

IsrOK(q, ph, i) ==
  /\ i.at \in IsrPlaces
  /\ i.at # "none" =>
       /\ ph \in {"reset", "configured", "restored"}
       /\ ~("RXOK" \in i.fstat /\ "RXERR" \in i.fstat)
       /\ ~("RXOK" \in i.fstat /\ "RXTO" \in i.fstat)
       /\ ~("RXERR" \in i.fstat /\ "RXTO" \in i.fstat)
       /\ i.at \in {"tx", "ready", "good"} /\ "RXOK" \in i.fstat => Seen(q) = Arrived(q)
       /\ i.at \in {"tx", "ready", "good", "bad"} /\ "RXERR" \in i.fstat => Seen(q) = {"RXERR"}
       /\ i.at \in {"tx", "ready", "good", "bad", "timeout"} /\ "RXTO" \in i.fstat =>
            Seen(q) = {"RXTO"}
       /\ i.at \in {"callback", "callback2", "free"} => "RXOK" \in i.fstat /\ Ready(ph)

\* One buffer: d frames of m are not read.
OneOK(q, at, d, m) ==
  /\ q.double = FALSE /\ q.fill = 0
  /\ at = "callback" => d = 1 /\ Seen(q) = {} /\ ~OnAir(q)
  /\ at = "callback2" => d = 0 /\ Seen(q) = {} /\ ~OnAir(q)
  /\ at \notin {"callback", "callback2"} =>
       (d = 0 /\ Seen(q) # Arrived(q)) \/ (d = 1 /\ Seen(q) = Arrived(q))
  /\ d = 1 => q.reg = Slot(m) /\ q.buf[0] = Slot(m)

\* Two buffers: each is given back after it was read.
TwoPlain(q, at, d, m) ==
  LET c == CurrentBuffer(q)
  IN  \/ d = 0 /\ q.held = {} /\ q.fill = c /\ Seen(q) # Arrived(q) /\ at # "callback"
      \/ /\ d = 1 /\ q.held = {c} /\ q.fill = 1 - c /\ q.buf[c] = Slot(m)
         /\ at = "callback" => Seen(q) = {} /\ ~OnAir(q)
         /\ at # "callback" => Seen(q) = Arrived(q)

TwoRead(q, all, m) ==
  LET c == CurrentBuffer(q)
  IN  \/ all = 1 /\ q.held = {c} /\ q.fill = 1 - c /\ Seen(q) # Arrived(q)
      \/ /\ all = 2 /\ q.held = {0, 1} /\ q.fill = c /\ Seen(q) = Arrived(q)
         /\ q.buf[1 - c] = Slot(m)

TwoOK(q, at, d, m) ==
  /\ q.double = TRUE /\ q.ptrB = TRUE /\ q.dbl \in {"BUF0", "BUF1"}
  /\ q.diag \in {"MIN", "MID", "MAX"}
  /\ at \notin {"callback2", "free"} => TwoPlain(q, at, d, m)
  /\ at = "callback2" => TwoRead(q, d, m) /\ q.buf[CurrentBuffer(q)] = Slot(m - d + 1)
  /\ at = "free" => TwoRead(q, d + 1, m)

FramesOK(q, ph, at, d, m) ==
  Ready(ph) => IF q.dbl = "OFF" THEN OneOK(q, at, d, m) ELSE TwoOK(q, at, d, m)

\* A transmission that is late is checked before it leaves.
LateOK(q, ph, chk) ==
  /\ chk \in BOOLEAN /\ (chk => Ready(ph))
  /\ q.power = "TX" /\ q.late = TRUE => chk = TRUE /\ Warned(q) /\ "TXFRS" \notin q.ev
  /\ q.power = "TX" => q.late \in BOOLEAN

AppOK(q, ph, c, i, chk, d, m) ==
  /\ SettingsOK(q, ph, c) /\ AirOK(q) /\ IdleOK(q, ph, d) /\ IsrOK(q, ph, i)
  /\ FramesOK(q, ph, i.at, d, m) /\ LateOK(q, ph, chk)

-----------------------------------------------------------------------------
(***************************************************************************)
(* What steps keep                                                         *)
(***************************************************************************)

\* The settings are kept by whatever does not change them.
LEMMA SettingsKept ==
  ASSUME NEW q, NEW p, NEW S, NEW ph, NEW c, SettingsOK(q, ph, c), Changes(q, p, S),
         S \cap SettingFields = {}
  PROVE  SettingsOK(p, ph, c)
  <1>1. HasFields(q)
    BY DEF SettingsOK
  <1>2. HasFields(p)
    BY <1>1, ChangesKeep
  <1>3. /\ p.rearm = q.rearm /\ p.atx2slp = q.atx2slp /\ p.mode = q.mode /\ p.chan = q.chan
        /\ p.code = q.code /\ p.cb = q.cb /\ p.sts = q.sts /\ p.spc = q.spc
        /\ p.enable = q.enable /\ p.ops = q.ops /\ p.clocks = q.clocks /\ p.gain = q.gain
        /\ p.rf = q.rf
    BY <1>1, FieldsThere, Zenon DEF Changes, SettingFields
  <1>4. TunedTo(q, c) => TunedTo(p, c)
    BY <1>3, Zenon DEF TunedTo
  <1>5. EnableOf(p) = EnableOf(q)
    BY <1>3 DEF EnableOf
  <1> QED
    BY <1>2, <1>3, <1>4, <1>5 DEF SettingsOK

FrameFields == {"dbl", "double", "fill", "held", "buf", "reg", "ptrB", "diag", "spc"}

\* The fields that say where frames are.
LEMMA FrameFieldsSame ==
  ASSUME NEW q, NEW p, NEW S, HasFields(q), Changes(q, p, S), S \cap FrameFields = {}
  PROVE  /\ p.dbl = q.dbl /\ p.double = q.double /\ p.fill = q.fill /\ p.held = q.held
         /\ p.buf = q.buf /\ p.reg = q.reg /\ p.ptrB = q.ptrB /\ p.diag = q.diag /\ p.spc = q.spc
         /\ CurrentBuffer(p) = CurrentBuffer(q) /\ Arrived(p) = Arrived(q)
  <1>1. /\ p.dbl = q.dbl /\ p.double = q.double /\ p.fill = q.fill /\ p.held = q.held
        /\ p.buf = q.buf /\ p.reg = q.reg /\ p.ptrB = q.ptrB /\ p.diag = q.diag /\ p.spc = q.spc
    BY FieldsThere, Zenon DEF Changes, FrameFields
  <1>2. CurrentBuffer(p) = CurrentBuffer(q) /\ Arrived(p) = Arrived(q)
    BY <1>1 DEF CurrentBuffer, Arrived
  <1> QED
    BY <1>1, <1>2

\* Frames stay where they are.
LEMMA FramesKept ==
  ASSUME NEW q, NEW p, NEW S, NEW ph, NEW at, NEW d, NEW m, HasFields(q), Changes(q, p, S),
         S \cap FrameFields = {}, FramesOK(q, ph, at, d, m), Seen(p) = Seen(q),
         OnAir(p) => OnAir(q)
  PROVE  FramesOK(p, ph, at, d, m)
  <1>1. /\ p.dbl = q.dbl /\ p.double = q.double /\ p.fill = q.fill /\ p.held = q.held
        /\ p.buf = q.buf /\ p.reg = q.reg /\ p.ptrB = q.ptrB /\ p.diag = q.diag /\ p.spc = q.spc
        /\ CurrentBuffer(p) = CurrentBuffer(q) /\ Arrived(p) = Arrived(q)
    BY FrameFieldsSame
  <1>2. OneOK(q, at, d, m) => OneOK(p, at, d, m)
    BY <1>1, Zenon DEF OneOK
  <1>3. TwoPlain(q, at, d, m) => TwoPlain(p, at, d, m)
    BY <1>1, Zenon DEF TwoPlain
  <1>4. \A all : TwoRead(q, all, m) => TwoRead(p, all, m)
    BY <1>1, Zenon DEF TwoRead
  <1>5. TwoOK(q, at, d, m) => TwoOK(p, at, d, m)
    BY <1>1, <1>3, <1>4, Zenon DEF TwoOK
  <1> QED
    BY <1>1, <1>2, <1>5, Zenon DEF FramesOK

\* Places of dwt_isr that say the same of the frames.
LEMMA FramesMoved ==
  ASSUME NEW q, NEW ph, NEW at, NEW to, NEW d, NEW m, FramesOK(q, ph, at, d, m),
         at \notin {"callback", "callback2", "free"}, to \notin {"callback", "callback2", "free"}
  PROVE  FramesOK(q, ph, to, d, m)
  BY Zenon DEF FramesOK, OneOK, TwoOK, TwoPlain

\* Nothing else of dwt_isr depends on the radio.
LEMMA IsrKept ==
  ASSUME NEW q, NEW p, NEW ph, NEW i, IsrOK(q, ph, i), Seen(p) = Seen(q), p.spc = q.spc
  PROVE  IsrOK(p, ph, i)
  <1>1. Arrived(p) = Arrived(q)
    BY DEF Arrived
  <1> QED
    BY <1>1 DEF IsrOK

\* When nothing interrupts, nothing is pending.
LEMMA QuietMeans ==
  ASSUME NEW q, NEW ph, NEW c, NEW i, NEW chk, NEW d, NEW m, AppOK(q, ph, c, i, chk, d, m),
         Ready(ph), i.at = "none", ~(q.cb /\ IrqLine(q))
  PROVE  Seen(q) = {} /\ d = 0 /\ "TXFRS" \notin q.ev
  <1>1. q.cb = TRUE /\ q.sts = q.spc /\ q.enable = EnableOf(q)
    BY DEF AppOK, SettingsOK, Ready
  <1>2. q.ev \cap EnableOf(q) = {}
    BY <1>1 DEF IrqLine
  <1>3. "TXFRS" \notin q.ev
    BY <1>2 DEF EnableOf
  <1>4. Seen(q) \in {{}, Arrived(q), {"RXERR"}, {"RXTO"}}
    BY DEF AppOK, AirOK
  <1>5. Seen(q) # {"RXERR"} /\ Seen(q) # {"RXTO"}
    BY <1>2 DEF EnableOf, Seen
  <1>6. Seen(q) # Arrived(q)
    BY <1>1, <1>2 DEF EnableOf, Seen, Arrived, ALL_RX_GOOD
  <1>7. Arrived(q) # {}
    BY DEF Arrived, ALL_RX_GOOD
  <1>8. d = 0
    BY <1>6 DEF AppOK, FramesOK, OneOK, TwoOK, TwoPlain
  <1> QED
    BY <1>3, <1>4, <1>5, <1>6, <1>8

(***************************************************************************)
(* Calls of the main thread                                                *)
(***************************************************************************)

\* A call that changes neither settings nor frames, and leaves nothing pending.
LEMMA CallKeeps ==
  ASSUME NEW q, NEW p, NEW S, NEW ph, NEW c, NEW i, NEW chk, NEW chk2, NEW d, NEW m,
         AppOK(q, ph, c, i, chk, d, m), Ready(ph), i.at = "none", Seen(q) = {},
         Changes(q, p, S), S \cap (SettingFields \cup FrameFields) = {}, Seen(p) = {},
         LateOK(p, ph, chk2)
  PROVE  AppOK(p, ph, c, i, chk2, d, m)
  <1>1. HasFields(q)
    BY DEF AppOK, SettingsOK
  <1>2. SettingsOK(p, ph, c)
    BY SettingsKept DEF AppOK
  <1>3. p.buf = q.buf /\ p.spc = q.spc /\ Arrived(p) = Arrived(q)
    BY <1>1, FrameFieldsSame
  <1>4. AirOK(p)
    BY <1>3 DEF AppOK, AirOK
  <1>5. IdleOK(p, ph, d)
    BY DEF AppOK, IdleOK, Ready
  <1>6. IsrOK(p, ph, i)
    BY <1>3, IsrKept DEF AppOK
  <1>7. FramesOK(p, ph, i.at, d, m)
    <2>1. /\ p.dbl = q.dbl /\ p.double = q.double /\ p.fill = q.fill /\ p.held = q.held
          /\ p.buf = q.buf /\ p.reg = q.reg /\ p.ptrB = q.ptrB /\ p.diag = q.diag
          /\ CurrentBuffer(p) = CurrentBuffer(q)
      BY <1>1, FrameFieldsSame
    <2> QED
      BY <1>3, <2>1 DEF AppOK, FramesOK, OneOK, TwoOK, TwoPlain
  <1> QED
    BY <1>2, <1>4, <1>5, <1>6, <1>7 DEF AppOK

\* dwt_rxenable,
LEMMA ListenKeeps ==
  ASSUME NEW q, NEW p, NEW ph, NEW c, NEW i, NEW d, NEW m, AppOK(q, ph, c, i, FALSE, d, m),
         Ready(ph), i.at = "none", ~(q.cb /\ IrqLine(q)), Listens(q, p)
  PROVE  AppOK(p, ph, c, i, FALSE, d, m)
  <1>1. Seen(q) = {}
    BY QuietMeans
  <1>2. Seen(p) = {} /\ p.power # "TX" /\ Changes(q, p, ListenChanges)
    BY <1>1 DEF Listens
  <1>3. LateOK(p, ph, FALSE)
    BY <1>2 DEF LateOK
  <1>4. ListenChanges \cap (SettingFields \cup FrameFields) = {}
    BY DEF ListenChanges, SettingFields, FrameFields
  <1> QED
    BY <1>1, <1>2, <1>3, <1>4, CallKeeps

\* dwt_forcetrxoff,
LEMMA StopKeeps ==
  ASSUME NEW q, NEW ph, NEW c, NEW i, NEW d, NEW m, AppOK(q, ph, c, i, FALSE, d, m),
         Ready(ph), i.at = "none", q.power = "RX"
  PROVE  AppOK(dwt_forcetrxoff(q), ph, c, i, FALSE, d, m)
  <1> DEFINE p == dwt_forcetrxoff(q)
             S == {"power", "w4r", "late", "txerr", "delayed"}
  <1>1. HasFields(q)
    BY DEF AppOK, SettingsOK
  <1>2. Changes(q, p, S) /\ p.power = "IDLE"
    BY <1>1, OffIs DEF dwt_forcetrxoff
  <1> HIDE DEF p
  <1>3. p.ev = q.ev
    BY <1>1, <1>2, FieldsThere, Zenon DEF Changes
  <1>4. Seen(q) = {} /\ Seen(p) = {}
    BY <1>3 DEF AppOK, AirOK, OnAir, Seen
  <1>5. LateOK(p, ph, FALSE)
    BY <1>2 DEF LateOK
  <1>6. S \cap (SettingFields \cup FrameFields) = {}
    BY DEF SettingFields, FrameFields
  <1>7. AppOK(p, ph, c, i, FALSE, d, m)
    BY <1>2, <1>4, <1>5, <1>6, CallKeeps
  <1> QED
    BY <1>7 DEF p

\* a transmission,
LEMMA SendKeeps ==
  ASSUME NEW q, NEW p, NEW ph, NEW c, NEW i, NEW d, NEW m, AppOK(q, ph, c, i, FALSE, d, m),
         Ready(ph), i.at = "none", ~(q.cb /\ IrqLine(q)), Sends(q, p), NEW chk \in BOOLEAN,
         chk = TRUE \/ p.late = FALSE
  PROVE  AppOK(p, ph, c, i, chk, d, m)
  <1>1. Seen(q) = {} /\ "TXFRS" \notin q.ev
    BY QuietMeans
  <1>2. Seen(p) = {} /\ "TXFRS" \notin p.ev
    BY <1>1 DEF Sends, Seen, RxEvents, ALL_RX_GOOD, ALL_RX_ERR, ALL_RX_TO
  <1>3. LateOK(p, ph, chk)
    BY <1>2 DEF LateOK, Sends
  <1>4. SendChanges \cap (SettingFields \cup FrameFields) = {}
    BY DEF SendChanges, SettingFields, FrameFields
  <1>5. Changes(q, p, SendChanges)
    BY DEF Sends
  <1> QED
    BY <1>1, <1>2, <1>3, <1>4, <1>5, CallKeeps

\* The check may come at any time.
LEMMA CheckKeeps ==
  ASSUME NEW q, NEW ph, NEW c, NEW i, NEW d, NEW m, AppOK(q, ph, c, i, TRUE, d, m),
         i.at = "none"
  PROVE  AppOK(CheckDelayed(q), ph, c, i, FALSE, d, m)
  <1> DEFINE p == CheckDelayed(q)
             S == {"power", "w4r", "late", "txerr", "delayed", "err"}
  <1>1. HasFields(q)
    BY DEF AppOK, SettingsOK
  <1>2. /\ Changes(q, p, S)
        /\ Warned(q) => ~OnAir(p)
        /\ ~Warned(q) => p.power = q.power /\ p.late = q.late
    BY <1>1, CheckIs
  <1> HIDE DEF p
  <1>3. p.ev = q.ev
    BY <1>1, <1>2, FieldsThere, Zenon DEF Changes
  <1>4. Seen(p) = Seen(q)
    BY <1>3 DEF Seen
  <1>5. Ready(ph)
    BY DEF AppOK, LateOK
  <1>6. S \cap SettingFields = {} /\ S \cap FrameFields = {}
    BY DEF SettingFields, FrameFields
  <1>7. OnAir(p) => OnAir(q)
    BY <1>2 DEF OnAir
  <1>8. SettingsOK(p, ph, c)
    BY <1>2, <1>6, SettingsKept DEF AppOK
  <1>9. FramesOK(p, ph, i.at, d, m)
    BY <1>1, <1>2, <1>4, <1>6, <1>7, FramesKept DEF AppOK
  <1>10. p.buf = q.buf /\ p.spc = q.spc /\ Arrived(p) = Arrived(q)
    BY <1>1, <1>2, <1>6, FrameFieldsSame
  <1>11. AirOK(p)
    BY <1>4, <1>7, <1>10 DEF AppOK, AirOK
  <1>12. IsrOK(p, ph, i)
    BY <1>4, <1>10, IsrKept DEF AppOK
  <1>13. IdleOK(p, ph, d)
    BY <1>5 DEF AppOK, IdleOK, Ready
  <1>14. LateOK(p, ph, FALSE)
    BY <1>2 DEF AppOK, LateOK, OnAir
  <1>15. AppOK(p, ph, c, i, FALSE, d, m)
    BY <1>8, <1>9, <1>11, <1>12, <1>13, <1>14 DEF AppOK
  <1> QED
    BY <1>15 DEF p

\* and a calibration.
LEMMA CalibrateKeeps ==
  ASSUME NEW q, NEW ph, NEW c, NEW i, NEW d, NEW m, NEW chan, AppOK(q, ph, c, i, FALSE, d, m),
         Ready(ph), i.at = "none"
  PROVE  AppOK(dwt_calcpgcount(q, chan), ph, c, i, FALSE, d, m)
  <1> DEFINE p == dwt_calcpgcount(q, chan)
             S == {"clocks", "rf"}
  <1>1. HasFields(q)
    BY DEF AppOK, SettingsOK
  <1>2. Changes(q, p, S) /\ p.rf = {} /\ p.clocks = "AUTO"
    BY <1>1, CalibrateIs
  <1> HIDE DEF p
  <1>3. p.ev = q.ev /\ p.power = q.power /\ p.late = q.late
    BY <1>1, <1>2, FieldsThere, Zenon DEF Changes
  <1>4. Seen(p) = Seen(q) /\ (OnAir(p) <=> OnAir(q))
    BY <1>3 DEF Seen, OnAir
  <1>5. S \cap FrameFields = {}
    BY DEF FrameFields
  <1>6. /\ p.rearm = q.rearm /\ p.atx2slp = q.atx2slp /\ p.mode = q.mode /\ p.chan = q.chan
        /\ p.code = q.code /\ p.cb = q.cb /\ p.sts = q.sts /\ p.spc = q.spc
        /\ p.enable = q.enable /\ p.ops = q.ops /\ p.gain = q.gain
    BY <1>1, <1>2, FieldsThere, Zenon DEF Changes
  <1>7. TunedTo(q, c) => TunedTo(p, c)
    BY <1>6, Zenon DEF TunedTo
  <1>8. HasFields(p)
    BY <1>1, <1>2, ChangesKeep
  <1>9. SettingsOK(p, ph, c)
    BY <1>2, <1>6, <1>7, <1>8 DEF AppOK, SettingsOK, EnableOf
  <1>10. FramesOK(p, ph, i.at, d, m)
    BY <1>1, <1>2, <1>4, <1>5, FramesKept DEF AppOK
  <1>11. p.buf = q.buf /\ p.spc = q.spc /\ Arrived(p) = Arrived(q)
    BY <1>1, <1>2, <1>5, FrameFieldsSame
  <1>12. AirOK(p)
    BY <1>4, <1>11 DEF AppOK, AirOK
  <1>13. IsrOK(p, ph, i)
    BY <1>4, <1>11, IsrKept DEF AppOK
  <1>14. IdleOK(p, ph, d)
    BY DEF AppOK, IdleOK, Ready
  <1>15. LateOK(p, ph, FALSE)
    BY <1>3 DEF AppOK, LateOK
  <1>16. AppOK(p, ph, c, i, FALSE, d, m)
    BY <1>9, <1>10, <1>12, <1>13, <1>14, <1>15 DEF AppOK
  <1> QED
    BY <1>16 DEF p

-----------------------------------------------------------------------------
(***************************************************************************)
(* Calls that end a phase                                                  *)
(***************************************************************************)

\* The main thread has nothing unread and nothing pending when it is quiet.
LEMMA Empty ==
  ASSUME NEW q, NEW ph, NEW c, NEW i, NEW chk, NEW d, NEW m, AppOK(q, ph, c, i, chk, d, m),
         i.at = "none", ~(q.cb /\ IrqLine(q))
  PROVE  d = 0 /\ Seen(q) = {} /\ HasFields(q)
  <1>1. HasFields(q)
    BY DEF AppOK, SettingsOK
  <1>2. CASE Ready(ph)
    BY <1>1, <1>2, QuietMeans
  <1>3. CASE ~Ready(ph)
    BY <1>1, <1>3 DEF AppOK, IdleOK
  <1> QED
    BY <1>2, <1>3

\* A radio that is not set up and of which nothing is expected.
LEMMA Unready ==
  ASSUME NEW p, NEW ph, NEW c, NEW i, NEW m, i.at = "none", HasFields(p),
         ph \in {"reset", "initialised", "test", "failed"}, p.rearm = FALSE, p.atx2slp = FALSE,
         c.chan \in Channels, ph # "test" => p.rf = {}, DOMAIN p.buf = 0..1,
         Seen(p) = {}, ~OnAir(p), ph = "initialised" => p.cb = FALSE,
         ph \in {"failed", "test"} /\ p.cb = TRUE => ~IrqLine(p)
  PROVE  AppOK(p, ph, c, i, FALSE, 0, m)
  BY DEF AppOK, SettingsOK, AirOK, IdleOK, IsrOK, IsrPlaces, FramesOK, LateOK, Ready, OnAir

\* dwt_initialise,
LEMMA InitialiseKeeps ==
  ASSUME NEW q, NEW c, NEW i, NEW d, NEW m, AppOK(q, "reset", c, i, FALSE, d, m), i.at = "none"
  PROVE  AppOK(dwt_initialise(q), "initialised", c, i, FALSE, d, m)
  <1> DEFINE p == dwt_initialise(q)
  <1>1. HasFields(q)
    BY DEF AppOK, SettingsOK
  <1>2. Changes(q, p, {"dbl", "mode", "sts", "cb", "err", "tuned", "dgcOtp"}) /\ p.cb = FALSE
    BY <1>1, InitialiseIs
  <1> HIDE DEF p
  <1>3. HasFields(p)
    BY <1>1, <1>2, ChangesKeep
  <1>4. /\ p.rearm = q.rearm /\ p.atx2slp = q.atx2slp /\ p.rf = q.rf /\ p.buf = q.buf
        /\ p.ev = q.ev /\ p.power = q.power
    BY <1>1, <1>2, FieldsThere, Zenon DEF Changes
  <1>5. d = 0 /\ ~OnAir(q) /\ Seen(q) = {}
    BY DEF AppOK, IdleOK, Ready
  <1>6. ~OnAir(p) /\ Seen(p) = {}
    BY <1>4, <1>5 DEF OnAir, Seen
  <1>7. AppOK(p, "initialised", c, i, FALSE, 0, m)
    <2>1. /\ q.rearm = FALSE /\ q.atx2slp = FALSE /\ c.chan \in Channels /\ q.rf = {}
          /\ DOMAIN q.buf = 0..1
      BY DEF AppOK, SettingsOK, AirOK
    <2> QED
      BY <1>2, <1>3, <1>4, <1>6, <2>1, Unready
  <1> QED
    BY <1>5, <1>7 DEF p

\* dwt_softreset,
LEMMA SoftResetKeeps ==
  ASSUME NEW q, NEW ph, NEW c, NEW i, NEW d, NEW m, AppOK(q, ph, c, i, FALSE, d, m),
         i.at = "none", ~(q.cb /\ IrqLine(q))
  PROVE  AppOK(dwt_softreset(q), "reset", c, i, FALSE, d, m)
  <1> DEFINE p == dwt_softreset(q)
  <1>1. d = 0 /\ Seen(q) = {} /\ HasFields(q)
    BY Empty
  <1>2. ResetTo(q, p)
    BY <1>1, SoftResetIs
  <1> HIDE DEF p
  <1>3. Seen(p) = {} /\ ~OnAir(p)
    BY <1>2 DEF ResetTo, Seen, OnAir, RxEvents, ALL_RX_GOOD, ALL_RX_ERR, ALL_RX_TO
  <1>4. AppOK(p, "reset", c, i, FALSE, 0, m)
    <2>1. c.chan \in Channels
      BY DEF AppOK, SettingsOK
    <2>2. DOMAIN p.buf = 0..1
      BY <1>2 DEF ResetTo
    <2> QED
      BY <1>2, <1>3, <2>1, <2>2, Unready DEF ResetTo
  <1> QED
    BY <1>1, <1>4 DEF p

\* and the test modes.
LEMMA TestKeeps ==
  ASSUME NEW q, NEW p, NEW c, NEW i, NEW d, NEW m, AppOK(q, "configured", c, i, FALSE, d, m),
         i.at = "none", q.power \in {"IDLE", "IDLE_RC"}, ~(q.cb /\ IrqLine(q)),
         Changes(q, p, {"clocks", "rf", "test"})
  PROVE  AppOK(p, "test", c, i, FALSE, d, m)
  <1>1. d = 0 /\ Seen(q) = {} /\ HasFields(q)
    BY Empty
  <1>2. /\ p.rearm = q.rearm /\ p.atx2slp = q.atx2slp /\ p.buf = q.buf /\ p.cb = q.cb
        /\ p.ev = q.ev /\ p.power = q.power /\ p.enable = q.enable
    BY <1>1, FieldsThere, Zenon DEF Changes
  <1>3. HasFields(p)
    BY <1>1, ChangesKeep
  <1>4. Seen(p) = {} /\ ~OnAir(p)
    BY <1>1, <1>2 DEF Seen, OnAir
  <1>5. q.cb = TRUE /\ ~IrqLine(p)
    BY <1>2 DEF AppOK, SettingsOK, IrqLine
  <1>6. /\ q.rearm = FALSE /\ q.atx2slp = FALSE /\ c.chan \in Channels /\ DOMAIN q.buf = 0..1
    BY DEF AppOK, SettingsOK, AirOK
  <1>7. AppOK(p, "test", c, i, FALSE, 0, m)
    BY <1>2, <1>3, <1>4, <1>5, <1>6, Unready
  <1> QED
    BY <1>1, <1>7

\* A configuration that fails.
LEMMA ConfigureFails ==
  ASSUME NEW q, NEW p, NEW ph, NEW c, NEW c2, NEW i, NEW d, NEW m,
         AppOK(q, ph, c, i, FALSE, d, m), ph \in {"initialised", "configured", "restored"},
         i.at = "none", q.power \in {"IDLE", "IDLE_RC"}, ~(q.cb /\ IrqLine(q)),
         c2.chan \in Channels, Configured(q, c2, p)
  PROVE  AppOK(p, "failed", c2, i, FALSE, d, m)
  <1>1. d = 0 /\ Seen(q) = {} /\ HasFields(q)
    BY Empty
  <1>2. Changes(q, p, ConfigureChanges) /\ p.power \in {q.power, "IDLE"}
        /\ p.ev \ {"CPLOCK"} = q.ev \ {"CPLOCK"}
    BY DEF Configured
  <1>3. HasFields(p)
    BY <1>1, <1>2, ChangesKeep
  <1>4. /\ p.rearm = q.rearm /\ p.atx2slp = q.atx2slp /\ p.buf = q.buf /\ p.cb = q.cb
        /\ p.enable = q.enable /\ p.rf = q.rf
    BY <1>1, <1>2, FieldsThere, Zenon DEF Changes, ConfigureChanges
  <1>5. Seen(p) = {}
    BY <1>1, <1>2 DEF Seen, RxEvents, ALL_RX_GOOD, ALL_RX_ERR, ALL_RX_TO
  <1>6. ~OnAir(p)
    BY <1>2 DEF OnAir
  <1>7. p.cb = TRUE => ~IrqLine(p)
    <2>1. CASE ph = "initialised"
      BY <1>4, <2>1 DEF AppOK, IdleOK
    <2>2. CASE ph \in {"configured", "restored"}
      <3>1. q.enable = EnableOf(q) /\ q.cb = TRUE
        BY <2>2 DEF AppOK, SettingsOK
      <3>2. "CPLOCK" \notin q.enable
        BY <3>1 DEF EnableOf
      <3> QED
        BY <1>2, <1>4, <3>1, <3>2 DEF IrqLine
    <2> QED
      BY <2>1, <2>2
  <1>8. q.rearm = FALSE /\ q.atx2slp = FALSE /\ DOMAIN q.buf = 0..1 /\ q.rf = {}
    BY DEF AppOK, SettingsOK, AirOK
  <1>9. AppOK(p, "failed", c2, i, FALSE, 0, m)
    BY <1>3, <1>4, <1>5, <1>6, <1>7, <1>8, Unready
  <1> QED
    BY <1>1, <1>9

EventsFor(c) == {"TXFRS", "RXERR", "RXTO"} \cup IF c.stsMode = "ND" THEN {"RXFR"} ELSE {"RXFCG"}

\* A configuration that succeeds, and what the application sets after it.
LEMMA ConfigureSucceeds ==
  ASSUME NEW q, NEW o, NEW ph, NEW c, NEW c2, NEW i, NEW d, NEW m,
         AppOK(q, ph, c, i, FALSE, d, m), ph \in {"initialised", "configured", "restored"},
         i.at = "none", q.power \in {"IDLE", "IDLE_RC"}, ~(q.cb /\ IrqLine(q)),
         c2.chan \in Channels, Configured(q, c2, o), ~o.err, NEW double \in BOOLEAN,
         NEW level, double = TRUE => level \in {"MIN", "MID", "MAX"}
  PROVE  AppOK(PreparedBy(o, EventsFor(c2), level, double), "configured", c2, i, FALSE, d, m)
  <1> DEFINE events == EventsFor(c2)
             p == PreparedBy(o, events, level, double)
  <1>1. d = 0 /\ Seen(q) = {} /\ HasFields(q)
    BY Empty
  <1>2. /\ Changes(q, o, ConfigureChanges) /\ o.power \in {q.power, "IDLE"}
        /\ TunedTo(o, c2) /\ o.ops = OpsOf(c2) /\ o.clocks = "AUTO"
        /\ o.sts = c2.stsMode /\ o.spc = c2.stsMode /\ o.gain = c2.chan
    BY DEF Configured
  <1>3. HasFields(o)
    BY <1>1, <1>2, ChangesKeep
  <1>4. /\ o.atx2slp = q.atx2slp /\ o.buf = q.buf /\ o.rf = q.rf
    BY <1>1, <1>2, FieldsThere, Zenon DEF Changes, ConfigureChanges
  <1> HIDE DEF events
  <1>x. Prepared(o, p, events, level, double)
    BY <1>3, PreparedIs
  <1> HIDE DEF p
  <1>5. /\ Changes(o, p, PrepareChanges)
        /\ p.held = {} /\ p.fill = 0 /\ p.ev = {} /\ p.cb = TRUE /\ p.enable = events
        /\ p.diag = level /\ p.double = double /\ p.rearm = FALSE
        /\ p.dbl = IF double THEN "BUF0" ELSE "OFF"
        /\ double => p.ptrB = TRUE
    BY <1>x DEF Prepared
  <1>6. HasFields(p)
    BY <1>3, <1>5, ChangesKeep
  <1>7. /\ p.atx2slp = o.atx2slp /\ p.buf = o.buf /\ p.rf = o.rf /\ p.mode = o.mode
        /\ p.chan = o.chan /\ p.code = o.code /\ p.sts = o.sts /\ p.spc = o.spc
        /\ p.ops = o.ops /\ p.clocks = o.clocks /\ p.gain = o.gain /\ p.power = o.power
    BY <1>3, <1>5, FieldsThere, Zenon DEF Changes, PrepareChanges
  <1>8. TunedTo(p, c2)
    BY <1>2, <1>7, Zenon DEF TunedTo
  <1>9. events = EnableOf(p)
    BY <1>2, <1>7 DEF EnableOf, EventsFor, events
  <1>10. q.atx2slp = FALSE /\ q.rf = {} /\ DOMAIN q.buf = 0..1
    BY DEF AppOK, SettingsOK, AirOK
  <1>11. SettingsOK(p, "configured", c2)
    <2>1. p.rearm = FALSE /\ p.atx2slp = FALSE /\ p.rf = {} /\ p.cb = TRUE
      BY <1>4, <1>5, <1>7, <1>10, Zenon
    <2>2. p.sts = p.spc /\ p.enable = EnableOf(p)
      BY <1>2, <1>5, <1>7, <1>9, Zenon
    <2>3. p.ops = OpsOf(c2) /\ p.clocks = "AUTO" /\ p.gain = c2.chan
      BY <1>2, <1>7, Zenon
    <2> QED
      BY <1>6, <1>8, <2>1, <2>2, <2>3 DEF SettingsOK, Ready
  <1>12. Seen(p) = {} /\ ~OnAir(p)
    BY <1>2, <1>5, <1>7 DEF Seen, OnAir
  <1>13. AirOK(p)
    BY <1>4, <1>7, <1>10, <1>12 DEF AirOK
  <1>14. IdleOK(p, "configured", 0)
    BY DEF IdleOK, Ready
  <1>15. IsrOK(p, "configured", i)
    BY DEF IsrOK, IsrPlaces
  <1>16. Arrived(p) # {}
    BY DEF Arrived, ALL_RX_GOOD
  <1>17. FramesOK(p, "configured", i.at, 0, m)
    <2>1. CASE double = TRUE
      <3>1. p.dbl = "BUF0" /\ p.double = TRUE /\ CurrentBuffer(p) = 0
        BY <1>5, <2>1 DEF CurrentBuffer
      <3>2. TwoPlain(p, i.at, 0, m)
        BY <1>5, <1>12, <1>16, <3>1 DEF TwoPlain
      <3>3. TwoOK(p, i.at, 0, m)
        BY <1>5, <2>1, <3>1, <3>2 DEF TwoOK
      <3> QED
        BY <3>1, <3>3 DEF FramesOK
    <2>2. CASE double = FALSE
      <3>1. p.dbl = "OFF" /\ p.double = FALSE
        BY <1>5, <2>2
      <3>2. OneOK(p, i.at, 0, m)
        BY <1>5, <1>12, <1>16, <3>1 DEF OneOK
      <3> QED
        BY <3>1, <3>2 DEF FramesOK
    <2> QED
      BY <2>1, <2>2
  <1>18. LateOK(p, "configured", FALSE)
    BY <1>12 DEF LateOK, OnAir
  <1>19. AppOK(p, "configured", c2, i, FALSE, 0, m)
    BY <1>11, <1>13, <1>14, <1>15, <1>17, <1>18 DEF AppOK
  <1> QED
    BY <1>1, <1>19 DEF p, events

\* The radio goes to sleep.
LEMMA SleepKeeps ==
  ASSUME NEW q, NEW c, NEW i, NEW d, NEW m, AppOK(q, "configured", c, i, FALSE, d, m),
         i.at = "none", ~(q.cb /\ IrqLine(q)), q.dbl = "OFF"
  PROVE  AppOK(dwt_entersleep(dwt_configuresleep(q, {"CONFIG"}, {"WAKE_CSN", "SLP_EN"}), "IDLE"),
               "asleep", c, i, FALSE, d, m)
  <1> DEFINE p == dwt_entersleep(dwt_configuresleep(q, {"CONFIG"}, {"WAKE_CSN", "SLP_EN"}), "IDLE")
             S == {"mode", "aon", "wake", "ainit", "power"}
  <1>1. d = 0 /\ Seen(q) = {} /\ HasFields(q)
    BY Empty
  <1>2. /\ Changes(q, p, S) /\ p.mode = q.mode \cup {"CONFIG"} /\ "CONFIG" \in p.aon
        /\ "WAKE_CSN" \in p.wake /\ p.power = "SLEEP"
    BY <1>1, SleepIs
  <1> HIDE DEF p
  <1>3. HasFields(p)
    BY <1>1, <1>2, ChangesKeep
  <1>4. /\ p.rearm = q.rearm /\ p.atx2slp = q.atx2slp /\ p.chan = q.chan
        /\ p.code = q.code /\ p.cb = q.cb /\ p.sts = q.sts /\ p.spc = q.spc
        /\ p.enable = q.enable /\ p.rf = q.rf /\ p.ev = q.ev /\ p.dbl = q.dbl /\ p.buf = q.buf
    BY <1>1, <1>2, FieldsThere, Zenon DEF Changes
  <1>5. /\ q.rearm = FALSE /\ q.atx2slp = FALSE /\ c.chan \in Channels /\ q.rf = {}
        /\ TunedTo(q, c) /\ q.cb = TRUE /\ q.sts = q.spc /\ q.enable = EnableOf(q)
        /\ DOMAIN q.buf = 0..1
    BY DEF AppOK, SettingsOK, AirOK
  <1>6. "CONFIG" \notin AltFlags
    BY DEF AltFlags
  <1>7. p.mode \cap AltFlags = q.mode \cap AltFlags
    BY <1>2, <1>6
  <1>8. TunedTo(p, c)
    BY <1>4, <1>5, <1>7, Zenon DEF TunedTo
  <1>9. SettingsOK(p, "asleep", c)
    BY <1>3, <1>4, <1>5, <1>8 DEF SettingsOK, EnableOf, Ready
  <1>10. Seen(p) = {} /\ ~OnAir(p)
    BY <1>1, <1>2, <1>4 DEF Seen, OnAir
  <1>11. AirOK(p)
    BY <1>4, <1>5, <1>10 DEF AirOK
  <1>12. IdleOK(p, "asleep", 0)
    BY <1>2, <1>4, <1>5, <1>10 DEF IdleOK, Ready, IrqLine
  <1>13. IsrOK(p, "asleep", i)
    BY DEF IsrOK, IsrPlaces
  <1>14. FramesOK(p, "asleep", i.at, 0, m) /\ LateOK(p, "asleep", FALSE)
    BY <1>2 DEF FramesOK, LateOK, Ready
  <1>15. AppOK(p, "asleep", c, i, FALSE, 0, m)
    BY <1>9, <1>11, <1>12, <1>13, <1>14 DEF AppOK
  <1> QED
    BY <1>1, <1>15 DEF p

\* The radio wakes up, and what it lost is restored.
LEMMA WakeKeeps ==
  ASSUME NEW q, NEW c, NEW i, NEW d, NEW m, AppOK(q, "asleep", c, i, FALSE, d, m),
         i.at = "none"
  PROVE  AppOK(dwt_restoreconfig(wakeup_device_with_io(q)), "restored", c, i, FALSE, d, m)
  <1> DEFINE o == Woken(q)
             p == dwt_restoreconfig(o)
  <1>1. /\ d = 0 /\ q.power = "SLEEP" /\ "WAKE_CSN" \in q.wake /\ "CONFIG" \in q.aon
        /\ q.dbl = "OFF"
    BY DEF AppOK, IdleOK, Ready
  <1>2. /\ HasFields(q) /\ q.atx2slp = FALSE /\ c.chan \in Channels
        /\ TunedTo(q, c) /\ q.cb = TRUE /\ q.sts = q.spc /\ q.enable = EnableOf(q)
    BY DEF AppOK, SettingsOK
  <1>3. dwt_restoreconfig(wakeup_device_with_io(q)) = p
    BY <1>1 DEF wakeup_device_with_io
  <1>4. /\ HasFields(o)
        /\ o.power \in {"IDLE", "IDLE_RC"} /\ o.ev = {"SPIRDY", "RCINIT"}
        /\ o.enable = q.enable /\ o.chan = q.chan /\ o.code = q.code /\ o.spc = q.spc
        /\ o.double = FALSE /\ o.rearm = FALSE /\ o.fill = 0
        /\ o.buf = [b \in 0..1 |-> NoSlot] /\ o.late = FALSE /\ o.ops = "SHORT"
        /\ o.clocks = "AUTO" /\ o.rf = {} /\ (q.atx2slp = FALSE => o.atx2slp = FALSE)
        /\ o.cb = q.cb /\ o.sts = q.sts /\ o.diag = q.diag /\ o.dbl = q.dbl /\ o.mode = q.mode
    BY <1>1, <1>2, WokenIs
  <1> HIDE DEF o
  <1>5. TunedTo(o, c)
    BY <1>2, <1>4, Zenon DEF TunedTo
  <1>6. /\ Changes(o, p, RestoreChanges) /\ p.ops = OpsOf(c)
        /\ c.txCode \in {16, 24} => p.gain = c.chan
    BY <1>2, <1>4, <1>5, RestoreIs
  <1> HIDE DEF p
  <1>7. HasFields(p)
    BY <1>4, <1>6, ChangesKeep
  <1>8. /\ p.rearm = o.rearm /\ p.atx2slp = o.atx2slp /\ p.chan = o.chan
        /\ p.code = o.code /\ p.cb = o.cb /\ p.sts = o.sts /\ p.spc = o.spc
        /\ p.enable = o.enable /\ p.rf = o.rf /\ p.ev = o.ev /\ p.dbl = o.dbl /\ p.buf = o.buf
    BY <1>4, <1>6, FieldsThere, Zenon DEF Changes, RestoreChanges
  <1>9. /\ p.mode = o.mode /\ p.double = o.double /\ p.fill = o.fill /\ p.power = o.power
        /\ p.clocks = o.clocks /\ p.late = o.late
    BY <1>4, <1>6, FieldsThere, Zenon DEF Changes, RestoreChanges
  <1>10. TunedTo(p, c)
    BY <1>5, <1>8, <1>9, Zenon DEF TunedTo
  <1>11. SettingsOK(p, "restored", c)
    BY <1>2, <1>4, <1>6, <1>7, <1>8, <1>9, <1>10 DEF SettingsOK, EnableOf, Ready
  <1>12. Seen(p) = {} /\ ~OnAir(p)
    BY <1>4, <1>8, <1>9 DEF Seen, OnAir, RxEvents, ALL_RX_GOOD, ALL_RX_ERR, ALL_RX_TO
  <1>13. DOMAIN p.buf = 0..1
    BY <1>4, <1>8
  <1>14. AirOK(p)
    BY <1>12, <1>13 DEF AirOK
  <1>15. IdleOK(p, "restored", 0) /\ IsrOK(p, "restored", i)
    BY DEF IdleOK, Ready, IsrOK, IsrPlaces
  <1>16. Arrived(p) # {}
    BY DEF Arrived, ALL_RX_GOOD
  <1>17. OneOK(p, i.at, 0, m)
    BY <1>4, <1>9, <1>12, <1>16 DEF OneOK
  <1>18. FramesOK(p, "restored", i.at, 0, m)
    BY <1>1, <1>4, <1>8, <1>17 DEF FramesOK
  <1>19. LateOK(p, "restored", FALSE)
    BY <1>12 DEF LateOK, OnAir
  <1>20. AppOK(p, "restored", c, i, FALSE, 0, m)
    BY <1>11, <1>14, <1>15, <1>18, <1>19 DEF AppOK
  <1> QED
    BY <1>1, <1>3, <1>20

\* A transmission that is late does not become one that was sent.
SendsNone(q, p) == "TXFRS" \in p.ev => q.power # "TX" \/ "TXFRS" \in q.ev

\* dwt_isr moves on; nothing of a reception changes.
LEMMA StepOn ==
  ASSUME NEW q, NEW p, NEW S, NEW ph, NEW c, NEW i, NEW i2, NEW chk, NEW d, NEW m,
         AppOK(q, ph, c, i, chk, d, m), Changes(q, p, S), S \subseteq {"ev"},
         p.ev \subseteq q.ev, Seen(p) = Seen(q), "HPDWARN" \in q.ev => "HPDWARN" \in p.ev,
         i.at \notin {"callback", "callback2", "free"}, i2.at \notin {"callback", "callback2", "free"},
         IsrOK(q, ph, i2)
  PROVE  AppOK(p, ph, c, i2, chk, d, m) /\ SendsNone(q, p)
  <1>1. HasFields(q)
    BY DEF AppOK, SettingsOK
  <1>2. S \cap SettingFields = {} /\ S \cap FrameFields = {}
    BY DEF SettingFields, FrameFields
  <1>3. /\ p.power = q.power /\ p.late = q.late /\ p.cb = q.cb /\ p.enable = q.enable
        /\ p.wake = q.wake /\ p.aon = q.aon /\ p.txerr = q.txerr
    BY <1>1, FieldsThere, Zenon DEF Changes
  <1>4. SettingsOK(p, ph, c)
    BY <1>2, SettingsKept DEF AppOK
  <1>5. /\ p.buf = q.buf /\ p.spc = q.spc /\ p.dbl = q.dbl /\ Arrived(p) = Arrived(q)
    BY <1>1, <1>2, FrameFieldsSame
  <1>6. OnAir(p) <=> OnAir(q)
    BY <1>3 DEF OnAir
  <1>7. AirOK(p)
    BY <1>5, <1>6 DEF AppOK, AirOK
  <1>8. IrqLine(p) => IrqLine(q)
    BY <1>3 DEF IrqLine
  <1>9. IdleOK(p, ph, d)
    BY <1>3, <1>5, <1>6, <1>8 DEF AppOK, IdleOK
  <1>10. IsrOK(p, ph, i2)
    BY <1>5, IsrKept
  <1>11. FramesOK(q, ph, i2.at, d, m)
    BY FramesMoved DEF AppOK
  <1>12. FramesOK(p, ph, i2.at, d, m)
    BY <1>1, <1>2, <1>6, <1>11, FramesKept
  <1>13. LateOK(p, ph, chk)
    BY <1>3 DEF AppOK, LateOK, Warned
  <1> QED
    BY <1>4, <1>7, <1>9, <1>10, <1>12, <1>13 DEF AppOK, SendsNone

\* On entry dwt_isr reads what is pending.
LEMMA EnterKeeps ==
  ASSUME NEW q, NEW ph, NEW c, NEW i, NEW i2, NEW chk, NEW d, NEW m,
         AppOK(q, ph, c, i, chk, d, m), i.at = "none", q.cb = TRUE, IrqLine(q), i2.at = "tx",
         i2.fstat = FintStat(q) \cup IF q.sts = "ND" /\ "RXFR" \in q.ev THEN {"RXOK"} ELSE {}
  PROVE  AppOK(q, ph, c, i2, chk, d, m) /\ SendsNone(q, q)
  <1>1. ph \in {"reset", "configured", "restored"}
    BY DEF AppOK, IdleOK
  <1>2. Seen(q) \in {{}, Arrived(q), {"RXERR"}, {"RXTO"}}
    BY DEF AppOK, AirOK
  <1>3. "RXOK" \in i2.fstat => Seen(q) = Arrived(q)
    <2>1. "RXOK" \in i2.fstat => "RXFCG" \in q.ev \/ "RXFR" \in q.ev
      BY DEF FintStat
    <2>2. "RXOK" \in i2.fstat => "RXFCG" \in Seen(q) \/ "RXFR" \in Seen(q)
      BY <2>1 DEF Seen, RxEvents, ALL_RX_GOOD
    <2> QED
      BY <1>2, <2>2
  <1>4. "RXERR" \in i2.fstat => Seen(q) = {"RXERR"}
    <2>1. "RXERR" \in i2.fstat => q.ev \cap {"RXERR", "RXSTO", "CIAERR"} # {}
      BY DEF FintStat, ALL_RX_ERR
    <2>2. "RXERR" \in i2.fstat => Seen(q) \cap {"RXERR", "RXSTO", "CIAERR"} # {}
      BY <2>1 DEF Seen, RxEvents, ALL_RX_ERR
    <2> QED
      BY <1>2, <2>2 DEF Arrived, ALL_RX_GOOD
  <1>5. "RXTO" \in i2.fstat => Seen(q) = {"RXTO"}
    <2>1. "RXTO" \in i2.fstat => "RXTO" \in q.ev
      BY DEF FintStat
    <2>2. "RXTO" \in i2.fstat => "RXTO" \in Seen(q)
      BY <2>1 DEF Seen, RxEvents, ALL_RX_TO
    <2> QED
      BY <1>2, <2>2 DEF Arrived, ALL_RX_GOOD
  <1>6. /\ Arrived(q) # {"RXERR"} /\ Arrived(q) # {"RXTO"} /\ {"RXERR"} # {"RXTO"}
    BY DEF Arrived, ALL_RX_GOOD
  <1>7. IsrOK(q, ph, i2)
    BY <1>1, <1>3, <1>4, <1>5, <1>6 DEF IsrOK, IsrPlaces
  <1> QED
    BY <1>7, ChangesNone, StepOn

\* Transmission done, and start-up.
LEMMA EventStep ==
  ASSUME NEW q, NEW ph, NEW c, NEW i, NEW i2, NEW chk, NEW d, NEW m,
         AppOK(q, ph, c, i, chk, d, m),
         (i.at = "tx" /\ i2.at = "ready") \/ (i.at = "ready" /\ i2.at = "good"),
         i2.fstat = i.fstat, NEW E \in {ALL_TX, {"RCINIT", "SPIRDY"}},
         NEW p \in {q, ClearEvents(q, E)}
  PROVE  AppOK(p, ph, c, i2, chk, d, m) /\ SendsNone(q, p)
  <1>1. HasFields(q)
    BY DEF AppOK, SettingsOK
  <1>2. IsrOK(q, ph, i2)
    BY DEF AppOK, IsrOK, IsrPlaces
  <1>3. CASE p = q
    BY <1>2, <1>3, ChangesNone, StepOn
  <1>4. CASE p = ClearEvents(q, E)
    <2>1. Changes(q, p, {"ev"}) /\ p.ev = q.ev \ E
      BY <1>1, <1>4, ClearIs
    <2>2. E \cap RxEvents = {} /\ "HPDWARN" \notin E
      BY DEF RxEvents, ALL_RX_GOOD, ALL_RX_ERR, ALL_RX_TO, ALL_TX
    <2>3. Seen(p) = Seen(q)
      BY <2>1, <2>2 DEF Seen
    <2> QED
      BY <1>2, <2>1, <2>2, <2>3, StepOn
  <1> QED
    BY <1>3, <1>4

\* A step of dwt_isr after which nothing is pending.
LEMMA StepClear ==
  ASSUME NEW q, NEW p, NEW S, NEW ph, NEW c, NEW i, NEW i2, NEW chk, NEW d, NEW d2, NEW m,
         AppOK(q, ph, c, i, chk, d, m), Ready(ph), Changes(q, p, S),
         S \cap (SettingFields \cup FrameFields) = {}, Seen(p) = {}, ~OnAir(q), p.power # "TX",
         FramesOK(p, ph, i2.at, d2, m), IsrOK(p, ph, i2)
  PROVE  AppOK(p, ph, c, i2, chk, d2, m) /\ SendsNone(q, p)
  <1>1. HasFields(q)
    BY DEF AppOK, SettingsOK
  <1>2. SettingsOK(p, ph, c)
    BY SettingsKept DEF AppOK
  <1>3. p.buf = q.buf
    BY <1>1, FrameFieldsSame
  <1>4. AirOK(p)
    BY <1>3 DEF AppOK, AirOK
  <1>5. IdleOK(p, ph, d2)
    BY DEF AppOK, IdleOK, Ready
  <1>6. LateOK(p, ph, chk)
    BY DEF AppOK, LateOK
  <1>7. SendsNone(q, p)
    BY DEF SendsNone, OnAir
  <1> QED
    BY <1>2, <1>4, <1>5, <1>6, <1>7 DEF AppOK

\* The events of a reception are cleared before its callback.
LEMMA GoodKeeps ==
  ASSUME NEW q, NEW a, NEW p, NEW E, NEW ph, NEW c, NEW i, NEW i2, NEW chk, NEW d, NEW m,
         AppOK(q, ph, c, i, chk, d, m), i.at = "good", "RXOK" \in i.fstat, i2.at = "callback",
         i2.fstat = i.fstat, Changes(q, a, {"good"}), p = ClearEvents(a, E), ALL_RX_GOOD \subseteq E
  PROVE  AppOK(p, ph, c, i2, chk, d, m) /\ SendsNone(q, p)
  <1>1. HasFields(q) /\ HasFields(a)
    <2>1. HasFields(q)
      BY DEF AppOK, SettingsOK
    <2> QED
      BY <2>1, ChangesKeep
  <1>2. a.ev = q.ev
    BY <1>1, FieldsThere, Zenon DEF Changes
  <1>3. Changes(a, p, {"ev"}) /\ p.ev = a.ev \ E
    BY <1>1, ClearIs
  <1>4. Changes(q, p, {"good", "ev"})
    BY <1>3, ChangesAdd
  <1>5. p.power = q.power
    BY <1>1, <1>4, FieldsThere, Zenon DEF Changes
  <1>6. Seen(q) = Arrived(q) /\ Arrived(q) # {}
    BY DEF AppOK, IsrOK, Arrived, ALL_RX_GOOD
  <1>7. Seen(p) = {}
    BY <1>2, <1>3, <1>6 DEF Seen, Arrived, ALL_RX_GOOD
  <1>8. Ready(ph)
    BY <1>6 DEF AppOK, IdleOK
  <1>9. ~OnAir(q)
    BY <1>6 DEF AppOK, AirOK
  <1>10. ~OnAir(p)
    BY <1>5, <1>9 DEF OnAir
  <1>11. {"good", "ev"} \cap SettingFields = {} /\ {"good", "ev"} \cap FrameFields = {}
    BY DEF SettingFields, FrameFields
  <1>12. /\ p.dbl = q.dbl /\ p.double = q.double /\ p.fill = q.fill /\ p.held = q.held
         /\ p.buf = q.buf /\ p.reg = q.reg /\ p.ptrB = q.ptrB /\ p.diag = q.diag /\ p.spc = q.spc
         /\ CurrentBuffer(p) = CurrentBuffer(q) /\ Arrived(p) = Arrived(q)
    BY <1>1, <1>4, <1>11, FrameFieldsSame
  <1>13. FramesOK(p, ph, i2.at, d, m)
    <2>1. FramesOK(q, ph, "good", d, m)
      BY DEF AppOK
    <2>2. CASE q.dbl = "OFF"
      <3>1. OneOK(q, "good", d, m)
        BY <1>8, <2>1, <2>2 DEF FramesOK
      <3>2. OneOK(p, "callback", d, m)
        BY <1>6, <1>7, <1>10, <1>12, <3>1 DEF OneOK
      <3> QED
        BY <1>12, <2>2, <3>2 DEF FramesOK
    <2>3. CASE q.dbl # "OFF"
      <3>1. TwoOK(q, "good", d, m)
        BY <1>8, <2>1, <2>3 DEF FramesOK
      <3>2. TwoPlain(q, "good", d, m)
        BY <3>1 DEF TwoOK
      <3>3. TwoPlain(p, "callback", d, m)
        BY <1>6, <1>7, <1>10, <1>12, <3>2 DEF TwoPlain
      <3>4. TwoOK(p, "callback", d, m)
        BY <1>12, <3>1, <3>3 DEF TwoOK
      <3> QED
        BY <1>12, <2>3, <3>4 DEF FramesOK
    <2> QED
      BY <2>2, <2>3
  <1>14. IsrOK(p, ph, i2)
    BY <1>8 DEF AppOK, IsrOK, IsrPlaces
  <1> QED
    BY <1>4, <1>7, <1>8, <1>9, <1>10, <1>11, <1>13, <1>14, StepClear DEF OnAir

\* A reception for which there is nothing to do.
LEMMA PassKeeps ==
  ASSUME NEW q, NEW ph, NEW c, NEW i, NEW i2, NEW chk, NEW d, NEW m,
         AppOK(q, ph, c, i, chk, d, m), i2.fstat = i.fstat,
         \/ i.at = "good" /\ i2.at = "bad"
         \/ i.at = "bad" /\ i2.at = "timeout" 
         \/ i.at = "timeout" /\ i2.at = "none"
  PROVE  AppOK(q, ph, c, i2, chk, d, m) /\ SendsNone(q, q)
  <1>1. IsrOK(q, ph, i2)
    BY DEF AppOK, IsrOK, IsrPlaces
  <1> QED
    BY <1>1, ChangesNone, StepOn

\* A frame stays where it is when what is pending is not a good reception.
LEMMA FramesUnseen ==
  ASSUME NEW q, NEW p, NEW S, NEW ph, NEW at, NEW d, NEW m, HasFields(q), Changes(q, p, S),
         S \cap FrameFields = {}, FramesOK(q, ph, at, d, m), Seen(q) # Arrived(q),
         Seen(p) # Arrived(p), at \notin {"callback", "callback2"} \/ OnAir(q)
  PROVE  FramesOK(p, ph, at, d, m)
  <1>1. /\ p.dbl = q.dbl /\ p.double = q.double /\ p.fill = q.fill /\ p.held = q.held
        /\ p.buf = q.buf /\ p.reg = q.reg /\ p.ptrB = q.ptrB /\ p.diag = q.diag /\ p.spc = q.spc
        /\ CurrentBuffer(p) = CurrentBuffer(q) /\ Arrived(p) = Arrived(q)
    BY FrameFieldsSame
  <1>2. OneOK(q, at, d, m) => OneOK(p, at, d, m)
    BY <1>1, Zenon DEF OneOK
  <1>3. TwoPlain(q, at, d, m) => TwoPlain(p, at, d, m)
    BY <1>1 DEF TwoPlain
  <1>4. \A all : TwoRead(q, all, m) => TwoRead(p, all, m)
    BY <1>1 DEF TwoRead
  <1>5. TwoOK(q, at, d, m) => TwoOK(p, at, d, m)
    BY <1>1, <1>3, <1>4, Zenon DEF TwoOK
  <1> QED
    BY <1>1, <1>2, <1>5, Zenon DEF FramesOK

\* A reception that failed or did not come: its events are cleared, and the receiver
\* switched on.
LEMMA AgainKeeps ==
  ASSUME NEW q, NEW ph, NEW c, NEW i, NEW i2, NEW chk, NEW d, NEW m, NEW E,
         AppOK(q, ph, c, i, chk, d, m), i2.fstat = i.fstat,
         \/ /\ i.at = "bad" /\ i2.at = "timeout" /\ "RXERR" \in i.fstat /\ E = ALL_RX_ERR
         \/ /\ i.at = "timeout" /\ i2.at = "none" /\ "RXTO" \in i.fstat /\ E = {"RXTO"}
  PROVE  LET p == dwt_rxenable(ClearEvents(q, E), "IMMEDIATE", FALSE)
         IN  AppOK(p, ph, c, i2, chk, d, m) /\ SendsNone(q, p)
  <1> DEFINE a == ClearEvents(q, E)
             p == dwt_rxenable(a, "IMMEDIATE", FALSE)
             S == ListenChanges
  <1>1. HasFields(q)
    BY DEF AppOK, SettingsOK
  <1>2. Changes(q, a, {"ev"}) /\ a.ev = q.ev \ E
    BY <1>1, ClearIs
  <1>3. HasFields(a)
    BY <1>1, <1>2, ChangesKeep
  <1>4. a.power = q.power
    BY <1>1, <1>2, FieldsThere, Zenon DEF Changes
  <1>5. (Seen(q) = {"RXERR"} /\ E = ALL_RX_ERR) \/ (Seen(q) = {"RXTO"} /\ E = {"RXTO"})
    <2>1. IsrOK(q, ph, i)
      BY DEF AppOK
    <2>2. CASE i.at = "bad" /\ "RXERR" \in i.fstat /\ E = ALL_RX_ERR
      BY <2>1, <2>2 DEF IsrOK
    <2>3. CASE i.at = "timeout" /\ "RXTO" \in i.fstat /\ E = {"RXTO"}
      BY <2>1, <2>3 DEF IsrOK
    <2> QED
      BY <2>2, <2>3
  <1>6. Seen(q) # {} /\ Seen(q) # Arrived(q)
    BY <1>5 DEF Arrived, ALL_RX_GOOD
  <1>7. Seen(a) = {}
    BY <1>2, <1>5 DEF Seen, ALL_RX_ERR
  <1>8. ~OnAir(q) /\ ~OnAir(a)
    BY <1>4, <1>6 DEF AppOK, AirOK, OnAir
  <1> HIDE DEF a
  <1>9. Listens(a, p)
    BY <1>3, <1>8, RxEnableIs
  <1> HIDE DEF p
  <1>10. Changes(q, p, ListenChanges)
    BY <1>2, <1>9, ChangesAdd DEF Listens, ListenChanges
  <1>11. Seen(p) = {} /\ p.power # "TX"
    BY <1>7, <1>9 DEF Listens
  <1>12. ListenChanges \cap SettingFields = {} /\ ListenChanges \cap FrameFields = {}
    BY DEF ListenChanges, SettingFields, FrameFields
  <1>13. Ready(ph)
    BY <1>6 DEF AppOK, IdleOK
  <1>14. Arrived(p) # {}
    BY DEF Arrived, ALL_RX_GOOD
  <1>15. FramesOK(q, ph, i2.at, d, m)
    BY FramesMoved DEF AppOK
  <1>16. FramesOK(p, ph, i2.at, d, m)
    BY <1>1, <1>6, <1>10, <1>11, <1>12, <1>14, <1>15, FramesUnseen
  <1>17. IsrOK(p, ph, i2)
    BY <1>13 DEF AppOK, IsrOK, IsrPlaces
  <1>18. AppOK(p, ph, c, i2, chk, d, m) /\ SendsNone(q, p)
    BY <1>8, <1>10, <1>11, <1>12, <1>13, <1>16, <1>17, StepClear
  <1> QED
    BY <1>18 DEF p, a

\* cbRxOk with one buffer: the frame is read, ...
LEMMA ReadFirst ==
  ASSUME NEW ph, NEW c, NEW i, NEW i2, NEW chk, NEW d, NEW m,
         AppOK(r, ph, c, i, chk, d, m), i.at = "callback", r.dbl = "OFF",
         i2.at = "callback2", i2.fstat = i.fstat
  PROVE  AppOK(r, ph, c, i2, chk, 0, m) /\ d = 1 /\ Reading = ReadingOf(m)
  <1>1. Ready(ph)
    BY DEF AppOK, IsrOK
  <1>2. OneOK(r, "callback", d, m)
    BY <1>1 DEF AppOK, FramesOK
  <1>3. d = 1 /\ Seen(r) = {} /\ ~OnAir(r) /\ r.reg = Slot(m) /\ r.buf[0] = Slot(m)
    BY <1>2 DEF OneOK
  <1>4. Reading = ReadingOf(m)
    BY <1>3, ReadsOne
  <1>5. OneOK(r, "callback2", 0, m)
    BY <1>2, <1>3 DEF OneOK
  <1>6. FramesOK(r, ph, i2.at, 0, m)
    BY <1>5 DEF FramesOK
  <1>7. IsrOK(r, ph, i2)
    BY <1>1 DEF AppOK, IsrOK, IsrPlaces
  <1>8. IdleOK(r, ph, 0)
    BY <1>1 DEF AppOK, IdleOK
  <1> QED
    BY <1>3, <1>4, <1>6, <1>7, <1>8 DEF AppOK

\* ... then the receiver is switched on.
LEMMA OnSecond ==
  ASSUME NEW q, NEW ph, NEW c, NEW i, NEW i2, NEW chk, NEW d, NEW m,
         AppOK(q, ph, c, i, chk, d, m), i.at = "callback2", q.dbl = "OFF",
         i2.at = "free", i2.fstat = i.fstat
  PROVE  LET p == dwt_rxenable(q, "IMMEDIATE", FALSE)
         IN  AppOK(p, ph, c, i2, chk, d, m) /\ SendsNone(q, p)
  <1> DEFINE p == dwt_rxenable(q, "IMMEDIATE", FALSE)
  <1>1. HasFields(q)
    BY DEF AppOK, SettingsOK
  <1>2. Ready(ph)
    BY DEF AppOK, IsrOK
  <1>3. OneOK(q, "callback2", d, m)
    BY <1>2 DEF AppOK, FramesOK
  <1>4. d = 0 /\ Seen(q) = {} /\ ~OnAir(q)
    BY <1>3 DEF OneOK
  <1>5. Listens(q, p)
    BY <1>1, <1>4, RxEnableIs
  <1> HIDE DEF p
  <1>6. Changes(q, p, ListenChanges) /\ Seen(p) = {} /\ p.power # "TX"
    BY <1>4, <1>5 DEF Listens
  <1>7. ListenChanges \cap SettingFields = {} /\ ListenChanges \cap FrameFields = {}
    BY DEF ListenChanges, SettingFields, FrameFields
  <1>8. p.double = q.double /\ p.fill = q.fill /\ p.dbl = q.dbl
    BY <1>1, <1>6, <1>7, FrameFieldsSame
  <1>9. Arrived(p) # {}
    BY DEF Arrived, ALL_RX_GOOD
  <1>10. OneOK(p, "free", d, m)
    BY <1>3, <1>4, <1>6, <1>8, <1>9 DEF OneOK
  <1>11. FramesOK(p, ph, i2.at, d, m)
    BY <1>8, <1>10 DEF FramesOK
  <1>12. IsrOK(p, ph, i2)
    BY <1>2 DEF AppOK, IsrOK, IsrPlaces
  <1>13. AppOK(p, ph, c, i2, chk, d, m) /\ SendsNone(q, p)
    BY <1>2, <1>4, <1>6, <1>7, <1>11, <1>12, StepClear
  <1> QED
    BY <1>13 DEF p

\* With two buffers the receiver is switched on, ...
LEMMA OnFirst ==
  ASSUME NEW q, NEW ph, NEW c, NEW i, NEW i2, NEW chk, NEW d, NEW m \in Nat,
         AppOK(q, ph, c, i, chk, d, m), i.at = "callback", q.dbl # "OFF",
         i2.at = "callback2", i2.fstat = i.fstat
  PROVE  LET p == dwt_rxenable(q, "IMMEDIATE", FALSE)
         IN  AppOK(p, ph, c, i2, chk, d, m) /\ SendsNone(q, p)
  <1> DEFINE p == dwt_rxenable(q, "IMMEDIATE", FALSE)
  <1>1. HasFields(q)
    BY DEF AppOK, SettingsOK
  <1>2. Ready(ph)
    BY DEF AppOK, IsrOK
  <1>3. TwoOK(q, "callback", d, m)
    BY <1>2 DEF AppOK, FramesOK
  <1>4. TwoPlain(q, "callback", d, m)
    BY <1>3 DEF TwoOK
  <1>5. d = 1 /\ Seen(q) = {} /\ ~OnAir(q) /\ q.buf[CurrentBuffer(q)] = Slot(m)
        /\ q.held = {CurrentBuffer(q)} /\ q.fill = 1 - CurrentBuffer(q)
    BY <1>4 DEF TwoPlain
  <1>6. Listens(q, p)
    BY <1>1, <1>5, RxEnableIs
  <1> HIDE DEF p
  <1>7. Changes(q, p, ListenChanges) /\ Seen(p) = {} /\ p.power # "TX"
    BY <1>5, <1>6 DEF Listens
  <1>8. ListenChanges \cap SettingFields = {} /\ ListenChanges \cap FrameFields = {}
    BY DEF ListenChanges, SettingFields, FrameFields
  <1>9. /\ p.dbl = q.dbl /\ p.double = q.double /\ p.fill = q.fill /\ p.held = q.held
        /\ p.buf = q.buf /\ p.ptrB = q.ptrB /\ p.diag = q.diag
        /\ CurrentBuffer(p) = CurrentBuffer(q)
    BY <1>1, <1>7, <1>8, FrameFieldsSame
  <1>10. Arrived(p) # {}
    BY DEF Arrived, ALL_RX_GOOD
  <1>11. TwoRead(p, d, m)
    BY <1>5, <1>7, <1>9, <1>10 DEF TwoRead
  <1>12. m - d + 1 = m
    BY <1>5
  <1>13. TwoOK(p, "callback2", d, m)
    BY <1>3, <1>5, <1>9, <1>11, <1>12 DEF TwoOK
  <1>14. FramesOK(p, ph, i2.at, d, m)
    BY <1>9, <1>13 DEF FramesOK
  <1>15. IsrOK(p, ph, i2)
    BY <1>2 DEF AppOK, IsrOK, IsrPlaces
  <1>16. AppOK(p, ph, c, i2, chk, d, m) /\ SendsNone(q, p)
    BY <1>2, <1>5, <1>7, <1>8, <1>14, <1>15, StepClear
  <1> QED
    BY <1>16 DEF p

\* ... then the frame is read.
LEMMA ReadSecond ==
  ASSUME NEW ph, NEW c, NEW i, NEW i2, NEW chk, NEW d, NEW m \in Nat,
         AppOK(r, ph, c, i, chk, d, m), i.at = "callback2", r.dbl # "OFF",
         i2.at = "free", i2.fstat = i.fstat
  PROVE  AppOK(r, ph, c, i2, chk, d - 1, m) /\ d \in 1..2 /\ Reading = ReadingOf(m - d + 1)
  <1>1. Ready(ph)
    BY DEF AppOK, IsrOK
  <1>2. TwoOK(r, "callback2", d, m)
    BY <1>1 DEF AppOK, FramesOK
  <1>3. TwoRead(r, d, m) /\ r.buf[CurrentBuffer(r)] = Slot(m - d + 1)
    BY <1>2 DEF TwoOK
  <1>4. d \in 1..2 /\ (d - 1) + 1 = d
    BY <1>3 DEF TwoRead
  <1>5. Reading = ReadingOf(m - d + 1)
    <2>1. PICK f : f = m - d + 1
      OBVIOUS
    <2>2. TwoBuffers(r)
      BY <1>2 DEF TwoOK, TwoBuffers, DiagnosticFields
    <2>3. r.buf[CurrentBuffer(r)] = Slot(f)
      BY <1>3, <2>1
    <2>4. Reading = ReadingOf(f)
      BY <2>2, <2>3, ReadsTwo
    <2> QED
      BY <2>1, <2>4
  <1>6. TwoOK(r, "free", d - 1, m)
    BY <1>2, <1>3, <1>4 DEF TwoOK
  <1>7. FramesOK(r, ph, i2.at, d - 1, m)
    BY <1>6 DEF FramesOK
  <1>8. IsrOK(r, ph, i2)
    BY <1>1 DEF AppOK, IsrOK, IsrPlaces
  <1>9. IdleOK(r, ph, d - 1)
    BY <1>1 DEF AppOK, IdleOK
  <1> QED
    BY <1>4, <1>5, <1>7, <1>8, <1>9 DEF AppOK

\* The buffer that was read goes back to the chip.
LEMMA FreeKeeps ==
  ASSUME NEW q, NEW ph, NEW c, NEW i, NEW i2, NEW chk, NEW d \in Nat, NEW m,
         AppOK(q, ph, c, i, chk, d, m), i.at = "free", i2.at = "bad", i2.fstat = i.fstat,
         NEW p, p = IF q.dbl # "OFF" THEN dwt_signal_rx_buff_free(q) ELSE q
  PROVE  AppOK(p, ph, c, i2, chk, d, m) /\ SendsNone(q, p)
  <1>1. HasFields(q)
    BY DEF AppOK, SettingsOK
  <1>2. Ready(ph) /\ IsrOK(q, ph, i2)
    BY DEF AppOK, IsrOK, IsrPlaces
  <1>3. CASE q.dbl = "OFF"
    <2>1. OneOK(q, "free", d, m)
      BY <1>2, <1>3 DEF AppOK, FramesOK
    <2>2. OneOK(q, "bad", d, m)
      BY <2>1 DEF OneOK
    <2>3. FramesOK(q, ph, i2.at, d, m)
      BY <1>3, <2>2 DEF FramesOK
    <2> QED
      BY <1>2, <1>3, <2>3 DEF AppOK, SendsNone
  <1>4. CASE q.dbl # "OFF"
    <2>1. TwoOK(q, "free", d, m)
      BY <1>2, <1>4 DEF AppOK, FramesOK
    <2>2. TwoRead(q, d + 1, m) /\ q.dbl \in {"BUF0", "BUF1"}
      BY <2>1 DEF TwoOK
    <2>3. /\ Changes(q, p, {"held", "dbl"})
          /\ p.held = q.held \ {CurrentBuffer(q)}
          /\ p.dbl = IF q.dbl = "BUF1" THEN "BUF0" ELSE "BUF1"
      BY <1>1, <1>4, FreeIs
    <2>4. /\ p.double = q.double /\ p.fill = q.fill /\ p.buf = q.buf /\ p.ptrB = q.ptrB
          /\ p.diag = q.diag /\ p.spc = q.spc /\ p.ev = q.ev /\ p.power = q.power
          /\ p.late = q.late /\ p.txerr = q.txerr
      BY <1>1, <2>3, FieldsThere, Zenon DEF Changes
    <2>5. Seen(p) = Seen(q) /\ Arrived(p) = Arrived(q) /\ (OnAir(p) <=> OnAir(q))
      BY <2>4 DEF Seen, Arrived, OnAir
    <2>6. CurrentBuffer(q) \in 0..1 /\ CurrentBuffer(p) = 1 - CurrentBuffer(q)
          /\ p.dbl \in {"BUF0", "BUF1"}
      BY <2>2, <2>3 DEF CurrentBuffer
    <2>7. TwoPlain(p, "bad", d, m)
      <3> DEFINE b == CurrentBuffer(q)
                 b2 == CurrentBuffer(p)
      <3>1. CASE d + 1 = 1
        <4>1. q.held = {b} /\ q.fill = 1 - b /\ Seen(q) # Arrived(q)
          BY <2>2, <3>1 DEF TwoRead
        <4>2. d = 0
          BY <3>1
        <4> QED
          BY <2>3, <2>4, <2>5, <2>6, <4>1, <4>2 DEF TwoPlain
      <3>2. CASE d + 1 = 2
        <4>1. q.held = {0, 1} /\ q.fill = b /\ Seen(q) = Arrived(q) /\ q.buf[1 - b] = Slot(m)
          BY <2>2, <3>2 DEF TwoRead
        <4>2. d = 1
          BY <3>2
        <4>3. p.held = {b2} /\ q.fill = 1 - b2
          BY <2>3, <2>6, <4>1
        <4> QED
          BY <2>4, <2>5, <2>6, <4>1, <4>2, <4>3 DEF TwoPlain
      <3> QED
        BY <2>2, <3>1, <3>2 DEF TwoRead
    <2>8. TwoOK(p, "bad", d, m)
      BY <2>1, <2>4, <2>6, <2>7 DEF TwoOK
    <2>9. FramesOK(p, ph, i2.at, d, m)
      BY <2>6, <2>8 DEF FramesOK
    <2>10. {"held", "dbl"} \cap SettingFields = {}
      BY DEF SettingFields
    <2>11. SettingsOK(p, ph, c)
      BY <2>3, <2>10, SettingsKept DEF AppOK
    <2>12. AirOK(p)
      BY <2>4, <2>5 DEF AppOK, AirOK
    <2>13. IsrOK(p, ph, i2)
      BY <1>2, <2>4, <2>5, IsrKept
    <2>14. IdleOK(p, ph, d)
      BY <1>2 DEF AppOK, IdleOK, Ready
    <2>15. LateOK(p, ph, chk)
      BY <2>4 DEF AppOK, LateOK, Warned
    <2> QED
      BY <2>4, <2>9, <2>11, <2>12, <2>13, <2>14, <2>15 DEF AppOK, SendsNone
  <1> QED
    BY <1>3, <1>4

\* A transmission ends.
LEMMA SentKeeps ==
  ASSUME NEW q, NEW ph, NEW c, NEW i, NEW chk, NEW d, NEW m, NEW t,
         AppOK(q, ph, c, i, chk, d, m), q.power = "TX"
  PROVE  AppOK(Sent(q, t), ph, c, i, chk, d, m)
  <1> DEFINE p == Sent(q, t)
  <1>1. HasFields(q)
    BY DEF AppOK, SettingsOK
  <1>2. /\ Changes(q, p, SentChanges) /\ p.power # "TX"
        /\ p.power = "RX" => Seen(p) = {}
        /\ p.power # "RX" => p.ev = q.ev \cup {"TXFRS"}
    BY <1>1, SentIs
  <1> HIDE DEF p
  <1>3. OnAir(q) /\ Seen(q) = {} /\ Ready(ph)
    BY DEF AppOK, AirOK, IdleOK, OnAir
  <1>4. Seen(p) = {}
    BY <1>2, <1>3 DEF Seen, RxEvents, ALL_RX_GOOD, ALL_RX_ERR, ALL_RX_TO
  <1>5. SentChanges \cap SettingFields = {} /\ SentChanges \cap FrameFields = {}
    BY DEF SentChanges, SettingFields, FrameFields
  <1>6. SettingsOK(p, ph, c)
    BY <1>2, <1>5, SettingsKept DEF AppOK
  <1>7. FramesOK(p, ph, i.at, d, m)
    BY <1>1, <1>2, <1>3, <1>4, <1>5, FramesKept DEF AppOK
  <1>8. p.buf = q.buf /\ p.spc = q.spc
    BY <1>1, <1>2, <1>5, FrameFieldsSame
  <1>9. AirOK(p)
    BY <1>4, <1>8 DEF AppOK, AirOK
  <1>10. IsrOK(p, ph, i)
    BY <1>3, <1>4, <1>8, IsrKept DEF AppOK
  <1>11. IdleOK(p, ph, d)
    BY <1>3 DEF AppOK, IdleOK, Ready
  <1>12. LateOK(p, ph, chk)
    BY <1>2 DEF AppOK, LateOK
  <1>13. AppOK(p, ph, c, i, chk, d, m)
    BY <1>6, <1>7, <1>9, <1>10, <1>11, <1>12 DEF AppOK
  <1> QED
    BY <1>13 DEF p

\* A reception fails, or nothing comes in time.
LEMMA FailedKeeps ==
  ASSUME NEW q, NEW ph, NEW c, NEW i, NEW chk, NEW d, NEW m, NEW event \in {"RXERR", "RXTO"},
         AppOK(q, ph, c, i, chk, d, m), q.power = "RX"
  PROVE  AppOK(Failed(q, event), ph, c, i, chk, d, m)
  <1> DEFINE p == Failed(q, event)
             S == {"power", "ev"}
  <1>1. HasFields(q)
    BY DEF AppOK, SettingsOK
  <1>2. Changes(q, p, S) /\ p.power = "IDLE" /\ p.ev = q.ev \cup {event}
    BY <1>1, FailedIs
  <1> HIDE DEF p
  <1>3. OnAir(q) /\ Seen(q) = {} /\ Ready(ph)
    BY DEF AppOK, AirOK, IdleOK, OnAir
  <1>4. Seen(p) = {event}
    BY <1>2, <1>3 DEF Seen, RxEvents, ALL_RX_GOOD, ALL_RX_ERR, ALL_RX_TO
  <1>5. S \cap SettingFields = {} /\ S \cap FrameFields = {}
    BY DEF SettingFields, FrameFields
  <1>6. SettingsOK(p, ph, c)
    BY <1>2, <1>5, SettingsKept DEF AppOK
  <1>7. Arrived(q) # {} /\ Arrived(p) # {event}
    BY DEF Arrived, ALL_RX_GOOD
  <1>8. FramesOK(p, ph, i.at, d, m)
    BY <1>1, <1>2, <1>3, <1>4, <1>5, <1>7, FramesUnseen DEF AppOK
  <1>9. p.buf = q.buf /\ p.spc = q.spc
    BY <1>1, <1>2, <1>5, FrameFieldsSame
  <1>10. AirOK(p)
    BY <1>2, <1>4, <1>9 DEF AppOK, AirOK, OnAir
  <1>11. IsrOK(p, ph, i)
    BY <1>3, <1>7 DEF AppOK, IsrOK
  <1>12. IdleOK(p, ph, d)
    BY <1>3 DEF AppOK, IdleOK, Ready
  <1>13. LateOK(p, ph, chk)
    BY <1>2 DEF AppOK, LateOK
  <1>14. AppOK(p, ph, c, i, chk, d, m)
    BY <1>6, <1>8, <1>10, <1>11, <1>12, <1>13 DEF AppOK
  <1> QED
    BY <1>14 DEF p

\* While the radio listens, the buffer the chip fills is free.
LEMMA FillIsFree ==
  ASSUME NEW q, NEW ph, NEW c, NEW i, NEW chk, NEW d, NEW m,
         AppOK(q, ph, c, i, chk, d, m), q.power = "RX"
  PROVE  /\ Ready(ph) /\ Seen(q) = {} /\ q.rearm = FALSE /\ DOMAIN q.buf = 0..1
         /\ q.fill \in 0..1 /\ q.double \in BOOLEAN
         /\ q.double => q.fill \notin q.held
  <1>1. Ready(ph) /\ Seen(q) = {} /\ DOMAIN q.buf = 0..1 /\ q.rearm = FALSE /\ OnAir(q)
    BY DEF AppOK, AirOK, IdleOK, OnAir, SettingsOK
  <1>2. Arrived(q) # {}
    BY DEF Arrived, ALL_RX_GOOD
  <1>3. CASE q.dbl = "OFF"
    <2>1. q.double = FALSE /\ q.fill = 0
      BY <1>1, <1>3 DEF AppOK, FramesOK, OneOK
    <2>2. q.fill \in 0..1
      BY <2>1
    <2> QED
      BY <1>1, <2>1, <2>2
  <1>4. CASE q.dbl # "OFF"
    <2> DEFINE b == CurrentBuffer(q)
    <2>1. TwoOK(q, i.at, d, m)
      BY <1>1, <1>4 DEF AppOK, FramesOK
    <2>2. b \in 0..1
      BY DEF CurrentBuffer
    <2>3. \/ q.held = {} /\ q.fill = b
          \/ q.held = {b} /\ q.fill = 1 - b
      BY <1>1, <1>2, <2>1 DEF TwoOK, TwoPlain, TwoRead
    <2>4. q.fill \in 0..1 /\ q.fill \notin q.held
      BY <2>2, <2>3
    <2>5. q.double = TRUE
      BY <2>1 DEF TwoOK
    <2> QED
      BY <1>1, <2>4, <2>5
  <1> QED
    BY <1>3, <1>4

\* A reception: one more frame is there, and none was lost.
LEMMA ReceivedKeeps ==
  ASSUME NEW q, NEW ph, NEW c, NEW i, NEW chk, NEW d \in Nat, NEW m \in Nat,
         AppOK(q, ph, c, i, chk, d, m), q.power = "RX"
  PROVE  LET p == Received(q, Slot(m + 1))
         IN  AppOK(p, ph, c, i, chk, d + 1, m + 1) /\ p.reg = Slot(m + 1)
  <1> DEFINE n == m + 1
             p == Received(q, Slot(n))
  <1>1. HasFields(q)
    BY DEF AppOK, SettingsOK
  <1>2. /\ Ready(ph) /\ Seen(q) = {} /\ q.rearm = FALSE /\ DOMAIN q.buf = 0..1
        /\ q.fill \in 0..1 /\ q.double \in BOOLEAN
        /\ q.double => q.fill \notin q.held
    BY FillIsFree
  <1>3. /\ Changes(q, p, ReceivedChanges)
        /\ p.power = "IDLE" /\ p.reg = Slot(n) /\ p.ev = q.ev \cup Arrived(q)
        /\ DOMAIN p.buf = 0..1 /\ p.buf[q.fill] = Slot(n)
        /\ \A b \in 0..1 : b # q.fill => p.buf[b] = q.buf[b]
        /\ p.held = IF q.double THEN q.held \cup {q.fill} ELSE q.held
        /\ p.fill = IF q.double THEN 1 - q.fill ELSE q.fill
    <2>1. ReceivedAs(q, p, Slot(n))
      BY <1>1, <1>2, ReceivedIs, Zenon
    <2> QED
      BY <2>1 DEF ReceivedAs
  <1> HIDE DEF p
  <1>4. /\ p.dbl = q.dbl /\ p.double = q.double /\ p.ptrB = q.ptrB /\ p.diag = q.diag
        /\ p.spc = q.spc
    BY <1>1, <1>3, FieldsThere, Zenon DEF Changes, ReceivedChanges
  <1>5. Arrived(p) = Arrived(q) /\ CurrentBuffer(p) = CurrentBuffer(q) /\ Arrived(q) # {}
    BY <1>4 DEF Arrived, CurrentBuffer, ALL_RX_GOOD
  <1>6. Arrived(q) \subseteq RxEvents
    BY DEF Arrived, RxEvents, ALL_RX_GOOD
  <1>7. Seen(p) = Arrived(p)
    BY <1>2, <1>3, <1>5, <1>6 DEF Seen
  <1>8. ReceivedChanges \cap SettingFields = {}
    BY DEF ReceivedChanges, SettingFields
  <1>9. SettingsOK(p, ph, c)
    BY <1>3, <1>8, SettingsKept DEF AppOK
  <1>10. OnAir(q) /\ ~OnAir(p)
    BY <1>3 DEF OnAir
  <1>11. AirOK(p)
    BY <1>3, <1>7, <1>10 DEF AirOK
  <1>12. IdleOK(p, ph, d + 1)
    BY <1>2 DEF AppOK, IdleOK, Ready
  <1>13. IsrOK(p, ph, i)
    BY <1>2, <1>5 DEF AppOK, IsrOK
  <1>14. LateOK(p, ph, chk)
    BY <1>3 DEF AppOK, LateOK
  <1>15. FramesOK(p, ph, i.at, d + 1, n)
    <2>1. CASE q.dbl = "OFF"
      <3>1. OneOK(q, i.at, d, m)
        BY <1>2, <2>1 DEF AppOK, FramesOK
      <3>2. i.at \notin {"callback", "callback2"} /\ d = 0 /\ q.double = FALSE /\ q.fill = 0
        BY <1>2, <1>5, <1>10, <3>1 DEF OneOK
      <3>3. p.fill = 0 /\ p.double = FALSE /\ p.buf[0] = Slot(n)
        BY <1>3, <1>4, <3>2
      <3>4. OneOK(p, i.at, d + 1, n)
        BY <1>3, <1>7, <3>2, <3>3 DEF OneOK
      <3> QED
        BY <1>4, <2>1, <3>4 DEF FramesOK
    <2>2. CASE q.dbl # "OFF"
      <3> DEFINE b == CurrentBuffer(q)
      <3>1. TwoOK(q, i.at, d, m)
        BY <1>2, <2>2 DEF AppOK, FramesOK
      <3>2. b \in 0..1 /\ q.double = TRUE
        BY <3>1 DEF CurrentBuffer, TwoOK
      <3>3. p.held = q.held \cup {q.fill} /\ p.fill = 1 - q.fill
        BY <1>3, <3>2
      <3>4. ASSUME TwoPlain(q, i.at, d, m)
            PROVE  TwoPlain(p, i.at, d + 1, n)
        <4>1. d = 0 /\ q.held = {} /\ q.fill = b /\ i.at # "callback"
          BY <1>2, <1>5, <1>10, <3>4 DEF TwoPlain
        <4>2. d + 1 = 1 /\ p.held = {b} /\ p.fill = 1 - b /\ p.buf[b] = Slot(n)
          BY <1>3, <3>3, <4>1
        <4> QED
          BY <1>5, <1>7, <4>1, <4>2 DEF TwoPlain
      <3>5. ASSUME NEW all, all = 1 \/ all = 2, TwoRead(q, all, m)
            PROVE  all = 1 /\ TwoRead(p, 2, n) /\ p.buf[b] = q.buf[b]
        <4>1. all = 1 /\ q.held = {b} /\ q.fill = 1 - b
          BY <1>2, <1>5, <3>5 DEF TwoRead
        <4>2. p.fill = b /\ p.held = {0, 1} /\ p.buf[1 - b] = Slot(n) /\ p.buf[b] = q.buf[b]
          BY <1>3, <3>2, <3>3, <4>1
        <4> QED
          BY <1>5, <1>7, <4>1, <4>2 DEF TwoRead
      <3>6. CASE i.at \notin {"callback2", "free"}
        <4>1. TwoPlain(p, i.at, d + 1, n)
          BY <3>1, <3>4, <3>6 DEF TwoOK
        <4> QED
          BY <1>4, <2>2, <3>1, <3>6, <4>1 DEF TwoOK, FramesOK
      <3>7. CASE i.at = "callback2"
        <4>1. TwoRead(q, d, m) /\ q.buf[b] = Slot(m - d + 1)
          BY <3>1, <3>7 DEF TwoOK
        <4>2. d = 1 \/ d = 2
          BY <4>1 DEF TwoRead
        <4>3. d = 1 /\ TwoRead(p, 2, n) /\ p.buf[b] = q.buf[b]
          BY <3>5, <4>1, <4>2
        <4>4. d + 1 = 2 /\ m - d + 1 = n - (d + 1) + 1
          BY <4>3
        <4>5. TwoRead(p, d + 1, n) /\ p.buf[CurrentBuffer(p)] = Slot(n - (d + 1) + 1)
          BY <1>5, <4>1, <4>3, <4>4
        <4>6. TwoOK(p, i.at, d + 1, n)
          BY <1>4, <3>1, <3>7, <4>5 DEF TwoOK
        <4> QED
          BY <1>4, <2>2, <4>6 DEF FramesOK
      <3>8. CASE i.at = "free"
        <4>1. TwoRead(q, d + 1, m)
          BY <3>1, <3>8 DEF TwoOK
        <4>2. d + 1 = 1 \/ d + 1 = 2
          BY <4>1 DEF TwoRead
        <4>3. d + 1 = 1 /\ TwoRead(p, 2, n)
          BY <3>5, <4>1, <4>2
        <4>4. TwoRead(p, (d + 1) + 1, n)
          BY <4>3
        <4>5. TwoOK(p, i.at, d + 1, n)
          BY <1>4, <3>1, <3>8, <4>4 DEF TwoOK
        <4> QED
          BY <1>4, <2>2, <4>5 DEF FramesOK
      <3> QED
        BY <3>6, <3>7, <3>8
    <2> QED
      BY <2>1, <2>2
  <1>16. AppOK(p, ph, c, i, chk, d + 1, n)
    BY <1>9, <1>11, <1>12, <1>13, <1>14, <1>15 DEF AppOK
  <1> QED
    BY <1>3, <1>16 DEF p

(* The polling programs.  Where a program is says what its radio is like.  *)

Stages ==
  [devid |-> <<"off", "off">>,
   tx    |-> <<"off", "off", "off", "off", "off", "ready", "tuned", "sends", "sends", "sends",
               "sends">>,
   sleep |-> <<"off", "off", "off", "ready", "tuned", "tuned", "sleeps", "sleeps", "sleeps",
               "sleeps", "sleeps", "off", "off", "off", "off", "off", "ready", "tuned", "tuned">>,
   auto  |-> <<"off", "off", "off", "ready", "tuned", "tuned", "wakes", "wakes", "wakes", "wakes",
               "wakes", "wakes", "wakes", "wakes">>,
   rx    |-> <<"off", "off", "off", "off", "ready", "tuned", "listens", "takes">>]

StageAt(p, n) == IF n \in DOMAIN Stages[p] THEN Stages[p][n] ELSE "off"

\* Nobody reads interrupts, double buffering is off, no transmission is delayed.
Base(q) ==
  /\ HasFields(q) /\ q.late = FALSE /\ q.w4r = FALSE /\ q.double = FALSE /\ q.fill = 0
  /\ q.rearm = FALSE /\ q.rf = {} /\ q.cb = FALSE /\ DOMAIN q.buf = 0..1

\* The radio is set to the configuration of the programs.
IsSet(q) ==
  /\ TunedTo(q, ExampleConfig) /\ q.ops = OpsOf(ExampleConfig) /\ q.clocks = "AUTO"
  /\ q.gain = ExampleConfig.chan

\* Nothing is received, or one frame that will be read.
Got(q, d, m) ==
  /\ "RXFCG" \in q.ev => d = 1 /\ q.reg = Slot(m) /\ q.buf[0] = Slot(m)
  /\ "RXFCG" \notin q.ev => d = 0

StageOK(s, q, d, m) ==
  /\ Base(q)
  /\ s \in {"off", "ready", "tuned", "takes"} => ~OnAir(q)
  /\ s \in {"ready", "tuned", "listens", "takes"} => q.dbl = "OFF"
  /\ s \in {"tuned", "listens", "takes"} => q.spc = "OFF"
  /\ s \notin {"off", "ready"} => IsSet(q)
  /\ s \notin {"listens", "takes"} => q.power # "RX" /\ d = 0 /\ "RXFCG" \notin q.ev
  /\ s = "sleeps" => "SLP_EN" \in q.wake
  /\ s = "wakes" => "WAKE_CSN" \notin q.wake
  /\ s = "listens" => q.power # "TX" /\ (q.power = "RX" => Seen(q) = {})
  /\ s \in {"listens", "takes"} => Got(q, d, m)

PollOK(p, n, q, d, m) ==
  StageOK(StageAt(p, n), q, d, m) /\ (n # 0 => ~q.err)

-----------------------------------------------------------------------------
BaseFields == {"late", "w4r", "double", "fill", "rearm", "rf", "cb", "buf"}

SetFields == {"chan", "code", "mode", "ops", "clocks", "gain"}

\* Both are kept by what does not change their fields.
LEMMA BaseKept ==
  ASSUME NEW q, NEW p, NEW S, Base(q), Changes(q, p, S), S \cap BaseFields = {}
  PROVE  Base(p)
  <1>1. HasFields(q) /\ HasFields(p)
    BY ChangesKeep DEF Base
  <1>2. /\ p.late = q.late /\ p.w4r = q.w4r /\ p.double = q.double /\ p.fill = q.fill
        /\ p.rearm = q.rearm /\ p.rf = q.rf /\ p.cb = q.cb /\ p.buf = q.buf
    BY <1>1, FieldsThere, Zenon DEF Changes, BaseFields
  <1> QED
    BY <1>1, <1>2 DEF Base

\* The same of the settings.
LEMMA SetKept ==
  ASSUME NEW q, NEW p, NEW S, HasFields(q), IsSet(q), Changes(q, p, S), S \cap SetFields = {}
  PROVE  IsSet(p)
  <1>1. /\ p.chan = q.chan /\ p.code = q.code /\ p.mode = q.mode /\ p.ops = q.ops
        /\ p.clocks = q.clocks /\ p.gain = q.gain
    BY FieldsThere, Zenon DEF Changes, SetFields
  <1> QED
    BY <1>1 DEF IsSet, TunedTo

\* A radio that is on the air becomes one that may be.
LEMMA Weaker ==
  ASSUME NEW p, NEW d, NEW m, StageOK("tuned", p, d, m)
  PROVE  /\ StageOK("sends", p, d, m)
         /\ "SLP_EN" \in p.wake => StageOK("sleeps", p, d, m)
         /\ "WAKE_CSN" \notin p.wake => StageOK("wakes", p, d, m)
  BY DEF StageOK, OnAir

\* A call that changes nothing of interest.
LEMMA PlainCall ==
  ASSUME NEW q, NEW p, NEW S, NEW s, NEW d, NEW m, StageOK(s, q, d, m), Changes(q, p, S),
         S \cap (BaseFields \cup SetFields \cup {"power", "dbl", "spc", "wake"}) = {},
         s \notin {"listens", "takes"}, p.ev \subseteq q.ev
  PROVE  StageOK(s, p, d, m)
  <1>1. HasFields(q) /\ Base(q)
    BY DEF StageOK, Base
  <1>2. Base(p)
    BY <1>1, BaseKept
  <1>3. IsSet(q) => IsSet(p)
    BY <1>1, SetKept
  <1>4. p.power = q.power /\ p.dbl = q.dbl /\ p.spc = q.spc /\ p.wake = q.wake
    BY <1>1, FieldsThere, Zenon DEF Changes
  <1> QED
    BY <1>2, <1>3, <1>4 DEF StageOK, OnAir

\* Calls of the same effect.
LEMMA ChecksKeep ==
  ASSUME NEW d, NEW m, NEW call \in {"checkidlerc", "check_dev_id"}, NEW p \in Effect(call),
         StageOK("off", r, d, m)
  PROVE  StageOK("off", p, d, m)
  <1>1. HasFields(r)
    BY DEF StageOK, Base
  <1>2. PICK e : p = [r EXCEPT !.err = e]
    BY DEF Effect
  <1>3. Changes(r, p, {"err"})
    BY <1>1, <1>2, FieldsThere, Zenon DEF Changes
  <1>4. p.ev = r.ev
    BY <1>1, <1>3, FieldsThere, Zenon DEF Changes
  <1>5. {"err"} \cap (BaseFields \cup SetFields \cup {"power", "dbl", "spc", "wake"}) = {}
    BY DEF BaseFields, SetFields
  <1> QED
    BY <1>3, <1>4, <1>5, PlainCall

\* A reset.
LEMMA BaseReset ==
  ASSUME NEW q, NEW p, NEW d, NEW m, StageOK("off", q, d, m), ResetTo(q, p)
  PROVE  StageOK("off", p, d, m)
  <1>1. Base(q) /\ d = 0
    BY DEF StageOK
  <1>2. DOMAIN p.buf = 0..1
    BY DEF ResetTo
  <1>3. Base(p)
    BY <1>1, <1>2 DEF Base, ResetTo
  <1>4. ~OnAir(p) /\ p.power # "RX" /\ "RXFCG" \notin p.ev
    BY DEF ResetTo, OnAir
  <1> QED
    BY <1>1, <1>3, <1>4 DEF StageOK

\* dwt_softreset is one.
LEMMA ResetsKeep ==
  ASSUME NEW d, NEW m, NEW call \in {"spiSelect", "softreset"}, NEW p \in Effect(call),
         StageOK("off", r, d, m)
  PROVE  StageOK("off", p, d, m)
  <1>1. HasFields(r)
    BY DEF StageOK, Base
  <1>2. p = Reset(r) \/ p = dwt_softreset(r)
    BY DEF Effect, spiSelect
  <1> QED
    BY <1>1, <1>2, ResetIs, SoftResetIs, BaseReset

\* dwt_initialise.
LEMMA InitialiseCall ==
  ASSUME NEW d, NEW m, NEW p \in Effect("initialise"), StageOK("off", r, d, m)
  PROVE  StageOK("off", p, d, m) /\ StageOK("ready", p, d, m)
  <1> DEFINE S == {"dbl", "mode", "sts", "cb", "err", "tuned", "dgcOtp"}
  <1>1. HasFields(r) /\ Base(r)
    BY DEF StageOK, Base
  <1>2. p = dwt_initialise(r)
    BY DEF Effect
  <1>3. Changes(r, p, S) /\ p.dbl = "OFF" /\ p.cb = FALSE
    BY <1>1, <1>2, InitialiseIs
  <1>4. /\ p.late = r.late /\ p.w4r = r.w4r /\ p.double = r.double /\ p.fill = r.fill
        /\ p.rearm = r.rearm /\ p.rf = r.rf /\ p.buf = r.buf /\ p.power = r.power /\ p.ev = r.ev
    BY <1>1, <1>3, FieldsThere, Zenon DEF Changes
  <1>5. HasFields(p)
    BY <1>1, <1>3, ChangesKeep
  <1>6. Base(p)
    BY <1>1, <1>3, <1>4, <1>5 DEF Base
  <1> QED
    BY <1>3, <1>4, <1>6 DEF StageOK, OnAir

\* The configuration of the programs.
LEMMA ExampleIs ==
  /\ ExampleConfig.chan = 5 /\ ExampleConfig.rxCode = 9 /\ ExampleConfig.txCode = 9
  /\ ExampleConfig.stsMode = "OFF"
  BY DEF ExampleConfig, Config

\* dwt_configure, and what the program sets.
LEMMA ConfigureCall ==
  ASSUME NEW d, NEW m, NEW p \in Effect("configure"), StageOK("ready", r, d, m)
  PROVE  StageOK("off", p, d, m) /\ (~p.err => StageOK("tuned", p, d, m))
  <1>1. HasFields(r) /\ Base(r)
    BY DEF StageOK, Base
  <1>2. p \in dwt_configure(r, ExampleConfig)
    BY DEF Effect
  <1>3. ExampleConfig.rxCode \in 9..24 /\ ExampleConfig.chan \in Channels
    BY ExampleIs DEF Channels
  <1>4. Configured(r, ExampleConfig, p)
    BY <1>1, <1>2, <1>3, ConfigureIs
  <1>5. /\ Changes(r, p, ConfigureChanges)
        /\ p.power \in {r.power, "IDLE"} /\ p.ev \ {"CPLOCK"} = r.ev \ {"CPLOCK"}
        /\ p.spc = "OFF"
    BY <1>4, ExampleIs DEF Configured
  <1>6. ConfigureChanges \cap BaseFields = {}
    BY DEF ConfigureChanges, BaseFields
  <1>7. Base(p)
    BY <1>1, <1>5, <1>6, BaseKept
  <1>8. p.dbl = r.dbl
    BY <1>1, <1>5, FieldsThere, Zenon DEF Changes, ConfigureChanges
  <1>9. ~p.err => IsSet(p)
    BY <1>4 DEF Configured, IsSet
  <1>10. ~OnAir(p) /\ p.power # "RX" /\ "RXFCG" \notin p.ev /\ d = 0
    BY <1>5 DEF StageOK, OnAir
  <1> QED
    BY <1>5, <1>7, <1>8, <1>9, <1>10 DEF StageOK

\* Calibration: nothing changes, or clocks and blocks are released after it.
LEMMA TxRfCall ==
  ASSUME NEW d, NEW m, NEW p \in Effect("configuretxrf"), StageOK("tuned", r, d, m)
  PROVE  StageOK("tuned", p, d, m)
  <1>1. HasFields(r) /\ Base(r) /\ IsSet(r)
    BY DEF StageOK, Base
  <1>2. p = r \/ p = dwt_calcpgcount(r, r.chan)
    BY DEF Effect, dwt_configuretxrf, dwt_calcbandwidthadj
  <1>3. CASE p = r
    BY <1>3
  <1>4. CASE p = dwt_calcpgcount(r, r.chan)
    <2>1. Changes(r, p, {"clocks", "rf"}) /\ p.rf = {} /\ p.clocks = "AUTO"
      BY <1>1, <1>4, CalibrateIs
    <2>2. HasFields(p)
      BY <1>1, <2>1, ChangesKeep
    <2>3. /\ p.late = r.late /\ p.w4r = r.w4r /\ p.double = r.double /\ p.fill = r.fill
          /\ p.rearm = r.rearm /\ p.cb = r.cb /\ p.buf = r.buf /\ p.power = r.power
          /\ p.ev = r.ev /\ p.dbl = r.dbl /\ p.spc = r.spc /\ p.wake = r.wake
      BY <1>1, <2>1, FieldsThere, Zenon DEF Changes
    <2>4. /\ p.chan = r.chan /\ p.code = r.code /\ p.mode = r.mode /\ p.ops = r.ops
          /\ p.gain = r.gain
      BY <1>1, <2>1, FieldsThere, Zenon DEF Changes
    <2>5. Base(p)
      BY <1>1, <2>1, <2>2, <2>3 DEF Base
    <2>6. IsSet(p)
      BY <1>1, <2>1, <2>4 DEF IsSet, TunedTo
    <2> QED
      BY <2>3, <2>5, <2>6 DEF StageOK, OnAir
  <1> QED
    BY <1>2, <1>3, <1>4

\* What wakes the radio up is set.
LEMMA SleepCall ==
  ASSUME NEW d, NEW m, NEW call \in {"configuresleep CSN", "configuresleep WUP"},
         NEW p \in Effect(call), StageOK("tuned", r, d, m)
  PROVE  /\ StageOK("tuned", p, d, m)
         /\ call = "configuresleep CSN" => "SLP_EN" \in p.wake
         /\ call = "configuresleep WUP" => "WAKE_CSN" \notin p.wake
  <1> DEFINE S == {"mode", "aon", "wake"}
             wake == IF call = "configuresleep CSN"
                     THEN {"PRES_SLEEP", "WAKE_CSN", "WAKE_WUP", "SLP_EN"}
                     ELSE {"PRES_SLEEP", "WAKE_WUP", "SLP_EN"}
  <1>1. HasFields(r) /\ Base(r) /\ IsSet(r)
    BY DEF StageOK, Base
  <1>2. p = dwt_configuresleep(r, {"CONFIG"}, wake)
    BY DEF Effect
  <1>3. call = "configuresleep CSN" => "SLP_EN" \in wake
    OBVIOUS
  <1>4. call = "configuresleep WUP" => "WAKE_CSN" \notin wake
    OBVIOUS
  <1> HIDE DEF wake
  <1>5. Changes(r, p, S) /\ p.mode = r.mode \cup {"CONFIG"} /\ p.wake = wake
    BY <1>1, <1>2, FieldsThere, Zenon DEF dwt_configuresleep, Changes
  <1>6. /\ p.chan = r.chan /\ p.code = r.code /\ p.ops = r.ops /\ p.clocks = r.clocks
        /\ p.gain = r.gain /\ p.power = r.power /\ p.ev = r.ev /\ p.dbl = r.dbl /\ p.spc = r.spc
    BY <1>1, <1>5, FieldsThere, Zenon DEF Changes
  <1>7. p.mode \cap AltFlags = r.mode \cap AltFlags
    BY <1>5 DEF AltFlags
  <1>8. IsSet(p)
    BY <1>1, <1>6, <1>7 DEF IsSet, TunedTo
  <1>9. S \cap BaseFields = {}
    BY DEF BaseFields
  <1>10. Base(p)
    BY <1>1, <1>5, <1>9, BaseKept
  <1>11. StageOK("tuned", p, d, m)
    BY <1>6, <1>8, <1>10 DEF StageOK, OnAir
  <1> QED
    BY <1>3, <1>4, <1>5, <1>11

\* Calls that change nothing that matters, and no error.
PlainCalls == {"entersleepaftertx", "clear enabled", "write", "clear TXFRS", "await TXFRS", "pause",
               "await idlerc"}

\* The calls that are named so.
LEMMA PlainKeep ==
  ASSUME NEW d, NEW m, NEW call \in PlainCalls, NEW s, s \notin {"listens", "takes"},
         NEW p \in Effect(call), StageOK(s, r, d, m), ~r.err
  PROVE  StageOK(s, p, d, m) /\ ~p.err
  <1> DEFINE S == {"atx2slp", "enable", "ev", "txbuf", "err"}
  <1>1. HasFields(r)
    BY DEF StageOK, Base
  <1>2. S \cap (BaseFields \cup SetFields \cup {"power", "dbl", "spc", "wake"}) = {}
    BY DEF BaseFields, SetFields
  <1>3. Changes(r, p, S) /\ p.ev \subseteq r.ev /\ ~p.err
    <2>1. CASE call = "entersleepaftertx"
      <3>1. p = [r EXCEPT !.atx2slp = TRUE]
        BY <2>1 DEF Effect, dwt_entersleepaftertx
      <3>2. Changes(r, p, S)
        BY <1>1, <3>1, FieldsThere, Zenon DEF Changes
      <3>3. p.ev = r.ev /\ p.err = r.err
        BY <1>1, <3>1, FieldsThere, Zenon
      <3> QED
        BY <3>2, <3>3
    <2>2. CASE call = "clear enabled"
      <3> DEFINE a == dwt_setinterrupt(r, {"SPIRDY"}, "DISABLE_INT")
      <3>1. p = ClearEvents(a, r.ev)
        BY <2>2 DEF Effect
      <3>2. Changes(r, a, {"enable"})
        BY <1>1, FieldsThere, Zenon DEF dwt_setinterrupt, Changes
      <3>3. HasFields(a)
        BY <1>1, <3>2, ChangesKeep
      <3>4. a.ev = r.ev /\ a.err = r.err
        BY <1>1, <3>2, FieldsThere, Zenon DEF Changes
      <3> HIDE DEF a
      <3>5. Changes(a, p, {"ev"}) /\ p.ev = a.ev \ r.ev
        BY <3>1, <3>3, ClearIs
      <3>6. p.err = a.err
        BY <3>3, <3>5, FieldsThere, Zenon DEF Changes
      <3>7. Changes(r, p, S)
        BY <3>2, <3>5, ChangesAdd
      <3> QED
        BY <3>4, <3>5, <3>6, <3>7
    <2>3. CASE call = "write"
      <3>1. p = [r EXCEPT !.txbuf = 0, !.err = FALSE]
        BY <2>3 DEF Effect, LoadFrame
      <3>2. Changes(r, p, S)
        BY <1>1, <3>1, FieldsThere, Zenon DEF Changes
      <3>3. p.ev = r.ev /\ p.err = FALSE
        BY <1>1, <3>1, FieldsThere, Zenon
      <3> QED
        BY <3>2, <3>3
    <2>4. CASE call = "clear TXFRS"
      <3>1. p = ClearEvents(r, {"TXFRS"})
        BY <2>4 DEF Effect
      <3>2. Changes(r, p, {"ev"}) /\ p.ev = r.ev \ {"TXFRS"}
        BY <1>1, <3>1, ClearIs
      <3>3. p.err = r.err
        BY <1>1, <3>2, FieldsThere, Zenon DEF Changes
      <3>4. Changes(r, p, S)
        BY <3>2, ChangesAdd, ChangesNone
      <3> QED
        BY <3>2, <3>3, <3>4
    <2>5. CASE call \in {"await TXFRS", "pause", "await idlerc"}
      <3>1. p = r
        BY <2>5 DEF Effect
      <3> QED
        BY <3>1, ChangesNone
    <2> QED
      BY <2>1, <2>2, <2>3, <2>4, <2>5 DEF PlainCalls
  <1> QED
    BY <1>2, <1>3, PlainCall

\* A frame is sent.
LEMMA StartCall ==
  ASSUME NEW d, NEW m, NEW s \in {"sends", "sleeps", "wakes"}, NEW p \in Effect("starttx"),
         StageOK(s, r, d, m)
  PROVE  StageOK(s, p, d, m) /\ ~p.err
  <1>1. HasFields(r) /\ Base(r) /\ IsSet(r)
    BY DEF StageOK, Base
  <1>2. p = dwt_starttx(r, FALSE)
    BY DEF Effect
  <1>x. Starts(r, p, FALSE)
    BY <1>1, <1>2, StartIs
  <1>3. /\ Changes(r, p, SendChanges)
        /\ p.power = "TX" /\ p.w4r = FALSE /\ p.late = FALSE /\ p.ev = r.ev \ {"HPDWARN"}
        /\ p.err = FALSE
    BY <1>1, <1>2, <1>x DEF Starts
  <1>4. HasFields(p)
    BY <1>1, <1>3, ChangesKeep
  <1>5. /\ p.double = r.double /\ p.fill = r.fill /\ p.rearm = r.rearm /\ p.rf = r.rf
        /\ p.cb = r.cb /\ p.buf = r.buf /\ p.wake = r.wake
    BY <1>1, <1>3, FieldsThere, Zenon DEF Changes, SendChanges
  <1>6. SendChanges \cap SetFields = {}
    BY DEF SendChanges, SetFields
  <1>7. IsSet(p)
    BY <1>1, <1>3, <1>6, SetKept
  <1>8. Base(p)
    BY <1>1, <1>3, <1>4, <1>5 DEF Base
  <1> QED
    BY <1>3, <1>5, <1>7, <1>8 DEF StageOK

\* The radio is put to sleep, and woken up.
LEMMA EnterSleepCall ==
  ASSUME NEW d, NEW m, NEW p \in Effect("entersleep"), StageOK("sleeps", r, d, m), ~r.err
  PROVE  StageOK("off", p, d, m) /\ ~p.err
  <1> DEFINE S == {"ainit", "power"}
  <1>1. HasFields(r) /\ Base(r) /\ "SLP_EN" \in r.wake
    BY DEF StageOK, Base
  <1>2. p = dwt_entersleep(r, "IDLE")
    BY DEF Effect
  <1>3. Changes(r, p, S) /\ p.power = "SLEEP"
    BY <1>1, <1>2, FieldsThere, Zenon DEF dwt_entersleep, Changes
  <1>4. p.ev = r.ev /\ p.err = r.err
    BY <1>1, <1>3, FieldsThere, Zenon DEF Changes
  <1>5. S \cap BaseFields = {}
    BY DEF BaseFields
  <1>6. Base(p)
    BY <1>1, <1>3, <1>5, BaseKept
  <1> QED
    BY <1>3, <1>4, <1>6 DEF StageOK, OnAir

\* A wake-up is a reset but for what the chip kept.
LEMMA WokenBase ==
  ASSUME NEW q, NEW d, NEW m, StageOK("off", q, d, m)
  PROVE  StageOK("off", Woken(q), d, m)
  <1> DEFINE a == Reset(q)
             p == Woken(q)
             S == {"chan", "code", "spc", "enable", "atx2slp", "ainit", "power", "aon", "wake", "txbuf"}
  <1>1. HasFields(q)
    BY DEF StageOK, Base
  <1>2. ResetTo(q, a) /\ StageOK("off", a, d, m)
    BY <1>1, ResetIs, BaseReset
  <1>3. HasFields(a)
    BY <1>2 DEF ResetTo
  <1>4. p = [a EXCEPT
               !.chan = IF "CONFIG" \in q.aon THEN q.chan ELSE @,
               !.code = IF "CONFIG" \in q.aon THEN q.code ELSE @,
               !.spc = IF "CONFIG" \in q.aon THEN q.spc ELSE @,
               !.enable = IF "CONFIG" \in q.aon THEN q.enable ELSE @,
               !.atx2slp = "CONFIG" \in q.aon /\ q.atx2slp,
               !.ainit = "CONFIG" \in q.aon /\ q.ainit,
               !.power = IF "CONFIG" \in q.aon /\ q.ainit THEN "IDLE" ELSE @,
               !.aon = q.aon, !.wake = q.wake, !.txbuf = q.txbuf]
    BY DEF Woken
  <1> HIDE DEF a, p
  <1>5. Changes(a, p, S)
    BY <1>4, Zenon DEF Changes
  <1>6. p.power \in {"IDLE", "IDLE_RC"}
    <2>1. p.power = IF "CONFIG" \in q.aon /\ q.ainit THEN "IDLE" ELSE a.power
      BY <1>3, <1>4, FieldsThere, Zenon
    <2> QED
      BY <1>2, <2>1 DEF ResetTo
  <1>7. S \cap BaseFields = {}
    BY DEF BaseFields
  <1>8. Base(p)
    BY <1>2, <1>5, <1>7, BaseKept DEF StageOK
  <1>9. p.ev = a.ev
    BY <1>3, <1>5, FieldsThere, Zenon DEF Changes
  <1>10. StageOK("off", p, d, m)
    BY <1>2, <1>6, <1>8, <1>9 DEF StageOK, OnAir
  <1> QED
    BY <1>10 DEF p

\* The radio wakes up.
LEMMA WakeCall ==
  ASSUME NEW d, NEW m, NEW s \in {"off", "wakes"}, NEW p \in Effect("wakeup"),
         StageOK(s, r, d, m)
  PROVE  StageOK(s, p, d, m) /\ (s = "wakes" => p = r)
  <1>1. p = wakeup_device_with_io(r)
    BY DEF Effect
  <1>2. CASE s = "off"
    <2>1. p = r \/ p = Woken(r)
      BY <1>1 DEF wakeup_device_with_io
    <2> QED
      BY <1>2, <2>1, WokenBase
  <1>3. CASE s = "wakes"
    <2>1. "WAKE_CSN" \notin r.wake
      BY <1>3 DEF StageOK
    <2>2. p = r
      BY <1>1, <2>1 DEF wakeup_device_with_io
    <2> QED
      BY <1>3, <2>2
  <1> QED
    BY <1>2, <1>3

\* The preamble of the programs is short.
LEMMA ExampleShort == OpsOf(ExampleConfig) = "SHORT"
  <1>1. /\ ExampleConfig.plen = 128 /\ ExampleConfig.stsMode = "OFF"
        /\ ExampleConfig.rxCode = 9 /\ ExampleConfig.txCode = 9
    BY DEF ExampleConfig, Config
  <1> QED
    BY <1>1 DEF OpsOf

\* dwt_restoreconfig.
LEMMA RestoreCall ==
  ASSUME NEW d, NEW m, NEW p \in Effect("restoreconfig"), StageOK("wakes", r, d, m), ~r.err
  PROVE  StageOK("wakes", p, d, m) /\ ~p.err
  <1>1. HasFields(r) /\ Base(r) /\ IsSet(r)
    BY DEF StageOK, Base
  <1>2. p = dwt_restoreconfig(r)
    BY DEF Effect
  <1>3. r.ops = "SHORT" /\ TunedTo(r, ExampleConfig) /\ ExampleConfig.chan \in Channels
    BY <1>1, ExampleShort, ExampleIs DEF IsSet, Channels
  <1>4. /\ Changes(r, p, RestoreChanges) /\ p.ops = OpsOf(ExampleConfig)
        /\ p.gain \in {r.gain, ExampleConfig.chan}
    BY <1>1, <1>2, <1>3, RestoreIs
  <1>5. /\ p.chan = r.chan /\ p.code = r.code /\ p.mode = r.mode /\ p.clocks = r.clocks
        /\ p.power = r.power /\ p.ev = r.ev /\ p.wake = r.wake /\ p.err = r.err
    BY <1>1, <1>4, FieldsThere, Zenon DEF Changes, RestoreChanges
  <1>6. IsSet(p)
    BY <1>1, <1>4, <1>5 DEF IsSet, TunedTo
  <1>7. RestoreChanges \cap BaseFields = {}
    BY DEF RestoreChanges, BaseFields
  <1>8. Base(p)
    BY <1>1, <1>4, <1>7, BaseKept
  <1> QED
    BY <1>5, <1>6, <1>8 DEF StageOK

\* The receiver is switched on.
LEMMA ReceiveCall ==
  ASSUME NEW d, NEW m, NEW p \in Effect("rxenable"), StageOK("tuned", r, d, m)
  PROVE  StageOK("listens", p, d, m) /\ ~p.err
  <1>1. HasFields(r) /\ Base(r) /\ IsSet(r) /\ ~OnAir(r) /\ d = 0 /\ "RXFCG" \notin r.ev
    BY DEF StageOK, Base
  <1> DEFINE a == CMD_RX(r)
  <1>2. p = [a EXCEPT !.err = FALSE]
    BY DEF Effect, dwt_rxenable
  <1>3. a = r \/ a = SwitchOn(r)
    BY DEF CMD_RX
  <1>4. /\ Changes(r, SwitchOn(r), {"power", "ev"}) /\ SwitchOn(r).power = "RX"
        /\ SwitchOn(r).ev = r.ev \ RxEvents
    BY <1>1, SwitchOnIs
  <1> HIDE DEF a
  <1>5. Changes(r, a, {"power", "ev"})
    BY <1>3, <1>4, ChangesNone
  <1>6. HasFields(a)
    BY <1>1, <1>5, ChangesKeep
  <1>7. a.power # "TX" /\ (a.power = "RX" => Seen(a) = {}) /\ "RXFCG" \notin a.ev
    <2>1. CASE a = r
      BY <1>1, <2>1 DEF OnAir
    <2>2. CASE a = SwitchOn(r)
      BY <1>1, <1>4, <2>2 DEF Seen
    <2> QED
      BY <1>3, <2>1, <2>2
  <1>8. Changes(a, p, {"err"}) /\ ~p.err
    <2>1. Changes(a, p, {"err"}) /\ p.err = FALSE
      BY <1>2, <1>6, FieldsThere, Zenon DEF Changes
    <2> QED
      BY <2>1
  <1>9. p.power = a.power /\ p.ev = a.ev
    BY <1>6, <1>8, FieldsThere, Zenon DEF Changes
  <1> DEFINE S == {"power", "ev", "err"}
  <1>10. Changes(r, p, S)
    BY <1>5, <1>8, ChangesAdd
  <1>11. S \cap BaseFields = {} /\ S \cap SetFields = {}
    BY DEF BaseFields, SetFields
  <1>12. Base(p) /\ IsSet(p)
    BY <1>1, <1>10, <1>11, BaseKept, SetKept
  <1>13. p.dbl = r.dbl /\ p.spc = r.spc
    BY <1>1, <1>10, FieldsThere, Zenon DEF Changes
  <1>14. r.dbl = "OFF" /\ r.spc = "OFF"
    BY DEF StageOK
  <1>15. Got(p, d, m)
    BY <1>1, <1>7, <1>9 DEF Got
  <1>16. Seen(p) = Seen(a)
    BY <1>9 DEF Seen
  <1> QED
    BY <1>7, <1>8, <1>9, <1>12, <1>13, <1>14, <1>15, <1>16 DEF StageOK

\* What is awaited has come, so the receiver is off.
LEMMA AwaitCall ==
  ASSUME NEW d, NEW m, NEW p \in Effect("await reception"), StageOK("listens", r, d, m),
         Awaited("await reception")
  PROVE  StageOK("takes", p, d, m) /\ p = r
  <1>1. p = r
    BY DEF Effect
  <1>2. r.ev \cap ({"RXFCG"} \cup ALL_RX_ERR) # {}
    BY DEF Awaited
  <1>3. Seen(r) # {}
    BY <1>2 DEF Seen, RxEvents, ALL_RX_GOOD
  <1>4. ~OnAir(r)
    BY <1>3 DEF StageOK, OnAir
  <1> QED
    BY <1>1, <1>4 DEF StageOK

\* The frame is read, or the failure cleared.
LEMMA TakeCall ==
  ASSUME NEW d, NEW m, NEW p \in Effect("take frame"), StageOK("takes", r, d, m), ~r.err
  PROVE  /\ StageOK("tuned", p, 0, m) /\ ~p.err
         /\ "RXFCG" \in r.ev => d = 1 /\ Reading = ReadingOf(m)
         /\ "RXFCG" \notin r.ev => d = 0
  <1>1. HasFields(r) /\ Base(r) /\ IsSet(r) /\ ~OnAir(r) /\ r.dbl = "OFF" /\ r.spc = "OFF"
        /\ Got(r, d, m)
    BY DEF StageOK, Base
  <1> DEFINE E == IF "RXFCG" \in r.ev THEN {"RXFCG"} ELSE ALL_RX_ERR
  <1>2. p = ClearEvents(r, E)
    BY DEF Effect
  <1>3. "RXFCG" \notin r.ev \ E
    OBVIOUS
  <1> HIDE DEF E
  <1>4. Changes(r, p, {"ev"}) /\ p.ev = r.ev \ E
    BY <1>1, <1>2, ClearIs
  <1>5. /\ p.power = r.power /\ p.dbl = r.dbl /\ p.spc = r.spc /\ p.err = r.err
    BY <1>1, <1>4, FieldsThere, Zenon DEF Changes
  <1>6. {"ev"} \cap BaseFields = {} /\ {"ev"} \cap SetFields = {}
    BY DEF BaseFields, SetFields
  <1>7. Base(p) /\ IsSet(p)
    BY <1>1, <1>4, <1>6, BaseKept, SetKept
  <1>8. StageOK("tuned", p, 0, m)
    BY <1>1, <1>3, <1>4, <1>5, <1>7 DEF StageOK, OnAir
  <1>9. ASSUME "RXFCG" \in r.ev
        PROVE  d = 1 /\ Reading = ReadingOf(m)
    BY <1>1, <1>9, ReadsOne DEF Got
  <1> QED
    BY <1>1, <1>5, <1>8, <1>9 DEF Got

(***************************************************************************)
(* The chip, while a polling program runs                                  *)
(***************************************************************************)

\* A transmission ends,
LEMMA PollSent ==
  ASSUME NEW s, NEW d, NEW m, NEW q, NEW t, StageOK(s, q, d, m), q.power = "TX"
  PROVE  StageOK(s, Sent(q, t), d, m) /\ (~q.err => ~Sent(q, t).err)
  <1> DEFINE p == Sent(q, t)
  <1>1. HasFields(q) /\ Base(q) /\ OnAir(q)
    BY DEF StageOK, Base, OnAir
  <1>2. /\ Changes(q, p, SentChanges) /\ p.power # "TX" /\ p.late = FALSE /\ p.w4r = FALSE
        /\ p.power = "RX" => q.w4r
        /\ p.power # "RX" => p.ev = q.ev \cup {"TXFRS"}
    BY <1>1, SentIs
  <1> HIDE DEF p
  <1>3. p.power # "RX" /\ p.ev = q.ev \cup {"TXFRS"}
    BY <1>1, <1>2 DEF Base
  <1>4. HasFields(p)
    BY <1>1, <1>2, ChangesKeep
  <1>5. /\ p.double = q.double /\ p.fill = q.fill /\ p.rearm = q.rearm /\ p.rf = q.rf
        /\ p.cb = q.cb /\ p.buf = q.buf /\ p.wake = q.wake /\ p.err = q.err
    BY <1>1, <1>2, FieldsThere, Zenon DEF Changes, SentChanges
  <1>6. Base(p)
    BY <1>1, <1>2, <1>4, <1>5 DEF Base
  <1>7. SentChanges \cap SetFields = {}
    BY DEF SentChanges, SetFields
  <1>8. IsSet(q) => IsSet(p)
    BY <1>1, <1>2, <1>7, SetKept
  <1>9. s \notin {"off", "ready", "tuned", "takes", "listens"}
    BY <1>1 DEF StageOK
  <1>10. StageOK(s, p, d, m)
    BY <1>3, <1>5, <1>6, <1>8, <1>9 DEF StageOK
  <1> QED
    BY <1>5, <1>10 DEF p

\* Only a program that listens has its receiver on.
LEMMA OnlyListens ==
  ASSUME NEW s, NEW d, NEW m, NEW q, StageOK(s, q, d, m), q.power = "RX"
  PROVE  /\ s = "listens" /\ HasFields(q) /\ Base(q) /\ IsSet(q) /\ Seen(q) = {}
         /\ q.dbl = "OFF" /\ q.spc = "OFF" /\ d = 0
  <1>1. s = "listens"
    BY DEF StageOK, OnAir
  <1>2. HasFields(q) /\ Base(q) /\ IsSet(q) /\ Seen(q) = {} /\ q.dbl = "OFF" /\ q.spc = "OFF"
        /\ Got(q, d, m)
    BY <1>1 DEF StageOK, Base
  <1>3. "RXFCG" \notin q.ev
    BY <1>2 DEF Seen, RxEvents, ALL_RX_GOOD
  <1> QED
    BY <1>1, <1>2, <1>3 DEF Got

FillFree(q) == /\ q.rearm = FALSE /\ DOMAIN q.buf = 0..1 /\ q.fill \in 0..1
               /\ q.double \in BOOLEAN /\ (q.double => q.fill \notin q.held)

\* a frame is received,
LEMMA PollReceived ==
  ASSUME NEW s, NEW d, NEW m \in Nat, NEW q, StageOK(s, q, d, m), q.power = "RX"
  PROVE  LET p == Received(q, Slot(m + 1))
         IN  /\ StageOK(s, p, d + 1, m + 1) /\ p.reg = Slot(m + 1)
             /\ ~q.err => ~p.err
  <1> DEFINE n == m + 1
             p == Received(q, Slot(n))
  <1>1. /\ s = "listens" /\ HasFields(q) /\ Base(q) /\ IsSet(q) /\ Seen(q) = {}
        /\ q.dbl = "OFF" /\ q.spc = "OFF" /\ d = 0
    BY OnlyListens
  <1>2. /\ q.double = FALSE /\ q.fill = 0 /\ q.rearm = FALSE /\ DOMAIN q.buf = 0..1
    BY <1>1 DEF Base
  <1>3. FillFree(q)
    <2>1. q.fill \in 0..1
      BY <1>2
    <2>2. q.double \in BOOLEAN /\ (q.double => q.fill \notin q.held)
      BY <1>2, Zenon
    <2> QED
      BY <1>2, <2>1, <2>2 DEF FillFree
  <1>4. HasFields(q) /\ q.rearm = FALSE /\ DOMAIN q.buf = 0..1 /\ q.fill \in 0..1
        /\ q.double \in BOOLEAN /\ (q.double => q.fill \notin q.held)
    BY <1>1, <1>3 DEF FillFree
  <1>14. /\ Changes(q, p, ReceivedChanges)
         /\ p.power = "IDLE" /\ p.reg = Slot(n) /\ p.ev = q.ev \cup Arrived(q)
         /\ DOMAIN p.buf = 0..1 /\ p.buf[q.fill] = Slot(n)
         /\ \A b \in 0..1 : b # q.fill => p.buf[b] = q.buf[b]
         /\ p.held = IF q.double THEN q.held \cup {q.fill} ELSE q.held
         /\ p.fill = IF q.double THEN 1 - q.fill ELSE q.fill
    <2>1. ReceivedAs(q, p, Slot(n))
      BY <1>4, ReceivedIs, Zenon
    <2> QED
      BY <2>1 DEF ReceivedAs
  <1> HIDE DEF p
  <1>5. p.fill = 0 /\ p.buf[0] = Slot(n) /\ "RXFCG" \in p.ev
    <2>1. q.double = FALSE
      BY <1>2
    <2>2. p.fill = q.fill
      BY <1>14, <2>1
    <2>3. "RXFCG" \in Arrived(q)
      BY <1>1 DEF Arrived, ALL_RX_GOOD
    <2>4. p.ev = q.ev \cup Arrived(q) /\ p.buf[q.fill] = Slot(n)
      BY <1>14
    <2> QED
      BY <1>2, <2>2, <2>3, <2>4
  <1>6. HasFields(p)
    BY <1>1, <1>14, ChangesKeep
  <1>7. /\ p.late = q.late /\ p.w4r = q.w4r /\ p.double = q.double /\ p.rearm = q.rearm
        /\ p.rf = q.rf /\ p.cb = q.cb /\ p.dbl = q.dbl /\ p.spc = q.spc /\ p.err = q.err
    BY <1>1, <1>14, FieldsThere, Zenon DEF Changes, ReceivedChanges
  <1>8. Base(p)
    BY <1>1, <1>14, <1>5, <1>6, <1>7 DEF Base
  <1>9. ReceivedChanges \cap SetFields = {}
    BY DEF ReceivedChanges, SetFields
  <1>10. IsSet(p)
    BY <1>1, <1>14, <1>9, SetKept
  <1>11. d + 1 = 1
    BY <1>1
  <1>12. Got(p, d + 1, n)
    BY <1>14, <1>5, <1>11 DEF Got
  <1>13. StageOK(s, p, d + 1, n)
    BY <1>1, <1>14, <1>7, <1>8, <1>10, <1>12 DEF StageOK
  <1> QED
    BY <1>14, <1>7, <1>13 DEF p

\* and a reception fails.
LEMMA PollFailed ==
  ASSUME NEW s, NEW d, NEW m, NEW q, NEW event \in {"RXERR", "RXTO"}, StageOK(s, q, d, m),
         q.power = "RX"
  PROVE  StageOK(s, Failed(q, event), d, m) /\ (~q.err => ~Failed(q, event).err)
  <1> DEFINE p == Failed(q, event)
             S == {"power", "ev"}
  <1>1. /\ s = "listens" /\ HasFields(q) /\ Base(q) /\ IsSet(q) /\ Seen(q) = {}
        /\ q.dbl = "OFF" /\ q.spc = "OFF" /\ d = 0
    BY OnlyListens
  <1>2. Changes(q, p, S) /\ p.power = "IDLE" /\ p.ev = q.ev \cup {event}
    BY <1>1, FailedIs
  <1> HIDE DEF p
  <1>3. S \cap BaseFields = {} /\ S \cap SetFields = {}
    BY DEF BaseFields, SetFields
  <1>4. Base(p) /\ IsSet(p)
    BY <1>1, <1>2, <1>3, BaseKept, SetKept
  <1>5. p.dbl = q.dbl /\ p.spc = q.spc /\ p.err = q.err
    BY <1>1, <1>2, FieldsThere, Zenon DEF Changes
  <1>6. "RXFCG" \notin p.ev
    BY <1>1, <1>2 DEF Seen, RxEvents, ALL_RX_GOOD
  <1>7. StageOK(s, p, d, m)
    BY <1>1, <1>2, <1>4, <1>5, <1>6 DEF StageOK, Got
  <1> QED
    BY <1>5, <1>7 DEF p

-----------------------------------------------------------------------------
(***************************************************************************)
(* The calls of the programs, with the stages before and after             *)
(***************************************************************************)

AtSend == {"sends", "sleeps", "wakes"}

Steps(call, s, t) ==
  \/ call \in {"spiSelect", "softreset", "checkidlerc", "check_dev_id"} /\ s = "off" /\ t = "off"
  \/ call = "initialise" /\ s = "off" /\ t \in {"off", "ready"}
  \/ call = "configure" /\ s = "ready" /\ t = "tuned"
  \/ call = "configuretxrf" /\ s = "tuned" /\ t \in {"tuned", "sends"}
  \/ call = "configuresleep CSN" /\ s = "tuned" /\ t = "sleeps"
  \/ call = "configuresleep WUP" /\ s = "tuned" /\ t = "wakes"
  \/ call \in PlainCalls /\ s \in AtSend \cup {"off"} /\ t = s
  \/ call = "starttx" /\ s \in AtSend /\ t = s
  \/ call = "entersleep" /\ s = "sleeps" /\ t = "off"
  \/ call = "wakeup" /\ s \in {"off", "wakes"} /\ t = s
  \/ call = "restoreconfig" /\ s = "wakes" /\ t = "wakes"
  \/ call = "rxenable" /\ s = "tuned" /\ t = "listens"
  \/ call = "await reception" /\ s = "listens" /\ t = "takes"
  \/ call = "take frame" /\ s = "takes" /\ t = "tuned"

\* A call leads to the next stage, or with an error to a stopped program.
LEMMA CallMoves ==
  ASSUME NEW call, NEW s, NEW t, NEW d, NEW m, NEW p \in Effect(call), Steps(call, s, t),
         call # "take frame", StageOK(s, r, d, m), ~r.err, Awaited(call)
  PROVE  (p.err => StageOK("off", p, d, m)) /\ (~p.err => StageOK(t, p, d, m))
  <1>1. CASE call \in {"spiSelect", "softreset"} /\ s = "off" /\ t = "off"
    BY <1>1, ResetsKeep
  <1>2. CASE call \in {"checkidlerc", "check_dev_id"} /\ s = "off" /\ t = "off"
    BY <1>2, ChecksKeep
  <1>3. CASE call = "initialise" /\ s = "off" /\ t \in {"off", "ready"}
    BY <1>3, InitialiseCall
  <1>4. CASE call = "configure" /\ s = "ready" /\ t = "tuned"
    BY <1>4, ConfigureCall
  <1>5. ASSUME StageOK("tuned", p, d, m)
        PROVE  StageOK("off", p, d, m) /\ StageOK("sends", p, d, m)
    BY <1>5 DEF StageOK
  <1>6. CASE call = "configuretxrf" /\ s = "tuned" /\ t \in {"tuned", "sends"}
    BY <1>5, <1>6, TxRfCall
  <1>7. CASE call = "configuresleep CSN" /\ s = "tuned" /\ t = "sleeps"
    BY <1>5, <1>7, SleepCall, Weaker
  <1>8. CASE call = "configuresleep WUP" /\ s = "tuned" /\ t = "wakes"
    BY <1>5, <1>8, SleepCall, Weaker
  <1>9. CASE call \in PlainCalls /\ s \in AtSend \cup {"off"} /\ t = s
    BY <1>9, PlainKeep DEF AtSend
  <1>10. CASE call = "starttx" /\ s \in AtSend /\ t = s
    BY <1>10, StartCall DEF AtSend
  <1>11. CASE call = "entersleep" /\ s = "sleeps" /\ t = "off"
    BY <1>11, EnterSleepCall
  <1>12. CASE call = "wakeup" /\ s \in {"off", "wakes"} /\ t = s
    BY <1>12, WakeCall
  <1>13. CASE call = "restoreconfig" /\ s = "wakes" /\ t = "wakes"
    BY <1>13, RestoreCall
  <1>14. CASE call = "rxenable" /\ s = "tuned" /\ t = "listens"
    BY <1>14, ReceiveCall
  <1>15. CASE call = "await reception" /\ s = "listens" /\ t = "takes"
    BY <1>15, AwaitCall
  <1> QED
    BY <1>1, <1>2, <1>3, <1>4, <1>6, <1>7, <1>8, <1>9, <1>10, <1>11, <1>12, <1>13, <1>14, <1>15
       DEF Steps

\* Each call of each program is one of these steps.
LEMMA DevidSteps ==
  ASSUME prog = "devid", pc \in Nat, Call(prog) # "none"
  PROVE  /\ Steps(Call(prog), StageAt(prog, pc), StageAt(prog, AfterCall(prog)))
         /\ AfterCall(prog) \in Nat \ {0} /\ pc # 0
  <1>1. Programs[prog].setup = <<"spiSelect", "check_dev_id">> /\ Programs[prog].loop = <<>>
    BY DEF Programs, ex_00a_reading_dev_id, Program
  <1>2. pc \in 1..2
    BY <1>1 DEF Call
  <1>3. AfterCall(prog) = IF pc < 2 THEN pc + 1 ELSE 3
    BY <1>1 DEF AfterCall
  <1>4. Stages[prog] = <<"off", "off">>
    BY DEF Stages
  <1>5. CASE pc = 1
    BY <1>1, <1>3, <1>4, <1>5 DEF Call, StageAt, Steps
  <1>6. CASE pc = 2
    BY <1>1, <1>3, <1>4, <1>6 DEF Call, StageAt, Steps
  <1> QED
    BY <1>2, <1>5, <1>6

CallNames ==
  {"spiSelect", "checkidlerc", "softreset", "initialise", "configure", "configuretxrf",
   "configuresleep CSN", "configuresleep WUP", "entersleepaftertx", "clear enabled", "write",
   "starttx", "await TXFRS", "clear TXFRS", "pause", "entersleep", "wakeup", "await idlerc",
   "restoreconfig", "rxenable", "await reception", "take frame"}

\* The call of a program at a place, and the next place.
LEMMA CallIs ==
  ASSUME prog \in DOMAIN Programs, pc \in Nat, Call(prog) # "none",
         NEW setup \in Seq(CallNames), NEW loop \in Seq(CallNames),
         Programs[prog].setup = setup, Programs[prog].loop = loop
  PROVE  LET n == Len(setup)
             m == Len(loop)
         IN  /\ pc \in 1..(n + m)
             /\ Call(prog) = IF pc <= n THEN setup[pc] ELSE loop[pc - n]
             /\ AfterCall(prog) = IF pc < n + m THEN pc + 1 ELSE n + 1
  <1> DEFINE all == setup \o loop
             n == Len(setup)
             m == Len(loop)
  <1>1. prog # "app"
    BY DEF Programs
  <1>2. pc \in DOMAIN all /\ Call(prog) = all[pc]
    BY <1>1 DEF Call
  <1>3. /\ all \in Seq(CallNames) /\ Len(all) = n + m
        /\ \A i \in 1..(n + m) : all[i] = IF i <= n THEN setup[i] ELSE loop[i - n]
    BY ConcatProperties
  <1>4. DOMAIN all = 1..(n + m)
    BY <1>3
  <1>5. AfterCall(prog) = IF pc < n + m THEN pc + 1 ELSE n + 1
    BY DEF AfterCall
  <1> HIDE DEF all
  <1> QED
    BY <1>2, <1>3, <1>4, <1>5

\* Each call of each program is one of the steps.
LEMMA TxSteps ==
  ASSUME prog = "tx", pc \in Nat, Call(prog) # "none"
  PROVE  /\ Steps(Call(prog), StageAt(prog, pc), StageAt(prog, AfterCall(prog)))
         /\ AfterCall(prog) \in Nat \ {0} /\ pc # 0
  <1> DEFINE setup == <<"spiSelect", "checkidlerc", "softreset", "checkidlerc",
                        "initialise", "configure", "configuretxrf">>
             loop == <<"write", "starttx", "await TXFRS", "clear TXFRS">>
  <1>1. prog \in DOMAIN Programs /\ Programs[prog].setup = setup /\ Programs[prog].loop = loop
    BY DEF Programs, ex_01a_simple_tx, Program
  <1>2. setup \in Seq(CallNames) /\ Len(setup) = 7
    BY DEF CallNames
  <1>3. loop \in Seq(CallNames) /\ Len(loop) = 4
    BY DEF CallNames
  <1>4. /\ pc \in 1..11 /\ Call(prog) = IF pc <= 7 THEN setup[pc] ELSE loop[pc - 7]
        /\ AfterCall(prog) = IF pc < 11 THEN pc + 1 ELSE 8
    <2> HIDE DEF setup, loop
    <2>1. /\ pc \in 1..(Len(setup) + Len(loop))
          /\ Call(prog) = IF pc <= Len(setup) THEN setup[pc] ELSE loop[pc - Len(setup)]
          /\ AfterCall(prog) = IF pc < Len(setup) + Len(loop) THEN pc + 1 ELSE Len(setup) + 1
      BY <1>1, <1>2, <1>3, CallIs
    <2> QED
      BY <1>2, <1>3, <2>1
  <1>5. /\ setup[1] = "spiSelect" /\ setup[2] = "checkidlerc" /\ setup[3] = "softreset"
        /\ setup[4] = "checkidlerc" /\ setup[5] = "initialise" /\ setup[6] = "configure"
        /\ setup[7] = "configuretxrf"
    OBVIOUS
  <1>7. /\ loop[1] = "write" /\ loop[2] = "starttx" /\ loop[3] = "await TXFRS"
        /\ loop[4] = "clear TXFRS"
    OBVIOUS
  <1> HIDE DEF setup, loop
  <1>8. /\ StageAt(prog, 1) = "off" /\ StageAt(prog, 2) = "off" /\ StageAt(prog, 3) = "off"
        /\ StageAt(prog, 4) = "off" /\ StageAt(prog, 5) = "off"
        /\ StageAt(prog, 6) = "ready" /\ StageAt(prog, 7) = "tuned"
        /\ StageAt(prog, 8) = "sends" /\ StageAt(prog, 9) = "sends"
        /\ StageAt(prog, 10) = "sends" /\ StageAt(prog, 11) = "sends"
    BY DEF StageAt, Stages
  <1> SUFFICES ASSUME NEW call, NEW next, NEW n \in 1..11, n = pc, call = Call(prog),
                      next = AfterCall(prog)
               PROVE  Steps(call, StageAt(prog, n), StageAt(prog, next))
    BY <1>4
  <1>9. /\ n <= 7 => call = setup[n]
        /\ n > 7 => call = loop[n - 7]
        /\ next = IF n < 11 THEN n + 1 ELSE 8
    BY <1>4
  <1>10. CASE n = 1
    <2>1. call = setup[1] /\ next = 2
      BY <1>9, <1>10
    <2> QED
      BY <1>5, <1>8, <1>10, <2>1, Zenon DEF Steps, AtSend, PlainCalls
  <1>11. CASE n = 2
    <2>1. call = setup[2] /\ next = 3
      BY <1>9, <1>11
    <2> QED
      BY <1>5, <1>8, <1>11, <2>1, Zenon DEF Steps, AtSend, PlainCalls
  <1>12. CASE n = 3
    <2>1. call = setup[3] /\ next = 4
      BY <1>9, <1>12
    <2> QED
      BY <1>5, <1>8, <1>12, <2>1, Zenon DEF Steps, AtSend, PlainCalls
  <1>13. CASE n = 4
    <2>1. call = setup[4] /\ next = 5
      BY <1>9, <1>13
    <2> QED
      BY <1>5, <1>8, <1>13, <2>1, Zenon DEF Steps, AtSend, PlainCalls
  <1>14. CASE n = 5
    <2>1. call = setup[5] /\ next = 6
      BY <1>9, <1>14
    <2> QED
      BY <1>5, <1>8, <1>14, <2>1, Zenon DEF Steps, AtSend, PlainCalls
  <1>15. CASE n = 6
    <2>1. call = setup[6] /\ next = 7
      BY <1>9, <1>15
    <2> QED
      BY <1>5, <1>8, <1>15, <2>1, Zenon DEF Steps, AtSend, PlainCalls
  <1>16. CASE n = 7
    <2>1. call = setup[7] /\ next = 8
      BY <1>9, <1>16
    <2> QED
      BY <1>5, <1>8, <1>16, <2>1, Zenon DEF Steps, AtSend, PlainCalls
  <1>17. CASE n = 8
    <2>1. call = loop[1] /\ next = 9
      BY <1>9, <1>17
    <2> QED
      BY <1>7, <1>8, <1>17, <2>1, Zenon DEF Steps, AtSend, PlainCalls
  <1>18. CASE n = 9
    <2>1. call = loop[2] /\ next = 10
      BY <1>9, <1>18
    <2> QED
      BY <1>7, <1>8, <1>18, <2>1, Zenon DEF Steps, AtSend, PlainCalls
  <1>19. CASE n = 10
    <2>1. call = loop[3] /\ next = 11
      BY <1>9, <1>19
    <2> QED
      BY <1>7, <1>8, <1>19, <2>1, Zenon DEF Steps, AtSend, PlainCalls
  <1>20. CASE n = 11
    <2>1. call = loop[4] /\ next = 8
      BY <1>9, <1>20
    <2> QED
      BY <1>7, <1>8, <1>20, <2>1, Zenon DEF Steps, AtSend, PlainCalls
  <1> QED
    BY <1>10, <1>11, <1>12, <1>13, <1>14, <1>15, <1>16, <1>17, <1>18, <1>19, <1>20

\* The programs that sleep,
LEMMA SleepSteps ==
  ASSUME prog = "sleep", pc \in Nat, Call(prog) # "none"
  PROVE  /\ Steps(Call(prog), StageAt(prog, pc), StageAt(prog, AfterCall(prog)))
         /\ AfterCall(prog) \in Nat \ {0} /\ pc # 0
  <1> DEFINE setup == <<"spiSelect", "checkidlerc", "initialise", "configure",
                        "configuretxrf", "configuresleep CSN">>
             head == <<"write", "starttx", "await TXFRS", "clear TXFRS", "entersleep",
                       "wakeup", "await idlerc">>
             loop == head \o setup
  <1>1. prog \in DOMAIN Programs /\ Programs[prog].setup = setup /\ Programs[prog].loop = loop
    BY DEF Programs, ex_01b_tx_sleep, Program, SleepSetup
  <1>2. setup \in Seq(CallNames) /\ head \in Seq(CallNames) /\ Len(setup) = 6 /\ Len(head) = 7
    BY DEF CallNames
  <1>3. /\ loop \in Seq(CallNames) /\ Len(loop) = 13
        /\ \A k \in 1..13 : loop[k] = IF k <= 7 THEN head[k] ELSE setup[k - 7]
    <2> HIDE DEF setup, head
    <2>1. /\ loop \in Seq(CallNames) /\ Len(loop) = Len(head) + Len(setup)
          /\ \A k \in 1..Len(head) + Len(setup) :
               loop[k] = IF k <= Len(head) THEN head[k] ELSE setup[k - Len(head)]
      BY <1>2, ConcatProperties
    <2> HIDE DEF loop
    <2> QED
      BY <1>2, <2>1
  <1>4. /\ pc \in 1..19 /\ Call(prog) = IF pc <= 6 THEN setup[pc] ELSE loop[pc - 6]
        /\ AfterCall(prog) = IF pc < 19 THEN pc + 1 ELSE 7
    <2> HIDE DEF setup, head, loop
    <2>1. /\ pc \in 1..(Len(setup) + Len(loop))
          /\ Call(prog) = IF pc <= Len(setup) THEN setup[pc] ELSE loop[pc - Len(setup)]
          /\ AfterCall(prog) = IF pc < Len(setup) + Len(loop) THEN pc + 1 ELSE Len(setup) + 1
      BY <1>1, <1>2, <1>3, CallIs
    <2> QED
      BY <1>2, <1>3, <2>1
  <1>5. /\ setup[1] = "spiSelect" /\ setup[2] = "checkidlerc" /\ setup[3] = "initialise"
        /\ setup[4] = "configure" /\ setup[5] = "configuretxrf"
        /\ setup[6] = "configuresleep CSN"
    OBVIOUS
  <1>6. /\ head[1] = "write" /\ head[2] = "starttx" /\ head[3] = "await TXFRS"
        /\ head[4] = "clear TXFRS" /\ head[5] = "entersleep" /\ head[6] = "wakeup"
        /\ head[7] = "await idlerc"
    OBVIOUS
  <1> HIDE DEF setup, head, loop
  <1>7. /\ loop[1] = "write" /\ loop[2] = "starttx" /\ loop[3] = "await TXFRS"
        /\ loop[4] = "clear TXFRS" /\ loop[5] = "entersleep" /\ loop[6] = "wakeup"
        /\ loop[7] = "await idlerc" /\ loop[8] = "spiSelect" /\ loop[9] = "checkidlerc"
        /\ loop[10] = "initialise" /\ loop[11] = "configure" /\ loop[12] = "configuretxrf"
        /\ loop[13] = "configuresleep CSN"
    <2>1. /\ loop[1] = head[1] /\ loop[2] = head[2] /\ loop[3] = head[3]
          /\ loop[4] = head[4] /\ loop[5] = head[5] /\ loop[6] = head[6]
          /\ loop[7] = head[7] /\ loop[8] = setup[1] /\ loop[9] = setup[2]
          /\ loop[10] = setup[3] /\ loop[11] = setup[4] /\ loop[12] = setup[5]
          /\ loop[13] = setup[6]
      BY <1>3
    <2> QED
      BY <1>5, <1>6, <2>1, Zenon
  <1>8. /\ StageAt(prog, 1) = "off" /\ StageAt(prog, 2) = "off" /\ StageAt(prog, 3) = "off"
        /\ StageAt(prog, 4) = "ready" /\ StageAt(prog, 5) = "tuned"
        /\ StageAt(prog, 6) = "tuned" /\ StageAt(prog, 7) = "sleeps"
        /\ StageAt(prog, 8) = "sleeps" /\ StageAt(prog, 9) = "sleeps"
        /\ StageAt(prog, 10) = "sleeps" /\ StageAt(prog, 11) = "sleeps"
        /\ StageAt(prog, 12) = "off" /\ StageAt(prog, 13) = "off"
        /\ StageAt(prog, 14) = "off" /\ StageAt(prog, 15) = "off"
        /\ StageAt(prog, 16) = "off" /\ StageAt(prog, 17) = "ready"
        /\ StageAt(prog, 18) = "tuned" /\ StageAt(prog, 19) = "tuned"
    BY DEF StageAt, Stages
  <1> SUFFICES ASSUME NEW call, NEW next, NEW n \in 1..19, n = pc, call = Call(prog),
                      next = AfterCall(prog)
               PROVE  Steps(call, StageAt(prog, n), StageAt(prog, next))
    BY <1>4
  <1>9. /\ n <= 6 => call = setup[n]
        /\ n > 6 => call = loop[n - 6]
        /\ next = IF n < 19 THEN n + 1 ELSE 7
    BY <1>4
  <1>10. CASE n = 1
    <2>1. call = setup[1] /\ next = 2
      BY <1>9, <1>10
    <2> QED
      BY <1>5, <1>8, <1>10, <2>1, Zenon DEF Steps, AtSend, PlainCalls
  <1>11. CASE n = 2
    <2>1. call = setup[2] /\ next = 3
      BY <1>9, <1>11
    <2> QED
      BY <1>5, <1>8, <1>11, <2>1, Zenon DEF Steps, AtSend, PlainCalls
  <1>12. CASE n = 3
    <2>1. call = setup[3] /\ next = 4
      BY <1>9, <1>12
    <2> QED
      BY <1>5, <1>8, <1>12, <2>1, Zenon DEF Steps, AtSend, PlainCalls
  <1>13. CASE n = 4
    <2>1. call = setup[4] /\ next = 5
      BY <1>9, <1>13
    <2> QED
      BY <1>5, <1>8, <1>13, <2>1, Zenon DEF Steps, AtSend, PlainCalls
  <1>14. CASE n = 5
    <2>1. call = setup[5] /\ next = 6
      BY <1>9, <1>14
    <2> QED
      BY <1>5, <1>8, <1>14, <2>1, Zenon DEF Steps, AtSend, PlainCalls
  <1>15. CASE n = 6
    <2>1. call = setup[6] /\ next = 7
      BY <1>9, <1>15
    <2> QED
      BY <1>5, <1>8, <1>15, <2>1, Zenon DEF Steps, AtSend, PlainCalls
  <1>16. CASE n = 7
    <2>1. call = loop[1] /\ next = 8
      BY <1>9, <1>16
    <2> QED
      BY <1>7, <1>8, <1>16, <2>1, Zenon DEF Steps, AtSend, PlainCalls
  <1>17. CASE n = 8
    <2>1. call = loop[2] /\ next = 9
      BY <1>9, <1>17
    <2> QED
      BY <1>7, <1>8, <1>17, <2>1, Zenon DEF Steps, AtSend, PlainCalls
  <1>18. CASE n = 9
    <2>1. call = loop[3] /\ next = 10
      BY <1>9, <1>18
    <2> QED
      BY <1>7, <1>8, <1>18, <2>1, Zenon DEF Steps, AtSend, PlainCalls
  <1>19. CASE n = 10
    <2>1. call = loop[4] /\ next = 11
      BY <1>9, <1>19
    <2> QED
      BY <1>7, <1>8, <1>19, <2>1, Zenon DEF Steps, AtSend, PlainCalls
  <1>20. CASE n = 11
    <2>1. call = loop[5] /\ next = 12
      BY <1>9, <1>20
    <2> QED
      BY <1>7, <1>8, <1>20, <2>1, Zenon DEF Steps, AtSend, PlainCalls
  <1>21. CASE n = 12
    <2>1. call = loop[6] /\ next = 13
      BY <1>9, <1>21
    <2> QED
      BY <1>7, <1>8, <1>21, <2>1, Zenon DEF Steps, AtSend, PlainCalls
  <1>22. CASE n = 13
    <2>1. call = loop[7] /\ next = 14
      BY <1>9, <1>22
    <2> QED
      BY <1>7, <1>8, <1>22, <2>1, Zenon DEF Steps, AtSend, PlainCalls
  <1>23. CASE n = 14
    <2>1. call = loop[8] /\ next = 15
      BY <1>9, <1>23
    <2> QED
      BY <1>7, <1>8, <1>23, <2>1, Zenon DEF Steps, AtSend, PlainCalls
  <1>24. CASE n = 15
    <2>1. call = loop[9] /\ next = 16
      BY <1>9, <1>24
    <2> QED
      BY <1>7, <1>8, <1>24, <2>1, Zenon DEF Steps, AtSend, PlainCalls
  <1>25. CASE n = 16
    <2>1. call = loop[10] /\ next = 17
      BY <1>9, <1>25
    <2> QED
      BY <1>7, <1>8, <1>25, <2>1, Zenon DEF Steps, AtSend, PlainCalls
  <1>26. CASE n = 17
    <2>1. call = loop[11] /\ next = 18
      BY <1>9, <1>26
    <2> QED
      BY <1>7, <1>8, <1>26, <2>1, Zenon DEF Steps, AtSend, PlainCalls
  <1>27. CASE n = 18
    <2>1. call = loop[12] /\ next = 19
      BY <1>9, <1>27
    <2> QED
      BY <1>7, <1>8, <1>27, <2>1, Zenon DEF Steps, AtSend, PlainCalls
  <1>28. CASE n = 19
    <2>1. call = loop[13] /\ next = 7
      BY <1>9, <1>28
    <2> QED
      BY <1>7, <1>8, <1>28, <2>1, Zenon DEF Steps, AtSend, PlainCalls
  <1> QED
    BY <1>10, <1>11, <1>12, <1>13, <1>14, <1>15, <1>16, <1>17, <1>18, <1>19, <1>20, <1>21,
       <1>22, <1>23, <1>24, <1>25, <1>26, <1>27, <1>28

\* that sleep after a transmission,
LEMMA AutoSteps ==
  ASSUME prog = "auto", pc \in Nat, Call(prog) # "none"
  PROVE  /\ Steps(Call(prog), StageAt(prog, pc), StageAt(prog, AfterCall(prog)))
         /\ AfterCall(prog) \in Nat \ {0} /\ pc # 0
  <1> DEFINE setup == <<"spiSelect", "checkidlerc", "initialise", "configure",
                        "configuretxrf", "configuresleep WUP", "entersleepaftertx",
                        "clear enabled">>
             loop == <<"write", "starttx", "pause", "wakeup", "await idlerc",
                       "restoreconfig">>
  <1>1. prog \in DOMAIN Programs /\ Programs[prog].setup = setup /\ Programs[prog].loop = loop
    BY DEF Programs, ex_01c_tx_sleep_auto, Program
  <1>2. setup \in Seq(CallNames) /\ Len(setup) = 8
    BY DEF CallNames
  <1>3. loop \in Seq(CallNames) /\ Len(loop) = 6
    BY DEF CallNames
  <1>4. /\ pc \in 1..14 /\ Call(prog) = IF pc <= 8 THEN setup[pc] ELSE loop[pc - 8]
        /\ AfterCall(prog) = IF pc < 14 THEN pc + 1 ELSE 9
    <2> HIDE DEF setup, loop
    <2>1. /\ pc \in 1..(Len(setup) + Len(loop))
          /\ Call(prog) = IF pc <= Len(setup) THEN setup[pc] ELSE loop[pc - Len(setup)]
          /\ AfterCall(prog) = IF pc < Len(setup) + Len(loop) THEN pc + 1 ELSE Len(setup) + 1
      BY <1>1, <1>2, <1>3, CallIs
    <2> QED
      BY <1>2, <1>3, <2>1
  <1>5. /\ setup[1] = "spiSelect" /\ setup[2] = "checkidlerc" /\ setup[3] = "initialise"
        /\ setup[4] = "configure" /\ setup[5] = "configuretxrf"
        /\ setup[6] = "configuresleep WUP" /\ setup[7] = "entersleepaftertx"
        /\ setup[8] = "clear enabled"
    OBVIOUS
  <1>7. /\ loop[1] = "write" /\ loop[2] = "starttx" /\ loop[3] = "pause"
        /\ loop[4] = "wakeup" /\ loop[5] = "await idlerc" /\ loop[6] = "restoreconfig"
    OBVIOUS
  <1> HIDE DEF setup, loop
  <1>8. /\ StageAt(prog, 1) = "off" /\ StageAt(prog, 2) = "off" /\ StageAt(prog, 3) = "off"
        /\ StageAt(prog, 4) = "ready" /\ StageAt(prog, 5) = "tuned"
        /\ StageAt(prog, 6) = "tuned" /\ StageAt(prog, 7) = "wakes"
        /\ StageAt(prog, 8) = "wakes" /\ StageAt(prog, 9) = "wakes"
        /\ StageAt(prog, 10) = "wakes" /\ StageAt(prog, 11) = "wakes"
        /\ StageAt(prog, 12) = "wakes" /\ StageAt(prog, 13) = "wakes"
        /\ StageAt(prog, 14) = "wakes"
    BY DEF StageAt, Stages
  <1> SUFFICES ASSUME NEW call, NEW next, NEW n \in 1..14, n = pc, call = Call(prog),
                      next = AfterCall(prog)
               PROVE  Steps(call, StageAt(prog, n), StageAt(prog, next))
    BY <1>4
  <1>9. /\ n <= 8 => call = setup[n]
        /\ n > 8 => call = loop[n - 8]
        /\ next = IF n < 14 THEN n + 1 ELSE 9
    BY <1>4
  <1>10. CASE n = 1
    <2>1. call = setup[1] /\ next = 2
      BY <1>9, <1>10
    <2> QED
      BY <1>5, <1>8, <1>10, <2>1, Zenon DEF Steps, AtSend, PlainCalls
  <1>11. CASE n = 2
    <2>1. call = setup[2] /\ next = 3
      BY <1>9, <1>11
    <2> QED
      BY <1>5, <1>8, <1>11, <2>1, Zenon DEF Steps, AtSend, PlainCalls
  <1>12. CASE n = 3
    <2>1. call = setup[3] /\ next = 4
      BY <1>9, <1>12
    <2> QED
      BY <1>5, <1>8, <1>12, <2>1, Zenon DEF Steps, AtSend, PlainCalls
  <1>13. CASE n = 4
    <2>1. call = setup[4] /\ next = 5
      BY <1>9, <1>13
    <2> QED
      BY <1>5, <1>8, <1>13, <2>1, Zenon DEF Steps, AtSend, PlainCalls
  <1>14. CASE n = 5
    <2>1. call = setup[5] /\ next = 6
      BY <1>9, <1>14
    <2> QED
      BY <1>5, <1>8, <1>14, <2>1, Zenon DEF Steps, AtSend, PlainCalls
  <1>15. CASE n = 6
    <2>1. call = setup[6] /\ next = 7
      BY <1>9, <1>15
    <2> QED
      BY <1>5, <1>8, <1>15, <2>1, Zenon DEF Steps, AtSend, PlainCalls
  <1>16. CASE n = 7
    <2>1. call = setup[7] /\ next = 8
      BY <1>9, <1>16
    <2> QED
      BY <1>5, <1>8, <1>16, <2>1, Zenon DEF Steps, AtSend, PlainCalls
  <1>17. CASE n = 8
    <2>1. call = setup[8] /\ next = 9
      BY <1>9, <1>17
    <2> QED
      BY <1>5, <1>8, <1>17, <2>1, Zenon DEF Steps, AtSend, PlainCalls
  <1>18. CASE n = 9
    <2>1. call = loop[1] /\ next = 10
      BY <1>9, <1>18
    <2> QED
      BY <1>7, <1>8, <1>18, <2>1, Zenon DEF Steps, AtSend, PlainCalls
  <1>19. CASE n = 10
    <2>1. call = loop[2] /\ next = 11
      BY <1>9, <1>19
    <2> QED
      BY <1>7, <1>8, <1>19, <2>1, Zenon DEF Steps, AtSend, PlainCalls
  <1>20. CASE n = 11
    <2>1. call = loop[3] /\ next = 12
      BY <1>9, <1>20
    <2> QED
      BY <1>7, <1>8, <1>20, <2>1, Zenon DEF Steps, AtSend, PlainCalls
  <1>21. CASE n = 12
    <2>1. call = loop[4] /\ next = 13
      BY <1>9, <1>21
    <2> QED
      BY <1>7, <1>8, <1>21, <2>1, Zenon DEF Steps, AtSend, PlainCalls
  <1>22. CASE n = 13
    <2>1. call = loop[5] /\ next = 14
      BY <1>9, <1>22
    <2> QED
      BY <1>7, <1>8, <1>22, <2>1, Zenon DEF Steps, AtSend, PlainCalls
  <1>23. CASE n = 14
    <2>1. call = loop[6] /\ next = 9
      BY <1>9, <1>23
    <2> QED
      BY <1>7, <1>8, <1>23, <2>1, Zenon DEF Steps, AtSend, PlainCalls
  <1> QED
    BY <1>10, <1>11, <1>12, <1>13, <1>14, <1>15, <1>16, <1>17, <1>18, <1>19, <1>20, <1>21,
       <1>22, <1>23

\* and that listen.
LEMMA RxSteps ==
  ASSUME prog = "rx", pc \in Nat, Call(prog) # "none"
  PROVE  /\ Steps(Call(prog), StageAt(prog, pc), StageAt(prog, AfterCall(prog)))
         /\ AfterCall(prog) \in Nat \ {0} /\ pc # 0
  <1> DEFINE setup == <<"spiSelect", "checkidlerc", "softreset", "initialise", "configure">>
             loop == <<"rxenable", "await reception", "take frame">>
  <1>1. prog \in DOMAIN Programs /\ Programs[prog].setup = setup /\ Programs[prog].loop = loop
    BY DEF Programs, ex_02a_simple_rx, Program
  <1>2. setup \in Seq(CallNames) /\ Len(setup) = 5
    BY DEF CallNames
  <1>3. loop \in Seq(CallNames) /\ Len(loop) = 3
    BY DEF CallNames
  <1>4. /\ pc \in 1..8 /\ Call(prog) = IF pc <= 5 THEN setup[pc] ELSE loop[pc - 5]
        /\ AfterCall(prog) = IF pc < 8 THEN pc + 1 ELSE 6
    <2> HIDE DEF setup, loop
    <2>1. /\ pc \in 1..(Len(setup) + Len(loop))
          /\ Call(prog) = IF pc <= Len(setup) THEN setup[pc] ELSE loop[pc - Len(setup)]
          /\ AfterCall(prog) = IF pc < Len(setup) + Len(loop) THEN pc + 1 ELSE Len(setup) + 1
      BY <1>1, <1>2, <1>3, CallIs
    <2> QED
      BY <1>2, <1>3, <2>1
  <1>5. /\ setup[1] = "spiSelect" /\ setup[2] = "checkidlerc" /\ setup[3] = "softreset"
        /\ setup[4] = "initialise" /\ setup[5] = "configure"
    OBVIOUS
  <1>7. /\ loop[1] = "rxenable" /\ loop[2] = "await reception" /\ loop[3] = "take frame"
    OBVIOUS
  <1> HIDE DEF setup, loop
  <1>8. /\ StageAt(prog, 1) = "off" /\ StageAt(prog, 2) = "off" /\ StageAt(prog, 3) = "off"
        /\ StageAt(prog, 4) = "off" /\ StageAt(prog, 5) = "ready"
        /\ StageAt(prog, 6) = "tuned" /\ StageAt(prog, 7) = "listens"
        /\ StageAt(prog, 8) = "takes"
    BY DEF StageAt, Stages
  <1> SUFFICES ASSUME NEW call, NEW next, NEW n \in 1..8, n = pc, call = Call(prog),
                      next = AfterCall(prog)
               PROVE  Steps(call, StageAt(prog, n), StageAt(prog, next))
    BY <1>4
  <1>9. /\ n <= 5 => call = setup[n]
        /\ n > 5 => call = loop[n - 5]
        /\ next = IF n < 8 THEN n + 1 ELSE 6
    BY <1>4
  <1>10. CASE n = 1
    <2>1. call = setup[1] /\ next = 2
      BY <1>9, <1>10
    <2> QED
      BY <1>5, <1>8, <1>10, <2>1, Zenon DEF Steps, AtSend, PlainCalls
  <1>11. CASE n = 2
    <2>1. call = setup[2] /\ next = 3
      BY <1>9, <1>11
    <2> QED
      BY <1>5, <1>8, <1>11, <2>1, Zenon DEF Steps, AtSend, PlainCalls
  <1>12. CASE n = 3
    <2>1. call = setup[3] /\ next = 4
      BY <1>9, <1>12
    <2> QED
      BY <1>5, <1>8, <1>12, <2>1, Zenon DEF Steps, AtSend, PlainCalls
  <1>13. CASE n = 4
    <2>1. call = setup[4] /\ next = 5
      BY <1>9, <1>13
    <2> QED
      BY <1>5, <1>8, <1>13, <2>1, Zenon DEF Steps, AtSend, PlainCalls
  <1>14. CASE n = 5
    <2>1. call = setup[5] /\ next = 6
      BY <1>9, <1>14
    <2> QED
      BY <1>5, <1>8, <1>14, <2>1, Zenon DEF Steps, AtSend, PlainCalls
  <1>15. CASE n = 6
    <2>1. call = loop[1] /\ next = 7
      BY <1>9, <1>15
    <2> QED
      BY <1>7, <1>8, <1>15, <2>1, Zenon DEF Steps, AtSend, PlainCalls
  <1>16. CASE n = 7
    <2>1. call = loop[2] /\ next = 8
      BY <1>9, <1>16
    <2> QED
      BY <1>7, <1>8, <1>16, <2>1, Zenon DEF Steps, AtSend, PlainCalls
  <1>17. CASE n = 8
    <2>1. call = loop[3] /\ next = 6
      BY <1>9, <1>17
    <2> QED
      BY <1>7, <1>8, <1>17, <2>1, Zenon DEF Steps, AtSend, PlainCalls
  <1> QED
    BY <1>10, <1>11, <1>12, <1>13, <1>14, <1>15, <1>16, <1>17

Owed == Len(delivered) - Len(read)

Readings == {ReadingOf(i) : i \in Nat}

\* Frames are numbered as they are delivered, and read in this order.
LogOK(all, taken) ==
  /\ all \in Seq(Nat) /\ \A i \in 1..Len(all) : all[i] = i
  /\ taken \in Seq(Readings) /\ \A i \in 1..Len(taken) : taken[i] = ReadingOf(i)
  /\ Len(taken) <= Len(all)

AppInv == prog = "app" => AppOK(r, phase, config, isr, checking, Owed, Len(delivered))

PollInv ==
  prog # "app" =>
    /\ pc \in Nat /\ PollOK(prog, pc, r, Owed, Len(delivered))
    /\ config = ExampleConfig /\ isr.at = "none" /\ checking = FALSE

IInv ==
  /\ prog \in DOMAIN Programs \cup {"app"}
  /\ isr = [at |-> isr.at, status |-> isr.status, fstat |-> isr.fstat]
  /\ LogOK(delivered, read) /\ AppInv /\ PollInv

\* No late transmission leaves.
SendsInTime == r.power = "TX" /\ "TXFRS" \in r'.ev => ~r.late

\* One more frame was delivered,
LEMMA LogDelivered ==
  ASSUME NEW all, NEW taken, LogOK(all, taken)
  PROVE  LET more == Append(all, Len(all) + 1)
         IN  LogOK(more, taken) /\ Len(more) = Len(all) + 1
  <1> DEFINE more == Append(all, Len(all) + 1)
  <1>1. all \in Seq(Nat) /\ Len(all) \in Nat /\ Len(taken) \in Nat
    BY DEF LogOK
  <1>2. more \in Seq(Nat) /\ Len(more) = Len(all) + 1
        /\ \A i \in 1..Len(more) : more[i] = IF i = Len(all) + 1 THEN Len(all) + 1 ELSE all[i]
    BY <1>1
  <1> HIDE DEF more
  <1>3. ASSUME NEW i \in 1..Len(more)
        PROVE  more[i] = i
    <2>1. i = Len(all) + 1 \/ i \in 1..Len(all)
      BY <1>1, <1>2
    <2> QED
      BY <1>2, <2>1 DEF LogOK
  <1>4. LogOK(more, taken)
    BY <1>1, <1>2, <1>3 DEF LogOK
  <1> QED
    BY <1>2, <1>4 DEF more

\* one more was read.
LEMMA LogRead ==
  ASSUME NEW all, NEW taken, LogOK(all, taken), Len(taken) < Len(all)
  PROVE  LET more == Append(taken, ReadingOf(Len(taken) + 1))
         IN  LogOK(all, more) /\ Len(more) = Len(taken) + 1
  <1> DEFINE next == ReadingOf(Len(taken) + 1)
             more == Append(taken, next)
  <1>1. all \in Seq(Nat) /\ Len(all) \in Nat /\ taken \in Seq(Readings) /\ Len(taken) \in Nat
    BY DEF LogOK
  <1>2. next \in Readings
    BY <1>1 DEF Readings
  <1> HIDE DEF next
  <1>3. more \in Seq(Readings) /\ Len(more) = Len(taken) + 1
        /\ \A i \in 1..Len(more) : more[i] = IF i = Len(taken) + 1 THEN next ELSE taken[i]
    BY <1>1, <1>2
  <1> HIDE DEF more
  <1>4. ASSUME NEW i \in 1..Len(more)
        PROVE  more[i] = ReadingOf(i)
    <2>1. i = Len(taken) + 1 \/ (i \in 1..Len(taken) /\ i # Len(taken) + 1)
      BY <1>1, <1>3
    <2>2. i \in 1..Len(taken) => taken[i] = ReadingOf(i)
      BY DEF LogOK
    <2> QED
      BY <1>3, <2>1, <2>2 DEF next
  <1>5. LogOK(all, more)
    BY <1>1, <1>3, <1>4 DEF LogOK
  <1> QED
    BY <1>3, <1>5 DEF more, next

\* What the invariant says of the lengths.
LEMMA Lengths ==
  ASSUME IInv
  PROVE  Len(delivered) \in Nat /\ Len(read) \in Nat /\ Owed \in Nat
  <1>1. delivered \in Seq(Nat) /\ read \in Seq(Readings) /\ Len(read) <= Len(delivered)
    BY DEF IInv, LogOK
  <1>2. Len(delivered) \in Nat /\ Len(read) \in Nat
    BY <1>1
  <1> QED
    BY <1>1, <1>2 DEF Owed

\* The radio that is powered up.
LEMMA PoweredIs ==
  ASSUME NEW otp
  PROVE  LET q == PoweredUp(otp)
         IN  /\ HasFields(q) /\ q.power = "IDLE_RC" /\ q.ev \cap RxEvents = {}
             /\ q.late = FALSE /\ q.w4r = FALSE /\ q.double = FALSE /\ q.fill = 0
             /\ q.rearm = FALSE /\ q.rf = {} /\ q.cb = FALSE /\ DOMAIN q.buf = 0..1
             /\ q.atx2slp = FALSE /\ q.err = FALSE
  <1> DEFINE q == PoweredUp(otp)
             D == DOMAIN LocalData \cup DOMAIN ChipReset \cup {"otp"}
  <1>1. DOMAIN q = D
    BY DEF PoweredUp
  <1>2. HasFields(q)
    BY <1>1 DEF HasFields, Fields, LocalData, ChipReset
  <1>3. \A f \in DOMAIN ChipReset : f \notin DOMAIN LocalData => q[f] = ChipReset[f]
    BY DEF PoweredUp
  <1>4. "cb" \in DOMAIN LocalData /\ "err" \in DOMAIN LocalData
        /\ LocalData["cb"] = FALSE /\ LocalData["err"] = FALSE
        /\ "cb" \notin DOMAIN ChipReset /\ "err" \notin DOMAIN ChipReset
    BY DEF LocalData, ChipReset
  <1>6. \A f \in DOMAIN LocalData : f \notin DOMAIN ChipReset => q[f] = LocalData[f]
    BY DEF PoweredUp
  <1>5. q["cb"] = LocalData["cb"] /\ q["err"] = LocalData["err"]
    BY <1>4, <1>6, Zenon
  <1> QED
    BY <1>2, <1>3, <1>4, <1>5
       DEF LocalData, ChipReset, RxEvents, ALL_RX_GOOD, ALL_RX_ERR, ALL_RX_TO

\* The invariant holds at first.
LEMMA InitOK ==
  ASSUME Init
  PROVE  IInv
  <1>1. PICK otp \in SUBSET {"TRIM", "DGC"} : r = PoweredUp(otp)
    BY DEF Init
  <1>2. /\ HasFields(r) /\ r.power = "IDLE_RC" /\ r.ev \cap RxEvents = {}
        /\ r.late = FALSE /\ r.w4r = FALSE /\ r.double = FALSE /\ r.fill = 0
        /\ r.rearm = FALSE /\ r.rf = {} /\ r.cb = FALSE /\ DOMAIN r.buf = 0..1
        /\ r.atx2slp = FALSE /\ r.err = FALSE
    BY <1>1, PoweredIs
  <1>3. /\ prog \in DOMAIN Programs \cup {"app"} /\ phase = "reset" /\ config = ExampleConfig
        /\ isr = [at |-> "none", status |-> {}, fstat |-> {}] /\ checking = FALSE
        /\ delivered = <<>> /\ read = <<>> /\ (prog # "app" => pc = 1)
    BY DEF Init
  <1>4. isr.at = "none" /\ isr = [at |-> isr.at, status |-> isr.status, fstat |-> isr.fstat]
    BY <1>3
  <1>5. Len(delivered) = 0 /\ Len(read) = 0 /\ Owed = 0
    BY <1>3 DEF Owed
  <1>6. LogOK(delivered, read)
    BY <1>3, <1>5 DEF LogOK
  <1>7. config.chan \in Channels
    BY <1>3, ExampleIs DEF Channels
  <1>8. AppOK(r, "reset", config, isr, FALSE, 0, 0)
    BY <1>2, <1>4, <1>7, Unready DEF Seen, OnAir
  <1>9. AppInv
    BY <1>3, <1>5, <1>8 DEF AppInv
  <1>10. Base(r) /\ ~OnAir(r) /\ r.power # "RX" /\ "RXFCG" \notin r.ev
    BY <1>2 DEF Base, OnAir, RxEvents, ALL_RX_GOOD
  <1>11. StageOK("off", r, 0, 0)
    BY <1>10 DEF StageOK
  <1>12. prog # "app" => StageAt(prog, 1) = "off"
    BY <1>3 DEF StageAt, Stages, Programs
  <1>13. PollInv
    BY <1>2, <1>3, <1>4, <1>5, <1>11, <1>12 DEF PollInv, PollOK
  <1> QED
    BY <1>3, <1>4, <1>6, <1>9, <1>13 DEF IInv

\* The application's steps that no frame takes part in.
LEMMA AppStays ==
  ASSUME IInv, prog = "app", prog' = prog, delivered' = delivered, read' = read,
         isr' = [at |-> isr'.at, status |-> isr'.status, fstat |-> isr'.fstat],
         AppOK(r', phase', config', isr', checking', Owed, Len(delivered))
  PROVE  IInv'
  <1>1. Owed' = Owed /\ Len(delivered)' = Len(delivered)
    BY DEF Owed
  <1>2. AppInv'
    BY <1>1 DEF AppInv
  <1>3. PollInv'
    BY DEF PollInv
  <1> QED
    BY <1>2, <1>3 DEF IInv

\* What the invariant says of the application.
LEMMA AppIs ==
  ASSUME IInv, prog = "app"
  PROVE  /\ AppOK(r, phase, config, isr, checking, Owed, Len(delivered))
         /\ HasFields(r) /\ r.rearm = FALSE
         /\ isr = [at |-> isr.at, status |-> isr.status, fstat |-> isr.fstat]
  BY DEF IInv, AppInv, AppOK, SettingsOK

\* A radio that is not sending ends no transmission.
LEMMA IdleSends ==
  ASSUME r.power # "TX"
  PROVE  SendsInTime
  BY DEF SendsInTime

-----------------------------------------------------------------------------
(***************************************************************************)
(* The steps of the main thread                                            *)
(***************************************************************************)

\* Initialise.
LEMMA InitialiseStep ==
  ASSUME IInv, Initialise
  PROVE  IInv' /\ SendsInTime
  <1>1. /\ prog = "app" /\ phase = "reset" /\ isr.at = "none" /\ checking = FALSE
        /\ r' = dwt_initialise(r) /\ phase' = "initialised" /\ config' = config
        /\ checking' = FALSE /\ isr' = isr /\ prog' = prog /\ delivered' = delivered /\ read' = read
    BY AppIs DEF Initialise, Main, Unread, AppOK, LateOK
  <1>2. AppOK(r, "reset", config, isr, FALSE, Owed, Len(delivered))
    BY <1>1, AppIs
  <1>3. AppOK(r', phase', config', isr', checking', Owed, Len(delivered))
    BY <1>1, <1>2, InitialiseKeeps
  <1>4. r.power # "TX"
    BY <1>2 DEF AppOK, IdleOK, Ready, OnAir
  <1> QED
    BY <1>1, <1>3, <1>4, AppIs, AppStays, IdleSends

\* What an operation of the main thread starts from.
LEMMA Operates ==
  ASSUME IInv, NEW phases, Operation(phases)
  PROVE  /\ prog = "app" /\ phase \in phases /\ isr.at = "none" /\ checking = FALSE
         /\ AppOK(r, phase, config, isr, FALSE, Owed, Len(delivered)) /\ HasFields(r)
  BY AppIs DEF Operation, Main, AppOK, LateOK

\* And what its end has to be.
LEMMA Operated ==
  ASSUME IInv, prog = "app", r.power # "TX", UNCHANGED <<prog, Unread>>,
         AppOK(r', phase', config', isr, checking', Owed, Len(delivered))
  PROVE  IInv' /\ SendsInTime
  <1>1. prog' = prog /\ isr' = isr /\ delivered' = delivered /\ read' = read
    BY DEF Unread
  <1> QED
    BY <1>1, AppIs, AppStays, IdleSends

\* Listen.
LEMMA ListenStep ==
  ASSUME IInv, Listen
  PROVE  IInv' /\ SendsInTime
  <1>1. /\ Operation({"configured", "restored"}) /\ Quiet
        /\ UNCHANGED <<prog, pc, phase, config, checking, Unread>>
    BY DEF Listen
  <1>2. /\ prog = "app" /\ Ready(phase) /\ isr.at = "none" /\ checking = FALSE
        /\ AppOK(r, phase, config, isr, FALSE, Owed, Len(delivered)) /\ HasFields(r)
    BY <1>1, Operates DEF Ready
  <1>3. ~OnAir(r) /\ ~(r.cb /\ IrqLine(r)) /\ r.power # "TX"
    BY <1>1 DEF Quiet, OnAir
  <1>4. r' = dwt_rxenable(r, "IMMEDIATE", FALSE) => Listens(r, r')
    BY <1>2, <1>3, RxEnableIs
  <1>7. ASSUME NEW mode \in {"DELAYED", "IDLE_ON_DLY_ERR"}, NEW late \in BOOLEAN,
               r' = dwt_rxenable(r, mode, late)
        PROVE  Listens(r, r')
    BY <1>2, <1>3, <1>7, RxEnableIs
  <1>5. Listens(r, r')
    BY <1>4, <1>7 DEF Listen
  <1>6. AppOK(r', phase, config, isr, FALSE, Owed, Len(delivered))
    BY <1>2, <1>3, <1>5, ListenKeeps
  <1> QED
    BY <1>1, <1>2, <1>3, <1>6, Operated

\* Stop.
LEMMA StopStep ==
  ASSUME IInv, StopListening
  PROVE  IInv' /\ SendsInTime
  <1>1. /\ Operation({"configured", "restored"}) /\ r.power = "RX" /\ r' = dwt_forcetrxoff(r)
        /\ UNCHANGED <<prog, pc, phase, config, checking, Unread>>
    BY DEF StopListening
  <1>2. /\ prog = "app" /\ Ready(phase) /\ isr.at = "none" /\ checking = FALSE
        /\ AppOK(r, phase, config, isr, FALSE, Owed, Len(delivered))
    BY <1>1, Operates DEF Ready
  <1>3. AppOK(r', phase, config, isr, FALSE, Owed, Len(delivered))
    BY <1>1, <1>2, StopKeeps
  <1> QED
    BY <1>1, <1>2, <1>3, Operated

\* Send.
LEMMA SendStep ==
  ASSUME IInv, Send
  PROVE  IInv' /\ SendsInTime
  <1>1. /\ Operation({"configured", "restored"}) /\ Quiet
        /\ UNCHANGED <<prog, pc, phase, config, Unread>>
    BY DEF Send
  <1>2. /\ prog = "app" /\ Ready(phase) /\ isr.at = "none" /\ checking = FALSE
        /\ AppOK(r, phase, config, isr, FALSE, Owed, Len(delivered)) /\ HasFields(r)
    BY <1>1, Operates DEF Ready
  <1>3. ~(r.cb /\ IrqLine(r)) /\ r.power # "TX"
    BY <1>1 DEF Quiet
  <1>4. PICK w4r \in BOOLEAN :
          \/ r' = dwt_starttx(LoadFrame(r, 0), w4r) /\ checking' = checking
          \/ /\ \E late \in Lateness :
                  r' = StartDelayed(dwt_setdelayedtrxtime(LoadFrame(r, 0), 0), late, w4r)
             /\ checking' = TRUE
    BY DEF Send
  <1>5. CASE r' = dwt_starttx(LoadFrame(r, 0), w4r) /\ checking' = checking
    <2>1. Sends(r, r') /\ r'.late = FALSE /\ checking' \in BOOLEAN
      BY <1>2, <1>5, SendAtOnce
    <2>2. AppOK(r', phase, config, isr, checking', Owed, Len(delivered))
      BY <1>2, <1>3, <2>1, SendKeeps
    <2> QED
      BY <1>1, <1>2, <1>3, <2>2, Operated
  <1>6. CASE /\ \E late \in Lateness :
                  r' = StartDelayed(dwt_setdelayedtrxtime(LoadFrame(r, 0), 0), late, w4r)
             /\ checking' = TRUE
    <2>1. Sends(r, r') /\ checking' = TRUE /\ checking' \in BOOLEAN
      BY <1>2, <1>6, SendLater
    <2>2. AppOK(r', phase, config, isr, checking', Owed, Len(delivered))
      BY <1>2, <1>3, <2>1, SendKeeps
    <2> QED
      BY <1>1, <1>2, <1>3, <2>2, Operated
  <1> QED
    BY <1>4, <1>5, <1>6

\* CheckSent.
LEMMA CheckStep ==
  ASSUME IInv, CheckTime
  PROVE  IInv' /\ SendsInTime
  <1>1. /\ checking /\ isr.at = "none" /\ r' = CheckDelayed(r) /\ checking' = FALSE
        /\ UNCHANGED <<prog, pc, phase, config, calls, Unread>>
    BY DEF CheckTime
  <1>2. prog = "app"
    BY <1>1 DEF IInv, PollInv
  <1>3. checking = TRUE /\ AppOK(r, phase, config, isr, TRUE, Owed, Len(delivered)) /\ HasFields(r)
    BY <1>1, <1>2, AppIs DEF AppOK, LateOK
  <1>4. AppOK(r', phase, config, isr, FALSE, Owed, Len(delivered))
    BY <1>1, <1>3, CheckKeeps
  <1>5. Changes(r, r', {"power", "w4r", "late", "txerr", "delayed", "err"})
    BY <1>1, <1>3, CheckIs
  <1>6. r'.ev = r.ev
    BY <1>3, <1>5, FieldsThere, Zenon DEF Changes
  <1>7. SendsInTime
    BY <1>3, <1>6 DEF SendsInTime, AppOK, LateOK
  <1>8. prog' = prog /\ isr' = isr /\ delivered' = delivered /\ read' = read
    BY <1>1 DEF Unread
  <1>9. AppOK(r', phase', config', isr', checking', Owed, Len(delivered))
    BY <1>1, <1>4, <1>8
  <1> QED
    BY <1>2, <1>7, <1>8, <1>9, AppIs, AppStays

\* Configure.
LEMMA ConfigureStep ==
  ASSUME HostAssumption, IInv, Configure
  PROVE  IInv' /\ SendsInTime
  <1>1. /\ Operation({"initialised", "configured", "restored"}) /\ Quiet
        /\ UNCHANGED <<prog, pc, checking, Unread>>
    BY DEF Configure
  <1>2. /\ prog = "app" /\ phase \in {"initialised", "configured", "restored"}
        /\ isr.at = "none" /\ checking = FALSE
        /\ AppOK(r, phase, config, isr, FALSE, Owed, Len(delivered)) /\ HasFields(r)
    BY <1>1, Operates
  <1>3. r.power \in {"IDLE", "IDLE_RC"} /\ ~(r.cb /\ IrqLine(r)) /\ r.power # "TX"
    BY <1>1 DEF Quiet
  <1>9. PICK c \in Configs : \E q \in dwt_configure(r, c) :
          /\ config' = c
          /\ IF q.err THEN r' = q /\ phase' = "failed"
             ELSE /\ \E double \in BOOLEAN :
                       \E level \in IF double THEN {"MIN", "MID", "MAX"} ELSE {"OFF", "ALL"} :
                         r' = PreparedBy(q, EventsFor(c), level, double)
                  /\ phase' = "configured"
    BY DEF Configure, PreparedBy, EventsFor
  <1>4. PICK q \in dwt_configure(r, c) :
          /\ config' = c
          /\ IF q.err THEN r' = q /\ phase' = "failed"
             ELSE /\ \E double \in BOOLEAN :
                       \E level \in IF double THEN {"MIN", "MID", "MAX"} ELSE {"OFF", "ALL"} :
                         r' = PreparedBy(q, EventsFor(c), level, double)
                  /\ phase' = "configured"
    BY <1>9
  <1>5. c.chan \in Channels /\ c.rxCode \in 9..24
    BY DEF HostAssumption
  <1>6. Configured(r, c, q)
    BY <1>2, <1>5, ConfigureIs
  <1>7. CASE q.err
    <2>1. AppOK(q, "failed", c, isr, FALSE, Owed, Len(delivered))
      BY <1>2, <1>3, <1>5, <1>6, ConfigureFails
    <2>2. AppOK(r', phase', config', isr, checking', Owed, Len(delivered))
      BY <1>1, <1>2, <1>4, <1>7, <2>1
    <2> QED
      BY <1>1, <1>2, <1>3, <2>2, Operated
  <1>8. CASE ~q.err
    <2>1. PICK double \in BOOLEAN :
            \E level \in IF double THEN {"MIN", "MID", "MAX"} ELSE {"OFF", "ALL"} :
              r' = PreparedBy(q, EventsFor(c), level, double)
      BY <1>4, <1>8
    <2>2. PICK level \in IF double THEN {"MIN", "MID", "MAX"} ELSE {"OFF", "ALL"} :
            r' = PreparedBy(q, EventsFor(c), level, double)
      BY <2>1
    <2>3. double = TRUE => level \in {"MIN", "MID", "MAX"}
      BY <2>2
    <2>4. AppOK(PreparedBy(q, EventsFor(c), level, double), "configured", c, isr, FALSE, Owed,
                Len(delivered))
      BY <1>2, <1>3, <1>5, <1>6, <1>8, <2>3, ConfigureSucceeds
    <2>5. AppOK(r', phase', config', isr, checking', Owed, Len(delivered))
      BY <1>1, <1>2, <1>4, <1>8, <2>2, <2>4
    <2> QED
      BY <1>1, <1>2, <1>3, <2>5, Operated
  <1> QED
    BY <1>7, <1>8

\* EnterSleep.
LEMMA EnterSleepStep ==
  ASSUME IInv, EnterSleep
  PROVE  IInv' /\ SendsInTime
  <1>1. /\ Operation({"configured"}) /\ Quiet /\ r.dbl = "OFF" /\ phase' = "asleep"
        /\ r' = dwt_entersleep(dwt_configuresleep(r, {"CONFIG"}, {"WAKE_CSN", "SLP_EN"}), "IDLE")
        /\ UNCHANGED <<prog, pc, config, checking, Unread>>
    BY DEF EnterSleep
  <1>2. /\ prog = "app" /\ phase \in {"configured"} /\ isr.at = "none" /\ checking = FALSE
        /\ AppOK(r, phase, config, isr, FALSE, Owed, Len(delivered))
    BY <1>1, Operates
  <1>3. ~(r.cb /\ IrqLine(r)) /\ r.power # "TX"
    BY <1>1 DEF Quiet
  <1>4. AppOK(r, "configured", config, isr, FALSE, Owed, Len(delivered))
    BY <1>2
  <1>5. AppOK(r', "asleep", config, isr, FALSE, Owed, Len(delivered))
    BY <1>1, <1>2, <1>3, <1>4, SleepKeeps
  <1> QED
    BY <1>1, <1>2, <1>3, <1>5, Operated

\* WakeUp.
LEMMA WakeUpStep ==
  ASSUME IInv, WakeUp
  PROVE  IInv' /\ SendsInTime
  <1>1. /\ Main({"asleep"}) /\ phase' = "restored"
        /\ r' = dwt_restoreconfig(wakeup_device_with_io(r))
        /\ UNCHANGED <<prog, pc, config, calls, checking, Unread>>
    BY DEF WakeUp
  <1>2. /\ prog = "app" /\ isr.at = "none" /\ checking = FALSE
        /\ AppOK(r, "asleep", config, isr, FALSE, Owed, Len(delivered))
    BY <1>1, AppIs DEF Main, AppOK, LateOK
  <1>3. r.power # "TX"
    BY <1>2 DEF AppOK, IdleOK
  <1>4. AppOK(r', "restored", config, isr, FALSE, Owed, Len(delivered))
    BY <1>1, <1>2, WakeKeeps
  <1> QED
    BY <1>1, <1>2, <1>3, <1>4, Operated

\* Calibrate.
LEMMA CalibrateStep ==
  ASSUME IInv, Calibrate
  PROVE  IInv' /\ SendsInTime
  <1>1. /\ Operation({"configured", "restored"}) /\ Quiet /\ r' = dwt_calcpgcount(r, config.chan)
        /\ UNCHANGED <<prog, pc, phase, config, checking, Unread>>
    BY DEF Calibrate
  <1>2. /\ prog = "app" /\ Ready(phase) /\ isr.at = "none" /\ checking = FALSE
        /\ AppOK(r, phase, config, isr, FALSE, Owed, Len(delivered))
    BY <1>1, Operates DEF Ready
  <1>3. r.power # "TX"
    BY <1>1 DEF Quiet
  <1>4. AppOK(r', phase, config, isr, FALSE, Owed, Len(delivered))
    BY <1>1, <1>2, CalibrateKeeps
  <1> QED
    BY <1>1, <1>2, <1>3, <1>4, Operated

\* Test.
LEMMA TestStep ==
  ASSUME IInv, TestTransmit
  PROVE  IInv' /\ SendsInTime
  <1>1. /\ Operation({"configured"}) /\ Quiet /\ phase' = "test"
        /\ UNCHANGED <<prog, pc, config, checking, Unread>>
        /\ r' = dwt_configcwmode(r, config.chan) \/ r' = dwt_configcontinuousframemode(r, config.chan)
    BY DEF TestTransmit
  <1>2. /\ prog = "app" /\ phase \in {"configured"} /\ isr.at = "none" /\ checking = FALSE
        /\ AppOK(r, phase, config, isr, FALSE, Owed, Len(delivered)) /\ HasFields(r)
    BY <1>1, Operates
  <1>3. r.power \in {"IDLE", "IDLE_RC"} /\ ~(r.cb /\ IrqLine(r)) /\ r.power # "TX"
    BY <1>1 DEF Quiet
  <1>4. Changes(r, r', {"clocks", "rf", "test"})
    BY <1>1, <1>2, TestIs
  <1>5. AppOK(r, "configured", config, isr, FALSE, Owed, Len(delivered))
    BY <1>2
  <1>6. AppOK(r', "test", config, isr, FALSE, Owed, Len(delivered))
    BY <1>2, <1>3, <1>4, <1>5, TestKeeps
  <1> QED
    BY <1>1, <1>2, <1>3, <1>6, Operated

\* SoftReset.
LEMMA SoftResetStep ==
  ASSUME IInv, SoftReset
  PROVE  IInv' /\ SendsInTime
  <1>1. /\ Operation({"configured", "restored", "test", "failed"}) /\ Quiet
        /\ r' = dwt_softreset(r) /\ phase' = "reset"
        /\ UNCHANGED <<prog, pc, config, checking, Unread>>
    BY DEF SoftReset
  <1>2. /\ prog = "app" /\ isr.at = "none" /\ checking = FALSE
        /\ AppOK(r, phase, config, isr, FALSE, Owed, Len(delivered))
    BY <1>1, Operates
  <1>3. ~(r.cb /\ IrqLine(r)) /\ r.power # "TX"
    BY <1>1 DEF Quiet
  <1>4. AppOK(r', "reset", config, isr, FALSE, Owed, Len(delivered))
    BY <1>1, <1>2, <1>3, SoftResetKeeps
  <1> QED
    BY <1>1, <1>2, <1>3, <1>4, Operated

\* The main thread keeps the invariant.
LEMMA MainSteps ==
  ASSUME HostAssumption, IInv, AppNext
  PROVE  IInv' /\ SendsInTime
  BY InitialiseStep, ConfigureStep, ListenStep, StopStep, SendStep, CheckStep, EnterSleepStep,
     WakeUpStep, CalibrateStep, TestStep, SoftResetStep DEF AppNext

\* A step of dwt_isr in which nothing is sent and no frame is read.
LEMMA HandledStep ==
  ASSUME IInv, prog = "app", UNCHANGED <<prog, phase, config, delivered, read, checking>>,
         isr' = [at |-> isr'.at, status |-> isr'.status, fstat |-> isr'.fstat],
         AppOK(r', phase, config, isr', checking, Owed, Len(delivered)), SendsNone(r, r')
  PROVE  IInv' /\ SendsInTime
  <1>1. AppOK(r', phase', config', isr', checking', Owed, Len(delivered))
    OBVIOUS
  <1>2. IInv'
    BY <1>1, AppStays
  <1>3. AppOK(r, phase, config, isr, checking, Owed, Len(delivered))
    BY AppIs
  <1>4. SendsInTime
    BY <1>3 DEF SendsInTime, SendsNone, AppOK, LateOK
  <1> QED
    BY <1>2, <1>4

\* Only the application has a handler, and it goes from place to place.
LEMMA Handles ==
  ASSUME IInv, NEW at, Handler(at), at # "none" \/ r.cb
  PROVE  /\ prog = "app" /\ isr.at = at
         /\ UNCHANGED <<prog, phase, config, delivered, checking>>
         /\ AppOK(r, phase, config, isr, checking, Owed, Len(delivered))
         /\ HasFields(r) /\ Owed \in Nat /\ Len(delivered) \in Nat
  <1>1. isr.at = at /\ UNCHANGED <<prog, phase, config, delivered, checking>>
    BY DEF Handler
  <1>2. prog = "app"
    <2> SUFFICES ASSUME prog # "app" PROVE FALSE
      OBVIOUS
    <2>1. isr.at = "none" /\ r.cb = FALSE
      BY DEF IInv, PollInv, PollOK, StageOK, Base
    <2> QED
      BY <1>1, <2>1
  <1> QED
    BY <1>1, <1>2, AppIs, Lengths

\* It stays what it is.
LEMMA Goes ==
  ASSUME IInv, NEW at, Goto(at)
  PROVE  /\ isr'.at = at /\ isr'.fstat = isr.fstat
         /\ isr' = [at |-> isr'.at, status |-> isr'.status, fstat |-> isr'.fstat]
  <1>1. isr = [at |-> isr.at, status |-> isr.status, fstat |-> isr.fstat]
    BY DEF IInv
  <1>2. isr' = [at |-> at, status |-> isr.status, fstat |-> isr.fstat]
    BY <1>1 DEF Goto
  <1> QED
    BY <1>2

\* dwt_isr is entered,
LEMMA EnterStep ==
  ASSUME IInv, IsrEnter
  PROVE  IInv' /\ SendsInTime
  <1>1. /\ Handler("none") /\ r.cb /\ IrqLine(r) /\ r' = r /\ read' = read
        /\ isr' = [at |-> "tx", status |-> r.ev,
                   fstat |-> FintStat(r) \cup IF r.sts = "ND" /\ "RXFR" \in r.ev
                                              THEN {"RXOK"} ELSE {}]
    BY DEF IsrEnter
  <1>2. /\ prog = "app" /\ isr.at = "none" /\ UNCHANGED <<prog, phase, config, delivered, checking>>
        /\ AppOK(r, phase, config, isr, checking, Owed, Len(delivered))
    BY <1>1, Handles
  <1>3. /\ isr'.at = "tx"
        /\ isr'.fstat = FintStat(r) \cup IF r.sts = "ND" /\ "RXFR" \in r.ev THEN {"RXOK"} ELSE {}
        /\ isr' = [at |-> isr'.at, status |-> isr'.status, fstat |-> isr'.fstat]
    BY <1>1
  <1>4. r.cb = TRUE
    BY <1>1, <1>2 DEF AppOK, SettingsOK
  <1>5. AppOK(r, phase, config, isr', checking, Owed, Len(delivered)) /\ SendsNone(r, r)
    BY <1>1, <1>2, <1>3, <1>4, EnterKeeps
  <1> QED
    BY <1>1, <1>2, <1>3, <1>5, HandledStep

\* tells of a transmission,
LEMMA TxStep ==
  ASSUME IInv, IsrTx
  PROVE  IInv' /\ SendsInTime
  <1>1. /\ Handler("tx") /\ Goto("ready") /\ read' = read
        /\ r' \in {r, ClearEvents(r, ALL_TX)}
    BY DEF IsrTx
  <1>2. /\ prog = "app" /\ isr.at = "tx" /\ UNCHANGED <<prog, phase, config, delivered, checking>>
        /\ AppOK(r, phase, config, isr, checking, Owed, Len(delivered))
    BY <1>1, Handles
  <1>3. /\ isr'.at = "ready" /\ isr'.fstat = isr.fstat
        /\ isr' = [at |-> isr'.at, status |-> isr'.status, fstat |-> isr'.fstat]
    BY <1>1, Goes
  <1>4. AppOK(r', phase, config, isr', checking, Owed, Len(delivered)) /\ SendsNone(r, r')
    BY <1>1, <1>2, <1>3, EventStep
  <1> QED
    BY <1>1, <1>2, <1>3, <1>4, HandledStep

\* clears what else it has read,
LEMMA ReadyStep ==
  ASSUME IInv, IsrReady
  PROVE  IInv' /\ SendsInTime
  <1>1. /\ Handler("ready") /\ Goto("good") /\ read' = read
        /\ r' \in {r, ClearEvents(r, {"RCINIT", "SPIRDY"})}
    BY DEF IsrReady
  <1>2. /\ prog = "app" /\ isr.at = "ready"
        /\ UNCHANGED <<prog, phase, config, delivered, checking>>
        /\ AppOK(r, phase, config, isr, checking, Owed, Len(delivered))
    BY <1>1, Handles
  <1>3. /\ isr'.at = "good" /\ isr'.fstat = isr.fstat
        /\ isr' = [at |-> isr'.at, status |-> isr'.status, fstat |-> isr'.fstat]
    BY <1>1, Goes
  <1>4. AppOK(r', phase, config, isr', checking, Owed, Len(delivered)) /\ SendsNone(r, r')
    BY <1>1, <1>2, <1>3, EventStep
  <1> QED
    BY <1>1, <1>2, <1>3, <1>4, HandledStep

\* takes a reception,
LEMMA GoodStep ==
  ASSUME IInv, IsrGood
  PROVE  IInv' /\ SendsInTime
  <1> DEFINE status == isr.status \cup
                         IF r.dbl # "OFF" /\ CurrentBuffer(r) \in r.good
                         THEN {"RXFCG", "RXFR", "CIADONE"} ELSE {}
             nodata == "RXFR" \in status /\ r.sts = "ND"
             flagged == IF ~nodata /\ "RXFCG" \in status /\ r.dbl # "OFF"
                        THEN [r EXCEPT !.good = @ \ {CurrentBuffer(r)}] ELSE r
             E == ALL_RX_GOOD \cup IF nodata THEN {"RXERR"} ELSE {}
  <1>1. /\ Handler("good") /\ read' = read
        /\ IF "RXOK" \in isr.fstat THEN r' = ClearEvents(flagged, E) /\ Goto("callback")
           ELSE r' = r /\ Goto("bad")
    BY DEF IsrGood
  <1>2. /\ prog = "app" /\ isr.at = "good" /\ UNCHANGED <<prog, phase, config, delivered, checking>>
        /\ AppOK(r, phase, config, isr, checking, Owed, Len(delivered)) /\ HasFields(r)
    BY <1>1, Handles
  <1>3. Changes(r, flagged, {"good"})
    <2> HIDE DEF nodata, status
    <2>1. flagged = r \/ flagged = [r EXCEPT !.good = @ \ {CurrentBuffer(r)}]
      OBVIOUS
    <2> QED
      BY <1>2, <2>1, ChangesNone, FieldsThere, Zenon DEF Changes
  <1>4. ALL_RX_GOOD \subseteq E
    OBVIOUS
  <1> HIDE DEF flagged, E, nodata, status
  <1>5. CASE "RXOK" \in isr.fstat
    <2>1. r' = ClearEvents(flagged, E) /\ Goto("callback")
      BY <1>1, <1>5
    <2>2. /\ isr'.at = "callback" /\ isr'.fstat = isr.fstat
          /\ isr' = [at |-> isr'.at, status |-> isr'.status, fstat |-> isr'.fstat]
      BY <2>1, Goes
    <2>3. AppOK(r', phase, config, isr', checking, Owed, Len(delivered)) /\ SendsNone(r, r')
      BY <1>2, <1>3, <1>4, <1>5, <2>1, <2>2, GoodKeeps
    <2> QED
      BY <1>1, <1>2, <2>2, <2>3, HandledStep
  <1>6. CASE "RXOK" \notin isr.fstat
    <2>1. r' = r /\ Goto("bad")
      BY <1>1, <1>6
    <2>2. /\ isr'.at = "bad" /\ isr'.fstat = isr.fstat
          /\ isr' = [at |-> isr'.at, status |-> isr'.status, fstat |-> isr'.fstat]
      BY <2>1, Goes
    <2>3. AppOK(r', phase, config, isr', checking, Owed, Len(delivered)) /\ SendsNone(r, r')
      BY <1>2, <1>6, <2>1, <2>2, PassKeeps
    <2> QED
      BY <1>1, <1>2, <2>2, <2>3, HandledStep
  <1> QED
    BY <1>5, <1>6

\* A step of dwt_isr in which the next frame is read.
LEMMA ReadStep ==
  ASSUME IInv, prog = "app", UNCHANGED <<r, prog, phase, config, delivered, checking>>,
         isr' = [at |-> isr'.at, status |-> isr'.status, fstat |-> isr'.fstat],
         Owed \in 1..2, Reading = ReadingOf(Len(delivered) - Owed + 1),
         read' = Append(read, Reading),
         AppOK(r, phase, config, isr', checking, Owed - 1, Len(delivered))
  PROVE  IInv' /\ SendsInTime
  <1>1. Len(delivered) \in Nat /\ Len(read) \in Nat /\ Owed \in Nat
    BY Lengths
  <1>2. Len(read) < Len(delivered) /\ Len(delivered) - Owed + 1 = Len(read) + 1
    BY <1>1 DEF Owed
  <1>3. read' = Append(read, ReadingOf(Len(read) + 1))
    BY <1>2
  <1>4. LogOK(delivered, read)
    BY DEF IInv
  <1>5. LogOK(delivered, read') /\ Len(read') = Len(read) + 1
    BY <1>2, <1>3, <1>4, LogRead
  <1>6. Owed' = Owed - 1
    BY <1>1, <1>5 DEF Owed
  <1>7. AppInv'
    BY <1>6 DEF AppInv
  <1>8. PollInv'
    BY DEF PollInv
  <1>9. IInv'
    BY <1>5, <1>7, <1>8 DEF IInv
  <1>10. AppOK(r, phase, config, isr, checking, Owed, Len(delivered))
    BY AppIs
  <1>11. SendsInTime
    BY <1>10 DEF SendsInTime, AppOK, LateOK
  <1> QED
    BY <1>9, <1>11

\* runs cbRxOk,
LEMMA FirstStep ==
  ASSUME IInv, CallbackFirst
  PROVE  IInv' /\ SendsInTime
  <1>1. /\ Handler("callback") /\ Goto("callback2")
        /\ r.dbl # "OFF" => r' = dwt_rxenable(r, "IMMEDIATE", FALSE) /\ read' = read
        /\ r.dbl = "OFF" => r' = r /\ read' = Append(read, Reading)
    BY DEF CallbackFirst
  <1>2. /\ prog = "app" /\ isr.at = "callback"
        /\ UNCHANGED <<prog, phase, config, delivered, checking>>
        /\ AppOK(r, phase, config, isr, checking, Owed, Len(delivered))
        /\ Owed \in Nat /\ Len(delivered) \in Nat
    BY <1>1, Handles
  <1>3. /\ isr'.at = "callback2" /\ isr'.fstat = isr.fstat
        /\ isr' = [at |-> isr'.at, status |-> isr'.status, fstat |-> isr'.fstat]
    BY <1>1, Goes
  <1>4. CASE r.dbl # "OFF"
    <2>1. r' = dwt_rxenable(r, "IMMEDIATE", FALSE) /\ read' = read
      BY <1>1, <1>4
    <2>2. AppOK(r', phase, config, isr', checking, Owed, Len(delivered)) /\ SendsNone(r, r')
      BY <1>2, <1>3, <1>4, <2>1, OnFirst
    <2> QED
      BY <1>2, <1>3, <2>1, <2>2, HandledStep
  <1>5. CASE r.dbl = "OFF"
    <2>1. r' = r /\ read' = Append(read, Reading)
      BY <1>1, <1>5
    <2>2. /\ AppOK(r, phase, config, isr', checking, 0, Len(delivered)) /\ Owed = 1
          /\ Reading = ReadingOf(Len(delivered))
      BY <1>2, <1>3, <1>5, ReadFirst
    <2>3. Owed \in 1..2 /\ Owed - 1 = 0 /\ Len(delivered) - Owed + 1 = Len(delivered)
      BY <1>2, <2>2
    <2>4. /\ AppOK(r, phase, config, isr', checking, Owed - 1, Len(delivered))
          /\ Reading = ReadingOf(Len(delivered) - Owed + 1)
      BY <2>2, <2>3
    <2> QED
      BY <1>2, <1>3, <2>1, <2>3, <2>4, ReadStep
  <1> QED
    BY <1>4, <1>5

\* its second half,
LEMMA SecondStep ==
  ASSUME IInv, CallbackSecond
  PROVE  IInv' /\ SendsInTime
  <1>1. /\ Handler("callback2") /\ Goto("free")
        /\ r.dbl = "OFF" => r' = dwt_rxenable(r, "IMMEDIATE", FALSE) /\ read' = read
        /\ r.dbl # "OFF" => r' = r /\ read' = Append(read, Reading)
    BY DEF CallbackSecond
  <1>2. /\ prog = "app" /\ isr.at = "callback2"
        /\ UNCHANGED <<prog, phase, config, delivered, checking>>
        /\ AppOK(r, phase, config, isr, checking, Owed, Len(delivered))
        /\ Owed \in Nat /\ Len(delivered) \in Nat
    BY <1>1, Handles
  <1>3. /\ isr'.at = "free" /\ isr'.fstat = isr.fstat
        /\ isr' = [at |-> isr'.at, status |-> isr'.status, fstat |-> isr'.fstat]
    BY <1>1, Goes
  <1>4. CASE r.dbl = "OFF"
    <2>1. r' = dwt_rxenable(r, "IMMEDIATE", FALSE) /\ read' = read
      BY <1>1, <1>4
    <2>2. AppOK(r', phase, config, isr', checking, Owed, Len(delivered)) /\ SendsNone(r, r')
      BY <1>2, <1>3, <1>4, <2>1, OnSecond
    <2> QED
      BY <1>2, <1>3, <2>1, <2>2, HandledStep
  <1>5. CASE r.dbl # "OFF"
    <2>1. r' = r /\ read' = Append(read, Reading)
      BY <1>1, <1>5
    <2>2. /\ AppOK(r, phase, config, isr', checking, Owed - 1, Len(delivered)) /\ Owed \in 1..2
          /\ Reading = ReadingOf(Len(delivered) - Owed + 1)
      BY <1>2, <1>3, <1>5, ReadSecond
    <2> QED
      BY <1>2, <1>3, <2>1, <2>2, ReadStep
  <1> QED
    BY <1>4, <1>5

\* gives the buffer back,
LEMMA FreeStep ==
  ASSUME IInv, IsrFree
  PROVE  IInv' /\ SendsInTime
  <1>1. /\ Handler("free") /\ Goto("bad") /\ read' = read
        /\ r' = IF r.dbl # "OFF" THEN dwt_signal_rx_buff_free(r) ELSE r
    BY DEF IsrFree
  <1>2. /\ prog = "app" /\ isr.at = "free" /\ UNCHANGED <<prog, phase, config, delivered, checking>>
        /\ AppOK(r, phase, config, isr, checking, Owed, Len(delivered))
        /\ Owed \in Nat
    BY <1>1, Handles
  <1>3. /\ isr'.at = "bad" /\ isr'.fstat = isr.fstat
        /\ isr' = [at |-> isr'.at, status |-> isr'.status, fstat |-> isr'.fstat]
    BY <1>1, Goes
  <1>4. AppOK(r', phase, config, isr', checking, Owed, Len(delivered)) /\ SendsNone(r, r')
    BY <1>1, <1>2, <1>3, FreeKeeps
  <1> QED
    BY <1>1, <1>2, <1>3, <1>4, HandledStep

\* handles errors
LEMMA BadStep ==
  ASSUME IInv, IsrBad
  PROVE  IInv' /\ SendsInTime
  <1>1. /\ Handler("bad") /\ Goto("timeout") /\ read' = read
        /\ "RXERR" \in isr.fstat => r' = dwt_rxenable(ClearEvents(r, ALL_RX_ERR), "IMMEDIATE", FALSE)
        /\ "RXERR" \notin isr.fstat => r' = r
    BY DEF IsrBad
  <1>2. /\ prog = "app" /\ isr.at = "bad" /\ UNCHANGED <<prog, phase, config, delivered, checking>>
        /\ AppOK(r, phase, config, isr, checking, Owed, Len(delivered))
    BY <1>1, Handles
  <1>3. /\ isr'.at = "timeout" /\ isr'.fstat = isr.fstat
        /\ isr' = [at |-> isr'.at, status |-> isr'.status, fstat |-> isr'.fstat]
    BY <1>1, Goes
  <1>4. AppOK(r', phase, config, isr', checking, Owed, Len(delivered)) /\ SendsNone(r, r')
    <2>1. CASE "RXERR" \notin isr.fstat
      BY <1>1, <1>2, <1>3, <2>1, PassKeeps
    <2>2. CASE "RXERR" \in isr.fstat
      <3>1. \A i2, E : /\ i2.fstat = isr.fstat /\ i2.at = "timeout" /\ E = ALL_RX_ERR
                       => LET p == dwt_rxenable(ClearEvents(r, E), "IMMEDIATE", FALSE)
                          IN  AppOK(p, phase, config, i2, checking, Owed, Len(delivered))
                              /\ SendsNone(r, p)
        BY <1>2, <2>2, AgainKeeps
      <3> QED
        BY <1>1, <1>3, <2>2, <3>1
    <2> QED
      BY <2>1, <2>2
  <1> QED
    BY <1>1, <1>2, <1>3, <1>4, HandledStep

\* and timeouts.
LEMMA TimeoutStep ==
  ASSUME IInv, IsrTimeout
  PROVE  IInv' /\ SendsInTime
  <1>1. /\ Handler("timeout") /\ Goto("none") /\ read' = read
        /\ "RXTO" \in isr.fstat => r' = dwt_rxenable(ClearEvents(r, {"RXTO"}), "IMMEDIATE", FALSE)
        /\ "RXTO" \notin isr.fstat => r' = r
    BY DEF IsrTimeout
  <1>2. /\ prog = "app" /\ isr.at = "timeout"
        /\ UNCHANGED <<prog, phase, config, delivered, checking>>
        /\ AppOK(r, phase, config, isr, checking, Owed, Len(delivered))
    BY <1>1, Handles
  <1>3. /\ isr'.at = "none" /\ isr'.fstat = isr.fstat
        /\ isr' = [at |-> isr'.at, status |-> isr'.status, fstat |-> isr'.fstat]
    BY <1>1, Goes
  <1>4. AppOK(r', phase, config, isr', checking, Owed, Len(delivered)) /\ SendsNone(r, r')
    <2>1. CASE "RXTO" \notin isr.fstat
      BY <1>1, <1>2, <1>3, <2>1, PassKeeps
    <2>2. CASE "RXTO" \in isr.fstat
      <3>1. \A i2, E : /\ i2.fstat = isr.fstat /\ i2.at = "none" /\ E = {"RXTO"}
                       => LET p == dwt_rxenable(ClearEvents(r, E), "IMMEDIATE", FALSE)
                          IN  AppOK(p, phase, config, i2, checking, Owed, Len(delivered))
                              /\ SendsNone(r, p)
        BY <1>2, <2>2, AgainKeeps
      <3> QED
        BY <1>1, <1>3, <2>2, <3>1
    <2> QED
      BY <2>1, <2>2
  <1> QED
    BY <1>1, <1>2, <1>3, <1>4, HandledStep

\* dwt_isr keeps the invariant.
LEMMA IsrSteps ==
  ASSUME IInv, dwt_isr
  PROVE  IInv' /\ SendsInTime
  BY EnterStep, TxStep, ReadyStep, GoodStep, FirstStep, SecondStep, FreeStep, BadStep,
     TimeoutStep
     DEF dwt_isr

\* What the invariant says of a polling program.
LEMMA PollIs ==
  ASSUME IInv, prog # "app"
  PROVE  /\ prog \in DOMAIN Programs /\ pc \in Nat
         /\ StageOK(StageAt(prog, pc), r, Owed, Len(delivered)) /\ (pc # 0 => ~r.err)
         /\ config = ExampleConfig /\ isr.at = "none" /\ checking = FALSE
         /\ HasFields(r) /\ r.late = FALSE
  BY DEF IInv, PollInv, PollOK, StageOK, Base

\* And what has to hold after a step in which no frame is delivered or read.
LEMMA PollStays ==
  ASSUME IInv, prog # "app", UNCHANGED <<prog, pc, config, isr, delivered, read, checking>>,
         StageOK(StageAt(prog, pc), r', Owed, Len(delivered)), ~r.err => ~r'.err
  PROVE  IInv' /\ SendsInTime
  <1>1. Owed' = Owed /\ Len(delivered)' = Len(delivered)
    BY DEF Owed
  <1>2. PollInv'
    BY <1>1, PollIs DEF PollInv, PollOK
  <1>3. AppInv'
    BY DEF AppInv
  <1> QED
    BY <1>2, <1>3, PollIs DEF IInv, SendsInTime

-----------------------------------------------------------------------------
(***************************************************************************)
(* The chip                                                                *)
(***************************************************************************)

\* A transmission ends,
LEMMA ChipSendsStep ==
  ASSUME IInv, ChipSends
  PROVE  IInv' /\ SendsInTime
  <1>1. /\ r.power = "TX" /\ (r.late => ~checking) /\ r' = Sent(r, r.dx)
        /\ UNCHANGED <<prog, pc, phase, config, isr, read, checking, delivered>>
    BY DEF ChipSends, Chip
  <1>2. CASE prog = "app"
    <2>1. /\ AppOK(r, phase, config, isr, checking, Owed, Len(delivered))
          /\ isr = [at |-> isr.at, status |-> isr.status, fstat |-> isr.fstat]
      BY <1>2, AppIs
    <2>2. AppOK(r', phase, config, isr, checking, Owed, Len(delivered))
      BY <1>1, <2>1, SentKeeps
    <2>3. AppOK(r', phase', config', isr', checking', Owed, Len(delivered))
      BY <1>1, <2>2
    <2>4. IInv'
      BY <1>1, <1>2, <2>1, <2>3, AppStays
    <2>5. SendsInTime
      BY <1>1, <2>1 DEF SendsInTime, AppOK, LateOK
    <2> QED
      BY <2>4, <2>5
  <1>3. CASE prog # "app"
    <2>1. StageOK(StageAt(prog, pc), r, Owed, Len(delivered))
      BY <1>3, PollIs
    <2>2. StageOK(StageAt(prog, pc), r', Owed, Len(delivered)) /\ (~r.err => ~r'.err)
      BY <1>1, <2>1, PollSent
    <2> QED
      BY <1>1, <1>3, <2>2, PollStays
  <1> QED
    BY <1>2, <1>3

\* a reception fails,
LEMMA ChipFailsStep ==
  ASSUME IInv, ChipFails
  PROVE  IInv' /\ SendsInTime
  <1>1. PICK event \in {"RXERR", "RXTO"} : r' = Failed(r, event)
    BY DEF ChipFails
  <1>2. /\ r.power = "RX"
        /\ UNCHANGED <<prog, pc, phase, config, isr, read, checking, delivered>>
    BY DEF ChipFails, Chip
  <1>3. CASE prog = "app"
    <2>1. /\ AppOK(r, phase, config, isr, checking, Owed, Len(delivered))
          /\ isr = [at |-> isr.at, status |-> isr.status, fstat |-> isr.fstat]
      BY <1>3, AppIs
    <2>2. AppOK(r', phase, config, isr, checking, Owed, Len(delivered))
      BY <1>1, <1>2, <2>1, FailedKeeps
    <2>3. AppOK(r', phase', config', isr', checking', Owed, Len(delivered))
      BY <1>2, <2>2
    <2> QED
      BY <1>2, <1>3, <2>1, <2>3, AppStays, IdleSends
  <1>4. CASE prog # "app"
    <2>1. StageOK(StageAt(prog, pc), r, Owed, Len(delivered))
      BY <1>4, PollIs
    <2>2. StageOK(StageAt(prog, pc), r', Owed, Len(delivered)) /\ (~r.err => ~r'.err)
      BY <1>1, <1>2, <2>1, PollFailed
    <2> QED
      BY <1>2, <1>4, <2>2, PollStays
  <1> QED
    BY <1>3, <1>4

\* and one succeeds.
LEMMA ChipReceivesStep ==
  ASSUME IInv, ChipReceives
  PROVE  IInv' /\ SendsInTime
  <1> DEFINE m == Len(delivered)
  <1>1. /\ r.power = "RX" /\ r' = Received(r, Slot(m + 1))
        /\ r'.reg.frame = m + 1 => delivered' = Append(delivered, m + 1)
        /\ UNCHANGED <<prog, pc, phase, config, isr, read, checking>>
    BY DEF ChipReceives, Chip, Slot
  <1>2. m \in Nat /\ Len(read) \in Nat /\ Owed \in Nat /\ LogOK(delivered, read)
    BY Lengths DEF IInv
  <1>3. ASSUME r'.reg = Slot(m + 1)
        PROVE  LogOK(delivered', read') /\ Len(delivered') = m + 1 /\ Owed' = Owed + 1
    <2>1. delivered' = Append(delivered, m + 1)
      BY <1>1, <1>3 DEF Slot
    <2>2. LogOK(delivered', read) /\ Len(delivered') = m + 1
      BY <1>2, <2>1, LogDelivered
    <2> QED
      BY <1>1, <1>2, <2>2 DEF Owed
  <1>4. CASE prog = "app"
    <2>1. AppOK(r, phase, config, isr, checking, Owed, m)
      BY <1>4, AppIs
    <2>2. AppOK(r', phase, config, isr, checking, Owed + 1, m + 1) /\ r'.reg = Slot(m + 1)
      BY <1>1, <1>2, <2>1, ReceivedKeeps
    <2>3. AppInv'
      BY <1>1, <1>3, <2>2 DEF AppInv
    <2>4. PollInv'
      BY <1>1, <1>4 DEF PollInv
    <2> QED
      BY <1>1, <1>3, <2>2, <2>3, <2>4, IdleSends DEF IInv
  <1>5. CASE prog # "app"
    <2>1. StageOK(StageAt(prog, pc), r, Owed, m)
      BY <1>5, PollIs
    <2>2. /\ StageOK(StageAt(prog, pc), r', Owed + 1, m + 1) /\ r'.reg = Slot(m + 1)
          /\ ~r.err => ~r'.err
      BY <1>1, <1>2, <2>1, PollReceived
    <2>3. PollInv'
      BY <1>1, <1>3, <1>5, <2>2, PollIs DEF PollInv, PollOK
    <2>4. AppInv'
      BY <1>1, <1>5 DEF AppInv
    <2> QED
      BY <1>1, <1>3, <2>2, <2>3, <2>4, IdleSends DEF IInv
  <1> QED
    BY <1>4, <1>5

-----------------------------------------------------------------------------
(***************************************************************************)
(* The polling programs                                                    *)
(***************************************************************************)

\* A call of a program leads from stage to stage.
LEMMA ProgramSteps ==
  ASSUME prog \in DOMAIN Programs, pc \in Nat, Call(prog) # "none"
  PROVE  /\ Steps(Call(prog), StageAt(prog, pc), StageAt(prog, AfterCall(prog)))
         /\ AfterCall(prog) \in Nat \ {0} /\ pc # 0
  <1>1. prog \in {"devid", "tx", "sleep", "auto", "rx"}
    BY DEF Programs
  <1> QED
    BY <1>1, DevidSteps, TxSteps, SleepSteps, AutoSteps, RxSteps

\* A program that has stopped.
LEMMA StoppedIsOff ==
  ASSUME prog \in DOMAIN Programs
  PROVE  StageAt(prog, 0) = "off" /\ prog # "app"
  BY DEF StageAt, Stages, Programs

\* The programs keep the invariant.
LEMMA ProgramStep ==
  ASSUME IInv, RunProgram
  PROVE  IInv' /\ SendsInTime
  <1> DEFINE call == Call(prog)
             next == AfterCall(prog)
             m == Len(delivered)
  <1>1. /\ prog \in DOMAIN Programs /\ call # "none" /\ Awaited(call)
        /\ config' = IF call = "configure" THEN ExampleConfig ELSE config
        /\ UNCHANGED <<prog, isr, delivered, checking>>
    BY DEF RunProgram
  <1>2. PICK q \in Effect(call) : r' = q /\ pc' = IF q.err THEN 0 ELSE next
    BY DEF RunProgram
  <1>3. prog # "app" /\ StageAt(prog, 0) = "off"
    BY <1>1, StoppedIsOff
  <1>4. /\ pc \in Nat /\ StageOK(StageAt(prog, pc), r, Owed, m) /\ (pc # 0 => ~r.err)
        /\ config = ExampleConfig /\ isr.at = "none" /\ checking = FALSE /\ r.late = FALSE
    BY <1>3, PollIs
  <1>5. /\ Steps(call, StageAt(prog, pc), StageAt(prog, next))
        /\ next \in Nat \ {0} /\ pc # 0
    BY <1>1, <1>4, ProgramSteps
  <1>6. SendsInTime
    BY <1>4 DEF SendsInTime
  <1>7. AppInv' /\ config' = ExampleConfig /\ isr'.at = "none" /\ checking' = FALSE
    BY <1>1, <1>3, <1>4 DEF AppInv
  <1> HIDE DEF call, next
  <1>8. CASE call # "take frame"
    <2>1. read' = read
      BY <1>8 DEF RunProgram, call
    <2>2. /\ q.err => StageOK("off", q, Owed, m)
          /\ ~q.err => StageOK(StageAt(prog, next), q, Owed, m)
      BY <1>1, <1>4, <1>5, <1>8, CallMoves
    <2>3. Owed' = Owed /\ Len(delivered)' = m
      BY <1>1, <2>1 DEF Owed
    <2>4. PollOK(prog, pc', r', Owed, m) /\ pc' \in Nat
      BY <1>2, <1>3, <1>5, <2>2 DEF PollOK
    <2>5. PollInv'
      BY <1>1, <1>7, <2>3, <2>4 DEF PollInv
    <2> QED
      BY <1>1, <1>6, <1>7, <2>1, <2>5 DEF IInv
  <1>9. CASE call = "take frame"
    <2>1. StageAt(prog, pc) = "takes" /\ StageAt(prog, next) = "tuned"
      BY <1>5, <1>9 DEF Steps, PlainCalls
    <2>2. /\ StageOK("tuned", q, 0, m) /\ ~q.err
          /\ "RXFCG" \in r.ev => Owed = 1 /\ Reading = ReadingOf(m)
          /\ "RXFCG" \notin r.ev => Owed = 0
      BY <1>4, <1>5, <1>9, <2>1, TakeCall
    <2>3. read' = IF "RXFCG" \in r.ev THEN Append(read, Reading) ELSE read
      BY <1>9 DEF RunProgram, call
    <2>4. m \in Nat /\ Len(read) \in Nat /\ LogOK(delivered, read)
      BY Lengths DEF IInv
    <2>5. LogOK(delivered, read') /\ Owed' = 0
      <3>1. CASE "RXFCG" \in r.ev
        <4>1. Len(read) < m /\ m = Len(read) + 1
          BY <2>2, <2>4, <3>1 DEF Owed
        <4>2. read' = Append(read, ReadingOf(Len(read) + 1))
          BY <2>2, <2>3, <3>1, <4>1
        <4>3. LogOK(delivered, read') /\ Len(read') = Len(read) + 1
          BY <2>4, <4>1, <4>2, LogRead
        <4> QED
          BY <1>1, <2>4, <4>1, <4>3 DEF Owed
      <3>2. CASE "RXFCG" \notin r.ev
        BY <1>1, <2>2, <2>3, <2>4, <3>2 DEF Owed
      <3> QED
        BY <3>1, <3>2
    <2>6. PollOK(prog, pc', r', 0, m) /\ pc' \in Nat
      BY <1>2, <1>5, <2>1, <2>2 DEF PollOK
    <2>7. PollInv'
      BY <1>1, <1>7, <2>5, <2>6 DEF PollInv
    <2> QED
      BY <1>1, <1>6, <1>7, <2>5, <2>7 DEF IInv
  <1> QED
    BY <1>8, <1>9

\* Every step keeps the invariant, and sends nothing late.
LEMMA StepOK ==
  ASSUME IInv, [Next]_vars
  PROVE  IInv' /\ SendsInTime
  <1>1. HostAssumption
    BY HostAssumption
  <1>2. CASE RunProgram
    BY <1>2, ProgramStep
  <1>3. CASE AppNext
    BY <1>1, <1>3, MainSteps
  <1>4. CASE dwt_isr
    BY <1>4, IsrSteps
  <1>5. CASE ChipSends \/ ChipReceives \/ ChipFails
    BY <1>5, ChipSendsStep, ChipReceivesStep, ChipFailsStep
  <1>6. CASE UNCHANGED vars
    <2>1. /\ r' = r /\ prog' = prog /\ pc' = pc /\ phase' = phase /\ config' = config
          /\ isr' = isr /\ delivered' = delivered /\ read' = read /\ checking' = checking
      BY <1>6 DEF vars
    <2>2. IInv'
      BY <2>1 DEF IInv, AppInv, PollInv, Owed
    <2>3. CASE prog = "app"
      <3>1. AppOK(r, phase, config, isr, checking, Owed, Len(delivered))
        BY <2>3, AppIs
      <3> QED
        BY <2>1, <2>2, <3>1 DEF SendsInTime, AppOK, LateOK
    <2>4. CASE prog # "app"
      BY <2>2, <2>4, PollIs DEF SendsInTime
    <2> QED
      BY <2>3, <2>4
  <1> QED
    BY <1>2, <1>3, <1>4, <1>5, <1>6 DEF Next

\* The first property follows,
LEMMA FramesFollow ==
  ASSUME IInv
  PROVE  FramesReadOnce
  <1>1. /\ delivered \in Seq(Nat) /\ read \in Seq(Readings) /\ Len(read) <= Len(delivered)
        /\ \A i \in 1..Len(delivered) : delivered[i] = i
        /\ \A i \in 1..Len(read) : read[i] = ReadingOf(i)
    BY DEF IInv, LogOK
  <1>2. Len(delivered) \in Nat /\ Len(read) \in Nat
    BY Lengths
  <1>3. ASSUME NEW i \in DOMAIN read
        PROVE  read[i] = [data |-> delivered[i], diag |-> delivered[i], stamp |-> delivered[i],
                          known |-> TRUE]
    <2>1. i \in 1..Len(read) /\ i \in 1..Len(delivered)
      BY <1>1, <1>2
    <2>2. delivered[i] = i /\ read[i] = ReadingOf(i)
      BY <1>1, <2>1
    <2> QED
      BY <2>2 DEF ReadingOf
  <1>4. ASSUME prog = "app", r.cb, isr.at = "none", ~IrqLine(r)
        PROVE  Len(read) = Len(delivered)
    <2>1. AppOK(r, phase, config, isr, checking, Owed, Len(delivered))
      BY <1>4, AppIs
    <2>2. ~(r.cb /\ IrqLine(r))
      BY <1>4
    <2>3. Owed = 0
      BY <1>4, <2>1, <2>2, Empty
    <2> QED
      BY <1>2, <2>3 DEF Owed
  <1> QED
    BY <1>1, <1>3, <1>4 DEF FramesReadOnce

\* and so does the second.
LEMMA TunedFollows ==
  ASSUME IInv
  PROVE  ReceiverTuned
  <1>1. CASE prog = "app"
    <2>1. AppOK(r, phase, config, isr, checking, Owed, Len(delivered))
      BY <1>1, AppIs
    <2>2. OnAir(r) => Ready(phase)
      BY <2>1 DEF AppOK, IdleOK
    <2>3. Ready(phase) =>
            /\ r.ops = OpsOf(config) /\ r.chan = config.chan /\ r.code = config.txCode
            /\ r.clocks = "AUTO" /\ r.rf = {}
            /\ phase # "restored" \/ config.txCode \in {16, 24} => r.gain = config.chan
      BY <2>1 DEF AppOK, SettingsOK, Ready, TunedTo
    <2> QED
      BY <2>2, <2>3 DEF ReceiverTuned, OnAir
  <1>2. CASE prog # "app"
    <2>1. StageOK(StageAt(prog, pc), r, Owed, Len(delivered)) /\ config = ExampleConfig
      BY <1>2, PollIs
    <2>2. OnAir(r) => IsSet(r) /\ Base(r)
      BY <2>1 DEF StageOK
    <2>3. IsSet(r) /\ Base(r) =>
            /\ r.ops = OpsOf(config) /\ r.chan = config.chan /\ r.code = config.txCode
            /\ r.clocks = "AUTO" /\ r.rf = {} /\ r.gain = config.chan
      BY <2>1 DEF IsSet, TunedTo, Base
    <2> QED
      BY <2>2, <2>3 DEF ReceiverTuned, OnAir
  <1> QED
    BY <1>1, <1>2

-----------------------------------------------------------------------------
\* dwt_isr and the callbacks: of any frames, with one buffer or two, in every
\* interleaving with the main thread, the data, the diagnostics and the time read are
\* the same frame's, none is read twice, and none is lost when nothing interrupts.
THEOREM FramesRead == Spec => []FramesReadOnce
  <1>1. IInv /\ [Next]_vars => IInv'
    BY StepOK
  <1>2. IInv => FramesReadOnce
    BY FramesFollow
  <1> QED
    BY <1>1, <1>2, InitOK, PTL DEF Spec

\* dwt_configure, dwt_restoreconfig and the rest: whichever calls came before,
\* a radio on the air has the channel, code, operating parameters, gain and clocks of
\* its configuration.
THEOREM Tuned == Spec => []ReceiverTuned
  <1>1. IInv /\ [Next]_vars => IInv'
    BY StepOK
  <1>2. IInv => ReceiverTuned
    BY TunedFollows
  <1> QED
    BY <1>1, <1>2, InitOK, PTL DEF Spec

\* dwt_starttx: no delayed transmission leaves after its time.
THEOREM NeverLate == Spec => NeverSentLate
  <1>1. IInv /\ [Next]_vars => IInv'
    BY StepOK
  <1>2. IInv /\ [Next]_vars => [r.power = "TX" /\ "TXFRS" \in r'.ev => ~r.late]_vars
    BY StepOK DEF SendsInTime
  <1> QED
    BY <1>1, <1>2, InitOK, PTL DEF Spec, NeverSentLate
=============================================================================
