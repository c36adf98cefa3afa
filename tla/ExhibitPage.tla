---------------------------- MODULE ExhibitPage ----------------------------
(***************************************************************************)
(* The phone's exhibit page (front-end/src/RFIDScreen.js): its two         *)
(* WebSockets, which share one reference, the exhibits it fetches when its *)
(* visitor's tag reads an RFID card, and the ratings it sends. Fetches run *)
(* concurrently, each in its own pace; React runs the clean-ups of both    *)
(* effects before their bodies.                                            *)
(***************************************************************************)
EXTENDS Naturals, FiniteSets

CONSTANTS
  Exhibit,     \* the RFID cards
  Nothing,     \* no exhibit on the page
  Example,     \* the exhibit name the page starts with
  MaxVisits    \* bound: how often the page gains the focus

ASSUME ExhibitAssumption ==
  /\ Nothing \notin Exhibit /\ Example \notin Exhibit /\ Example # Nothing
  /\ MaxVisits \in Nat \ {0}

VARIABLES
  focused,
  wsRef,       \* the socket in wsRef, always one to port 8080 once set
  rfidOpen,    \* open sockets to 8080, the RFID messages
  notifyOpen,  \* open sockets to 6060, the notifications
  lost,        \* history: wsRef's socket failed since it was last set
  visits,
  fetching,    \* fetching[e]: how far fetchObjectData(e) is
  objectData,  \* the exhibit shown
  exhibitName, \* the exhibit a rating is for
  lastScan,
  disturbed,   \* since lastScan a fetch failed, or another was under way
  rated        \* the last rating: its exhibit, and the one that was shown

sockets == <<focused, wsRef, rfidOpen, notifyOpen, lost, visits>>
page    == <<fetching, objectData, exhibitName, lastScan, disturbed, rated>>
vars    == <<sockets, page>>

Unrated == [exhibit |-> Nothing, shown |-> Nothing]

TypeOK ==
  /\ focused \in BOOLEAN
  /\ wsRef \in {"null", "open", "closing", "closed"}
  /\ rfidOpen \in 0..MaxVisits /\ notifyOpen \in 0..MaxVisits
  /\ lost \in BOOLEAN /\ visits \in 0..MaxVisits
  /\ fetching \in [Exhibit -> {"no", "list", "items", "titled"}]
  /\ objectData \in Exhibit \cup {Nothing}
  /\ exhibitName \in Exhibit \cup {Example}
  /\ lastScan \in Exhibit \cup {Nothing}
  /\ disturbed \in BOOLEAN
  /\ rated \in [exhibit : Exhibit \cup {Example, Nothing}, shown : Exhibit \cup {Nothing}]

Init ==   \* before the first render
  /\ focused = FALSE /\ wsRef = "null" /\ rfidOpen = 0 /\ notifyOpen = 0
  /\ lost = FALSE /\ visits = 0
  /\ fetching = [e \in Exhibit |-> "no"]
  /\ objectData = Nothing /\ exhibitName = Example /\ lastScan = Nothing
  /\ disturbed = FALSE
  /\ rated = Unrated

(***************************************************************************)
(* The sockets. close() takes effect for the sender at once; readyState is *)
(* CLOSING until the server has answered. A connection may fail (or never  *)
(* come about) at any time; onclose only logs that.                        *)
(***************************************************************************)
\* The first effect opens a socket to 6060 unless wsRef's is still there, the
\* second one to 8080, whatever wsRef holds.
Focus ==
  /\ ~focused /\ visits < MaxVisits
  /\ focused' = TRUE
  /\ visits' = visits + 1
  /\ notifyOpen' = IF wsRef \in {"null", "closed"} THEN notifyOpen + 1 ELSE notifyOpen
  /\ rfidOpen' = rfidOpen + 1
  /\ wsRef' = "open" /\ lost' = FALSE
  /\ UNCHANGED page

\* What close() on wsRef's socket leaves: none to close if it is gone already.
Closing(n) ==
  IF wsRef = "open" THEN rfidOpen' = n - 1 /\ wsRef' = "closing"
  ELSE rfidOpen' = n /\ UNCHANGED wsRef

\* Variant: no clean-up.
BlurKeeps ==
  /\ focused
  /\ focused' = FALSE
  /\ UNCHANGED <<wsRef, rfidOpen, notifyOpen, lost, visits, page>>

\* Variant: each clean-up counts its close().
BlurTwice ==
  /\ focused
  /\ focused' = FALSE
  /\ Closing(rfidOpen - 1)
  /\ UNCHANGED <<notifyOpen, lost, visits, page>>

Blur ==   \* both clean-ups close wsRef's socket
  /\ focused
  /\ focused' = FALSE
  /\ Closing(rfidOpen)
  /\ UNCHANGED <<notifyOpen, lost, visits, page>>

Closed ==
  /\ wsRef = "closing"
  /\ wsRef' = "closed"
  /\ UNCHANGED <<focused, rfidOpen, notifyOpen, lost, visits, page>>

RfidLost ==
  /\ wsRef = "open"
  /\ wsRef' = "closed" /\ rfidOpen' = rfidOpen - 1 /\ lost' = TRUE
  /\ UNCHANGED <<focused, notifyOpen, visits, page>>

NotifyLost ==   \* wsRef has left these to themselves
  /\ notifyOpen > 0
  /\ notifyOpen' = notifyOpen - 1
  /\ UNCHANGED <<focused, wsRef, rfidOpen, lost, visits, page>>

NewPath ==   \* route.params.pathData: the second effect alone starts over
  /\ focused
  /\ rfidOpen' = (IF wsRef = "open" THEN rfidOpen - 1 ELSE rfidOpen) + 1
  /\ wsRef' = "open" /\ lost' = FALSE
  /\ UNCHANGED <<focused, notifyOpen, visits, page>>

(***************************************************************************)
(* fetchObjectData                                                         *)
(***************************************************************************)
Loading == \E e \in Exhibit : fetching[e] # "no"

\* One fetch per card at a time: a second one of the same card would bring the
\* same exhibit.
Scan(e) ==
  /\ rfidOpen > 0
  /\ fetching[e] = "no"
  /\ fetching' = [fetching EXCEPT ![e] = "list"]
  /\ lastScan' = e
  /\ disturbed' = Loading
  /\ UNCHANGED <<sockets, objectData, exhibitName, rated>>

Listed(e) ==
  /\ fetching[e] = "list"
  /\ fetching' = [fetching EXCEPT ![e] = "items"]
  /\ UNCHANGED <<sockets, objectData, exhibitName, lastScan, disturbed, rated>>

\* Variant: the title is fetched but not set.
TitleUnset(e) ==
  /\ fetching[e] = "items"
  /\ fetching' = [fetching EXCEPT ![e] = "titled"]
  /\ UNCHANGED <<sockets, objectData, exhibitName, lastScan, disturbed, rated>>

Title(e) ==   \* setExhibitName in the middle of the loop over the items
  /\ fetching[e] = "items"
  /\ fetching' = [fetching EXCEPT ![e] = "titled"]
  /\ exhibitName' = e
  /\ UNCHANGED <<sockets, objectData, lastScan, disturbed, rated>>

TitleMissing(e) ==   \* `continue` on an error, or no item named title
  /\ fetching[e] = "items"
  /\ fetching' = [fetching EXCEPT ![e] = "titled"]
  /\ disturbed' = TRUE
  /\ UNCHANGED <<sockets, objectData, exhibitName, lastScan, rated>>

Show(e) ==
  /\ fetching[e] = "titled"
  /\ fetching' = [fetching EXCEPT ![e] = "no"]
  /\ objectData' = e
  /\ UNCHANGED <<sockets, exhibitName, lastScan, disturbed, rated>>

\* Variant: an error starts the fetch over.
FailRetries(e) ==
  /\ fetching[e] # "no"
  /\ fetching' = [fetching EXCEPT ![e] = "list"]
  /\ disturbed' = TRUE
  /\ UNCHANGED <<sockets, objectData, exhibitName, lastScan, rated>>

Fail(e) ==   \* not ok, or an exception
  /\ fetching[e] # "no"
  /\ fetching' = [fetching EXCEPT ![e] = "no"]
  /\ disturbed' = TRUE
  /\ UNCHANGED <<sockets, objectData, exhibitName, lastScan, rated>>

RemoveImage ==
  /\ objectData # Nothing
  /\ objectData' = Nothing
  /\ UNCHANGED <<sockets, fetching, exhibitName, lastScan, disturbed, rated>>

SendRating ==
  /\ objectData # Nothing
  /\ rated' = [exhibit |-> exhibitName, shown |-> objectData]
  /\ UNCHANGED <<sockets, fetching, objectData, exhibitName, lastScan, disturbed>>

Fetch(e) == Listed(e) \/ Title(e) \/ TitleMissing(e) \/ Show(e) \/ Fail(e)

Next ==
  \/ Focus \/ Blur \/ Closed \/ RfidLost \/ NotifyLost \/ NewPath \/ RemoveImage \/ SendRating
  \/ \E e \in Exhibit : Scan(e) \/ Fetch(e)

Spec == Init /\ [][Next]_vars

\* A fetch gets its answers, or fails.
FairSpec == Spec /\ \A e \in Exhibit : WF_vars(Fetch(e))

-----------------------------------------------------------------------------
(***************************************************************************)
(* Properties                                                              *)
(***************************************************************************)
\* Whatever the order of focus changes, new paths, closings and failures, a card
\* is never heard twice, nor behind the page, although both clean-ups close the
\* same socket and either may find it gone; and while the page is in front it is
\* heard, unless the connection has failed since: no socket is opened again
\* before the page is left, or gets a new path.
ScansHeardOnce == rfidOpen = IF focused /\ ~lost THEN 1 ELSE 0

\* A card read while nothing else was loading, and fetched without an error,
\* repairs whatever earlier ones left: once nothing loads, a rating is for the
\* exhibit on the page, and that is the last one read.
QuietPageIsRight ==
  (~disturbed /\ ~Loading /\ objectData # Nothing) =>
    objectData = exhibitName /\ objectData = lastScan

\* A card that was read is fetched to the end, shown or failed.
LoadingEnds == \A e \in Exhibit : fetching[e] # "no" ~> fetching[e] = "no"
=============================================================================
