--------------------------- MODULE ExhibitProofs ---------------------------
(***************************************************************************)
(* Proofs about what a visitor's phone shows, for any number of exhibits   *)
(* and visits: the types of the exhibit page, who hears a card,            *)
(* and that an undisturbed page shows, and rates, what was read last.      *)
(* Then of the proxy that answers the page's questions, for any clients    *)
(* and prompts and however long the API's clock runs: its types, and that  *)
(* a refresh of its cache is whole.                                        *)
(***************************************************************************)
EXTENDS ExhibitPage, GptCache, TLAPS

(***************************************************************************)
(* The page has never more notification sockets than visits, and wsRef     *)
(* refers to a connected socket while cards are to be heard.  Until an     *)
(* error or a second fetch the only fetch is that of the last card, whose  *)
(* name is set when its page is about to be shown.                         *)
(***************************************************************************)
SocketsOfVisits == notifyOpen <= visits /\ (focused => visits > 0)

\* The socket that hears cards is wsRef's.
HeardByRef == wsRef = "open" <=> focused /\ ~lost

OnlyLastLoads == ~disturbed => \A e \in Exhibit : fetching[e] # "no" => e = lastScan

TitledIsNamed ==
  ~disturbed => \A e \in Exhibit : fetching[e] = "titled" => exhibitName = e

IInv == /\ TypeOK /\ ScansHeardOnce /\ SocketsOfVisits /\ HeardByRef
        /\ OnlyLastLoads /\ TitledIsNamed /\ QuietPageIsRight

-----------------------------------------------------------------------------
LEMMA InitIInv == Init => IInv
  <1> SUFFICES ASSUME Init PROVE IInv
    OBVIOUS
  <1>1. TypeOK
    <2>1. 0 \in 0..MaxVisits
      BY ExhibitAssumption
    <2>2. rated \in [exhibit : Exhibit \cup {Example, Nothing}, shown : Exhibit \cup {Nothing}]
      BY DEF Init, Unrated
    <2>3. fetching \in [Exhibit -> {"no", "list", "items", "titled"}]
      BY DEF Init
    <2> QED
      BY <2>1, <2>2, <2>3, Zenon DEF Init, TypeOK
  <1>2. ScansHeardOnce /\ SocketsOfVisits /\ HeardByRef
    BY DEF Init, ScansHeardOnce, SocketsOfVisits, HeardByRef
  <1>3. OnlyLastLoads /\ TitledIsNamed /\ QuietPageIsRight
    BY DEF Init, OnlyLastLoads, TitledIsNamed, QuietPageIsRight
  <1> QED
    BY <1>1, <1>2, <1>3 DEF IInv

(***************************************************************************)
(* The sockets.                                                            *)
(***************************************************************************)
SocketsOK ==
  /\ focused \in BOOLEAN /\ wsRef \in {"null", "open", "closing", "closed"}
  /\ rfidOpen \in 0..MaxVisits /\ notifyOpen \in 0..MaxVisits
  /\ lost \in BOOLEAN /\ visits \in 0..MaxVisits

Hearing == ScansHeardOnce /\ SocketsOfVisits /\ HeardByRef

LEMMA SocketsStep ==
  SocketsOK /\ Hearing /\ [Next]_vars => SocketsOK' /\ Hearing'
  <1> SUFFICES ASSUME SocketsOK, Hearing, [Next]_vars PROVE SocketsOK' /\ Hearing'
    OBVIOUS
  <1> USE ExhibitAssumption DEF SocketsOK, Hearing, ScansHeardOnce, SocketsOfVisits, HeardByRef
  <1>1. CASE Focus
    <2>1. rfidOpen' = 1 /\ {0, 1} \subseteq 0..MaxVisits
      <3>1. rfidOpen = 0
        BY <1>1 DEF Focus
      <3> QED BY <1>1, <3>1 DEF Focus
    <2>2. /\ notifyOpen' \in 0..MaxVisits /\ notifyOpen' <= visits'
          /\ visits' \in 0..MaxVisits /\ visits' > 0
      <3>1. notifyOpen' \in {notifyOpen, notifyOpen + 1} /\ visits' = visits + 1
        BY <1>1 DEF Focus
      <3> QED BY <1>1, <3>1 DEF Focus
    <2> QED
      BY <1>1, <2>1, <2>2, Zenon DEF Focus
  <1>2. CASE Blur   \* both clean-ups find the socket, or neither does
    <2>1. rfidOpen' = 0 /\ wsRef' \in {"null", "closing", "closed"}
      <3>1. CASE wsRef = "open"
        <4>1. rfidOpen = 1
          BY <1>2, <3>1, Zenon DEF Blur
        <4> QED BY <1>2, <3>1, <4>1 DEF Blur, Closing
      <3>2. CASE wsRef # "open"
        <4>1. rfidOpen = 0
          BY <1>2, <3>2, Zenon DEF Blur
        <4> QED BY <1>2, <3>2, <4>1 DEF Blur, Closing
      <3> QED BY <3>1, <3>2
    <2>2. 0 \in 0..MaxVisits
      OBVIOUS
    <2> QED
      BY <1>2, <2>1, <2>2, Zenon DEF Blur
  <1>3. CASE Closed
    BY <1>3 DEF Closed
  <1>4. CASE RfidLost
    BY <1>4 DEF RfidLost
  <1>5. CASE NotifyLost
    BY <1>5 DEF NotifyLost
  <1>6. CASE NewPath
    <2>1. rfidOpen' = 1 /\ 1 \in 0..MaxVisits
      <3>1. CASE wsRef = "open"
        <4>1. rfidOpen = 1
          BY <1>6, <3>1, Zenon DEF NewPath
        <4> QED BY <1>6, <3>1, <4>1 DEF NewPath
      <3>2. CASE wsRef # "open"
        <4>1. rfidOpen = 0
          BY <1>6, <3>2, Zenon DEF NewPath
        <4> QED BY <1>6, <3>2, <4>1 DEF NewPath
      <3> QED BY <3>1, <3>2
    <2> QED
      BY <1>6, <2>1, Zenon DEF NewPath
  <1>7. CASE UNCHANGED sockets
    BY <1>7 DEF sockets
  <1> QED
    BY <1>1, <1>2, <1>3, <1>4, <1>5, <1>6, <1>7
       DEF Next, Scan, Fetch, Listed, Title, TitleMissing, Show, Fail, RemoveImage,
           SendRating, vars

(***************************************************************************)
(* The page.                                                               *)
(***************************************************************************)
PageOK ==
  /\ fetching \in [Exhibit -> {"no", "list", "items", "titled"}]
  /\ objectData \in Exhibit \cup {Nothing}
  /\ exhibitName \in Exhibit \cup {Example}
  /\ lastScan \in Exhibit \cup {Nothing}
  /\ disturbed \in BOOLEAN
  /\ rated \in [exhibit : Exhibit \cup {Example, Nothing}, shown : Exhibit \cup {Nothing}]

LEMMA PageTypeStep == PageOK /\ [Next]_vars => PageOK'
  <1> SUFFICES ASSUME PageOK, [Next]_vars PROVE PageOK'
    OBVIOUS
  <1> USE DEF PageOK
  <1>1. ASSUME NEW e \in Exhibit, Scan(e) PROVE PageOK'
    BY <1>1 DEF Scan, Loading
  <1>2. ASSUME NEW e \in Exhibit, Listed(e) PROVE PageOK'
    BY <1>2 DEF Listed
  <1>3. ASSUME NEW e \in Exhibit, Title(e) PROVE PageOK'
    BY <1>3 DEF Title
  <1>4. ASSUME NEW e \in Exhibit, TitleMissing(e) PROVE PageOK'
    BY <1>4 DEF TitleMissing
  <1>5. ASSUME NEW e \in Exhibit, Show(e) PROVE PageOK'
    BY <1>5 DEF Show
  <1>6. ASSUME NEW e \in Exhibit, Fail(e) PROVE PageOK'
    BY <1>6 DEF Fail
  <1>7. CASE RemoveImage
    BY <1>7 DEF RemoveImage
  <1>8. CASE SendRating
    BY <1>8 DEF SendRating
  <1>9. CASE UNCHANGED page
    BY <1>9 DEF page
  <1> QED
    BY <1>1, <1>2, <1>3, <1>4, <1>5, <1>6, <1>7, <1>8, <1>9
       DEF Next, Fetch, Focus, Blur, Closed, RfidLost, NotifyLost, NewPath, vars

Quiet == OnlyLastLoads /\ TitledIsNamed /\ QuietPageIsRight

LEMMA QuietStep == PageOK /\ Quiet /\ [Next]_vars => Quiet'
  <1> SUFFICES ASSUME PageOK, Quiet, [Next]_vars PROVE Quiet'
    OBVIOUS
  <1> USE DEF PageOK, Quiet, OnlyLastLoads, TitledIsNamed, QuietPageIsRight
  <1>1. ASSUME NEW e \in Exhibit, Scan(e) PROVE Quiet'
    BY <1>1 DEF Scan, Loading
  <1>2. ASSUME NEW e \in Exhibit, Listed(e) PROVE Quiet'
    BY <1>2 DEF Listed, Loading
  <1>3. ASSUME NEW e \in Exhibit, Title(e) PROVE Quiet'
    BY <1>3 DEF Title, Loading
  <1>4. ASSUME NEW e \in Exhibit, TitleMissing(e) PROVE Quiet'
    BY <1>4 DEF TitleMissing
  <1>5. ASSUME NEW e \in Exhibit, Show(e) PROVE Quiet'
    BY <1>5 DEF Show, Loading
  <1>6. ASSUME NEW e \in Exhibit, Fail(e) PROVE Quiet'
    BY <1>6 DEF Fail
  <1>7. CASE RemoveImage
    BY <1>7 DEF RemoveImage, Loading
  <1>8. CASE SendRating
    BY <1>8 DEF SendRating, Loading
  <1>9. CASE UNCHANGED page
    BY <1>9 DEF page, Loading
  <1> QED
    BY <1>1, <1>2, <1>3, <1>4, <1>5, <1>6, <1>7, <1>8, <1>9
       DEF Next, Fetch, Focus, Blur, Closed, RfidLost, NotifyLost, NewPath, vars

LEMMA StepIInv == IInv /\ [Next]_vars => IInv'
  <1> SUFFICES ASSUME IInv, [Next]_vars PROVE IInv'
    OBVIOUS
  <1>1. SocketsOK /\ PageOK
    BY DEF IInv, TypeOK, SocketsOK, PageOK
  <1>2. SocketsOK' /\ Hearing'
    BY <1>1, SocketsStep DEF IInv, Hearing
  <1>3. PageOK'
    BY <1>1, PageTypeStep
  <1>4. Quiet'
    BY <1>1, QuietStep DEF IInv, Quiet
  <1>5. TypeOK'
    BY <1>2, <1>3 DEF TypeOK, SocketsOK, PageOK
  <1> QED
    BY <1>2, <1>4, <1>5 DEF IInv, Quiet, Hearing

LEMMA Invariance == Spec => []IInv
  <1> QED
    BY InitIInv, StepIInv, PTL DEF Spec

-----------------------------------------------------------------------------
\* RFIDScreen.js: the variables of the page have their types.
THEOREM TypeCorrect == Spec => []TypeOK
  <1>1. IInv => TypeOK
    BY DEF IInv
  <1> QED
    BY <1>1, Invariance, PTL

\* The two effects with their one wsRef: however often the page comes in front,
\* gets a new path, is left, or loses its connection, a card is never heard twice
\* nor behind, and is heard in front unless the connection failed since.
THEOREM HeardOnce == Spec => []ScansHeardOnce
  <1>1. IInv => ScansHeardOnce
    BY DEF IInv
  <1> QED
    BY <1>1, Invariance, PTL

\* fetchObjectData and sendRating: after a card that was read while nothing else
\* loaded and fetched without an error, the page and its rating are that card's.
THEOREM QuietPageRight == Spec => []QuietPageIsRight
  <1>1. IInv => QuietPageIsRight
    BY DEF IInv
  <1> QED
    BY <1>1, Invariance, PTL

-----------------------------------------------------------------------------
(***************************************************************************)
(* While the lock is held every entry is still to be regenerated, or from  *)
(* within the refresh, or its call failed; the handlers cannot store.      *)
(***************************************************************************)
RefreshPast == since <= now
AskedIsTodo == asked # NoPrompt => locked /\ asked \in todo
EntriesDone ==
  locked => \A p \in Prompt :
              cache[p] # 0 => p \in todo \/ cache[p] >= since \/ p \in failed

ProxyInv == ProxyTypeOK /\ RefreshPast /\ AskedIsTodo /\ EntriesDone

-----------------------------------------------------------------------------
LEMMA ProxyInitInv == ProxyInit => ProxyInv
  <1> SUFFICES ASSUME ProxyInit PROVE ProxyInv
    OBVIOUS
  <1>1. ProxyTypeOK
    <2>1. 1 \in Time /\ 0 \in 0..MaxTime
      BY GptAssumption DEF Time
    <2> QED
      BY <2>1 DEF ProxyInit, ProxyTypeOK
  <1>2. RefreshPast /\ AskedIsTodo /\ EntriesDone
    BY DEF ProxyInit, RefreshPast, AskedIsTodo, EntriesDone
  <1> QED
    BY <1>1, <1>2 DEF ProxyInv

LEMMA ProxyTypeStep == ProxyTypeOK /\ [ProxyNext]_proxyVars => ProxyTypeOK'
  <1> SUFFICES ASSUME ProxyTypeOK, [ProxyNext]_proxyVars PROVE ProxyTypeOK'
    OBVIOUS
  <1> USE GptAssumption DEF ProxyTypeOK, Time, handlers, refresh
  <1>1. CASE Tick
    BY <1>1 DEF Tick
  <1>2. CASE RefreshStart
    BY <1>2 DEF RefreshStart
  <1>3. CASE RefreshAsk
    BY <1>3 DEF RefreshAsk
  <1>4. CASE RefreshAnswer
    BY <1>4 DEF RefreshAnswer
  <1>5. CASE RefreshFails
    BY <1>5 DEF RefreshFails
  <1>6. CASE RefreshEnd
    BY <1>6 DEF RefreshEnd
  <1>7. ASSUME NEW c \in Client, Request(c) PROVE ProxyTypeOK'
    BY <1>7 DEF Request
  <1>8. ASSUME NEW c \in Client, Get(c) PROVE ProxyTypeOK'
    BY <1>8 DEF Get
  <1>9. ASSUME NEW c \in Client, Generate(c) PROVE ProxyTypeOK'
    BY <1>9 DEF Generate
  <1>10. ASSUME NEW c \in Client, GenerateFails(c) PROVE ProxyTypeOK'
    BY <1>10 DEF GenerateFails
  <1>11. ASSUME NEW c \in Client, Set(c) PROVE ProxyTypeOK'
    BY <1>11 DEF Set
  <1>12. ASSUME NEW c \in Client, Reply(c) PROVE ProxyTypeOK'
    BY <1>12 DEF Reply
  <1>13. CASE UNCHANGED proxyVars
    BY <1>13 DEF proxyVars
  <1> QED
    BY <1>1, <1>2, <1>3, <1>4, <1>5, <1>6, <1>7, <1>8, <1>9, <1>10, <1>11, <1>12,
       <1>13 DEF ProxyNext, Refresh, Handler

LEMMA ProxyStepInv == ProxyInv /\ [ProxyNext]_proxyVars => ProxyInv'
  <1> SUFFICES ASSUME ProxyInv, [ProxyNext]_proxyVars
               PROVE  RefreshPast' /\ AskedIsTodo' /\ EntriesDone'
    BY ProxyTypeStep DEF ProxyInv
  <1> USE GptAssumption
      DEF ProxyInv, ProxyTypeOK, Time, RefreshPast, AskedIsTodo, EntriesDone, handlers,
          refresh
  <1>1. CASE Tick
    BY <1>1 DEF Tick
  <1>2. CASE RefreshStart
    BY <1>2 DEF RefreshStart
  <1>3. CASE RefreshAsk
    BY <1>3 DEF RefreshAsk
  <1>4. CASE RefreshAnswer
    BY <1>4 DEF RefreshAnswer
  <1>5. CASE RefreshFails
    BY <1>5 DEF RefreshFails
  <1>6. CASE RefreshEnd
    BY <1>6 DEF RefreshEnd
  <1>7. ASSUME NEW c \in Client, Request(c) \/ Get(c) \/ Generate(c)
                                  \/ GenerateFails(c) \/ Reply(c)
        PROVE  RefreshPast' /\ AskedIsTodo' /\ EntriesDone'
    BY <1>7 DEF Request, Get, Generate, GenerateFails, Reply
  <1>8. ASSUME NEW c \in Client, Set(c)
        PROVE  RefreshPast' /\ AskedIsTodo' /\ EntriesDone'
    BY <1>8 DEF Set   \* needs the lock not to be held
  <1>9. CASE UNCHANGED proxyVars
    BY <1>9 DEF proxyVars
  <1> QED
    BY <1>1, <1>2, <1>3, <1>4, <1>5, <1>6, <1>7, <1>8, <1>9 DEF ProxyNext, Refresh, Handler

\* Only RefreshEnd gives the lock back, and it does when nothing is to be done.
LEMMA UnlockIsEnd ==
  ASSUME ProxyInv, [ProxyNext]_proxyVars, locked, ~locked'
  PROVE  todo = {} /\ cache' = cache
  BY DEF ProxyInv, ProxyTypeOK, ProxyNext, Refresh, Handler, proxyVars, handlers, refresh, Tick,
     RefreshStart, RefreshAsk, RefreshAnswer, RefreshFails, RefreshEnd,
     Request, Get, Generate, GenerateFails, Set, Reply

-----------------------------------------------------------------------------
\* chatHandler and RefreshCache keep the types; what is stored is an answer.
THEOREM ProxyTypeCorrect == ProxySpec => []ProxyTypeOK
  <1>1. ProxyInit => ProxyTypeOK
    BY ProxyInitInv DEF ProxyInv
  <1> QED
    BY <1>1, ProxyTypeStep, PTL DEF ProxySpec

\* When RefreshCache releases the lock every entry is from within the refresh,
\* except those the API failed for.
THEOREM RefreshWhole == ProxySpec => RefreshIsWhole
  <1>1. ProxyInv /\ [ProxyNext]_proxyVars =>
          [locked /\ ~locked' =>
             \A p \in Prompt : cache[p] # 0 => cache[p] >= since \/ p \in failed]_proxyVars
    BY UnlockIsEnd DEF ProxyInv, EntriesDone
  <1> QED
    BY <1>1, ProxyInitInv, ProxyStepInv, PTL DEF ProxySpec, RefreshIsWhole
=============================================================================
