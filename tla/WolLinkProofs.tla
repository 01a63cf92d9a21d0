----------------------------- MODULE WolLinkProofs -----------------------------
(***************************************************************************)
(* WolLink proved, for all periods and limits: its types, that the         *)
(* device's two records of what is unanswered agree, why it gives a link   *)
(* up, which of its messages the server hears, why the server evicts a     *)
(* device, and how soon the device notices a dead link.                    *)
(***************************************************************************)
EXTENDS WolLink, SequenceTheorems, TLAPS

Requested == {"bind", "beat", "response", "warn", "rest"}
Received == Orders \cup {"status", "refused"}
USE DEF Requesting

\* The types and LostCountsSilence: each needs the other, for the bound of lost.
Inv == TypeOK /\ LostCountsSilence

-----------------------------------------------------------------------------
(* What the definitions shared by several actions leave behind.            *)

\* A request or a response is appended, or nothing is.
LEMMA SendsType ==
  ASSUME TypeOK, NEW m \in Requested,
         toServer' = (IF link = "up" THEN Append(toServer, m) ELSE toServer)
         \/ UNCHANGED toServer
  PROVE  toServer' \in Seq(Requested)
<1>1. toServer \in Seq(Requested)
  BY DEF TypeOK, DeviceTypeOK, Requested
<1>2. Append(toServer, m) \in Seq(Requested)
  BY <1>1, AppendProperties
<1> QED BY <1>1, <1>2

\* A message is appended to what is under way to the device, or nothing is.
LEMMA AnswerType ==
  ASSUME TypeOK, NEW m \in Received,
         toDevice' = Append(toDevice, m) \/ UNCHANGED toDevice
  PROVE  toDevice' \in Seq(Received)
<1>1. toDevice \in Seq(Received)
  BY DEF TypeOK, DeviceTypeOK, Received
<1>2. Append(toDevice, m) \in Seq(Received)
  BY <1>1, AppendProperties
<1> QED BY <1>1, <1>2

\* recv takes messages from the front.
LEMMA ReadsType ==
  ASSUME TypeOK, NEW n \in Nat, NEW m, Reads(n, m)
  PROVE  toDevice' \in Seq(Received)
<1>1. toDevice \in Seq(Received)
  BY DEF TypeOK, DeviceTypeOK, Received
<1>2. Len(toDevice) \in Nat /\ \A i \in 1 .. Len(toDevice) : toDevice[i] \in Received
  BY <1>1
<1>3. \A i \in n + 1 .. Len(toDevice) : toDevice[i] \in Received
  BY <1>2
<1>4. SubSeq(toDevice, n + 1, Len(toDevice)) \in Seq(Received)
  BY <1>2, <1>3, SubSeqProperties
<1> QED BY <1>4 DEF Reads

\* The server's recv takes messages from the front, and may leave the rest of one there.
LEMMA ArrivesType ==
  ASSUME TypeOK, NEW n, NEW torn \in BOOLEAN, Arrives(n, torn)
  PROVE  /\ toServer' \in Seq(Requested) /\ Len(toServer) \in Nat
         /\ n \in 0 .. Len(toServer) /\ (torn => n < Len(toServer)) /\ (~torn => n > 0)
         /\ Len(toServer') = Len(toServer) - n
         /\ \A j \in 1 .. Len(toServer) - n :
              toServer'[j] = IF torn /\ j = 1 THEN "rest" ELSE toServer[n + j]
<1> DEFINE q == IF torn THEN [toServer EXCEPT ![n + 1] = "rest"] ELSE toServer
<1>1. toServer \in Seq(Requested) /\ Len(toServer) \in Nat
  BY DEF TypeOK, DeviceTypeOK, Requested
<1>2. n \in 0 .. Len(toServer) /\ (torn => n < Len(toServer)) /\ (~torn => n > 0)
  BY DEF Arrives
<1>3. /\ q \in Seq(Requested) /\ Len(q) = Len(toServer)
      /\ \A i \in 1 .. Len(toServer) :
           q[i] = IF torn /\ i = n + 1 THEN "rest" ELSE toServer[i]
  <2>1. CASE ~torn
    BY <1>1, <2>1
  <2>2. CASE torn
    <3>1. n + 1 \in 1 .. Len(toServer) /\ "rest" \in Requested
      BY <1>1, <1>2, <2>2 DEF Requested
    <3> QED BY <1>1, <2>2, <3>1, ExceptSeq
  <2> QED BY <2>1, <2>2
<1>4. toServer' = SubSeq(q, n + 1, Len(toServer))
  BY DEF Arrives
<1> HIDE DEF q
<1>5. /\ Len(toServer') = Len(toServer) - n
      /\ \A j \in 1 .. Len(toServer) - n : toServer'[j] = q[n + j]
  BY <1>1, <1>2, <1>3, <1>4
<1>6. \A j \in 1 .. Len(toServer) - n : n + j \in 1 .. Len(toServer) /\ (n + j = n + 1 <=> j = 1)
  BY <1>1, <1>2
<1>7. toServer' \in Seq(Requested)
  <2>1. \A i \in n + 1 .. Len(toServer) : q[i] \in Requested
    BY <1>1, <1>2, <1>3
  <2> QED BY <1>1, <1>2, <1>3, <1>4, <2>1, SubSeqProperties
<1> QED BY <1>1, <1>2, <1>3, <1>5, <1>6, <1>7

\* What accept and recv's 0 leave of the session.
LEMMA SessionType ==
  ASSUME TypeOK, SessionFollows
  PROVE  /\ held' \in BOOLEAN /\ known' \in BOOLEAN /\ excuse' \in BOOLEAN
         /\ bind_lost' \in BOOLEAN /\ age' \in 0 .. IdleLimit + 1
<1>1. 0 \in 0 .. IdleLimit + 1
  BY LinkAssumption
<1> QED BY <1>1, Zenon DEF SessionFollows, NoSession, Afresh, sessionVars, TypeOK

\* Neither request nor answer is outstanding: the flag and the counter agree.
LEMMA ClearedAgree ==
  ASSUME waiting' = FALSE, lost' = 0, missed' = FALSE
  PROVE  /\ waiting' \in BOOLEAN /\ missed' \in BOOLEAN /\ lost' \in 0 .. MaxLost
         /\ LostCountsSilence'
<1>1. waiting' \in BOOLEAN /\ missed' \in BOOLEAN
  BY Zenon
<1>2. ~(lost' > 0) /\ lost' \in 0 .. MaxLost /\ lost' <= MaxLost
  BY DeviceAssumption
<1>3. LostCountsSilence'
  BY <1>2, Zenon DEF LostCountsSilence
<1> QED BY <1>1, <1>2, <1>3

\* The same for what a new attempt starts from.
LEMMA FreshType ==
  ASSUME FreshCounters
  PROVE  /\ bind_at' \in Nat /\ beat_at' \in Nat
         /\ waiting' \in BOOLEAN /\ missed' \in BOOLEAN /\ lost' \in 0 .. MaxLost
         /\ LostCountsSilence'
  BY ClearedAgree DEF FreshCounters

-----------------------------------------------------------------------------
\* The part of Inv that the device's own steps can disturb.
DeviceInv == DeviceTypeOK /\ LostCountsSilence

\* The outer loop keeps it.
LEMMA OuterStep == Inv /\ Outer => DeviceInv'
<1> SUFFICES ASSUME Inv, Outer PROVE DeviceInv'
  OBVIOUS
<1> USE DeviceAssumption DEF Inv, DeviceInv, TypeOK, DeviceTypeOK, LostCountsSilence
<1>e. << >> \in Seq(Requested) /\ << >> \in Seq(Received)
  OBVIOUS
<1>1. CASE CannotTry
  BY <1>1 DEF CannotTry, Sleeps, wireVars
<1>2. CASE DnsFails
  BY <1>2 DEF DnsFails, Sleeps, wireVars
<1>3. CASE ConnectFails
  BY <1>3, FreshType DEF ConnectFails, Sleeps, wireVars
<1>4. CASE Connects
  BY <1>4, <1>e, FreshType DEF Connects, Requested, Received
<1>5. CASE Wakes
  BY <1>5 DEF Wakes, wireVars
<1> QED BY <1>1, <1>2, <1>3, <1>4, <1>5 DEF Outer

\* Closing the connection keeps it.
LEMMA DisconnectStep == Inv /\ Disconnects => DeviceInv'
<1> SUFFICES ASSUME Inv, Disconnects PROVE DeviceInv'
  OBVIOUS
<1>e. << >> \in Seq(Requested) /\ << >> \in Seq(Received)
  OBVIOUS
<1> QED
  BY <1>e, FreshType, DeviceAssumption
  DEF Inv, DeviceInv, TypeOK, DeviceTypeOK, Disconnects, Sleeps, Requested,
      Received

\* A request counted when fewer than MaxLost are unanswered keeps it.
LEMMA RequestStep ==
  ASSUME Inv, ~Unanswered, NEW m \in Requested, Requests(m)
  PROVE  /\ toServer' \in Seq(Requested)
         /\ waiting' \in BOOLEAN /\ lost' \in 0 .. MaxLost /\ LostCountsSilence'
<1>1. toServer' \in Seq(Requested)
  BY SendsType DEF Requests, Inv
<1>2. waiting' \in BOOLEAN /\ lost' \in 0 .. MaxLost /\ LostCountsSilence'
  <2>1. lost \in Nat /\ waiting \in BOOLEAN
    BY DEF Inv, TypeOK, DeviceTypeOK
  <2>2. lost < MaxLost
    BY <2>1, DeviceAssumption DEF Inv, LostCountsSilence, Unanswered
  <2>3. CASE waiting' = TRUE /\ lost' = lost + 1
    BY <2>1, <2>2, <2>3, DeviceAssumption DEF LostCountsSilence
  <2>4. CASE UNCHANGED <<waiting, lost>>
    BY <2>4 DEF Inv, TypeOK, DeviceTypeOK, LostCountsSilence
  <2> QED BY <2>3, <2>4 DEF Requests
<1> QED BY <1>1, <1>2

\* The inner loop keeps it.
LEMMA InnerStep == Inv /\ Inner => DeviceInv'
<1> SUFFICES ASSUME Inv, Inner PROVE DeviceInv'
  OBVIOUS
<1>1. CASE GivesUp \/ RecvEnds
  BY <1>1, DisconnectStep DEF GivesUp, RecvEnds
<1>2. CASE Binds
  <2>1. ~Unanswered /\ Requests("bind") /\ "bind" \in Requested
    BY <1>2 DEF Binds, Requested
  <2>2. /\ toServer' \in Seq(Requested)
        /\ waiting' \in BOOLEAN /\ lost' \in 0 .. MaxLost /\ LostCountsSilence'
    BY <2>1, RequestStep
  <2>3. bind_at' \in Nat /\ beat_at' \in Nat /\ pc' = "recv" /\ elapsed' = 0
    BY <1>2, DeviceAssumption DEF Binds, GoesOn, Inv, TypeOK, DeviceTypeOK
  <2> QED BY <1>2, <2>2, <2>3
          DEF Binds, Inv, DeviceInv, TypeOK, DeviceTypeOK, Requested
<1>3. CASE Beats
  <2>1. ~Unanswered /\ Requests("beat") /\ "beat" \in Requested
    BY <1>3 DEF Beats, Requested
  <2>2. /\ toServer' \in Seq(Requested)
        /\ waiting' \in BOOLEAN /\ lost' \in 0 .. MaxLost /\ LostCountsSilence'
    BY <2>1, RequestStep
  <2>3. beat_at' \in Nat /\ pc' = "recv" /\ elapsed' = 0
    BY <1>3, DeviceAssumption DEF Beats, GoesOn, Inv, TypeOK, DeviceTypeOK
  <2> QED BY <1>3, <2>2, <2>3
          DEF Beats, Inv, DeviceInv, TypeOK, DeviceTypeOK, Requested
<1>4. CASE KeepsQuiet
  BY <1>4 DEF KeepsQuiet, GoesOn, wireVars, Inv, DeviceInv, TypeOK, DeviceTypeOK,
              LostCountsSilence
<1>6. CASE RecvTimesOut
  <2>1. toServer' \in Seq(Requested)
    <3>1. Sends("warn") \/ UNCHANGED toServer
      BY <1>6 DEF RecvTimesOut
    <3>2. "warn" \in Requested
      BY DEF Requested
    <3> QED BY <3>1, <3>2, SendsType DEF Sends, Inv
  <2>2. io_warn_count' \in 0 .. MaxWarn - 1
    BY <1>6, DeviceAssumption DEF RecvTimesOut, Inv, TypeOK, DeviceTypeOK
  <2> QED BY <1>6, <2>1, <2>2
          DEF RecvTimesOut, GoesRound, Inv, DeviceInv, TypeOK, DeviceTypeOK,
              LostCountsSilence, Requested
<1>5. ASSUME NEW n \in 1 .. Len(toDevice),
             RecvStatus(n) \/ RecvOrder(n) \/ RecvNothing(n)
      PROVE  DeviceInv'
  <2>n. n \in Nat
    OBVIOUS
  <2>r. PICK m : Reads(n, m)
    BY <1>5 DEF RecvStatus, RecvOrder, RecvNothing
  <2>t. toDevice' \in Seq(Received)
    BY <2>n, <2>r, ReadsType DEF Inv
  <2>u. /\ pc' = "send" /\ elapsed' = 0
        /\ UNCHANGED <<bind_at, beat_at, retry, leaked, io_warn_count, clock, wifi, link>>
    BY <2>r DEF Reads, GoesRound
  <2>1. CASE RecvStatus(n)
    <3>1. UNCHANGED <<toServer, reset>> /\ missed' = FALSE
      BY <2>1 DEF RecvStatus
    <3>2. waiting' = FALSE /\ lost' = 0
      BY <2>1 DEF RecvStatus, Inv, LostCountsSilence, TypeOK, DeviceTypeOK
    <3>3. /\ waiting' \in BOOLEAN /\ missed' \in BOOLEAN /\ lost' \in 0 .. MaxLost
          /\ LostCountsSilence'
      BY <3>1, <3>2, ClearedAgree
    <3> QED BY <2>t, <2>u, <3>1, <3>3
            DEF Inv, DeviceInv, TypeOK, DeviceTypeOK, Received
  <2>2. CASE RecvOrder(n)
    <3>1. UNCHANGED <<waiting, lost>>
      BY <2>2 DEF RecvOrder
    <3>2. toServer' \in Seq(Requested)
      <4>1. Sends("response") /\ "response" \in Requested
        BY <2>2 DEF RecvOrder, Requested
      <4> QED BY <4>1, SendsType DEF Sends, Inv
    <3>3. reset' \in 0 .. ResetDelay + 1
      BY <2>2, DeviceAssumption DEF RecvOrder, Inv, TypeOK, DeviceTypeOK
    <3>4. missed' \in BOOLEAN
      BY <2>2, Zenon DEF RecvOrder
    <3> QED BY <2>t, <2>u, <3>1, <3>2, <3>3, <3>4
            DEF Inv, DeviceInv, TypeOK, DeviceTypeOK, LostCountsSilence, Received,
                Requested
  <2>3. CASE RecvNothing(n)
    <3>1. UNCHANGED <<waiting, lost, toServer, reset>>
      BY <2>3 DEF RecvNothing
    <3>2. missed' \in BOOLEAN
      BY <2>3, Zenon DEF RecvNothing
    <3> QED BY <2>t, <2>u, <3>1, <3>2
            DEF Inv, DeviceInv, TypeOK, DeviceTypeOK, LostCountsSilence, Received
  <2> QED BY <1>5, <2>1, <2>2, <2>3
<1> QED BY <1>1, <1>2, <1>3, <1>4, <1>5, <1>6 DEF Inner

\* A boot keeps it.
LEMMA BootStep == Inv /\ Boots => DeviceInv'
<1> SUFFICES ASSUME Inv, Boots PROVE DeviceInv'
  OBVIOUS
<1>e. << >> \in Seq(Requested) /\ << >> \in Seq(Received)
  OBVIOUS
<1> QED
  BY <1>e, FreshType, DeviceAssumption
  DEF Inv, DeviceInv, TypeOK, DeviceTypeOK, Boots, Requested, Received

-----------------------------------------------------------------------------
\* Every step keeps Inv.
LEMMA InvStep == Inv /\ [Next]_vars => Inv'
<1> SUFFICES ASSUME Inv, [Next]_vars PROVE Inv'
  OBVIOUS
<1>e. << >> \in Seq(Requested) /\ << >> \in Seq(Received)
  OBVIOUS
<1>1. CASE DeviceStep
  <2>1. DeviceInv'
    BY <1>1, OuterStep, InnerStep, BootStep
    DEF DeviceStep, DeviceDoes, Device, PowerCycle, Resets
  <2>2. /\ held' \in BOOLEAN /\ known' \in BOOLEAN /\ excuse' \in BOOLEAN
        /\ bind_lost' \in BOOLEAN /\ age' \in 0 .. IdleLimit + 1
    BY <1>1, SessionType DEF DeviceStep, DeviceDoes, Inv
  <2>3. /\ dead_for' \in Nat /\ sweep_age' \in 0 .. SweepEvery + RoundMax + 1
        /\ delay' \in 0 .. DelayMax
    BY <1>1, LinkAssumption DEF DeviceStep, DeviceDoes, DelayFollows, Inv, TypeOK
  <2> QED BY <2>1, <2>2, <2>3 DEF Inv, DeviceInv, TypeOK
<1>2. CASE Serves
  <2>0. PICK n \in 0 .. Len(toServer), torn \in BOOLEAN : ServesPart(n, torn)
    BY <1>2 DEF Serves
  <2>1. toDevice' \in Seq(Received)
    <3>1. "status" \in Received /\ "refused" \in Received
      BY DEF Received
    <3> QED BY <2>0, <3>1, AnswerType DEF ServesPart, AnswersTrue, Inv
  <2>2. /\ known' \in BOOLEAN /\ excuse' \in BOOLEAN /\ missed' \in BOOLEAN
        /\ bind_lost' \in BOOLEAN
    BY <2>0, Zenon DEF ServesPart, AnswersTrue, Inv, TypeOK, DeviceTypeOK
  <2>3. age' \in 0 .. IdleLimit + 1
    BY <2>0, LinkAssumption DEF ServesPart, AnswersTrue, Inv, TypeOK
  <2>4. toServer' \in Seq(Requested)
    BY <2>0, ArrivesType DEF ServesPart, Inv
  <2>5. delay' \in 0 .. DelayMax
    BY <1>2, LinkAssumption DEF Serves, DelayFollows, Inv, TypeOK
  <2> QED BY <1>2, <2>1, <2>2, <2>3, <2>4, <2>5
          DEF Serves, taskVars, Inv, TypeOK, DeviceTypeOK, LostCountsSilence,
              Received, Requested
<1>3. CASE Forwards
  <2>1. toDevice' \in Seq(Received)
    <3>1. PICK m \in Orders :
            toDevice' = IF link = "up" THEN Append(toDevice, m) ELSE toDevice
      BY <1>3 DEF Forwards
    <3>2. m \in Received
      BY DEF Received
    <3> QED BY <3>1, <3>2, AnswerType DEF Inv
  <2> QED BY <1>3, <2>1
          DEF Forwards, taskVars, sessionVars, Inv, TypeOK, DeviceTypeOK,
              LostCountsSilence, Received
<1>4. ASSUME ServerCloses \/ UNCHANGED <<link, toServer, toDevice, delay, sessionVars>>,
             UNCHANGED <<taskVars, clock, wifi, reset, missed, dead_for>>,
             sweep_age' \in 0 .. SweepEvery + RoundMax + 1
      PROVE  Inv'
  <2>1. /\ link' \in {"none", "up", "cut", "closed"}
        /\ toServer' \in Seq(Requested) /\ toDevice' \in Seq(Received)
    BY <1>4, <1>e
    DEF ServerCloses, Inv, TypeOK, DeviceTypeOK, Requested, Received
  <2>2. /\ held' \in BOOLEAN /\ known' \in BOOLEAN /\ excuse' \in BOOLEAN
        /\ bind_lost' \in BOOLEAN /\ age' \in 0 .. IdleLimit + 1
    <3>1. 0 \in 0 .. IdleLimit + 1
      BY LinkAssumption
    <3> QED BY <1>4, <3>1, Zenon
            DEF ServerCloses, NoSession, Afresh, sessionVars, Inv, TypeOK
  <2>3. delay' \in 0 .. DelayMax
    BY <1>4, LinkAssumption DEF ServerCloses, Inv, TypeOK
  <2> QED BY <1>4, <2>1, <2>2, <2>3
          DEF taskVars, Inv, TypeOK, DeviceTypeOK, LostCountsSilence, Received,
              Requested
<1>5. CASE Sweeps \/ ServerRestarts
  <2>1. sweep_age' \in 0 .. SweepEvery + RoundMax + 1
    BY <1>5, LinkAssumption DEF Sweeps, ServerRestarts
  <2> QED BY <1>4, <1>5, <2>1 DEF Sweeps, ServerRestarts
<1>6. ASSUME Breaks, wifi' \in {"joined", "joining", "left"}
      PROVE  Inv'
  <2>1. delay' \in 0 .. DelayMax
    BY <1>6, LinkAssumption DEF Breaks
  <2> QED BY <1>6, <1>e, <2>1
          DEF Breaks, taskVars, sessionVars, Inv, TypeOK, DeviceTypeOK,
              LostCountsSilence, Requested, Received
<1>7. CASE Cut \/ WifiDrops
  BY <1>6, <1>7 DEF Cut, WifiDrops, Inv, TypeOK, DeviceTypeOK
<1>8. CASE WifiReturns
  BY <1>8
  DEF WifiReturns, taskVars, wireVars, sessionVars, Inv, TypeOK, DeviceTypeOK,
      LostCountsSilence
<1>9. CASE Tick
  <2>1. DeviceTick /\ UNCHANGED <<held, known, bind_lost>>
    BY <1>9 DEF Tick
  <2>6. missed' \in BOOLEAN
    BY <1>9, Zenon DEF Tick
  <2>7. delay' \in 0 .. DelayMax
    BY <1>9, LinkAssumption DEF Tick, Inv, TypeOK
  <2>2. DeviceTypeOK' /\ LostCountsSilence'
    BY <2>1, <2>6, DeviceAssumption
    DEF DeviceTick, wireVars, Inv, TypeOK, DeviceTypeOK, LostCountsSilence
  <2>3. excuse' \in BOOLEAN
    BY <1>9, Zenon DEF Tick
  <2>4. /\ age' \in 0 .. IdleLimit + 1
        /\ sweep_age' \in 0 .. SweepEvery + RoundMax + 1
    BY <1>9, LinkAssumption DEF Tick, Inv, TypeOK
  <2>5. dead_for' \in Nat
    BY <1>9 DEF Tick, Inv, TypeOK
  <2> QED BY <2>1, <2>2, <2>3, <2>4, <2>5, <2>7 DEF Inv, TypeOK
<1>10. CASE UNCHANGED vars
  BY <1>10
  DEF vars, deviceVars, taskVars, wireVars, sessionVars, Inv, TypeOK, DeviceTypeOK,
      LostCountsSilence
<1> QED BY <1>1, <1>2, <1>3, <1>5, <1>7, <1>8, <1>9, <1>10
        DEF Next, Server, Network

\* The states the program starts in satisfy Inv.
LEMMA InvInit == Init => Inv
<1> SUFFICES ASSUME Init PROVE Inv
  OBVIOUS
<1>1. << >> \in Seq(Requested) /\ << >> \in Seq(Received)
  OBVIOUS
<1>2. /\ waiting \in BOOLEAN /\ missed \in BOOLEAN
      /\ held \in BOOLEAN /\ known \in BOOLEAN /\ excuse \in BOOLEAN
      /\ bind_lost \in BOOLEAN
  BY Zenon DEF Init, DeviceInit
<1>3. LostCountsSilence
  <2>1. ~(lost > 0) /\ lost <= MaxLost
    BY DeviceAssumption DEF Init, DeviceInit
  <2> QED BY <2>1, Zenon DEF LostCountsSilence, Init, DeviceInit
<1>4. DeviceTypeOK
  BY <1>1, <1>2, DeviceAssumption
  DEF Init, DeviceInit, DeviceTypeOK, Requested, Received
<1>5. dead_for \in Nat /\ age \in 0 .. IdleLimit + 1 /\ delay \in 0 .. DelayMax
      /\ sweep_age \in 0 .. SweepEvery + RoundMax + 1
  BY LinkAssumption DEF Init
<1> QED BY <1>2, <1>3, <1>4, <1>5 DEF Inv, TypeOK

\* Every variable of the composition keeps its type, for all values of the
\* constants.
THEOREM TypeCorrect == Spec => []TypeOK
<1>1. Inv => TypeOK
  BY DEF Inv
<1> QED BY <1>1, InvInit, InvStep, PTL DEF Spec

\* The device's flag and its counter agree, and the counter keeps to its limit.
THEOREM CounterCorrect == Spec => []LostCountsSilence
<1>1. Inv => LostCountsSilence
  BY DEF Inv
<1> QED BY <1>1, InvInit, InvStep, PTL DEF Spec
-----------------------------------------------------------------------------
(* Why the device gives a working link up.                                 *)

Answered == \E i \in 1 .. Len(toDevice) : toDevice[i] = "status"

\* While nothing has been dropped unread, an unanswered request of this second is
\* on its way or its answer is, and no request is due; in the next second there
\* is no unanswered request left.
Accounted ==
  /\ link = "none" <=> pc \in {"top", "delay", "ended"}
  /\ link = "up" /\ waiting /\ ~missed =>
       (Answered \/ Asked) /\ ~BindDue /\ ~BeatDue

\* What is appended to a queue leaves what was there in its place.
LEMMA AppendKeeps ==
  ASSUME NEW S, NEW q \in Seq(S), NEW m \in S
  PROVE  /\ Len(q) \in Nat /\ Len(Append(q, m)) = Len(q) + 1
         /\ Append(q, m)[Len(q) + 1] = m
         /\ \A i \in 1 .. Len(q) : Append(q, m)[i] = q[i]
  BY AppendProperties

\* An answer that recv has not taken is still there.
LEMMA ReadsKeeps ==
  ASSUME TypeOK, NEW n \in Nat, NEW m, Reads(n, m), ~Overlooked(1, n), Answered
  PROVE  Answered'
<1>1. PICK i \in 1 .. Len(toDevice) : toDevice[i] = "status"
  BY DEF Answered
<1>2. Len(toDevice) \in Nat /\ n \in 1 .. Len(toDevice)
  BY DEF Reads, TypeOK, DeviceTypeOK
<1>3. i > n
  BY <1>1, <1>2 DEF Overlooked
<1>4. \A j \in n + 1 .. Len(toDevice) : toDevice[j] \in Received
  BY <1>2 DEF TypeOK, DeviceTypeOK, Received
<1>5. /\ Len(toDevice') = Len(toDevice) - n
      /\ \A j \in 1 .. Len(toDevice) - n : toDevice'[j] = toDevice[n + j]
  <2> DEFINE t == SubSeq(toDevice, n + 1, Len(toDevice))
  <2>1. Len(t) = (IF n + 1 <= Len(toDevice) THEN Len(toDevice) - (n + 1) + 1 ELSE 0)
        /\ \A j \in 1 .. Len(toDevice) - (n + 1) + 1 : t[j] = toDevice[n + 1 + j - 1]
    BY <1>2, <1>4, SubSeqProperties
  <2>2. toDevice' = t
    BY DEF Reads
  <2> HIDE DEF t
  <2> QED BY <1>2, <2>1, <2>2
<1>6. i - n \in 1 .. Len(toDevice) - n /\ n + (i - n) = i
  BY <1>1, <1>2, <1>3
<1>7. toDevice'[i - n] = "status"
  BY <1>1, <1>5, <1>6
<1> QED BY <1>5, <1>6, <1>7 DEF Answered

\* What is under way to the server counts, whatever is added to it.
LEMMA AskedKeeps ==
  ASSUME TypeOK, Asked, NEW m \in Requested, toServer' = Append(toServer, m)
  PROVE  Asked'
<1>1. toServer \in Seq(Requested)
  BY DEF TypeOK, DeviceTypeOK, Requested
<1> QED BY <1>1, AppendKeeps DEF Asked

\* A request that is added counts.
LEMMA AskedNow ==
  ASSUME TypeOK, NEW m \in {"bind", "beat"}, toServer' = Append(toServer, m)
  PROVE  Asked'
<1>1. toServer \in Seq(Requested) /\ m \in Requested
  BY DEF TypeOK, DeviceTypeOK, Requested
<1> QED BY <1>1, AppendKeeps DEF Asked

\* So does an answer.
LEMMA AnsweredKeeps ==
  ASSUME TypeOK, Answered, NEW m \in Received, toDevice' = Append(toDevice, m)
  PROVE  Answered'
<1>1. toDevice \in Seq(Received)
  BY DEF TypeOK, DeviceTypeOK, Received
<1> QED BY <1>1, AppendKeeps DEF Answered

\* A request under way is read, or not read, or still under way.
LEMMA AskedArrives ==
  ASSUME TypeOK, NEW n, NEW torn \in BOOLEAN, Arrives(n, torn), Asked,
         First(n) \notin Requesting, Unread(n, torn) \cap Requesting = {}
  PROVE  Asked'
<1>1. PICK i \in 1 .. Len(toServer) : toServer[i] \in Requesting
  BY DEF Asked
<1>2. /\ Len(toServer) \in Nat /\ n \in 0 .. Len(toServer)
      /\ (torn => n < Len(toServer)) /\ (~torn => n > 0)
      /\ Len(toServer') = Len(toServer) - n
      /\ \A j \in 1 .. Len(toServer) - n :
           toServer'[j] = IF torn /\ j = 1 THEN "rest" ELSE toServer[n + j]
  BY ArrivesType
<1>3. i \notin (IF n = 0 THEN 1 ELSE 2) .. (IF torn THEN n + 1 ELSE n)
  BY <1>1 DEF Unread
<1>4. n > 0 => i # 1
  BY <1>1, <1>2 DEF First
<1>5. i > (IF torn THEN n + 1 ELSE n)
  BY <1>1, <1>2, <1>3, <1>4
<1>6. i - n \in 1 .. Len(toServer) - n /\ n + (i - n) = i /\ (torn => i - n # 1)
  BY <1>1, <1>2, <1>5
<1>7. toServer'[i - n] = toServer[i]
  BY <1>2, <1>6
<1> QED BY <1>1, <1>2, <1>6, <1>7 DEF Asked

\* The device's steps keep the account.
LEMMA AccountedByDevice == Inv /\ Accounted /\ (Device \/ PowerCycle) => Accounted'
<1> SUFFICES ASSUME Inv, Accounted, Device \/ PowerCycle PROVE Accounted'
  OBVIOUS
<1>t. TypeOK /\ clock \in Nat /\ bind_at \in Nat /\ beat_at \in Nat
  BY DeviceAssumption DEF Inv, TypeOK, DeviceTypeOK
<1>1. CASE CannotTry \/ DnsFails
  BY <1>1 DEF CannotTry, DnsFails, Sleeps, wireVars, Accounted
<1>2. CASE ConnectFails
  BY <1>2 DEF ConnectFails, Sleeps, wireVars, Accounted
<1>3. CASE Connects
  BY <1>3 DEF Connects, FreshCounters, Accounted
<1>4. CASE Wakes
  BY <1>4 DEF Wakes, wireVars, Accounted
<1>5. CASE Disconnects
  BY <1>5 DEF Disconnects, Sleeps, Accounted
<1>6. CASE Boots
  BY <1>6 DEF Boots, Accounted
<1>7. CASE Binds
  <2>1. /\ pc = "send" /\ pc' = "recv" /\ link' = link
        /\ bind_at' = clock + BindEvery /\ beat_at' = clock + BeatEvery
        /\ clock' = clock
    BY <1>7 DEF Binds, GoesOn
  <2>2. ~BindDue' /\ ~BeatDue'
    BY <1>t, <2>1, DeviceAssumption DEF BindDue, BeatDue
  <2>3. link = "up" => Asked'
    <3> SUFFICES ASSUME link = "up" PROVE Asked'
      OBVIOUS
    <3>1. toServer' = Append(toServer, "bind")
      BY <1>7 DEF Binds, Requests
    <3> QED BY <1>t, <3>1, AskedNow
  <2> QED BY <2>1, <2>2, <2>3 DEF Accounted
<1>8. CASE Beats
  <2>1. /\ pc = "send" /\ pc' = "recv" /\ link' = link
        /\ bind_at' = bind_at /\ beat_at' = clock + BeatEvery
        /\ clock' = clock /\ ~BindDue
    BY <1>8 DEF Beats, GoesOn, BeatDue
  <2>2. ~BindDue' /\ ~BeatDue'
    BY <1>t, <2>1, DeviceAssumption DEF BindDue, BeatDue
  <2>3. link = "up" => Asked'
    <3> SUFFICES ASSUME link = "up" PROVE Asked'
      OBVIOUS
    <3>1. toServer' = Append(toServer, "beat")
      BY <1>8 DEF Beats, Requests
    <3> QED BY <1>t, <3>1, AskedNow
  <2> QED BY <2>1, <2>2, <2>3 DEF Accounted
<1>9. CASE KeepsQuiet
  BY <1>9 DEF KeepsQuiet, GoesOn, wireVars, Accounted, Answered, Asked, BindDue, BeatDue
<1>11. CASE RecvTimesOut
  <2>1. /\ pc = "recv" /\ pc' = "send"
        /\ UNCHANGED <<bind_at, beat_at, waiting, missed, clock, link, toDevice>>
    BY <1>11 DEF RecvTimesOut, GoesRound
  <2>2. BindDue' = BindDue /\ BeatDue' = BeatDue /\ Answered' = Answered
    BY <2>1 DEF BindDue, BeatDue, Answered
  <2>3. link = "up" /\ Asked => Asked'
    <3>1. Sends("warn") \/ UNCHANGED toServer
      BY <1>11 DEF RecvTimesOut
    <3>2. "warn" \in Requested
      BY DEF Requested
    <3>3. UNCHANGED toServer => Asked' = Asked
      BY DEF Asked
    <3> QED BY <1>t, <3>1, <3>2, <3>3, AskedKeeps DEF Sends
  <2> QED BY <2>1, <2>2, <2>3, Zenon DEF Accounted
<1>10. ASSUME NEW n \in 1 .. Len(toDevice),
              RecvStatus(n) \/ RecvOrder(n) \/ RecvNothing(n)
       PROVE  Accounted'
  <2>n. n \in Nat
    OBVIOUS
  <2>r. PICK m : Reads(n, m) /\ m = toDevice[1]
    BY <1>10 DEF RecvStatus, RecvOrder, RecvNothing, Reads
  <2>u. /\ pc = "recv" /\ pc' = "send"
        /\ UNCHANGED <<bind_at, beat_at, clock, link>>
    BY <2>r DEF Reads, GoesRound
  <2>d. BindDue' = BindDue /\ BeatDue' = BeatDue
    BY <2>u DEF BindDue, BeatDue
  <2>1. CASE RecvStatus(n)
    BY <2>1, <2>u DEF RecvStatus, Accounted
  <2>2. CASE RecvOrder(n) \/ RecvNothing(n)
    <3>1. waiting' = waiting
      BY <2>2 DEF RecvOrder, RecvNothing
    <3>2. ~missed' => ~missed /\ ~Overlooked(1, n)
      <4>1. CASE RecvNothing(n)
        BY <4>1 DEF RecvNothing
      <4>2. CASE RecvOrder(n)
        <5>1. toDevice[1] # "status"
          BY <4>2, DeviceAssumption DEF RecvOrder, Reads, Orders
        <5>2. missed' = (missed \/ Overlooked(2, n))
          BY <4>2 DEF RecvOrder
        <5>3. Overlooked(1, n) => Overlooked(2, n)
          BY <5>1 DEF Overlooked
        <5> QED BY <5>2, <5>3, Zenon
      <4> QED BY <2>2, <4>1, <4>2
    <3>3. link = "up" /\ Asked => Asked'
      <4>1. CASE RecvNothing(n)
        BY <4>1 DEF RecvNothing, Asked
      <4>2. CASE RecvOrder(n)
        <5>1. link = "up" => toServer' = Append(toServer, "response")
          BY <4>2 DEF RecvOrder, Sends
        <5>2. "response" \in Requested
          BY DEF Requested
        <5> QED BY <1>t, <5>1, <5>2, AskedKeeps
      <4> QED BY <2>2, <4>1, <4>2
    <3>4. Answered /\ ~Overlooked(1, n) => Answered'
      BY <1>t, <2>n, <2>r, ReadsKeeps
    <3> QED BY <2>u, <2>d, <3>1, <3>2, <3>3, <3>4, Zenon DEF Accounted
  <2> QED BY <1>10, <2>1, <2>2
<1> QED
  BY <1>1, <1>2, <1>3, <1>4, <1>5, <1>6, <1>7, <1>8, <1>9, <1>10,
     <1>11
  DEF Device, Outer, Inner, Resets, PowerCycle, GivesUp, RecvEnds

\* The steps of the server, the network and the clock keep the account.
LEMMA AccountedStep == Inv /\ Accounted /\ [Next]_vars => Accounted'
<1> SUFFICES ASSUME Inv, Accounted, [Next]_vars PROVE Accounted'
  OBVIOUS
<1>t. TypeOK
  BY DEF Inv
<1>1. CASE DeviceStep
  BY <1>1, AccountedByDevice DEF DeviceStep, DeviceDoes
<1>2. CASE Serves
  <2>1. UNCHANGED <<pc, waiting, clock, bind_at, beat_at, link>>
    BY <1>2 DEF Serves, taskVars
  <2>d. BindDue' = BindDue /\ BeatDue' = BeatDue
    BY <2>1 DEF BindDue, BeatDue
  <2>0. PICK n \in 0 .. Len(toServer), torn \in BOOLEAN : ServesPart(n, torn)
    BY <1>2 DEF Serves
  <2>2. CASE First(n) \in Requesting
    <3>1. toDevice' = Append(toDevice, "status") /\ missed' = missed
      BY <2>0, <2>2 DEF ServesPart, AnswersTrue
    <3>2. Answered'
      <4>1. toDevice \in Seq(Received) /\ "status" \in Received
        BY <1>t DEF TypeOK, DeviceTypeOK, Received
      <4> QED BY <3>1, <4>1, AppendKeeps DEF Answered
    <3> QED BY <2>1, <2>d, <3>1, <3>2, Zenon DEF Accounted
  <2>3. CASE First(n) \notin Requesting
    <3>1. /\ toDevice' = Append(toDevice, "refused") \/ UNCHANGED toDevice
          /\ missed' = (missed \/ Unread(n, torn) \cap Requesting # {})
      BY <2>0, <2>3 DEF ServesPart
    <3>2. Asked => Asked' \/ Unread(n, torn) \cap Requesting # {}
      BY <1>t, <2>0, <2>3, AskedArrives DEF ServesPart
    <3>3. Answered => Answered'
      <4>1. "refused" \in Received
        BY DEF Received
      <4>2. UNCHANGED toDevice => Answered' = Answered
        BY DEF Answered
      <4> QED BY <1>t, <3>1, <4>1, <4>2, AnsweredKeeps
    <3> QED BY <2>1, <2>d, <3>1, <3>2, <3>3, Zenon DEF Accounted
  <2> QED BY <2>2, <2>3
<1>3. CASE Forwards
  <2>1. UNCHANGED <<pc, waiting, missed, clock, bind_at, beat_at, link, toServer>>
    BY <1>3 DEF Forwards, taskVars
  <2>2. Answered => Answered'
    <3>1. PICK m \in Orders :
            toDevice' = IF link = "up" THEN Append(toDevice, m) ELSE toDevice
      BY <1>3 DEF Forwards
    <3>2. m \in Received
      BY DEF Received
    <3>3. CASE link = "up"
      BY <1>t, <3>1, <3>2, <3>3, AnsweredKeeps
    <3>4. CASE link # "up"
      BY <3>1, <3>4 DEF Answered
    <3> QED BY <3>3, <3>4
  <2>3. Asked' = Asked /\ BindDue' = BindDue /\ BeatDue' = BeatDue
    BY <2>1 DEF Asked, BindDue, BeatDue
  <2> QED BY <2>1, <2>2, <2>3, Zenon DEF Accounted
<1>4. CASE ServerCloses /\ UNCHANGED taskVars
  BY <1>4, <1>t DEF ServerCloses, taskVars, Accounted, TypeOK, DeviceTypeOK
<1>5. CASE UNCHANGED <<taskVars, clock, missed, wireVars>>
  BY <1>5 DEF taskVars, wireVars, Accounted, Answered, Asked, BindDue, BeatDue
<1>6. CASE Sweeps
  BY <1>4, <1>5, <1>6 DEF Sweeps, taskVars, wireVars
<1>7. CASE ServerRestarts
  BY <1>4, <1>7 DEF ServerRestarts, taskVars
<1>8. CASE Breaks
  BY <1>8, <1>t DEF Breaks, taskVars, Accounted, TypeOK, DeviceTypeOK
<1>9. CASE WifiReturns
  BY <1>5, <1>9 DEF WifiReturns, taskVars, wireVars
<1>10. CASE Tick
  <2>1. /\ UNCHANGED <<pc, waiting, link, toServer, toDevice>> /\ Asleep
        /\ missed' = (missed \/ Asked)
    BY <1>10, Zenon DEF Tick, DeviceTick, taskVars, wireVars
  <2>2. link = "up" => ~Answered
    BY <2>1 DEF Asleep, Answered, Accounted
  <2> QED BY <2>1, <2>2, Zenon DEF Accounted
<1>11. CASE UNCHANGED vars
  BY <1>5, <1>11 DEF vars, deviceVars, taskVars, wireVars
<1> QED
  BY <1>1, <1>2, <1>3, <1>6, <1>7, <1>8, <1>9, <1>10, <1>11
  DEF Next, Server, Network, Cut, WifiDrops

\* The device gives a working link up only after something was dropped unread,
\* for all periods and limits.
THEOREM GiveUpCorrect == Spec => GiveUpHasACause
<1>1. Init => Accounted
  BY DEF Init, DeviceInit, Accounted
<1>2. ASSUME Inv, Accounted, [Next]_vars
      PROVE  [link = "up" /\ pc = "send" /\ pc' = "delay" => missed]_vars
  <2> SUFFICES ASSUME ~UNCHANGED vars, link = "up", pc = "send", pc' = "delay"
               PROVE  missed
    OBVIOUS
  <2>1. GivesUp
    BY <1>2
    DEF Next, DeviceStep, DeviceDoes, Device, Outer, Inner, Resets, PowerCycle, Boots,
        CannotTry, DnsFails, ConnectFails, Connects, Wakes, Binds, Beats, KeepsQuiet,
        GoesOn, RecvEnds, RecvTimesOut, RecvStatus, RecvOrder, RecvNothing, Reads,
        Server, Serves, Forwards, Sweeps, ServerRestarts, Network, Cut, WifiDrops,
        Breaks, WifiReturns, Tick, DeviceTick, taskVars
  <2> QED BY <1>2, <2>1 DEF GivesUp, Unanswered, Accounted
<1> QED BY <1>1, <1>2, InvInit, InvStep, AccountedStep, PTL DEF Spec, GiveUpHasACause

-----------------------------------------------------------------------------
(* Which messages the server hears.                                        *)

Sent(m) == \E i \in 1 .. Len(toServer) : toServer[i] = m
OrderSent == \E i \in 1 .. Len(toDevice) : toDevice[i] \in Orders

\* While the link is up and nothing is delayed, a warning and the rest of a message are in
\* front; a bind is too, or next to such a one, unless the device is known.  For that:
\* nothing is under way once recv has waited, no bind follows a request within the second,
\* and only a device that is known has orders to respond to.
WarnsInFront == \A i \in 1 .. Len(toServer) : toServer[i] \in {"warn", "rest"} => i = 1
BindsInFront ==
  \A i \in 1 .. Len(toServer) :
    toServer[i] = "bind" =>
      i = 1 \/ (i = 2 /\ toServer[1] \in {"warn", "rest"}) \/ known
ToBeKnown == known \/ bind_at = 0 \/ bind_lost \/ Sent("bind")
InTime ==
  /\ WarnsInFront /\ BindsInFront
  /\ pc = "recv" /\ elapsed >= 1 => toServer = << >>
  /\ Sent("bind") \/ Sent("beat") => ~BindDue
Heard ==
  link = "up" =>
    /\ ToBeKnown
    /\ delay = 0 => InTime
    /\ Sent("response") \/ OrderSent => known

\* What a message added to those under way changes.
LEMMA AppendSent ==
  ASSUME TypeOK, NEW m \in Requested, toServer' = Append(toServer, m)
  PROVE  /\ Len(toServer) \in Nat /\ Len(toServer') = Len(toServer) + 1
         /\ toServer'[Len(toServer) + 1] = m
         /\ \A i \in 1 .. Len(toServer) : toServer'[i] = toServer[i]
         /\ \A x : Sent(x)' <=> Sent(x) \/ x = m
<1>1. toServer \in Seq(Requested)
  BY DEF TypeOK, DeviceTypeOK, Requested
<1>2. /\ Len(toServer) \in Nat /\ Len(toServer') = Len(toServer) + 1
      /\ toServer'[Len(toServer) + 1] = m
      /\ \A i \in 1 .. Len(toServer) : toServer'[i] = toServer[i]
  BY <1>1, AppendKeeps
<1>3. ASSUME NEW x PROVE Sent(x)' <=> Sent(x) \/ x = m
  BY <1>2 DEF Sent
<1> QED BY <1>2, <1>3

\* Nothing is under way.
LEMMA EmptyHeard ==
  ASSUME toServer' = << >>, ToBeKnown', OrderSent' => known'
  PROVE  Heard'
<1>1. Len(toServer') = 0
  OBVIOUS
<1>2. \A x : ~Sent(x)'
  BY <1>1 DEF Sent
<1>3. WarnsInFront' /\ BindsInFront'
  BY <1>1 DEF WarnsInFront, BindsInFront
<1> QED BY <1>2, <1>3 DEF Heard, InTime

\* The device's steps on a link that stays up.
LEMMA HeardByDevice ==
  ASSUME Inv, Accounted, Heard, Device \/ PowerCycle,
         link = "up", link' = "up", UNCHANGED sessionVars, DelayFollows
  PROVE  Heard'
<1>t. /\ TypeOK /\ clock \in Nat /\ bind_at \in Nat /\ elapsed \in Nat
      /\ toServer \in Seq(Requested) /\ toDevice \in Seq(Received)
      /\ Len(toServer) \in Nat /\ Len(toDevice) \in Nat
      /\ \A i \in 1 .. Len(toServer) : toServer[i] \in Requested
  BY DeviceAssumption DEF Inv, TypeOK, DeviceTypeOK, Requested, Received
<1>p. pc \notin {"top", "delay", "ended"}
  BY DEF Accounted
<1>k. known' = known /\ bind_lost' = bind_lost
  BY DEF sessionVars
\* A delay goes on as long as something is under way.
<1>y. toServer' # << >> => delay' = delay
  BY DEF DelayFollows
<1>1. CASE Binds
  <2>1. /\ pc' = "recv" /\ elapsed' = 0 /\ clock' = clock /\ toDevice' = toDevice
        /\ bind_at' = clock + BindEvery /\ BindDue
    BY <1>1 DEF Binds, GoesOn
  <2>2. toServer' = Append(toServer, "bind") /\ "bind" \in Requested
    BY <1>1 DEF Binds, Requests, Requested
  <2>3. ~BindDue'
    BY <1>t, <2>1, DeviceAssumption DEF BindDue
  <2>4. Sent("bind")' /\ (Sent("response")' => Sent("response")) /\ OrderSent' = OrderSent
    BY <1>t, <2>1, <2>2, AppendSent DEF OrderSent
  <2>d. delay' = delay
    <3>1. Len(toServer') = Len(toServer) + 1
      BY <1>t, <2>2, AppendSent
    <3>2. toServer' # << >>
      BY <1>t, <3>1
    <3> QED BY <1>y, <3>2
  <2>5. ASSUME delay = 0 PROVE WarnsInFront' /\ BindsInFront'
    <3>1. ~Sent("bind") /\ ~Sent("beat") /\ WarnsInFront
      BY <2>1, <2>5 DEF Heard, InTime
    <3>2. WarnsInFront'
      BY <1>t, <2>2, <3>1, AppendSent DEF WarnsInFront
    <3>3. known \/ \A i \in 1 .. Len(toServer) : toServer[i] \in {"warn", "rest"} /\ i = 1
      <4> SUFFICES ASSUME ~known, NEW i \in 1 .. Len(toServer)
                   PROVE  toServer[i] \in {"warn", "rest"} /\ i = 1
        OBVIOUS
      <4>1. ~Sent("response")
        BY DEF Heard
      <4>2. toServer[i] \notin {"bind", "beat", "response"}
        BY <3>1, <4>1 DEF Sent
      <4> QED BY <1>t, <3>1, <4>2 DEF Requested, WarnsInFront
    <3>4. BindsInFront'
      <4> SUFFICES ASSUME NEW i \in 1 .. Len(toServer'), toServer'[i] = "bind", ~known
                   PROVE  i = 1 \/ (i = 2 /\ toServer'[1] \in {"warn", "rest"})
        BY <1>k DEF BindsInFront
      <4>1. i = Len(toServer) + 1
        BY <1>t, <2>2, <3>1, AppendSent DEF Sent
      <4>2. Len(toServer) <= 1 /\ (Len(toServer) = 1 => toServer[1] \in {"warn", "rest"})
        BY <1>t, <3>3
      <4>3. Len(toServer) = 1 => toServer'[1] = toServer[1]
        BY <1>t, <2>2, AppendSent
      <4>4. CASE Len(toServer) = 0
        BY <4>1, <4>4
      <4>5. CASE Len(toServer) = 1
        BY <4>1, <4>2, <4>3, <4>5
      <4>6. Len(toServer) = 0 \/ Len(toServer) = 1
        <5>1. \A x \in Nat : x <= 1 => x = 0 \/ x = 1
          OBVIOUS
        <5> QED BY <1>t, <4>2, <5>1
      <4> QED BY <4>4, <4>5, <4>6
    <3> QED BY <3>2, <3>4
  <2> QED BY <1>k, <2>1, <2>3, <2>4, <2>5, <2>d DEF Heard, InTime, ToBeKnown
<1>2. ASSUME NEW m \in {"beat", "response"}, toServer' = Append(toServer, m)
      PROVE  /\ delay = 0 => WarnsInFront' /\ BindsInFront'
             /\ delay' = delay
             /\ \A x : Sent(x)' <=> Sent(x) \/ x = m
  <2>0. m \in Requested /\ m \notin {"warn", "rest", "bind"}
    BY <1>2 DEF Requested
  <2>a. /\ Len(toServer') = Len(toServer) + 1 /\ toServer'[Len(toServer) + 1] = m
        /\ \A i \in 1 .. Len(toServer) : toServer'[i] = toServer[i]
        /\ \A x : Sent(x)' <=> Sent(x) \/ x = m
    BY <1>t, <1>2, <2>0, AppendSent
  <2>1. WarnsInFront => WarnsInFront'
    BY <1>t, <2>0, <2>a DEF WarnsInFront
  <2>2. BindsInFront => BindsInFront'
    <3> SUFFICES ASSUME BindsInFront, NEW i \in 1 .. Len(toServer'), toServer'[i] = "bind",
                        ~known
                 PROVE  i = 1 \/ (i = 2 /\ toServer'[1] \in {"warn", "rest"})
      BY <1>k DEF BindsInFront
    <3>1. i \in 1 .. Len(toServer) /\ toServer[i] = "bind"
      BY <1>t, <2>0, <2>a
    <3>2. i = 1 \/ (i = 2 /\ toServer[1] \in {"warn", "rest"})
      BY <3>1 DEF BindsInFront
    <3>3. i = 2 => toServer'[1] = toServer[1]
      BY <1>t, <2>a, <3>1
    <3> QED BY <3>2, <3>3
  <2>3. toServer' # << >>
    BY <1>t, <2>a
  <2> QED BY <1>y, <2>a, <2>1, <2>2, <2>3 DEF Heard, InTime
<1>3. CASE Beats
  <2>1. /\ pc' = "recv" /\ elapsed' = 0 /\ toDevice' = toDevice
        /\ clock' = clock /\ bind_at' = bind_at /\ ~BindDue
    BY <1>3 DEF Beats, GoesOn, BeatDue
  <2>2. toServer' = Append(toServer, "beat")
    BY <1>3 DEF Beats, Requests
  <2>3. ~BindDue' /\ OrderSent' = OrderSent
    BY <2>1 DEF BindDue, OrderSent
  <2> QED BY <1>k, <1>2, <2>1, <2>2, <2>3 DEF Heard, InTime, ToBeKnown
<1>4. CASE KeepsQuiet
  <2>1. /\ pc' = "recv" /\ elapsed' = 0
        /\ UNCHANGED <<toServer, toDevice, clock, bind_at>>
    BY <1>4 DEF KeepsQuiet, GoesOn, wireVars
  <2>2. BindDue' = BindDue /\ OrderSent' = OrderSent /\ \A x : Sent(x)' = Sent(x)
    BY <2>1 DEF BindDue, OrderSent, Sent
  <2>3. /\ toServer' # << >> => delay' = delay
        /\ ToBeKnown => ToBeKnown'
        /\ OrderSent => OrderSent'
    BY <1>k, <1>y, <2>1, <2>2 DEF ToBeKnown
  <2>4. CASE toServer' = << >>
    BY <1>k, <2>2, <2>3, <2>4, EmptyHeard DEF Heard
  <2>5. CASE toServer' # << >>
    BY <1>k, <2>1, <2>2, <2>3, <2>5 DEF Heard, InTime, WarnsInFront, BindsInFront
  <2> QED BY <2>4, <2>5
<1>5. CASE RecvTimesOut
  <2>1. /\ pc = "recv" /\ elapsed >= 1 /\ pc' = "send" /\ toDevice' = << >>
        /\ UNCHANGED <<clock, bind_at>>
    BY <1>5 DEF RecvTimesOut, GoesRound
  <2>2. toServer' = toServer \/ toServer' = Append(toServer, "warn")
    BY <1>5, <2>1 DEF RecvTimesOut, Sends
  <2>3. ~OrderSent' /\ BindDue' = BindDue
    BY <2>1 DEF OrderSent, BindDue
  <2>5. CASE toServer' = toServer
    <3>1. \A x : Sent(x)' = Sent(x)
      BY <2>5 DEF Sent
    <3>2. ToBeKnown'
      BY <1>k, <2>1, <3>1 DEF Heard, ToBeKnown
    <3>3. CASE toServer' = << >>
      BY <2>3, <3>2, <3>3, EmptyHeard
    <3>4. CASE toServer' # << >>
      BY <1>k, <1>y, <2>1, <2>3, <2>5, <3>1, <3>2, <3>4
      DEF Heard, InTime, WarnsInFront, BindsInFront
    <3> QED BY <3>3, <3>4
  <2>6. CASE toServer' = Append(toServer, "warn")
    <3>0. "warn" \in Requested
      BY DEF Requested
    <3>1. /\ Len(toServer') = Len(toServer) + 1
          /\ \A x : Sent(x)' <=> Sent(x) \/ x = "warn"
      BY <1>t, <2>6, <3>0, AppendSent
    <3>2. ToBeKnown' /\ (Sent("response")' => known')
      BY <1>k, <2>1, <3>1 DEF Heard, ToBeKnown
    <3>3. delay' = delay
      <4>1. toServer' # << >>
        BY <1>t, <3>1
      <4> QED BY <1>y, <4>1
    <3>4. ASSUME delay = 0 PROVE InTime'
      <4>1. toServer = << >>
        BY <2>1, <3>4 DEF Heard, InTime
      <4>2. Len(toServer') = 1 /\ toServer'[1] = "warn"
        BY <2>6, <4>1
      <4>3. WarnsInFront' /\ BindsInFront' /\ ~Sent("bind")' /\ ~Sent("beat")'
        BY <4>2 DEF WarnsInFront, BindsInFront, Sent
      <4> QED BY <2>1, <4>3 DEF InTime
    <3> QED BY <2>3, <3>2, <3>3, <3>4 DEF Heard
  <2> QED BY <2>2, <2>5, <2>6
<1>6. ASSUME NEW n \in 1 .. Len(toDevice),
             RecvStatus(n) \/ RecvOrder(n) \/ RecvNothing(n)
      PROVE  Heard'
  <2>r. PICK m : Reads(n, m) /\ m = toDevice[1]
    BY <1>6 DEF RecvStatus, RecvOrder, RecvNothing, Reads
  <2>u. pc' = "send" /\ UNCHANGED <<bind_at, clock>> /\ BindDue' = BindDue
    BY <2>r DEF Reads, GoesRound, BindDue
  <2>o. OrderSent' => OrderSent
    <3>1. toDevice' = SubSeq(toDevice, n + 1, Len(toDevice))
      BY <2>r DEF Reads
    <3>2. /\ Len(toDevice') = Len(toDevice) - n
          /\ \A j \in 1 .. Len(toDevice) - n : toDevice'[j] = toDevice[n + j]
      BY <1>t, <3>1
    <3>3. \A j \in 1 .. Len(toDevice) - n : n + j \in 1 .. Len(toDevice)
      BY <1>t
    <3> QED BY <3>2, <3>3 DEF OrderSent
  <2>1. CASE RecvStatus(n) \/ RecvNothing(n)
    <3>1. toServer' = toServer
      BY <2>1 DEF RecvStatus, RecvNothing
    <3>2. \A x : Sent(x)' = Sent(x)
      BY <3>1 DEF Sent
    <3>3. ToBeKnown' /\ (OrderSent' => known')
      BY <1>k, <2>u, <2>o, <3>2 DEF Heard, ToBeKnown
    <3>4. CASE toServer' = << >>
      BY <3>3, <3>4, EmptyHeard
    <3>5. CASE toServer' # << >>
      BY <1>k, <1>y, <2>u, <3>1, <3>2, <3>3, <3>5
      DEF Heard, InTime, WarnsInFront, BindsInFront
    <3> QED BY <3>4, <3>5
  <2>2. CASE RecvOrder(n)
    <3>1. toServer' = Append(toServer, "response")
      BY <2>2 DEF RecvOrder, Sends
    <3>2. OrderSent
      BY <1>t, <2>2 DEF RecvOrder, Reads, OrderSent
    <3>3. known
      BY <3>2 DEF Heard
    <3> QED BY <1>k, <1>2, <2>u, <3>1, <3>3 DEF Heard, InTime, ToBeKnown
  <2> QED BY <1>6, <2>1, <2>2
<1>7. ASSUME CannotTry \/ DnsFails \/ ConnectFails \/ Connects \/ Wakes
             \/ Disconnects \/ Boots
      PROVE  FALSE
  BY <1>7, <1>p
  DEF CannotTry, DnsFails, ConnectFails, Connects, Wakes, Disconnects, Boots
<1> QED
  BY <1>1, <1>3, <1>4, <1>5, <1>6, <1>7
  DEF Device, Outer, Inner, Resets, PowerCycle, GivesUp, RecvEnds

\* The server's parser reads, swallows or leaves what the device has sent.
LEMMA HeardByServer == Inv /\ Heard /\ Serves => Heard'
<1> SUFFICES ASSUME Inv, Heard, Serves PROVE Heard'
  OBVIOUS
<1>0. PICK n \in 0 .. Len(toServer), torn \in BOOLEAN : ServesPart(n, torn)
  BY DEF Serves
<1>t. /\ TypeOK /\ toServer \in Seq(Requested) /\ toDevice \in Seq(Received)
  BY DEF Inv, TypeOK, DeviceTypeOK, Requested, Received
<1>1. /\ link = "up" /\ UNCHANGED <<bind_at, clock, pc, elapsed>> /\ BindDue' = BindDue
      /\ toServer' # << >> => delay' = delay
  BY DEF Serves, taskVars, BindDue, DelayFollows
<1>2. /\ Len(toServer) \in Nat /\ (torn => n < Len(toServer)) /\ (~torn => n > 0)
      /\ Len(toServer') = Len(toServer) - n
      /\ \A j \in 1 .. Len(toServer) - n :
           toServer'[j] = IF torn /\ j = 1 THEN "rest" ELSE toServer[n + j]
  BY <1>0, <1>t, ArrivesType DEF ServesPart
<1>3. \A j \in 1 .. Len(toServer) - n : n + j \in 1 .. Len(toServer)
  BY <1>0, <1>2
<1>4. known => known'
  BY <1>0, Zenon DEF ServesPart
<1>5. \A x : x # "rest" /\ Sent(x)' => Sent(x)
  BY <1>2, <1>3 DEF Sent
<1>6. OrderSent' => OrderSent
  <2>1. PICK m \in {"status", "refused"} :
          toDevice' = Append(toDevice, m) \/ toDevice' = toDevice
    BY <1>0 DEF ServesPart, AnswersTrue
  <2>2. m \in Received /\ m \notin Orders
    BY DeviceAssumption DEF Received, Orders
  <2> QED BY <1>t, <2>1, <2>2, AppendKeeps DEF OrderSent
<1>7. Sent("response")' \/ OrderSent' => known'
  BY <1>1, <1>4, <1>5, <1>6 DEF Heard
\* The bind that is to be read is read, or lost, or still under way.
<1>8. ToBeKnown'
  <2>1. CASE known \/ bind_at = 0
    BY <1>1, <1>4, <2>1 DEF ToBeKnown
  <2>2. CASE First(n) = "bind"
    BY <1>0, <2>2 DEF ServesPart, ToBeKnown
  <2>3. CASE First(n) # "bind" /\ bind_lost
    BY <1>0, <2>3 DEF ServesPart, ToBeKnown
  <2>4. CASE First(n) # "bind" /\ Sent("bind") /\ ~known
    <3>1. PICK i \in 1 .. Len(toServer) : toServer[i] = "bind"
      BY <2>4 DEF Sent
    <3>2. CASE i > (IF torn THEN n + 1 ELSE n)
      <4>1. i - n \in 1 .. Len(toServer) - n /\ n + (i - n) = i /\ (torn => i - n # 1)
        BY <1>0, <1>2, <3>2
      <4>2. toServer'[i - n] = "bind"
        BY <1>2, <3>1, <4>1
      <4> QED BY <1>2, <4>1, <4>2 DEF Sent, ToBeKnown
    <3>3. CASE ~(i > (IF torn THEN n + 1 ELSE n))
      <4>1. i = 1 => n = 0
        BY <2>4, <3>1, <1>0 DEF First
      <4>2. i \in (IF n = 0 THEN 1 ELSE 2) .. (IF torn THEN n + 1 ELSE n)
        BY <1>0, <1>2, <3>3, <4>1
      <4>3. "bind" \in Unread(n, torn)
        BY <3>1, <4>2 DEF Unread
      <4>4. delay > 0 \/ First(n) \in {"warn", "rest"}
        <5> SUFFICES ASSUME ~(delay > 0), n # 0 PROVE toServer[1] \in {"warn", "rest"}
          BY DEF First
        <5>1. delay = 0
          BY LinkAssumption DEF Inv, TypeOK
        <5>2. BindsInFront
          BY <1>1, <5>1 DEF Heard, InTime
        <5> QED BY <2>4, <3>1, <4>1, <5>2 DEF BindsInFront
      <4>5. BindIsLost(n, torn)
        BY <4>3, <4>4 DEF BindIsLost
      <4> QED BY <1>0, <2>4, <4>5 DEF ServesPart, ToBeKnown
    <3> QED BY <3>2, <3>3
  <2> QED BY <1>1, <2>1, <2>2, <2>3, <2>4 DEF Heard, ToBeKnown
<1>9. CASE toServer' = << >>
  BY <1>7, <1>8, <1>9, EmptyHeard
<1>10. CASE toServer' # << >>
  <2> SUFFICES ASSUME delay = 0 PROVE InTime'
    BY <1>1, <1>7, <1>8, <1>10 DEF Heard
  <2>1. InTime
    BY <1>1 DEF Heard
  <2>2. WarnsInFront'
    <3> SUFFICES ASSUME NEW j \in 1 .. Len(toServer) - n, j # 1
                 PROVE  toServer'[j] \notin {"warn", "rest"}
      BY <1>2 DEF WarnsInFront
    <3>1. toServer'[j] = toServer[n + j] /\ n + j # 1 /\ n + j \in 1 .. Len(toServer)
      BY <1>0, <1>2, <1>3
    <3> QED BY <2>1, <3>1 DEF InTime, WarnsInFront
  <2>3. BindsInFront'
    <3> SUFFICES ASSUME NEW j \in 1 .. Len(toServer) - n, toServer'[j] = "bind", ~known,
                        j # 1
                 PROVE  j = 2 /\ toServer'[1] \in {"warn", "rest"}
      BY <1>2, <1>4 DEF BindsInFront
    <3>1. toServer'[j] = toServer[n + j] /\ n + j \in 1 .. Len(toServer) /\ n + j # 1
      BY <1>0, <1>2, <1>3
    <3>2. n + j = 2
      BY <2>1, <3>1 DEF InTime, BindsInFront
    <3>3. n = 0 /\ j = 2 /\ torn
      BY <1>0, <1>2, <3>2
    <3> QED BY <1>2, <3>3
  <2>4. ~(pc' = "recv" /\ elapsed' >= 1)
    <3>1. Len(toServer) > 0
      BY <1>0, <1>2
    <3> QED BY <1>1, <2>1, <3>1 DEF InTime
  <2>5. Sent("bind")' \/ Sent("beat")' => ~BindDue'
    BY <1>1, <1>5, <2>1 DEF InTime
  <2> QED BY <2>2, <2>3, <2>4, <2>5 DEF InTime
<1> QED BY <1>9, <1>10

\* The steps of server, network and clock.
LEMMA HeardStep == Inv /\ Accounted /\ Heard /\ [Next]_vars => Heard'
<1> SUFFICES ASSUME Inv, Accounted, Heard, [Next]_vars, link' = "up" PROVE Heard'
  BY DEF Heard
<1>t. /\ TypeOK /\ toServer \in Seq(Requested) /\ toDevice \in Seq(Received)
      /\ Len(toServer) \in Nat /\ Len(toDevice) \in Nat
  BY DEF Inv, TypeOK, DeviceTypeOK, Requested, Received
<1>1. CASE DeviceStep
  <2>1. CASE link = "none"
    <3>1. Connects
      BY <1>1, <2>1
      DEF DeviceStep, DeviceDoes, Device, Outer, Inner, Resets, PowerCycle, Boots,
          CannotTry, DnsFails, ConnectFails, Wakes, GivesUp, Disconnects, Binds, Beats,
          KeepsQuiet, RecvEnds, RecvTimesOut, RecvStatus, RecvOrder, RecvNothing,
          Reads, wireVars
    <3>2. toServer' = << >> /\ toDevice' = << >> /\ bind_at' = 0
      BY <3>1 DEF Connects, FreshCounters
    <3>3. ToBeKnown' /\ ~OrderSent'
      BY <3>2 DEF ToBeKnown, OrderSent
    <3> QED BY <3>2, <3>3, EmptyHeard
  <2>2. CASE link # "none"
    <3>1. link = "up" /\ UNCHANGED sessionVars
      BY <1>1, <2>2 DEF DeviceStep, DeviceDoes, SessionFollows
    <3>2. (Device \/ PowerCycle) /\ DelayFollows
      BY <1>1 DEF DeviceStep, DeviceDoes
    <3> QED BY <3>1, <3>2, HeardByDevice
  <2> QED BY <2>1, <2>2
<1>2. CASE Serves
  BY <1>2, HeardByServer
<1>3. ASSUME UNCHANGED <<link, toServer, bind_at, clock, known, bind_lost, pc, elapsed,
                         delay>>,
             OrderSent' => OrderSent \/ known
      PROVE  Heard'
  <2>1. BindDue' = BindDue /\ \A x : Sent(x)' = Sent(x)
    BY <1>3 DEF BindDue, Sent
  <2> QED BY <1>3, <2>1 DEF Heard, InTime, ToBeKnown, WarnsInFront, BindsInFront
<1>4. CASE Forwards
  BY <1>3, <1>4 DEF Forwards, taskVars, sessionVars
<1>5. CASE Tick
  <2>1. /\ UNCHANGED <<link, toServer, toDevice, bind_at, known, bind_lost>>
        /\ delay' = IF toServer = << >> THEN 0 ELSE delay + 1
    BY <1>5 DEF Tick, DeviceTick, wireVars
  <2>2. ToBeKnown' /\ (OrderSent' => known') /\ (Sent("response")' => known')
    BY <2>1 DEF Heard, ToBeKnown, OrderSent, Sent
  <2>3. CASE toServer' = << >>
    BY <2>2, <2>3, EmptyHeard
  <2>4. CASE toServer' # << >>
    <3>1. delay' # 0
      BY <2>1, <2>4, LinkAssumption DEF Inv, TypeOK
    <3> QED BY <2>2, <3>1 DEF Heard
  <2> QED BY <2>3, <2>4
<1>6. CASE UNCHANGED <<taskVars, clock, wireVars, sessionVars, delay>>
  BY <1>3, <1>6 DEF taskVars, wireVars, sessionVars, OrderSent
<1>7. CASE Sweeps \/ ServerRestarts
  BY <1>6, <1>7 DEF Sweeps, ServerRestarts, ServerCloses, wireVars
<1>8. CASE Cut \/ WifiDrops
  BY <1>8 DEF Cut, WifiDrops, Breaks
<1>9. CASE WifiReturns
  BY <1>6, <1>9 DEF WifiReturns
<1>10. CASE UNCHANGED vars
  BY <1>6, <1>10 DEF vars, deviceVars
<1> QED
  BY <1>1, <1>2, <1>4, <1>5, <1>7, <1>8, <1>9, <1>10 DEF Next, Server, Network

\* Nothing has been sent.
LEMMA HeardInit == Init => Heard
  BY DEF Init, DeviceInit, Heard

\* In every state.
LEMMA HeardAlways == Spec => [](Inv /\ Heard)
<1>1. Init => Accounted
  BY DEF Init, DeviceInit, Accounted
<1> QED BY <1>1, InvInit, InvStep, AccountedStep, HeardInit, HeardStep, PTL DEF Spec

\* While nothing is delayed, a warning is the first of the messages that the server reads,
\* for all periods and limits, and whatever comes in two pieces.
THEOREM WarningsCorrect == Spec => []WarningsAreHeard
<1>1. Inv /\ Heard => WarningsAreHeard
  <2> SUFFICES ASSUME Inv, Heard PROVE WarningsAreHeard
    OBVIOUS
  <2>1. DOMAIN toServer = 1 .. Len(toServer)
    BY DEF Inv, TypeOK, DeviceTypeOK
  <2> QED BY <2>1 DEF Heard, InTime, WarnsInFront, WarningsAreHeard
<1> QED BY <1>1, HeardAlways, PTL

\* The server knows who has sent a bind, but for one that is under way or lost in one of
\* the ways of BindIsLost, for all periods, limits and delays.
THEOREM BindsCorrect == Spec => []BindsAreHeard
<1>1. Inv /\ Heard => BindsAreHeard
  <2> SUFFICES ASSUME Inv, Heard PROVE BindsAreHeard
    OBVIOUS
  <2>1. DOMAIN toServer = 1 .. Len(toServer)
    BY DEF Inv, TypeOK, DeviceTypeOK
  <2> QED BY <2>1 DEF Heard, ToBeKnown, Sent, BindsAreHeard, BindUnread
<1> QED BY <1>1, HeardAlways, PTL

-----------------------------------------------------------------------------
(* When the device sends its next request.                                 *)

\* What passes at most between two requests of a device whose clock does not wrap.
Period == BeatEvery + 1 + Late

Runs == pc \in {"send", "recv"}

\* The next request falls due at most BeatEvery + 1 - n seconds from now.
DueSince(n) == beat_at + n <= clock + BeatEvery \/ bind_at + n <= clock + BeatEvery

\* No request was due when the task went to sleep, and it does not oversleep.
Punctual ==
  pc = "recv" =>
    elapsed <= Late + 1 /\ clock <= bind_at + elapsed /\ clock <= beat_at + elapsed

\* A device that is not silent sends something within a beat's time; one that is silent
\* has nothing due.
LEMMA SilentOrDue ==
  ASSUME TypeOK, Runs
  PROVE  (Silent => ~BindDue /\ ~BeatDue) /\ (Silent \/ DueSince(0))
<1>1. /\ clock \in 0 .. MaxClock /\ clock \in Nat /\ bind_at \in Nat /\ beat_at \in Nat
      /\ BeatEvery \in Nat /\ MaxClock \in Nat
  BY DeviceAssumption DEF TypeOK, DeviceTypeOK
<1>2. ASSUME Silent PROVE ~BindDue /\ ~BeatDue
  <2>1. clock \in clock .. MaxClock /\ clock <= clock + BeatEvery + 1
    BY <1>1
  <2>2. bind_at >= clock /\ beat_at >= clock
    BY <1>2, <2>1 DEF Silent
  <2> QED BY <1>1, <2>2 DEF BindDue, BeatDue
<1>3. ASSUME ~Silent PROVE DueSince(0)
  <2>1. PICK c \in clock .. MaxClock :
          c <= clock + BeatEvery + 1 /\ ~(bind_at >= c /\ beat_at >= c)
    BY <1>3 DEF Silent, Runs
  <2>2. c \in Int
    BY <1>1
  <2> QED BY <1>1, <2>1, <2>2 DEF DueSince
<1> QED BY <1>2, <1>3

\* The same of the state after a step.
LEMMA SilentOrDueNext == (TypeOK /\ Runs => Silent \/ DueSince(0))'
<1>1. TypeOK /\ Runs => Silent \/ DueSince(0)
  BY SilentOrDue
<1> QED BY <1>1, PTL

\* Nothing falls due, and nothing is put off, while targets and clock stand still.
LEMMA StandsStill ==
  ASSUME Runs, Runs', UNCHANGED <<clock, bind_at, beat_at>>
  PROVE  /\ Silent' = Silent /\ BindDue' = BindDue /\ BeatDue' = BeatDue
         /\ \A n : DueSince(n)' = DueSince(n)
  BY DEF Runs, Silent, DueSince, BindDue, BeatDue

\* What a step of the device means for its next request: a request is sent, or the
\* targets stay where they were, or it has just connected.
Asks ==
  /\ pc = "send" /\ pc' = "recv" /\ elapsed' = 0 /\ toDevice' = toDevice
  /\ clock <= bind_at' /\ beat_at' = clock + BeatEvery
  /\ link # "closed" => lost' = lost + 1
  /\ link = "up" => Asked'

RoundGoesOn ==
  /\ Runs /\ Runs' /\ UNCHANGED <<bind_at, beat_at>>
  /\ pc' = "recv" => elapsed' = 0 /\ ~BindDue /\ ~BeatDue
  /\ lost' = lost \/ (lost' = 0 /\ toDevice # << >>)
  /\ toDevice = << >> => toDevice' = << >>
  /\ Asked' <=> Asked

\* While it has a link the device connects, asks, or goes on with its round.
LEMMA DeviceMoves ==
  ASSUME Inv, Accounted, Device \/ PowerCycle, link' # "none"
  PROVE  Connects \/ (UNCHANGED <<link, clock>> /\ (Asks \/ RoundGoesOn))
<1>t. /\ TypeOK /\ clock \in Nat /\ bind_at \in Nat /\ beat_at \in Nat /\ lost \in Nat
      /\ toServer \in Seq(Requested) /\ toDevice \in Seq(Received)
      /\ Len(toServer) \in Nat /\ Len(toDevice) \in Nat
      /\ BindEvery \in Nat /\ BeatEvery \in Nat
  BY DeviceAssumption DEF Inv, TypeOK, DeviceTypeOK, Requested, Received
<1>0. ASSUME NEW m \in Requested, toServer' = Append(toServer, m)
      PROVE  /\ m \in {"bind", "beat"} => Asked'
             /\ m \notin {"bind", "beat"} => (Asked' <=> Asked)
  BY <1>0, <1>t, AppendKeeps DEF Asked
<1>1. CASE Binds
  <2>1. /\ UNCHANGED <<link, clock>> /\ pc = "send" /\ pc' = "recv" /\ elapsed' = 0
        /\ toDevice' = toDevice
    BY <1>1 DEF Binds, GoesOn
  <2>2. clock <= bind_at' /\ beat_at' = clock + BeatEvery
    BY <1>t, <1>1 DEF Binds
  <2>3. link # "closed" => lost' = lost + 1
    BY <1>1 DEF Binds, Requests
  <2>4. link = "up" => Asked'
    BY <1>0, <1>1 DEF Binds, Requests, Requested
  <2> QED BY <2>1, <2>2, <2>3, <2>4 DEF Asks
<1>2. CASE Beats
  <2>1. /\ UNCHANGED <<link, clock>> /\ pc = "send" /\ pc' = "recv" /\ elapsed' = 0
        /\ toDevice' = toDevice
    BY <1>2 DEF Beats, GoesOn
  <2>2. clock <= bind_at' /\ beat_at' = clock + BeatEvery
    BY <1>t, <1>2 DEF Beats, BeatDue, BindDue
  <2>3. link # "closed" => lost' = lost + 1
    BY <1>2 DEF Beats, Requests
  <2>4. link = "up" => Asked'
    BY <1>0, <1>2 DEF Beats, Requests, Requested
  <2> QED BY <2>1, <2>2, <2>3, <2>4 DEF Asks
<1>3. CASE KeepsQuiet
  <2>1. Asked' = Asked
    BY <1>3 DEF KeepsQuiet, wireVars, Asked
  <2>2. /\ UNCHANGED <<link, clock, bind_at, beat_at, lost, toDevice>>
        /\ pc = "send" /\ pc' = "recv" /\ elapsed' = 0 /\ ~BindDue /\ ~BeatDue
    BY <1>3 DEF KeepsQuiet, GoesOn, wireVars
  <2> QED BY <2>1, <2>2 DEF RoundGoesOn, Runs
<1>4. CASE RecvTimesOut
  <2>1. Asked' <=> Asked
    <3>1. toServer' = toServer \/ toServer' = Append(toServer, "warn")
      BY <1>4 DEF RecvTimesOut, Sends
    <3>2. CASE toServer' = toServer
      BY <3>2 DEF Asked
    <3>3. CASE toServer' = Append(toServer, "warn")
      BY <1>0, <3>3 DEF Requested
    <3> QED BY <3>1, <3>2, <3>3
  <2>2. /\ UNCHANGED <<link, clock, bind_at, beat_at, lost, toDevice>>
        /\ pc = "recv" /\ pc' = "send"
    BY <1>4 DEF RecvTimesOut, GoesRound
  <2> QED BY <2>1, <2>2 DEF RoundGoesOn, Runs
<1>5. ASSUME NEW n \in 1 .. Len(toDevice),
             RecvStatus(n) \/ RecvOrder(n) \/ RecvNothing(n)
      PROVE  UNCHANGED <<link, clock>> /\ RoundGoesOn
  <2>1. /\ pc = "recv" /\ pc' = "send" /\ UNCHANGED <<link, clock, bind_at, beat_at>>
        /\ toDevice # << >>
    BY <1>5 DEF RecvStatus, RecvOrder, RecvNothing, Reads, GoesRound
  <2>2. lost' = lost \/ lost' = 0
    BY <1>5 DEF RecvStatus, RecvOrder, RecvNothing
  <2>3. Asked' <=> Asked
    <3>1. toServer' = toServer \/ toServer' = Append(toServer, "response")
      BY <1>5 DEF RecvStatus, RecvOrder, RecvNothing, Sends
    <3>2. CASE toServer' = toServer
      BY <3>2 DEF Asked
    <3>3. CASE toServer' = Append(toServer, "response")
      BY <1>0, <3>3 DEF Requested
    <3> QED BY <3>1, <3>2, <3>3
  <2> QED BY <2>1, <2>2, <2>3 DEF RoundGoesOn, Runs
<1>6. CASE CannotTry \/ DnsFails \/ ConnectFails \/ Wakes
  BY <1>6
  DEF CannotTry, DnsFails, ConnectFails, Wakes, wireVars, Accounted
<1>7. CASE Disconnects \/ Boots
  BY <1>7 DEF Disconnects, Boots
<1> QED
  BY <1>1, <1>2, <1>3, <1>4, <1>5, <1>6, <1>7
  DEF Device, Outer, Inner, Resets, PowerCycle, GivesUp, RecvEnds

\* What a second means for it: the clock goes on, or wraps and leaves the targets beyond
\* it.
LEMMA SecondPasses ==
  ASSUME Inv, Punctual, Tick, Runs
  PROVE  /\ UNCHANGED <<link, bind_at, beat_at, lost, pc>>
         /\ pc = "recv" /\ elapsed \in Nat /\ elapsed <= Late /\ elapsed' = elapsed + 1
         /\ toDevice = << >> /\ toDevice' = << >>
         /\ clock' = clock + 1 \/ (clock' = 0 /\ Silent')
         /\ clock' <= bind_at + elapsed + 1 /\ clock' <= beat_at + elapsed + 1
<1>t. /\ clock \in Nat /\ bind_at \in Nat /\ beat_at \in Nat /\ elapsed \in Nat
      /\ BeatEvery \in Nat /\ MaxClock \in Nat /\ Late \in Nat
  BY DeviceAssumption DEF Inv, TypeOK, DeviceTypeOK
<1>1. /\ UNCHANGED <<link, bind_at, beat_at, lost, pc, toDevice>>
      /\ clock' = IF clock = MaxClock THEN 0 ELSE clock + 1
      /\ elapsed' = IF pc \in {"top", "ended"} THEN 0 ELSE elapsed + 1
  BY DEF Tick, DeviceTick, wireVars
<1>2. pc = "recv" /\ elapsed <= Late /\ toDevice = << >>
  BY DEF Tick, DeviceTick, Asleep, Runs
<1>3. clock <= bind_at + elapsed /\ clock <= beat_at + elapsed
  BY <1>2 DEF Punctual
<1>4. CASE clock = MaxClock
  <2>1. clock' = 0 /\ MaxClock <= bind_at + Late /\ MaxClock <= beat_at + Late
    BY <1>t, <1>1, <1>2, <1>3, <1>4
  <2>2. BeatEvery + 1 <= bind_at /\ BeatEvery + 1 <= beat_at
    BY <1>t, <2>1, LinkAssumption
  <2>3. ASSUME NEW c \in 0 .. MaxClock, c <= 0 + BeatEvery + 1
        PROVE  bind_at >= c /\ beat_at >= c
    BY <1>t, <2>2, <2>3
  <2>4. Silent'
    BY <1>1, <1>2, <2>1, <2>3 DEF Silent
  <2> QED BY <1>t, <1>1, <1>2, <2>1, <2>4
<1>5. CASE clock # MaxClock
  BY <1>t, <1>1, <1>2, <1>3, <1>5
<1> QED BY <1>4, <1>5

\* The other steps leave the task where it is.
Elsewhere ==
  /\ UNCHANGED <<taskVars, clock>>
  /\ link' = "up" => link = "up"
  /\ link' = "cut" => link \in {"up", "cut"}

\* The server, the network and the access point are elsewhere.
LEMMA ElsewhereSteps ==
  ASSUME Inv, (Server \/ Cut \/ WifiDrops \/ WifiReturns) \/ UNCHANGED vars
  PROVE  Elsewhere
<1>1. UNCHANGED <<taskVars, clock>>
  BY DEF Server, Serves, Forwards, Sweeps, ServerRestarts, Cut, WifiDrops, Breaks,
         WifiReturns, vars, deviceVars
<1>2. /\ link' = "up" => link = "up"
      /\ link' = "cut" => link \in {"up", "cut"}
  BY DEF Server, Serves, Forwards, Sweeps, ServerRestarts, ServerCloses, Cut, WifiDrops,
         Breaks, WifiReturns, vars, deviceVars, wireVars
<1> QED BY <1>1, <1>2 DEF Elsewhere

\* There is no link yet.
LEMMA PunctualInit == Init => Punctual
  BY DEF Init, DeviceInit, Punctual

\* The next request is never further away than its period.
LEMMA PunctualStep == Inv /\ Accounted /\ Punctual /\ [Next]_vars => Punctual'
<1> SUFFICES ASSUME Inv, Accounted, Punctual, [Next]_vars PROVE Punctual'
  OBVIOUS
<1>t. /\ TypeOK /\ clock \in Nat /\ bind_at \in Nat /\ beat_at \in Nat /\ elapsed \in Nat
      /\ BindEvery \in Nat /\ BeatEvery \in Nat /\ Late \in Nat
  BY DeviceAssumption DEF Inv, TypeOK, DeviceTypeOK
<1>1. CASE DeviceStep
  <2>1. Device \/ PowerCycle
    BY <1>1 DEF DeviceStep, DeviceDoes
  <2>2. CASE link' = "none"
    <3>1. Accounted'
      BY AccountedStep
    <3> QED BY <2>2, <3>1 DEF Accounted, Punctual
  <2>3. CASE Connects
    BY <2>3 DEF Connects, Punctual
  <2>4. CASE UNCHANGED <<link, clock>> /\ Asks
    <3>1. bind_at' \in Int /\ beat_at' \in Int /\ clock' \in Int /\ elapsed' \in Int
      BY InvStep DEF Inv, TypeOK, DeviceTypeOK
    <3>2. /\ pc' = "recv" /\ elapsed' = 0 /\ clock' = clock
          /\ clock <= bind_at' /\ beat_at' = clock + BeatEvery
      BY <2>4 DEF Asks
    <3>3. \A x, y \in Int : y = 0 => x + y = x
      OBVIOUS
    <3>4. bind_at' + elapsed' = bind_at' /\ beat_at' + elapsed' = beat_at'
      BY <3>1, <3>2, <3>3
    <3>5. elapsed' <= Late + 1 /\ clock' <= bind_at' /\ clock' <= beat_at'
      BY <1>t, <3>1, <3>2
    <3> QED BY <3>4, <3>5 DEF Punctual
  <2>5. CASE UNCHANGED <<link, clock>> /\ RoundGoesOn
    <3>1. pc' = "recv" => elapsed' = 0 /\ clock <= bind_at /\ clock <= beat_at
      BY <1>t, <2>5 DEF RoundGoesOn, BindDue, BeatDue
    <3> QED BY <1>t, <2>5, <3>1 DEF RoundGoesOn, Punctual
  <2> QED BY <2>1, <2>2, <2>3, <2>4, <2>5, DeviceMoves
<1>2. CASE Tick
  <2>1. CASE Runs
    <3>2. /\ pc' = "recv" /\ elapsed' = elapsed + 1 /\ elapsed <= Late
          /\ UNCHANGED <<bind_at, beat_at>>
          /\ clock' <= bind_at + elapsed + 1 /\ clock' <= beat_at + elapsed + 1
      BY <1>2, <2>1, SecondPasses
    <3> QED BY <1>t, <3>2 DEF Punctual
  <2>2. CASE ~Runs
    <3>1. pc' = pc /\ link' = link /\ link = "none"
      <4>1. pc' = pc /\ link' = link
        BY <1>2 DEF Tick, DeviceTick, wireVars
      <4> QED BY <2>2, <4>1 DEF Runs, Accounted, TypeOK, DeviceTypeOK, Inv
    <3> QED BY <2>2, <3>1 DEF Runs, Punctual
  <2> QED BY <2>1, <2>2
<1>3. CASE (Server \/ Cut \/ WifiDrops \/ WifiReturns) \/ UNCHANGED vars
  <2>1. Elsewhere
    BY <1>3, ElsewhereSteps
  <2> QED BY <2>1 DEF Elsewhere, taskVars, Punctual
<1> QED BY <1>1, <1>2, <1>3 DEF Next, Network

\* In every state.
LEMMA PunctualAlways == Spec => [](Inv /\ Accounted /\ Punctual)
<1>1. Init => Accounted
  BY DEF Init, DeviceInit, Accounted
<1> QED BY <1>1, InvInit, InvStep, AccountedStep, PunctualInit, PunctualStep, PTL
        DEF Spec

-----------------------------------------------------------------------------
(* Why the server evicts a device.                                         *)

\* What has passed since the server refreshed the entry and what may pass before the
\* next request arrives add up to a period, while there is no excuse.
Timely ==
  link = "up" =>
    /\ held
    /\ ~excuse => age <= Period /\ (Asked \/ Silent \/ DueSince(age))

\* There is no link yet.
LEMMA TimelyInit == Init => Timely
  BY DEF Init, DeviceInit, Timely

\* A link that has just come up.
LEMMA ConnectsAnew ==
  ASSUME Inv, Connects, SessionFollows, link = "none"
  PROVE  Timely'
<1>1. link' = "up" /\ beat_at' = 0 /\ clock' = clock
  BY DEF Connects, FreshCounters
<1>2. held' = TRUE /\ age' = 0
  BY <1>1 DEF SessionFollows, Afresh
<1>3. 0 <= Period /\ 0 <= clock + BeatEvery
  BY DeviceAssumption DEF Period, Inv, TypeOK, DeviceTypeOK
<1> QED BY <1>1, <1>2, <1>3 DEF Timely, DueSince

\* Age and the time to the next request are traded for each other.
LEMMA TimelyStep == Inv /\ Accounted /\ Punctual /\ Timely /\ [Next]_vars => Timely'
<1> SUFFICES ASSUME Inv, Accounted, Punctual, Timely, [Next]_vars, link' = "up"
             PROVE  Timely'
  BY DEF Timely
<1>t. /\ TypeOK /\ clock \in Nat /\ bind_at \in Nat /\ beat_at \in Nat /\ age \in Nat
      /\ toServer \in Seq(Requested) /\ Len(toServer) \in Nat
      /\ BeatEvery \in Nat /\ Late \in Nat /\ IdleLimit \in Nat
      /\ Period \in Nat /\ Period <= IdleLimit
  BY DeviceAssumption, LinkAssumption
  DEF Period, Inv, TypeOK, DeviceTypeOK, Requested
<1>r. link = "up" => Runs
  BY DEF Accounted, Runs, Inv, TypeOK, DeviceTypeOK
<1>1. CASE DeviceStep
  <2>0. (Device \/ PowerCycle) /\ SessionFollows
    BY <1>1 DEF DeviceStep, DeviceDoes
  <2>1. CASE Connects
    <3>1. link = "none"
      BY <2>1 DEF Connects, Accounted
    <3> QED BY <2>0, <2>1, <3>1, ConnectsAnew
  <2>2. CASE link' = link /\ clock' = clock /\ (Asks \/ RoundGoesOn)
    <3>1. UNCHANGED <<held, age, excuse>>
      BY <2>0, <2>2 DEF SessionFollows, sessionVars
    <3>2. CASE Asks
      BY <2>2, <3>1, <3>2 DEF Asks, Timely
    <3>3. CASE RoundGoesOn
      <4>1. Silent' = Silent
        BY <2>2, <3>3, StandsStill DEF RoundGoesOn
      <4>a. (Asked' <=> Asked) /\ age' = age
        BY <3>1, <3>3 DEF RoundGoesOn
      <4>2. DueSince(age)' = DueSince(age)
        BY <2>2, <3>1, <3>3 DEF RoundGoesOn, DueSince
      <4> QED BY <2>2, <3>1, <4>1, <4>a, <4>2, Zenon DEF Timely
    <3> QED BY <2>2, <3>2, <3>3
  <2> QED BY <2>0, <2>1, <2>2, DeviceMoves
<1>2. CASE Serves
  <2>1. /\ link = "up" /\ held /\ held' = held
        /\ UNCHANGED <<pc, clock, bind_at, beat_at>>
    BY <1>2 DEF Serves, taskVars
  <2>0. PICK n \in 0 .. Len(toServer), torn \in BOOLEAN : ServesPart(n, torn)
    BY <1>2 DEF Serves
  <2>r. Runs /\ Runs'
    BY <1>r, <2>1 DEF Runs
  <2>4. Silent' = Silent
    BY <2>1, <2>r, StandsStill
  <2>2. CASE First(n) \in Requesting
    <3>1. age' = 0
      BY <2>0, <2>2 DEF ServesPart, AnswersTrue
    <3>2. Silent \/ DueSince(0)
      BY <1>t, <2>r, SilentOrDue
    <3>3. DueSince(0) => DueSince(age)'
      BY <2>1, <3>1 DEF DueSince
    <3> QED BY <1>t, <2>1, <2>4, <3>1, <3>2, <3>3 DEF Timely
  <2>3. CASE First(n) \notin Requesting
    <3>1. age' = age
      BY <2>0, <2>3 DEF ServesPart
    <3>2. excuse' = (excuse \/ Unread(n, torn) \cap Requesting # {})
      BY <2>0, <2>3, Zenon DEF ServesPart
    <3>3. Asked => Asked' \/ Unread(n, torn) \cap Requesting # {}
      BY <1>t, <2>0, <2>3, AskedArrives DEF ServesPart
    <3>4. DueSince(age)' = DueSince(age)
      BY <2>1, <3>1 DEF DueSince
    <3> QED BY <2>1, <2>4, <3>1, <3>2, <3>3, <3>4, Zenon DEF Timely
  <2> QED BY <2>2, <2>3
<1>3. CASE Tick
  <2>1. link = "up" /\ Runs
    BY <1>3, <1>r DEF Tick, DeviceTick, wireVars
  <2>2. held' = held /\ held
    BY <1>3, <2>1 DEF Tick, Timely
  <2>3. excuse' = (excuse \/ Silent \/ Asked)
    BY <1>3, <2>2, Zenon DEF Tick
  <2> SUFFICES ASSUME ~excuse, ~Silent, ~Asked
               PROVE  age' <= Period /\ (Silent' \/ DueSince(age)')
    BY <2>2, <2>3 DEF Timely
  <2>5. age <= Period /\ DueSince(age)
    BY <2>1 DEF Timely
  <2>6. age' = age + 1
    BY <1>t, <1>3, <2>2, <2>5 DEF Tick
  <2>7. /\ UNCHANGED <<bind_at, beat_at>> /\ pc = "recv"
        /\ elapsed \in Nat /\ elapsed <= Late
        /\ clock' = clock + 1 \/ Silent'
    BY <1>3, <2>1, SecondPasses
  <2>8. clock <= bind_at + elapsed /\ clock <= beat_at + elapsed
    BY <2>7 DEF Punctual
  <2>9. age' <= Period
    BY <1>t, <2>5, <2>6, <2>7, <2>8 DEF DueSince, Period
  <2>10. clock' = clock + 1 => DueSince(age)'
    BY <1>t, <2>5, <2>6, <2>7 DEF DueSince
  <2> QED BY <2>7, <2>9, <2>10
<1>4. CASE ~Serves /\ ((Server \/ Cut \/ WifiDrops \/ WifiReturns) \/ UNCHANGED vars)
  <2>1. link = "up" /\ UNCHANGED <<pc, clock, bind_at, beat_at>>
    <3>1. Elsewhere
      BY <1>4, ElsewhereSteps
    <3> QED BY <3>1 DEF Elsewhere, taskVars
  <2>2. UNCHANGED <<held, age, excuse, toServer>>
    BY <1>4, <2>1
    DEF Server, Forwards, Sweeps, ServerRestarts, ServerCloses, Cut, WifiDrops, Breaks,
        WifiReturns, vars, deviceVars, wireVars, sessionVars
  <2>3. Runs /\ Runs'
    BY <1>r, <2>1 DEF Runs
  <2>4. Silent' = Silent /\ Asked' = Asked
    BY <2>1, <2>2, <2>3, StandsStill DEF Asked
  <2>5. DueSince(age)' = DueSince(age)
    BY <2>1, <2>2 DEF DueSince
  <2> QED BY <2>1, <2>2, <2>4, <2>5, Zenon DEF Timely
<1> QED BY <1>1, <1>2, <1>3, <1>4 DEF Next, Network

\* A device whose link works is evicted only with an excuse, for all periods and limits
\* under which a beat's time and a late wake-up stay within the idle limit and the clock.
THEOREM EvictionCorrect == Spec => EvictionHasACause
<1>1. ASSUME Inv, Timely, [Next]_vars
      PROVE  [link = "up" /\ link' = "closed" /\ sweep_age' = 0 => excuse]_vars
  <2> SUFFICES ASSUME ~UNCHANGED vars, link = "up", link' = "closed", sweep_age' = 0
               PROVE  excuse
    OBVIOUS
  <2>1. Sweeps /\ Expired
    <3>1. ~DeviceStep
      <4> SUFFICES ASSUME DeviceStep PROVE FALSE
        OBVIOUS
      <4>1. Device \/ PowerCycle
        BY DEF DeviceStep, DeviceDoes
      <4> QED
        BY <4>1
        DEF Device, Outer, Inner, Resets, PowerCycle, Boots, CannotTry, DnsFails,
            ConnectFails, Connects, Wakes, GivesUp, RecvEnds, Disconnects, Binds, Beats,
            KeepsQuiet, RecvTimesOut, RecvStatus, RecvOrder, RecvNothing, Reads,
            wireVars
    <3>2. ~ServerRestarts
      <4>1. SweepEvery + 1 # 0
        BY LinkAssumption
      <4> QED BY <4>1 DEF ServerRestarts
    <3>3. ~Serves /\ ~Forwards
      BY DEF Serves, Forwards
    <3>4. ~Network
      BY DEF Network, Cut, WifiDrops, Breaks, WifiReturns, Tick, DeviceTick, wireVars
    <3>5. Sweeps
      BY <1>1, <3>1, <3>2, <3>3, <3>4 DEF Next, Server
    <3> QED BY <3>5 DEF Sweeps, wireVars
  <2>2. age > IdleLimit
    BY <2>1 DEF Expired
  <2>3. Period <= IdleLimit /\ Period \in Int /\ IdleLimit \in Int /\ age \in Int
    BY <1>1, DeviceAssumption, LinkAssumption DEF Period, Inv, TypeOK
  <2> QED BY <1>1, <2>2, <2>3 DEF Timely
<1>2. Spec => [](Inv /\ Accounted /\ Punctual) /\ []Timely
  BY PunctualAlways, TimelyInit, TimelyStep, PTL DEF Spec
<1> QED BY <1>1, <1>2, PTL DEF Spec, EvictionHasACause

-----------------------------------------------------------------------------
(* How long the device holds on to a link that is silently cut.            *)

\* Each request that is unanswered took a period at most, and so does the next one.
DeadAsLongAs ==
  /\ (link # "cut" \/ toDevice # << >>) => dead_for = 0
  /\ link = "cut" =>
       /\ dead_for <= (lost + 1) * Period
       /\ Silent \/ DueSince(dead_for - lost * Period)

\* Multiples of a period.
LEMMA Periods ==
  /\ Period \in Nat
  /\ \A n \in Nat : n * Period \in Nat /\ (n + 1) * Period = n * Period + Period
  /\ \A n, m \in Nat : n <= m => n * Period <= m * Period
<1>1. Period \in Nat
  BY DeviceAssumption DEF Period
<1> HIDE DEF Period
<1>2. ASSUME NEW n \in Nat
      PROVE  n * Period \in Nat /\ (n + 1) * Period = n * Period + Period
  BY <1>1
<1>3. ASSUME NEW n \in Nat, NEW m \in Nat, n <= m PROVE n * Period <= m * Period
  <2>1. PICK k \in Nat : m = n + k
    <3>1. m - n \in Nat /\ m = n + (m - n)
      BY <1>3
    <3> QED BY <3>1
  <2>2. m * Period = n * Period + k * Period /\ k * Period \in Nat
    BY <1>1, <2>1
  <2> QED BY <1>1, <2>2
<1> QED BY <1>1, <1>2, <1>3

\* A link that is not dead yet, or is silent.
LEMMA NotYetDead ==
  ASSUME Inv, Accounted, dead_for = 0
  PROVE  DeadAsLongAs
<1>t. /\ clock \in Nat /\ bind_at \in Nat /\ beat_at \in Nat /\ lost \in Nat
      /\ BeatEvery \in Nat
  BY DeviceAssumption DEF Inv, TypeOK, DeviceTypeOK
<1>p. Period \in Nat /\ lost * Period \in Nat /\ (lost + 1) * Period = lost * Period + Period
  BY <1>t, Periods
<1> DEFINE p == lost * Period
<1>1. 0 <= (lost + 1) * Period
  BY <1>p
<1>2. p \in Nat
  BY <1>p
<1>3. link = "cut" => Silent \/ DueSince(0)
  BY SilentOrDue DEF Accounted, Runs, Inv, TypeOK, DeviceTypeOK
<1>4. DueSince(0) => DueSince(dead_for - p)
  <2> HIDE DEF p
  <2> QED BY <1>t, <1>2 DEF DueSince
<1> QED BY <1>1, <1>3, <1>4 DEF DeadAsLongAs

\* The same, after a step.
LEMMA NotYetDeadNext == (Inv /\ Accounted /\ dead_for = 0 => DeadAsLongAs)'
<1>1. Inv /\ Accounted /\ dead_for = 0 => DeadAsLongAs
  BY NotYetDead
<1> QED BY <1>1, PTL

\* Each Period of silence costs a count.
LEMMA DeadStep ==
  Inv /\ Accounted /\ Punctual /\ DeadAsLongAs /\ [Next]_vars => DeadAsLongAs'
<1> SUFFICES ASSUME Inv, Accounted, Punctual, DeadAsLongAs, [Next]_vars, dead_for' # 0
             PROVE  DeadAsLongAs'
  BY InvStep, AccountedStep, NotYetDeadNext
<1>t. /\ clock \in Nat /\ bind_at \in Nat /\ beat_at \in Nat /\ lost \in Nat
      /\ dead_for \in Nat /\ BeatEvery \in Nat /\ Late \in Nat
  BY DeviceAssumption DEF Inv, TypeOK, DeviceTypeOK
<1>p. /\ Period \in Nat /\ lost * Period \in Nat
      /\ (lost + 1) * Period = lost * Period + Period
      /\ (lost + 1 + 1) * Period = (lost + 1) * Period + Period
  BY <1>t, Periods
<1>r. link = "cut" => Runs
  BY DEF Accounted, Runs, Inv, TypeOK, DeviceTypeOK
\* A dead link stays dead, and nothing is left to read.
<1>d. ASSUME dead_for # 0
      PROVE  /\ link = "cut" /\ toDevice = << >> /\ Runs
             /\ dead_for <= (lost + 1) * Period
             /\ Silent \/ DueSince(dead_for - lost * Period)
  BY <1>d, <1>r DEF DeadAsLongAs
<1>1. CASE DeviceStep
  <2>1. link' = "cut" /\ dead_for' = dead_for
    BY <1>1 DEF DeviceStep, DeviceDoes
  <2>2. /\ link = "cut" /\ toDevice = << >> /\ Runs
        /\ dead_for <= (lost + 1) * Period
        /\ Silent \/ DueSince(dead_for - lost * Period)
    BY <1>d, <2>1
  <2>3. CASE clock' = clock /\ Asks
    <3>1. /\ toDevice' = << >> /\ lost' = lost + 1
          /\ beat_at' = clock + BeatEvery
      BY <2>2, <2>3 DEF Asks
    <3> DEFINE p == (lost + 1) * Period
    <3>2. p \in Nat /\ dead_for <= p
      BY <1>p, <2>2
    <3>3. lost' * Period = p /\ (lost' + 1) * Period = p + Period
      BY <1>p, <3>1
    <3> HIDE DEF p
    <3>4. dead_for' <= (lost' + 1) * Period
      BY <1>t, <1>p, <2>1, <3>2, <3>3
    <3>5. beat_at' + (dead_for' - lost' * Period) <= clock' + BeatEvery
      <4>1. clock + BeatEvery + (dead_for - p) <= clock + BeatEvery
        BY <1>t, <3>2
      <4> QED BY <2>1, <2>3, <3>1, <3>3, <4>1
    <3> QED BY <2>1, <3>1, <3>4, <3>5 DEF DeadAsLongAs, DueSince
  <2>4. CASE clock' = clock /\ RoundGoesOn
    <3>1. /\ toDevice' = << >> /\ lost' = lost /\ Runs'
          /\ UNCHANGED <<bind_at, beat_at>>
      BY <2>2, <2>4 DEF RoundGoesOn
    <3>2. Silent' = Silent
      BY <2>2, <2>4, <3>1, StandsStill
    <3> QED BY <2>1, <2>2, <2>4, <3>1, <3>2 DEF DeadAsLongAs, DueSince
  <2>5. CASE Connects
    BY <2>1, <2>5 DEF Connects
  <2>6. Device \/ PowerCycle
    BY <1>1 DEF DeviceStep, DeviceDoes
  <2> QED BY <2>1, <2>3, <2>4, <2>5, <2>6, DeviceMoves
<1>2. CASE Tick
  <2>1. link = "cut" /\ ~Silent /\ dead_for' = dead_for + 1
    BY <1>2 DEF Tick
  <2>2. /\ UNCHANGED <<link, bind_at, beat_at, lost>>
        /\ pc = "recv" /\ elapsed \in Nat /\ elapsed <= Late
        /\ toDevice' = << >>
        /\ clock' = clock + 1 \/ Silent'
    BY <1>2, <1>r, <2>1, SecondPasses
  <2>3. clock <= bind_at + elapsed /\ clock <= beat_at + elapsed
    BY <2>2 DEF Punctual
  <2> DEFINE p == lost * Period
  <2>4. p \in Nat /\ (lost + 1) * Period = p + Period
    BY <1>p
  <2>5. DueSince(dead_for - p)
    BY <2>1 DEF DeadAsLongAs
  <2> HIDE DEF p
  <2>6. dead_for + 1 <= p + Period
    BY <1>t, <2>2, <2>3, <2>4, <2>5 DEF DueSince, Period
  <2>7. \/ beat_at + (dead_for + 1 - p) <= clock + 1 + BeatEvery
        \/ bind_at + (dead_for + 1 - p) <= clock + 1 + BeatEvery
    BY <1>t, <2>4, <2>5 DEF DueSince
  <2>8. dead_for' <= (lost' + 1) * Period
    BY <2>1, <2>2, <2>4, <2>6
  <2>9. ASSUME clock' = clock + 1 PROVE DueSince(dead_for - lost * Period)'
    <3> DEFINE q == lost' * Period
    <3>1. q = p
      BY <2>2 DEF p
    <3> HIDE DEF q
    <3>2. \/ beat_at' + (dead_for' - q) <= clock' + BeatEvery
          \/ bind_at' + (dead_for' - q) <= clock' + BeatEvery
      BY <1>t, <2>1, <2>2, <2>4, <2>7, <2>9, <3>1
    <3> QED BY <3>2 DEF DueSince, q
  <2> QED BY <2>1, <2>2, <2>8, <2>9 DEF DeadAsLongAs
<1>3. CASE (Server \/ Cut \/ WifiDrops \/ WifiReturns) \/ UNCHANGED vars
  <2>1. dead_for' = dead_for
    BY <1>3
    DEF Server, Serves, Forwards, Sweeps, ServerRestarts, Cut, WifiDrops, Breaks,
        WifiReturns, vars
  <2>2. /\ link = "cut" /\ toDevice = << >> /\ Runs
        /\ dead_for <= (lost + 1) * Period
        /\ Silent \/ DueSince(dead_for - lost * Period)
    BY <1>d, <2>1
  <2>3. link' = "cut" /\ toDevice' = << >>
    BY <1>3, <2>2
    DEF Server, Serves, Forwards, Sweeps, ServerRestarts, ServerCloses, Cut, WifiDrops,
        Breaks, WifiReturns, vars, deviceVars, wireVars
  <2>4. UNCHANGED <<pc, clock, bind_at, beat_at, lost>>
    <3>1. Elsewhere
      BY <1>3, ElsewhereSteps
    <3> QED BY <3>1 DEF Elsewhere, taskVars
  <2>5. Silent' = Silent
    BY <2>2, <2>4, StandsStill DEF Runs
  <2> QED BY <2>1, <2>2, <2>3, <2>4, <2>5 DEF DeadAsLongAs, DueSince
<1> QED BY <1>1, <1>2, <1>3 DEF Next, Network

\* A silent cut is noticed after MaxLost requests and a last wait, for all periods and
\* limits, save while the device's clock has wrapped and it has nothing to send.
THEOREM DeadLinkCorrect == Spec => []DeadLinkIsNoticed
<1>1. Init => DeadAsLongAs
  <2>1. Init => Inv /\ Accounted /\ dead_for = 0
    BY InvInit DEF Init, DeviceInit, Accounted
  <2> QED BY <2>1, NotYetDead
<1>2. Inv /\ DeadAsLongAs => DeadLinkIsNoticed
  <2> SUFFICES ASSUME Inv, DeadAsLongAs PROVE DeadLinkIsNoticed
    OBVIOUS
  <2>1. lost \in Nat /\ lost + 1 <= MaxLost + 1 /\ MaxLost + 1 \in Nat /\ lost + 1 \in Nat
    BY DeviceAssumption DEF Inv, TypeOK, DeviceTypeOK
  <2>2. (lost + 1) * Period <= (MaxLost + 1) * Period
    BY <2>1, Periods
  <2>3. /\ (lost + 1) * Period \in Nat /\ (MaxLost + 1) * Period \in Nat
        /\ dead_for \in Nat
    BY <2>1, Periods DEF Inv, TypeOK
  <2>4. dead_for <= (MaxLost + 1) * Period
    <3>1. link = "cut" => dead_for <= (lost + 1) * Period
      BY DEF DeadAsLongAs
    <3>2. link # "cut" => dead_for = 0
      BY DEF DeadAsLongAs
    <3> DEFINE a == (lost + 1) * Period  b == (MaxLost + 1) * Period
    <3>3. a \in Nat /\ b \in Nat /\ a <= b /\ (link = "cut" => dead_for <= a)
      BY <2>2, <2>3, <3>1
    <3> HIDE DEF a, b
    <3>4. dead_for <= b
      BY <2>3, <3>2, <3>3
    <3> QED BY <3>4 DEF b
  <2> QED BY <2>4 DEF DeadLinkIsNoticed, Period
<1> QED BY <1>1, <1>2, PunctualAlways, DeadStep, PTL DEF Spec
=============================================================================
