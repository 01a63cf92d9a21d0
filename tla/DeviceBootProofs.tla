-------------------------- MODULE DeviceBootProofs --------------------------
(***************************************************************************)
(* Proofs about DeviceBoot: one client task, and a flag that tells the LED *)
(* the truth about smartconfig and about the session, but for a lack of    *)
(* memory and the moment in which it is published and not yet set, for any *)
(* number of samples, turns and broadcasts.                                *)
(***************************************************************************)
EXTENDS DeviceBoot, TLAPS

\* While there is no flag smartconfig is there, and the flag is 1 only, and unless
\* memory has run out always, while the client task has a session.
FastBlinkMeansListening == global_flag = "NULL" /\ ~starved => smart # "off"
FlagTellsSession ==
  /\ global_flag = "1" => session
  /\ session /\ ~starved => global_flag = "1"

\* What these rest on: the tasks are created by the first address only, and by the
\* time a device has joined, and so whenever a client task runs, there is a flag to
\* write to, unless memory has run out; one that is not yet set is that of the first
\* joining, before there is a client task.
Created == task_client_enable \/ clients = 0
Joined == (station # "down" \/ clients > 0) /\ ~starved => global_flag # "NULL"
JunkIsFirst == global_flag = "junk" /\ ~starved => clients = 0

Inv ==
  /\ TypeOK /\ OneClient /\ FastBlinkMeansListening /\ FlagTellsSession
  /\ Created /\ Joined /\ JunkIsFirst

USE DEF OneClient, FastBlinkMeansListening, FlagTellsSession, Created, Joined,
        JunkIsFirst, SetFlag, taskVars, inputVars, ledVars, BootAssumption

\* The turns of the blinking are counted below BlinkTurns: the count that reaches
\* it starts anew.
LEMMA Turns ==
  ASSUME NEW n \in 0 .. BlinkTurns - 1, (n + 1) % BlinkTurns # 0
  PROVE  n + 1 \in 0 .. BlinkTurns - 1
<1>1. BlinkTurns \in Nat \ {0}
  BY BootAssumption
<1>2. BlinkTurns % BlinkTurns = 0
  BY <1>1, SMT
<1>3. n + 1 # BlinkTurns
  BY <1>2
<1> QED
  BY <1>1, <1>3

\* The parts of Inv hold initially.
LEMMA InitInv == Init => Inv
<1> SUFFICES ASSUME Init PROVE Inv
  OBVIOUS
<1>1. /\ task_client_enable \in BOOLEAN /\ session \in BOOLEAN /\ starved \in BOOLEAN
      /\ resetting \in BOOLEAN /\ restored \in BOOLEAN /\ pressed \in BOOLEAN
      /\ lit \in BOOLEAN
  BY Zenon DEF Init
<1> QED
  BY <1>1, BootAssumption DEF Init, Booted, Inv, TypeOK

\* The Wi-Fi events preserve them.
LEMMA EventsInv == Inv /\ Events => Inv'
<1> SUFFICES ASSUME Inv, Events PROVE Inv'
  OBVIOUS
<1> USE BootAssumption DEF Inv, TypeOK
<1>1. CASE Connected
  <2>1. TypeOK'
    BY <1>1 DEF Connected
  <2>2. OneClient' /\ Created'
    BY <1>1 DEF Connected
  <2>3. FastBlinkMeansListening'
    BY <1>1 DEF Connected
  <2>4. FlagTellsSession'
    BY <1>1 DEF Connected
  <2>5. Joined'
    BY <1>1 DEF Connected
  <2>6. JunkIsFirst'
    BY <1>1 DEF Connected
  <2> QED
    BY <2>1, <2>2, <2>3, <2>4, <2>5, <2>6
<1>2. CASE ConnectedClears
  BY <1>2 DEF ConnectedClears
<1>3. CASE GotIp
  <2>1. TypeOK'
    <3>1. task_client_enable' \in BOOLEAN /\ starved' \in BOOLEAN
      BY <1>3, Zenon DEF GotIp
    <3> QED
      BY <1>3, <3>1 DEF GotIp
  <2>2. OneClient' /\ Created'
    BY <1>3 DEF GotIp
  <2>3. FastBlinkMeansListening'
    BY <1>3 DEF GotIp
  <2>4. FlagTellsSession'
    BY <1>3 DEF GotIp
  <2>5. Joined'
    BY <1>3 DEF GotIp
  <2>6. JunkIsFirst'
    BY <1>3 DEF GotIp
  <2> QED
    BY <2>1, <2>2, <2>3, <2>4, <2>5, <2>6
<1>4. CASE Disconnected
  BY <1>4 DEF Disconnected
<1> QED
  BY <1>1, <1>2, <1>3, <1>4 DEF Events

\* So does smartconfig, which stops only for a device that has joined.
LEMMA SmartconfigInv == Inv /\ Smartconfig => Inv'
<1> SUFFICES ASSUME Inv, Smartconfig PROVE Inv'
  OBVIOUS
<1> USE DEF Inv, TypeOK
<1>1. CASE SmartStarts
  BY <1>1 DEF SmartStarts
<1>2. CASE SmartLink
  BY <1>2 DEF SmartLink
<1>3. CASE SmartLinkOver
  BY <1>3 DEF SmartLinkOver
<1> QED
  BY <1>1, <1>2, <1>3 DEF Smartconfig

\* A boot, from the button, an order or the mains.
LEMMA BootsInv == Inv /\ Boots => Inv'
<1> SUFFICES ASSUME Inv, Boots PROVE Inv'
  OBVIOUS
<1>1. /\ task_client_enable' \in BOOLEAN /\ session' \in BOOLEAN
      /\ starved' \in BOOLEAN /\ resetting' \in BOOLEAN /\ restored' \in BOOLEAN
      /\ lit' \in BOOLEAN
  BY Zenon DEF Boots, Booted
<1> QED
  BY <1>1, BootAssumption DEF Inv, TypeOK, Boots, Booted

\* The tasks that sample, count and write the flag.
LEMMA TasksInv == Inv /\ Tasks => Inv'
<1> SUFFICES ASSUME Inv, Tasks PROVE Inv'
  OBVIOUS
<1> USE BootAssumption DEF Inv, TypeOK
<1>1. CASE SessionStarts
  BY <1>1 DEF SessionStarts
<1>2. CASE SessionEnds
  <2>1. TypeOK'
    <3>1. session' \in BOOLEAN
      BY <1>2, Zenon DEF SessionEnds
    <3> QED
      BY <1>2, <3>1 DEF SessionEnds
  <2>2. OneClient' /\ Created'
    BY <1>2 DEF SessionEnds
  <2>3. FastBlinkMeansListening'
    BY <1>2 DEF SessionEnds
  <2>4. FlagTellsSession'
    BY <1>2 DEF SessionEnds
  <2>5. Joined'
    BY <1>2 DEF SessionEnds
  <2>6. JunkIsFirst'
    BY <1>2 DEF SessionEnds
  <2> QED
    BY <2>1, <2>2, <2>3, <2>4, <2>5, <2>6
<1>3. CASE AnnouncesKey
  BY <1>3 DEF AnnouncesKey
<1>4. CASE ResetOrdered
  BY <1>4 DEF ResetOrdered
<1>5. CASE Sample
  <2>1. TypeOK'
    <3>1. restored' \in BOOLEAN
      BY <1>5, Zenon DEF Sample
    <3> QED
      BY <1>5, <3>1 DEF Sample
  <2>2. OneClient' /\ Created'
    BY <1>5 DEF Sample
  <2>3. FastBlinkMeansListening'
    BY <1>5 DEF Sample
  <2>4. FlagTellsSession'
    BY <1>5 DEF Sample
  <2>5. Joined'
    BY <1>5 DEF Sample
  <2>6. JunkIsFirst'
    BY <1>5 DEF Sample
  <2> QED
    BY <2>1, <2>2, <2>3, <2>4, <2>5, <2>6
<1>6. CASE ResetDelayed
  BY <1>6 DEF ResetDelayed
<1>7. CASE Restarts
  BY <1>7, BootsInv DEF Restarts
<1> QED
  BY <1>1, <1>2, <1>3, <1>4, <1>5, <1>6, <1>7 DEF Tasks

\* The LED reads the flag and writes nothing that the others read.
LEMMA LedInv == Inv /\ Led => Inv'
<1> SUFFICES ASSUME Inv, Led PROVE Inv'
  OBVIOUS
<1> USE BootAssumption DEF Inv, TypeOK
<1>1. CASE LedFast
  BY <1>1 DEF LedFast
<1>2. CASE LedSlow
  <2>1. count_led' \in 0 .. BlinkTurns - 1
    BY <1>2, Turns DEF LedSlow
  <2>2. lit' \in BOOLEAN
    BY <1>2, Zenon DEF LedSlow
  <2> QED
    BY <1>2, <2>1, <2>2 DEF LedSlow
<1>3. CASE LedSteady
  BY <1>3 DEF LedSteady
<1> QED
  BY <1>1, <1>2, <1>3 DEF Led

\* Inv is an invariant: every step preserves it.
THEOREM Invariance == Spec => []Inv
<1>1. Inv /\ [Next]_vars => Inv'
  <2> SUFFICES ASSUME Inv, [Next]_vars PROVE Inv'
    OBVIOUS
  <2>1. CASE Press
    BY <2>1 DEF Inv, TypeOK, Press
  <2>2. CASE PowerCycle
    BY <2>2, BootsInv DEF PowerCycle
  <2>3. CASE UNCHANGED vars
    BY <2>3 DEF Inv, TypeOK, vars
  <2> QED
    BY <2>1, <2>2, <2>3, EventsInv, SmartconfigInv, TasksInv, LedInv DEF Next
<1> QED
  BY InitInv, <1>1, PTL DEF Spec

\* Every variable of the firmware keeps its type, and the counters of the button
\* and of the LED their bounds (user_main.c:719-737, 829-853).
THEOREM TypeCorrect == Spec => []TypeOK
<1>1. Inv => TypeOK
  BY DEF Inv
<1> QED
  BY <1>1, Invariance, PTL

\* There is never a second client task, however often the address of the station
\* is lost and found (user_main.c:902-908).
THEOREM OneClientTask == Spec => []OneClient
<1>1. Inv => OneClient
  BY DEF Inv
<1> QED
  BY <1>1, Invariance, PTL

\* Unless memory has run out, smartconfig is there to receive an access point while
\* there is no flag, for want of which the LED blinks fast (user_main.c:748-760,
\* 791-803, 884-892, 1024-1036).
THEOREM BlinkCorrect == Spec => []FastBlinkMeansListening
<1>1. Inv => FastBlinkMeansListening
  BY DEF Inv
<1> QED
  BY <1>1, Invariance, PTL

\* The flag is 1 only while the client task has a session and, unless memory has
\* run out, as long as it has one (user_main.c:415-418, 617-620).
THEOREM FlagCorrect == Spec => []FlagTellsSession
<1>1. Inv => FlagTellsSession
  BY DEF Inv
<1> QED
  BY <1>1, Invariance, PTL

\* So the flag tells led_task the truth in each of its states, but for a lack of
\* memory and the moment before the flag of the first joining is set
\* (user_main.c:702-764, 884-892).
THEOREM LedCorrect == Spec => []LedTellsTheTruth
<1>1. Inv => LedTellsTheTruth
  BY DEF Inv, LedTellsTheTruth
<1> QED
  BY <1>1, Invariance, PTL
=============================================================================
