----------------------------- MODULE NoticeProofs -----------------------------
(***************************************************************************)
(* Notice proved: its types, the bound of one connection and the rate of   *)
(* the requests, for all timeouts and any number of keys.                  *)
(***************************************************************************)
EXTENDS Notice, TLAPS

\* What the main goroutine, the network and the sleep leave to the reader.
LEMMA TailType ==
  ASSUME NEW S, NEW q \in Seq(S), q # << >>
  PROVE  Tail(q) \in Seq(S)
OBVIOUS

\* A step keeps every variable in its type.
LEMMA TypeStep == TypeOK /\ [Next]_vars => TypeOK'
<1> SUFFICES ASSUME TypeOK, [Next]_vars PROVE TypeOK'
  OBVIOUS
<1> USE NoticeAssumption
<1>t. \A k \in Keys : Older(ago[k]) \in Ages /\ Older(asked[k]) \in Ages
  BY DEF TypeOK, Ages, Older
<1>l. Less(left) \in Nat
  BY DEF TypeOK, Less
<1>c. Clamped(TimeoutMax - elapse) \in Nat
  BY DEF TypeOK, Clamped
<1>z. 0 \in Ages /\ 0 \in 0 .. MaxHops /\ 1 \in 0 .. MaxHops
  BY DEF Ages
<1>1. CASE ReadNotice
  <2>1. Tail(queue) \in Seq(Keys \cup {Other})
    BY <1>1, TailType DEF ReadNotice, TypeOK
  <2>2. PICK k \in Keys : /\ ago' = [ago EXCEPT ![k] = 0]
                          /\ asked' = [asked EXCEPT ![k] = 0]
                          /\ key' = k /\ hops' = 1 /\ Dials
    BY <1>1 DEF ReadNotice
  <2> QED BY <1>1, <1>z, <2>1, <2>2 DEF ReadNotice, Dials, TypeOK
<1>2. CASE ReadIgnored
  <2>1. Tail(queue) \in Seq(Keys \cup {Other})
    BY <1>2, TailType DEF ReadIgnored, TypeOK
  <2> QED BY <1>2, <2>1 DEF ReadIgnored, TypeOK, readerVars
<1>3. CASE ReadFails
  BY <1>3 DEF ReadFails, TypeOK
<1>4. CASE GivesIn
  BY <1>4 DEF GivesIn, TypeOK, readerVars
<1>5. CASE DialTries
  BY <1>5, <1>c DEF DialTries, TypeOK
<1>6. CASE DialTimesOut
  BY <1>6, <1>z DEF DialTimesOut, Finishes, TypeOK
<1>7. CASE DialRetries
  BY <1>7 DEF DialRetries, TypeOK
<1>8. CASE DialFails
  BY <1>8, <1>z DEF DialFails, Finishes, TypeOK
<1>9. CASE DialConnects
  BY <1>9 DEF DialConnects, TypeOK
<1>10. CASE ExchangeEnds
  BY <1>10, <1>z DEF ExchangeEnds, Finishes, TypeOK
<1>11. CASE ExchangeRedirects
  <2>1. hops + 1 \in 0 .. MaxHops
    BY <1>11 DEF ExchangeRedirects, TypeOK
  <2> QED BY <1>11, <2>1 DEF ExchangeRedirects, Dials, TypeOK
<1>12. CASE TakesSignal
  <2>1. Tail(sigChan) \in Seq(Signals)
    BY <1>12, TailType DEF TakesSignal, TypeOK
  <2>2. alive' \in BOOLEAN
    BY <1>12, Zenon DEF TakesSignal
  <2> QED BY <1>12, <2>1, <2>2 DEF TakesSignal, TypeOK, readerVars
<1>13. CASE Arrives
  BY <1>13 DEF Arrives, TypeOK, readerVars
<1>14. CASE Signalled
  BY <1>14 DEF Signalled, TypeOK, readerVars
<1>15. CASE Tick
  <2>1. ago' \in [Keys -> Ages] /\ asked' \in [Keys -> Ages]
    BY <1>15, <1>t DEF Tick
  <2>2. elapse' \in Nat /\ hop' \in Nat
    BY <1>15 DEF Tick, TypeOK
  <2>3. left' \in Nat
    BY <1>15, <1>l DEF Tick
  <2> QED BY <1>15, <2>1, <2>2, <2>3 DEF Tick, TypeOK
<1>16. CASE UNCHANGED vars
  BY <1>16 DEF vars, readerVars, TypeOK
<1> QED
  BY <1>1, <1>2, <1>3, <1>4, <1>5, <1>6, <1>7, <1>8, <1>9, <1>10, <1>11, <1>12,
     <1>13, <1>14, <1>15, <1>16 DEF Next, Reader

\* Every variable keeps its type, for every value of the constants.
THEOREM TypeCorrect == Spec => []TypeOK
<1>1. Init => TypeOK
  BY NoticeAssumption DEF Init, TypeOK, Ages
<1> QED BY <1>1, TypeStep, PTL DEF Spec

-----------------------------------------------------------------------------
\* What makes the bound inductive: while a connection is tried, the time since
\* it was begun is the one newHttpDial measures.
DialClock ==
  /\ HopIsBounded
  /\ pc \in {"dial", "dialing"} => hop = elapse
  /\ pc = "dial" => left = 0

\* A step keeps the time of a connection within its bound.
LEMMA DialStep == TypeOK /\ DialClock /\ [Next]_vars => DialClock'
<1> SUFFICES ASSUME TypeOK, DialClock, [Next]_vars PROVE DialClock'
  OBVIOUS
<1> USE NoticeAssumption DEF DialClock, HopIsBounded, DialBound, TypeOK
<1>1. CASE ReadNotice
  BY <1>1 DEF ReadNotice, Dials
<1>2. CASE ReadIgnored \/ GivesIn \/ TakesSignal \/ Arrives \/ Signalled
  BY <1>2 DEF ReadIgnored, GivesIn, TakesSignal, Arrives, Signalled, readerVars
<1>3. CASE ReadFails
  BY <1>3 DEF ReadFails
<1>5. CASE DialTries
  BY <1>5 DEF DialTries, Clamped
<1>6. CASE DialTimesOut \/ DialFails \/ ExchangeEnds
  BY <1>6 DEF DialTimesOut, DialFails, ExchangeEnds, Finishes
<1>7. CASE DialRetries
  BY <1>7 DEF DialRetries
<1>9. CASE DialConnects
  BY <1>9 DEF DialConnects
<1>11. CASE ExchangeRedirects
  BY <1>11 DEF ExchangeRedirects, Dials
<1>15. CASE Tick
  BY <1>15 DEF Tick, Less
<1>16. CASE UNCHANGED vars
  BY <1>16 DEF vars, readerVars
<1> QED
  BY <1>1, <1>2, <1>3, <1>5, <1>6, <1>7, <1>9, <1>11, <1>15, <1>16
  DEF Next, Reader

\* One connection of the notice process, dialling and exchange, takes at most
\* twice timeoutMax and a last short dial, whatever the network does.
THEOREM HopBound == Spec => []HopIsBounded
<1>1. Init => DialClock
  BY NoticeAssumption DEF Init, DialClock, HopIsBounded, DialBound
<1>2. DialClock => HopIsBounded
  BY DEF DialClock
<1> QED BY <1>1, <1>2, DialStep, TypeCorrect, PTL DEF Spec

-----------------------------------------------------------------------------
\* timemap is never older than the last request of its key.
MapIsExact == ago = asked /\ (pc = "read" => key = Nobody)

\* A step that makes a request sets timemap, and the two age alike.
LEMMA MapStep == TypeOK /\ MapIsExact /\ [Next]_vars => MapIsExact'
<1> SUFFICES ASSUME TypeOK, MapIsExact, [Next]_vars PROVE MapIsExact'
  OBVIOUS
<1> USE NoticeAssumption DEF MapIsExact
<1>1. CASE ReadNotice
  BY <1>1 DEF ReadNotice, Dials
<1>2. CASE ReadIgnored \/ GivesIn \/ TakesSignal \/ Arrives \/ Signalled
  BY <1>2 DEF ReadIgnored, GivesIn, TakesSignal, Arrives, Signalled, readerVars
<1>6. CASE DialTimesOut \/ DialFails \/ ExchangeEnds
  BY <1>6 DEF DialTimesOut, DialFails, ExchangeEnds, Finishes
<1>7. CASE ReadFails \/ DialTries \/ DialRetries \/ DialConnects \/ ExchangeRedirects
  BY <1>7 DEF ReadFails, DialTries, DialRetries, DialConnects, ExchangeRedirects,
              Dials
<1>15. CASE Tick
  BY <1>15 DEF Tick
<1>16. CASE UNCHANGED vars
  BY <1>16 DEF vars, readerVars
<1> QED
  BY <1>1, <1>2, <1>6, <1>7, <1>15, <1>16 DEF Next, Reader

\* For one key, requests are more than a minute apart.
THEOREM RateLimit == Spec => OneAMinute
<1>1. Init => MapIsExact
  BY DEF Init, MapIsExact
<1>2. ASSUME TypeOK, MapIsExact, [Next]_vars
      PROVE  [\A k \in Keys : pc = "read" /\ key' = k => asked[k] > Minute]_vars
  <2> SUFFICES ASSUME ~UNCHANGED vars, NEW k \in Keys, pc = "read", key' = k
               PROVE  asked[k] > Minute
    OBVIOUS
  <2>1. ReadNotice
    BY <1>2, NoticeAssumption
    DEF Next, Reader, MapIsExact, ReadIgnored, ReadFails, GivesIn, DialTries,
        DialTimesOut, DialRetries, DialFails, DialConnects, ExchangeEnds,
        ExchangeRedirects, TakesSignal, Arrives, Signalled, Tick, readerVars
  <2> QED BY <1>2, <2>1 DEF ReadNotice, Due, MapIsExact
<1> QED BY <1>1, <1>2, MapStep, TypeCorrect, PTL DEF Spec, OneAMinute
=============================================================================
