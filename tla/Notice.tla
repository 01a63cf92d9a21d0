------------------------------- MODULE Notice -------------------------------
(***************************************************************************)
(* The notice process (notice/src/notice): a goroutine reads datagrams     *)
(* from the server's warn handler and turns them into HTTPS requests, one  *)
(* at a time and at most one a minute for each key; the main goroutine     *)
(* waits for a signal.  newHttpDial bounds what one connection may take.   *)
(*                                                                         *)
(* Times are distances (how long ago, how much is left), so that the clock *)
(* itself is not needed.                                                   *)
(***************************************************************************)
EXTENDS Integers, Sequences

CONSTANTS
  Keys,        \* keys of devices that warn
  Other,       \* a datagram that is no send_notice
  Minute,      \* time.Minute
  TimeoutMax,  \* timeoutMax: 10 s
  MinDial,     \* the 500 ms a DialTimeout gets at least
  MaxDial,     \* the 3 s it gets at most
  MaxHops,     \* requests http.Client makes for one Get: 10, the first and 9 redirects
  Grace,       \* the 3 s between a read error and os.Exit
  QueueCap,    \* bound of the socket's receive buffer
  Nobody       \* key of no request

ASSUME NoticeAssumption ==
  /\ Other \notin Keys /\ Nobody \notin Keys
  /\ Minute \in Nat /\ Grace \in Nat /\ QueueCap \in Nat
  /\ TimeoutMax \in Nat \ {0} /\ MinDial \in Nat \ {0} /\ MaxDial \in Nat
  /\ MinDial <= MaxDial /\ MaxHops \in Nat \ {0}

VARIABLES
  pc,        \* reader: "read", "dial", "dialing", "exchange" or "broken"
  alive,     \* the process runs
  queue,     \* datagrams received and not read
  ago,       \* age of timemap[k], Minute + 1 when older or not set
  key,       \* key of the request under way
  hops,      \* connections made for it
  elapse,    \* time since newHttpDial was called
  left,      \* what is left of the call the reader blocks in
  sigChan,   \* signals not yet taken by the main goroutine
  hop,       \* auxiliary: time since the connection was begun
  asked      \* auxiliary: age of the last request made for k, as in ago

readerVars == <<pc, ago, key, hops, elapse, left, hop, asked>>
vars == <<readerVars, alive, queue, sigChan>>

Ages == 0 .. Minute + 1
Older(a) == IF a > Minute THEN a ELSE a + 1
Less(n) == IF n = 0 THEN 0 ELSE n - 1
Fatal == {"HUP", "INT", "QUIT", "TERM"}
Signals == Fatal \cup {"another"}

Init ==
  /\ pc = "read" /\ alive = TRUE /\ queue = << >>
  /\ ago = [k \in Keys |-> Minute + 1] /\ asked = [k \in Keys |-> Minute + 1]
  /\ key = Nobody /\ hops = 0 /\ elapse = 0 /\ left = 0 /\ hop = 0
  /\ sigChan = << >>

-----------------------------------------------------------------------------
(* The reader.  The definitions named Faulty... are slips for the           *)
(* properties to find.                                                      *)

\* last.IsZero() || last.Add(time.Minute).Before(timenow)
FaultyDue(k) == ago[k] >= Minute
Due(k) == ago[k] > Minute

Dials == pc' = "dial" /\ elapse' = 0 /\ left' = 0 /\ hop' = 0

\* The request ends, with an answer or without: nobody looks.
Finishes ==
  /\ pc' = "read" /\ key' = Nobody /\ hops' = 0
  /\ elapse' = 0 /\ left' = 0 /\ hop' = 0

\* The minute begins before the request is made, whatever becomes of it.
ReadNotice ==
  /\ pc = "read" /\ queue # << >>
  /\ queue' = Tail(queue)
  /\ \E k \in Keys :
       /\ k = Head(queue) /\ Due(k)
       /\ ago' = [ago EXCEPT ![k] = 0]
       /\ asked' = [asked EXCEPT ![k] = 0]
       /\ key' = k /\ hops' = 1
       /\ Dials
  /\ UNCHANGED <<alive, sigChan>>

\* Not JSON, another command, or a key noticed within the minute.
ReadIgnored ==
  /\ pc = "read" /\ queue # << >>
  /\ queue' = Tail(queue)
  /\ ~ \E k \in Keys : k = Head(queue) /\ Due(k)
  /\ UNCHANGED <<readerVars, alive, sigChan>>

ReadFails ==
  /\ pc = "read"
  /\ pc' = "broken" /\ left' = Grace
  /\ UNCHANGED <<alive, queue, ago, asked, key, hops, elapse, hop, sigChan>>

GivesIn ==
  /\ pc = "broken" /\ left = 0
  /\ alive' = FALSE
  /\ UNCHANGED <<readerVars, queue, sigChan>>

-----------------------------------------------------------------------------
(* newHttpDial and the exchange that follows                               *)

Clamped(remain) ==
  IF remain < MinDial THEN MinDial
  ELSE IF remain > MaxDial THEN MaxDial ELSE remain

FaultyDialTries ==
  /\ pc = "dial"
  /\ pc' = "dialing"
  /\ left' = Clamped(TimeoutMax - elapse)
  /\ UNCHANGED <<alive, queue, ago, asked, key, hops, elapse, hop, sigChan>>
DialTries ==
  /\ pc = "dial" /\ elapse < TimeoutMax
  /\ pc' = "dialing"
  /\ left' = Clamped(TimeoutMax - elapse)
  /\ UNCHANGED <<alive, queue, ago, asked, key, hops, elapse, hop, sigChan>>

\* The loop ends: Request Timeout.
DialTimesOut ==
  /\ pc = "dial" /\ elapse >= TimeoutMax
  /\ Finishes
  /\ UNCHANGED <<alive, queue, ago, asked, sigChan>>

\* A timeout, of the dialler at the end or of the kernel before it: once more.
DialRetries ==
  /\ pc = "dialing"
  /\ pc' = "dial" /\ left' = 0
  /\ UNCHANGED <<alive, queue, ago, asked, key, hops, elapse, hop, sigChan>>

\* Refused, unreachable, no such name.
DialFails ==
  /\ pc = "dialing"
  /\ Finishes
  /\ UNCHANGED <<alive, queue, ago, asked, sigChan>>

\* The connection gets a deadline.
DialConnects ==
  /\ pc = "dialing"
  /\ pc' = "exchange" /\ left' = TimeoutMax
  /\ UNCHANGED <<alive, queue, ago, asked, key, hops, elapse, hop, sigChan>>

\* The answer has been read, or the deadline has passed.
ExchangeEnds ==
  /\ pc = "exchange"
  /\ Finishes
  /\ UNCHANGED <<alive, queue, ago, asked, sigChan>>

\* The answer is a redirect and Get follows it, on a new connection.
ExchangeRedirects ==
  /\ pc = "exchange" /\ hops < MaxHops
  /\ hops' = hops + 1
  /\ Dials
  /\ UNCHANGED <<alive, queue, ago, asked, key, sigChan>>

-----------------------------------------------------------------------------
(* The main goroutine                                                      *)

FaultyTakesSignal ==
  /\ sigChan # << >>
  /\ sigChan' = Tail(sigChan)
  /\ alive' = (Head(sigChan) \notin {"HUP", "INT", "QUIT"})
  /\ UNCHANGED <<readerVars, queue>>
TakesSignal ==
  /\ sigChan # << >>
  /\ sigChan' = Tail(sigChan)
  /\ alive' = (Head(sigChan) \notin Fatal)
  /\ UNCHANGED <<readerVars, queue>>

-----------------------------------------------------------------------------
(* The world                                                               *)

\* A datagram finds room in the receive buffer, or is lost.
Arrives ==
  /\ Len(queue) < QueueCap
  /\ \E d \in Keys \cup {Other} : queue' = Append(queue, d)
  /\ UNCHANGED <<readerVars, alive, sigChan>>

\* signal.Notify does not wait: a signal that finds the channel full is lost.
Signalled ==
  /\ sigChan = << >>
  /\ \E s \in Signals : sigChan' = << s >>
  /\ UNCHANGED <<readerVars, alive, queue>>

\* Time passes, but not beyond the end of a call, nor while the reader computes.
Tick ==
  /\ pc # "dial" /\ (pc \in {"dialing", "exchange", "broken"} => left > 0)
  /\ ago' = [k \in Keys |-> Older(ago[k])]
  /\ asked' = [k \in Keys |-> Older(asked[k])]
  /\ left' = Less(left)
  /\ elapse' = IF pc = "dialing" THEN elapse + 1 ELSE elapse
  /\ hop' = IF pc \in {"dialing", "exchange"} THEN hop + 1 ELSE hop
  /\ UNCHANGED <<pc, key, hops, alive, queue, sigChan>>

Reader ==
  \/ ReadNotice \/ ReadIgnored \/ ReadFails \/ GivesIn
  \/ DialTries \/ DialTimesOut \/ DialRetries \/ DialFails \/ DialConnects
  \/ ExchangeEnds \/ ExchangeRedirects

\* Nothing happens in a process that has ended.
Next == alive /\ (Reader \/ TakesSignal \/ Arrives \/ Signalled \/ Tick)

Spec == Init /\ [][Next]_vars

\* The goroutines are scheduled and the sleep of the broken reader ends.
Fairness == WF_vars(alive /\ TakesSignal) /\ WF_vars(alive /\ GivesIn)
            /\ WF_vars(alive /\ pc = "broken" /\ Tick)
FairSpec == Spec /\ Fairness

-----------------------------------------------------------------------------
TypeOK ==
  /\ pc \in {"read", "dial", "dialing", "exchange", "broken"}
  /\ alive \in BOOLEAN /\ queue \in Seq(Keys \cup {Other})
  /\ ago \in [Keys -> Ages] /\ asked \in [Keys -> Ages]
  /\ key \in Keys \cup {Nobody} /\ hops \in 0 .. MaxHops
  /\ elapse \in Nat /\ left \in Nat /\ hop \in Nat
  /\ sigChan \in Seq(Signals)

\* While the reader is busy with one connection no warning is read: this is how
\* long it may take, the last DialTimeout having begun just before timeoutMax was
\* over and been given MinDial (httpreq.go:27-37).
DialBound == TimeoutMax - 1 + MinDial
HopIsBounded ==
  /\ pc \in {"dial", "dialing"} => hop + left <= DialBound
  /\ pc = "exchange" => hop + left <= DialBound + TimeoutMax

\* Requests for one key are more than a minute apart (main.go:45-47).
OneAMinute ==
  [][ \A k \in Keys : pc = "read" /\ key' = k => asked[k] > Minute ]_vars

\* A fatal signal that has got into the channel ends the process, whatever the
\* reader is blocked in, and so does a read error (main.go:62-69, 78-88).
EndsWhenTold ==
  /\ (\E i \in DOMAIN sigChan : sigChan[i] \in Fatal) ~> ~alive
  /\ pc = "broken" ~> ~alive
=============================================================================
