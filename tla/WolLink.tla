------------------------------- MODULE WolLink -------------------------------
(***************************************************************************)
(* One device (WolDevice) and the server's side of its connection: the     *)
(* answers of handle_socket, the orders it forwards and the sweep of       *)
(* doMainFunc (main.cpp), which WolServer has in full, here in seconds.    *)
(* What the device sends may reach the server in two pieces, and late;     *)
(* what the server sends arrives within the second, until the link is cut, *)
(* which swallows everything and tells neither end.                        *)
(***************************************************************************)
EXTENDS WolDevice

CONSTANTS
  IdleLimit,   \* the 10 seconds added to client_info.timestamp
  SweepEvery,  \* the 10 seconds added to timestamp_checktimeout
  RoundMax,    \* seconds a round of the server's loop may take
  WireCap,     \* bound of what is under way when an order is forwarded
  DelayMax     \* bound of the seconds for which something stays under way to the server

ASSUME LinkAssumption ==
  /\ IdleLimit \in Nat /\ SweepEvery \in Nat /\ RoundMax \in Nat /\ WireCap \in Nat
  /\ DelayMax \in Nat
  /\ BeatEvery + 1 + Late <= IdleLimit
  /\ BeatEvery + 1 + Late <= MaxClock   \* the clock runs for 4294 seconds, a beat for 6

VARIABLES
  held,       \* the server has the connection in its table
  known,      \* client_info.esp8266
  age,        \* seconds since client_info.timestamp was refreshed, while held
  sweep_age,  \* seconds since the last sweep
  dead_for,   \* auxiliary: seconds since the link was cut, or was last Silent
  excuse,     \* auxiliary: since the last refresh the device had nothing to say,
              \* or a request of its was dropped unread, came in two pieces or late
  bind_lost,  \* auxiliary: BindIsLost, and no bind was read since
  delay       \* auxiliary: seconds since nothing was under way to the server

sessionVars == <<held, known, age, excuse, bind_lost>>
vars == <<deviceVars, sessionVars, sweep_age, dead_for, delay>>

Afresh == known' = FALSE /\ age' = 0 /\ excuse' = FALSE /\ bind_lost' = FALSE
NoSession == held' = FALSE /\ Afresh

Init ==
  /\ DeviceInit
  /\ held = FALSE /\ known = FALSE /\ age = 0 /\ excuse = FALSE /\ bind_lost = FALSE
  /\ sweep_age = 0 /\ dead_for = 0 /\ delay = 0

\* A delay is over when nothing is under way any more.
DelayFollows == delay' = IF toServer' = << >> THEN 0 ELSE delay

\* accept when the link comes up; recv returns 0 when the device closes it.
\* What the server still holds of a link that was cut, or whose device lost its
\* power, is not followed further.
SessionFollows ==
  \/ link' = "up" /\ link = "none" /\ held' = TRUE /\ Afresh
  \/ link' = "none" /\ link # "none" /\ NoSession
  \/ link' = link /\ UNCHANGED sessionVars

DeviceDoes(A) ==
  /\ A
  /\ SessionFollows
  /\ dead_for' = IF link' = "cut" THEN dead_for ELSE 0
  /\ DelayFollows
  /\ UNCHANGED sweep_age

DeviceStep == DeviceDoes(Device \/ PowerCycle)

-----------------------------------------------------------------------------
(* The server                                                              *)

Requesting == {"bind", "beat"}

\* recv returns n whole messages, and it may be a piece of the one after them: its rest
\* follows.  No message comes in more than two pieces.
Arrives(n, torn) ==
  /\ n \in 0 .. Len(toServer)
  /\ IF torn THEN n < Len(toServer) /\ toServer[n + 1] # "rest" ELSE n > 0
  /\ LET q == IF torn THEN [toServer EXCEPT ![n + 1] = "rest"] ELSE toServer
     IN  toServer' = SubSeq(q, n + 1, Len(toServer))

\* What the parser reads, the first message: a piece of one tells it as little as the rest.
First(n) == IF n = 0 THEN "rest" ELSE toServer[1]

\* What it does not: the messages behind the first, and the one in two pieces.
Unread(n, torn) ==
  {toServer[i] : i \in (IF n = 0 THEN 1 ELSE 2) .. (IF torn THEN n + 1 ELSE n)}

\* A bind is in two pieces, or behind a warning or the rest of something, or it is not
\* read after a delay.
BindIsLost(n, torn) ==
  \/ torn /\ toServer[n + 1] = "bind"
  \/ "bind" \in Unread(n, torn) /\ (First(n) \in {"warn", "rest"} \/ delay > 0)

\* status true, and the entry's timestamp is renewed.
FaultyAnswersTrue == toDevice' = Append(toDevice, "status") /\ UNCHANGED age
AnswersTrue == toDevice' = Append(toDevice, "status") /\ age' = 0

\* handle_socket parses the first message of what has arrived.  A bind or a beat is
\* answered true, a response is not answered, a warning and what does not parse are
\* answered false.
ServesPart(n, torn) ==
  /\ Arrives(n, torn)
  /\ \/ /\ First(n) \in Requesting
        /\ AnswersTrue
        /\ known' = (known \/ First(n) = "bind")
        /\ excuse' = FALSE
        /\ UNCHANGED missed
     \/ /\ First(n) \notin Requesting
        /\ toDevice' =
             IF First(n) = "response" THEN toDevice ELSE Append(toDevice, "refused")
        /\ excuse' = (excuse \/ Unread(n, torn) \cap Requesting # {})
        /\ missed' = (missed \/ Unread(n, torn) \cap Requesting # {})
        /\ UNCHANGED <<known, age>>
  /\ bind_lost' = (First(n) # "bind" /\ (bind_lost \/ BindIsLost(n, torn)))

Serves ==
  /\ held /\ link = "up"
  /\ \E n \in 0 .. Len(toServer), torn \in BOOLEAN : ServesPart(n, torn)
  /\ DelayFollows
  /\ UNCHANGED <<taskVars, clock, wifi, reset, link, held, sweep_age, dead_for>>

\* A client's wol, shutdown or reset is forwarded to the device.
Forwards ==
  /\ held /\ known /\ link \in {"up", "cut"}
  /\ Len(toDevice) + Len(toServer) < WireCap
  /\ \E m \in Orders :
       toDevice' = IF link = "up" THEN Append(toDevice, m) ELSE toDevice
  /\ UNCHANGED <<taskVars, clock, wifi, reset, link, toServer, missed, sessionVars,
                 sweep_age, dead_for, delay>>

\* The server's end is closed; of what it had sent, a RST may overtake it.
ServerCloses ==
  /\ link' = IF link = "up" THEN "closed" ELSE link
  /\ toServer' = << >>
  /\ toDevice' \in {toDevice, << >>}
  /\ delay' = 0
  /\ NoSession

FaultyExpired == held /\ ~known /\ age > IdleLimit
Expired == held /\ age > IdleLimit

Sweeps ==
  /\ sweep_age > SweepEvery
  /\ sweep_age' = 0
  /\ \/ Expired /\ ServerCloses
     \/ ~Expired /\ UNCHANGED <<link, toServer, toDevice, delay, sessionVars>>
  /\ UNCHANGED <<taskVars, clock, wifi, reset, missed, dead_for>>

\* The server is stopped and started again, which starts its sweeps anew.
ServerRestarts ==
  /\ ServerCloses
  /\ sweep_age' = SweepEvery + 1
  /\ UNCHANGED <<taskVars, clock, wifi, reset, missed, dead_for>>

-----------------------------------------------------------------------------
(* The network and the clock                                               *)

Breaks ==
  /\ link' = IF link = "up" THEN "cut" ELSE link
  /\ toServer' = << >>
  /\ toDevice' \in {toDevice, << >>}
  /\ delay' = 0
  /\ UNCHANGED <<taskVars, clock, reset, missed, sessionVars, sweep_age, dead_for>>

Cut == link = "up" /\ Breaks /\ UNCHANGED wifi
WifiDrops == wifi = "joined" /\ wifi' = "joining" /\ Breaks

WifiReturns ==
  /\ wifi = "joining" /\ wifi' = "joined"
  /\ UNCHANGED <<taskVars, clock, reset, wireVars, missed, sessionVars, sweep_age,
                 dead_for, delay>>

\* A bind or a beat is under way.
Asked == \E i \in 1 .. Len(toServer) : toServer[i] \in Requesting

\* No sweep is overdue, and what is under way to the server may stay so for a while.
Tick ==
  /\ DeviceTick
  /\ toServer # << >> => delay < DelayMax
  /\ delay' = IF toServer = << >> THEN 0 ELSE delay + 1
  /\ sweep_age <= SweepEvery + RoundMax
  /\ sweep_age' = sweep_age + 1
  /\ age' = IF held /\ age <= IdleLimit THEN age + 1 ELSE age
  /\ excuse' = (excuse \/ (held /\ (Silent \/ Asked)))
  /\ missed' = (missed \/ Asked)
  /\ dead_for' = IF link = "cut" /\ ~Silent THEN dead_for + 1 ELSE 0
  /\ UNCHANGED <<held, known, bind_lost>>

Server == Serves \/ Forwards \/ Sweeps \/ ServerRestarts
Network == Cut \/ WifiDrops \/ WifiReturns \/ Tick
Next == DeviceStep \/ Server \/ Network

Spec == Init /\ [][Next]_vars

-----------------------------------------------------------------------------
TypeOK ==
  /\ DeviceTypeOK
  /\ held \in BOOLEAN /\ known \in BOOLEAN /\ excuse \in BOOLEAN
  /\ bind_lost \in BOOLEAN /\ delay \in 0 .. DelayMax
  /\ dead_for \in Nat
  /\ age \in 0 .. IdleLimit + 1 /\ sweep_age \in 0 .. SweepEvery + RoundMax + 1

\* response_not_recv and response_lost_count, which are set and cleared apart,
\* never disagree, and the task sends no request on top of MaxLost unanswered
\* ones (user_main.c:424-503, 518-526).
LostCountsSilence == (waiting <=> lost > 0) /\ lost <= MaxLost

\* The device gives a working link up only if something was not read: an answer that
\* followed another message in the same recv, or a request that came in two pieces, or in
\* the same recv as a message before it, or late (user_main.c:428 and 477, main.cpp:143-184).
GiveUpHasACause ==
  [][ link = "up" /\ pc = "send" /\ pc' = "delay" => missed ]_vars

\* The server evicts a device whose link works only if the device had nothing to send,
\* its clock having wrapped, or if a request of its came in two pieces, in the same recv
\* as a message before it, or late (the 6 seconds of user_main.c:439 against the 10 of
\* main.cpp:421).
EvictionHasACause ==
  [][ link = "up" /\ link' = "closed" /\ sweep_age' = 0 => excuse ]_vars

\* A link that is silently cut is given up after MaxLost unanswered requests and
\* a last wait, unless the clock wraps meanwhile and keeps the device from sending
\* anything at all (user_main.c:424-503).
DeadLinkIsNoticed == dead_for <= (MaxLost + 1) * (BeatEvery + 1 + Late)

\* The server has not been sent a bind on this connection, has it still to read, or
\* has lost it in one of the ways of BindIsLost.
BindUnread == bind_at = 0 \/ bind_lost \/ \E i \in DOMAIN toServer : toServer[i] = "bind"

\* A device that has bound can be found by its key as long as its link is up.  Of its
\* messages the server reads only those in front, but a bind that comes whole and in time
\* is never behind a response or a beat: it is lost behind a warning or the rest of
\* something only (user_main.c:424-471, main.cpp:143-192, 214-221).
BindsAreHeard == link = "up" => known \/ BindUnread

\* Nothing is in front of a warning while what the device sends is not delayed: it is sent
\* after a silent second, however the orders and the requests have followed each other, so
\* that only its own coming in two pieces loses it to the parser (user_main.c:583-610,
\* main.cpp:143-192, 366-387).
WarningsAreHeard ==
  link = "up" /\ delay = 0 => \A i \in DOMAIN toServer : toServer[i] = "warn" => i = 1

-----------------------------------------------------------------------------
(* The two tasks of the device and the server's loop run, the access point  *)
(* comes back, time does not stand still, and of infinitely many attempts   *)
(* to connect some succeed.                                                 *)
Fairness ==
  /\ WF_vars(DeviceDoes(Outer \/ Inner)) /\ WF_vars(DeviceDoes(Resets))
  /\ SF_vars(DeviceDoes(Connects)) /\ []<><<Tick>>_vars
  /\ WF_vars(Serves) /\ WF_vars(Sweeps) /\ WF_vars(WifiReturns)

FairSpec == Spec /\ Fairness

\* The silence after the clock has wrapped lasts until the server evicts the
\* device, which then connects anew with targets of zero.
SilenceEnds == Silent /\ link = "up" ~> link # "up"

\* A device without a connection gets one, unless its sockets have leaked away
\* (the continue of user_main.c:387), it was refused its key when it started, or it
\* never stops losing the access point or its power.
Reconnects ==
  \/ []<><<WifiDrops \/ Boots>>_vars
  \/ link = "none" ~> link = "up" \/ leaked = Sockets \/ pc = "ended"
=============================================================================
