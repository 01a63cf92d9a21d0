------------------------------ MODULE WolDevice ------------------------------
(***************************************************************************)
(* The firmware's wol_client_task (smart_config/user/user_main.c): the     *)
(* task that keeps one TCP connection to the server, binds its key, sends  *)
(* a beat every few seconds, counts the answers it misses and carries out  *)
(* the orders it receives.                                                 *)
(*                                                                         *)
(* Time is in whole seconds, as in timestamp_now, and the clock of the     *)
(* chip wraps: system_get_time counts microseconds in 32 bits.  The        *)
(* variables link, toServer and toDevice are what the task shares with the *)
(* server; WolLink has the other end of them.                              *)
(***************************************************************************)
EXTENDS Integers, Sequences

CONSTANTS
  BindEvery,   \* the 60 added to timestamp_send_bind
  BeatEvery,   \* the 6 added to timestamp_send_beat
  MaxClock,    \* last second before system_get_time wraps: 4294
  Late,        \* seconds by which a sleeping task may be woken late
  MaxLost,     \* the 3 compared with response_lost_count
  MaxRetry,    \* the 5 compared with retry_count
  Sockets,     \* sockets the network stack has for this task
  ResetDelay,  \* seconds reset_delay_task waits
  MaxWarn,     \* the 3 compared with io_warn_count
  OtherOrders  \* orders that are not "reset": wol_send, shutdown_send

ASSUME DeviceAssumption ==
  /\ BindEvery \in Nat /\ BeatEvery \in Nat /\ MaxClock \in Nat /\ Late \in Nat
  /\ MaxLost \in Nat \ {0} /\ MaxRetry \in Nat \ {0}
  /\ Sockets \in Nat /\ ResetDelay \in Nat /\ MaxWarn \in Nat \ {0}
  /\ {"status", "refused", "reset"} \cap OtherOrders = {}

VARIABLES
  pc,        \* "top", "send" and "recv" of the two loops, "delay", or "ended"
  elapsed,   \* seconds the task has slept in recv or in vTaskDelay
  clock,     \* system_get_time() / 1000000
  bind_at,   \* timestamp_send_bind
  beat_at,   \* timestamp_send_beat
  waiting,   \* response_not_recv
  lost,      \* response_lost_count
  retry,     \* retry_count
  leaked,    \* sockets opened and never closed
  io_warn_count,
  wifi,      \* the access point: "joined", "joining" or "left"
  reset,     \* seconds left to reset_delay_task, plus one; 0: there is none
  link,      \* "none", "up", "cut" (silently broken) or "closed" by the server
  toServer,  \* "bind", "beat", "response" and "warn" messages on their way, and
             \* the "rest" of one whose first piece has arrived
  toDevice,  \* "status" (true), "refused" (status false) and orders on their way
  missed     \* auxiliary: since the task last counted an answer a request or an
             \* answer was dropped unread, came in two pieces or was delayed

taskVars == <<pc, elapsed, bind_at, beat_at, waiting, lost, retry, leaked, io_warn_count>>
wireVars == <<link, toServer, toDevice>>
deviceVars == <<taskVars, clock, wifi, reset, wireVars, missed>>

Orders == {"reset"} \cup OtherOrders

\* The task ends at once if generateKey is refused the address of the chip.
DeviceInit ==
  /\ pc \in {"top", "ended"} /\ elapsed = 0 /\ clock = 0
  /\ bind_at = 0 /\ beat_at = 0 /\ waiting = FALSE /\ lost = 0
  /\ retry = 0 /\ leaked = 0 /\ io_warn_count = 0 /\ wifi = "joining" /\ reset = 0
  /\ link = "none" /\ toServer = << >> /\ toDevice = << >> /\ missed = FALSE

-----------------------------------------------------------------------------
(* The outer loop: a socket, a name, a connection.  The definitions named   *)
(* Faulty... are the slips the properties are measured against.             *)

\* vTaskDelay(1000) at the end of every turn of the outer loop.
Sleeps == pc' = "delay" /\ elapsed' = 0

\* What a new attempt starts from.
FaultyFreshCounters ==
  /\ UNCHANGED bind_at /\ beat_at' = 0
  /\ waiting' = FALSE /\ lost' = 0 /\ missed' = FALSE
FreshCounters ==
  /\ bind_at' = 0 /\ beat_at' = 0
  /\ waiting' = FALSE /\ lost' = 0 /\ missed' = FALSE

\* No connection of the access point, or socket() fails, or setsockopt does, after
\* which the socket is closed.
CannotTry ==
  /\ pc = "top"
  /\ Sleeps
  /\ UNCHANGED <<bind_at, beat_at, waiting, lost, retry, leaked, io_warn_count, clock, wifi,
                 reset, wireVars, missed>>

\* get_server_ip fails: the socket is not closed on this way out.
DnsFails ==
  /\ pc = "top" /\ wifi = "joined" /\ leaked < Sockets
  /\ leaked' = leaked + 1
  /\ Sleeps
  /\ UNCHANGED <<bind_at, beat_at, waiting, lost, retry, io_warn_count, clock, wifi, reset,
                 wireVars, missed>>

\* After MaxRetry failures the access point is left and joined again.
FaultyConnectFails ==
  /\ pc = "top" /\ wifi = "joined" /\ leaked < Sockets
  /\ FreshCounters
  /\ \/ /\ retry + 1 < MaxRetry
        /\ retry' = retry + 1
        /\ UNCHANGED wifi
     \/ /\ retry + 1 >= MaxRetry
        /\ retry' = 0
        /\ wifi' = "left"
  /\ Sleeps
  /\ UNCHANGED <<leaked, io_warn_count, clock, reset, wireVars>>
ConnectFails ==
  /\ pc = "top" /\ wifi = "joined" /\ leaked < Sockets
  /\ FreshCounters
  /\ \/ /\ retry + 1 < MaxRetry
        /\ retry' = retry + 1
        /\ UNCHANGED wifi
     \/ /\ retry + 1 >= MaxRetry
        /\ retry' = 0
        /\ wifi' = "joining"
  /\ Sleeps
  /\ UNCHANGED <<leaked, io_warn_count, clock, reset, wireVars>>

Connects ==
  /\ pc = "top" /\ wifi = "joined" /\ leaked < Sockets
  /\ FreshCounters
  /\ retry' = 0
  /\ pc' = "send" /\ elapsed' = 0
  /\ link' = "up" /\ toServer' = << >> /\ toDevice' = << >>
  /\ UNCHANGED <<leaked, io_warn_count, clock, wifi, reset>>

Wakes ==
  /\ pc = "delay" /\ elapsed >= 1
  /\ pc' = "top" /\ elapsed' = 0
  /\ UNCHANGED <<bind_at, beat_at, waiting, lost, retry, leaked, io_warn_count, clock, wifi,
                 reset, wireVars, missed>>

\* break and close(sockfd).  Nothing reads the counters before the next attempt
\* zeroes them, so they are zeroed here already.
Disconnects ==
  /\ Sleeps
  /\ FreshCounters
  /\ link' = "none" /\ toServer' = << >> /\ toDevice' = << >>
  /\ UNCHANGED <<retry, leaked, io_warn_count, clock, wifi, reset>>

-----------------------------------------------------------------------------
(* The inner loop: a request if one is due, then recv                      *)

\* A message is taken by send; on a closed link it may be refused.
Sends(m) ==
  \/ toServer' = IF link = "up" THEN Append(toServer, m) ELSE toServer
  \/ link = "closed" /\ UNCHANGED toServer

\* The request counts as unanswered as soon as send has taken it.
FaultyRequests(m) ==
  /\ toServer' = IF link = "up" THEN Append(toServer, m) ELSE toServer
  /\ waiting' = TRUE /\ UNCHANGED lost
Requests(m) ==
  \/ /\ toServer' = IF link = "up" THEN Append(toServer, m) ELSE toServer
     /\ waiting' = TRUE /\ lost' = lost + 1
  \/ link = "closed" /\ UNCHANGED <<toServer, waiting, lost>>

BindDue == bind_at < clock
BeatDue == ~BindDue /\ beat_at < clock

Unanswered == waiting /\ lost >= MaxLost

FaultyGoesOn == pc' = "recv" /\ elapsed' = 1
GoesOn == pc' = "recv" /\ elapsed' = 0

GivesUp ==
  /\ pc = "send" /\ (BindDue \/ BeatDue)
  /\ Unanswered
  /\ Disconnects

Binds ==
  /\ pc = "send" /\ BindDue /\ ~Unanswered
  /\ bind_at' = clock + BindEvery
  /\ beat_at' = clock + BeatEvery
  /\ Requests("bind")
  /\ GoesOn
  /\ UNCHANGED <<retry, leaked, io_warn_count, clock, wifi, reset, link, toDevice, missed>>

Beats ==
  /\ pc = "send" /\ BeatDue /\ ~Unanswered
  /\ beat_at' = clock + BeatEvery
  /\ Requests("beat")
  /\ GoesOn
  /\ UNCHANGED <<bind_at, retry, leaked, io_warn_count, clock, wifi, reset, link, toDevice,
                 missed>>

KeepsQuiet ==
  /\ pc = "send" /\ ~BindDue /\ ~BeatDue
  /\ GoesOn
  /\ UNCHANGED <<bind_at, beat_at, waiting, lost, retry, leaked, io_warn_count, clock, wifi,
                 reset, wireVars, missed>>

GoesRound == pc' = "send" /\ elapsed' = 0

\* recv returns the first n messages; cJSON_Parse reads the first of them.
Reads(n, m) ==
  /\ pc = "recv" /\ n \in 1 .. Len(toDevice)
  /\ m = toDevice[1]
  /\ toDevice' = SubSeq(toDevice, n + 1, Len(toDevice))
  /\ GoesRound
  /\ UNCHANGED <<bind_at, beat_at, retry, leaked, io_warn_count, clock, wifi, link>>

\* A status among the messages i .. n is not looked at.
Overlooked(i, n) == \E j \in i .. n : toDevice[j] = "status"

FaultyRecvStatus(n) ==
  /\ Reads(n, "status")
  /\ waiting' = FALSE
  /\ UNCHANGED <<lost, toServer, reset, missed>>
FaultyRecvStatusIgnored(n) ==
  /\ Reads(n, "status")
  /\ missed' = FALSE
  /\ UNCHANGED <<waiting, lost, toServer, reset>>
RecvStatus(n) ==
  /\ Reads(n, "status")
  /\ waiting' = FALSE
  /\ lost' = IF waiting THEN 0 ELSE lost
  /\ missed' = FALSE
  /\ UNCHANGED <<toServer, reset>>

\* The order is carried out and answered.  A reset starts reset_delay_task.
RecvOrder(n) ==
  \E m \in Orders :
    /\ Reads(n, m)
    /\ Sends("response")
    /\ reset' = IF m = "reset" /\ reset = 0 THEN ResetDelay + 1 ELSE reset
    /\ missed' = (missed \/ Overlooked(2, n))
    /\ UNCHANGED <<waiting, lost>>

\* The first message is a refusal, or arrives in two pieces, neither of which parses.
RecvNothing(n) ==
  /\ \E m \in Orders \cup {"status", "refused"} : Reads(n, m)
  /\ missed' = (missed \/ Overlooked(1, n))
  /\ UNCHANGED <<waiting, lost, toServer, reset>>

\* recv returns 0, or fails with something else than EAGAIN.
RecvEnds ==
  /\ pc = "recv"
  /\ link = "cut" \/ (link = "closed" /\ toDevice = << >>)
  /\ Disconnects

\* Nothing has come for a second: the warning pin (IO_WARN_TO_PINID) is looked at,
\* and low MaxWarn times in a row, be it over several connections, it is reported.
\* A warning is no request that an answer is waited for.
RecvTimesOut ==
  /\ pc = "recv" /\ elapsed >= 1 /\ toDevice = << >>
  /\ \/ io_warn_count' = 0 /\ UNCHANGED toServer
     \/ /\ io_warn_count + 1 < MaxWarn
        /\ io_warn_count' = io_warn_count + 1 /\ UNCHANGED toServer
     \/ /\ io_warn_count + 1 >= MaxWarn
        /\ io_warn_count' = 0 /\ Sends("warn")
  /\ GoesRound
  /\ UNCHANGED <<bind_at, beat_at, waiting, lost, retry, leaked, clock, wifi, reset,
                 link, toDevice, missed>>

-----------------------------------------------------------------------------
(* The chip                                                                *)

\* Everything the task knows is gone, and no FIN is sent.
Boots ==
  /\ pc' \in {"top", "ended"} /\ elapsed' = 0 /\ clock' = 0
  /\ FreshCounters
  /\ retry' = 0 /\ leaked' = 0 /\ io_warn_count' = 0 /\ reset' = 0 /\ wifi' = "joining"
  /\ link' = "none" /\ toServer' = << >> /\ toDevice' = << >>

\* reset_delay_task: system_restore and system_restart.
Resets == reset = 1 /\ Boots

\* The chip is switched off and on.
PowerCycle == Boots

\* A second passes.  The task sleeps no longer than it asked for, plus Late;
\* while it resolves the name and connects, any time may pass.
Asleep ==
  \/ pc \in {"top", "ended"}
  \/ pc = "delay" /\ elapsed <= Late
  \/ pc = "recv" /\ elapsed <= Late /\ toDevice = << >> /\ link # "closed"

DeviceTick ==
  /\ Asleep /\ reset # 1
  /\ clock' = IF clock = MaxClock THEN 0 ELSE clock + 1
  /\ elapsed' = IF pc \in {"top", "ended"} THEN 0 ELSE elapsed + 1
  /\ reset' = IF reset = 0 THEN 0 ELSE reset - 1
  /\ UNCHANGED <<pc, bind_at, beat_at, waiting, lost, retry, leaked, io_warn_count, wifi,
                 wireVars>>

-----------------------------------------------------------------------------
Outer == CannotTry \/ DnsFails \/ ConnectFails \/ Connects \/ Wakes
Inner ==
  \/ GivesUp \/ Binds \/ Beats \/ KeepsQuiet \/ RecvEnds \/ RecvTimesOut
  \/ \E n \in 1 .. Len(toDevice) : RecvStatus(n) \/ RecvOrder(n) \/ RecvNothing(n)
Device == Outer \/ Inner \/ Resets

DeviceTypeOK ==
  /\ pc \in {"top", "delay", "send", "recv", "ended"}
  /\ elapsed \in Nat /\ clock \in 0 .. MaxClock
  /\ bind_at \in Nat /\ beat_at \in Nat
  /\ waiting \in BOOLEAN /\ lost \in 0 .. MaxLost
  /\ retry \in 0 .. MaxRetry - 1 /\ leaked \in 0 .. Sockets
  /\ io_warn_count \in 0 .. MaxWarn - 1
  /\ wifi \in {"joined", "joining", "left"} /\ reset \in 0 .. ResetDelay + 1
  /\ link \in {"none", "up", "cut", "closed"}
  /\ toServer \in Seq({"bind", "beat", "response", "warn", "rest"})
  /\ toDevice \in Seq(Orders \cup {"status", "refused"})
  /\ missed \in BOOLEAN

\* No request falls due before the clock wraps, nor within a beat's time: the
\* targets were set shortly before the clock wrapped and lie beyond it.
Silent ==
  /\ pc \in {"send", "recv"}
  /\ \A c \in clock .. MaxClock :
       c <= clock + BeatEvery + 1 => bind_at >= c /\ beat_at >= c
=============================================================================
