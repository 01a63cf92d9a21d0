----------------------------- MODULE DeviceBoot -----------------------------
(***************************************************************************)
(* The firmware around wol_client_task (smart_config/user/user_main.c):    *)
(* user_init, the Wi-Fi events, smartconfig, the button that restores the  *)
(* factory state, the LED, and the pointer global_flag through which the   *)
(* client task tells the LED whether it has a session.  The board has the  *)
(* pins IO_LED_TO_PINID and IO_RESET_TO_PINID.                             *)
(*                                                                         *)
(* Tasks of one priority share the processor, the Wi-Fi events preempt     *)
(* them: a turn of a task between two delays is an action, and so is each  *)
(* part of the event handler that publishes something.                     *)
(***************************************************************************)
EXTENDS Naturals

CONSTANTS
  HoldSamples,  \* the 30 of button_task: samples, 100 ms apart, until a reset
  BlinkTurns,   \* the 8 of led_task: turns between two changes of the light
  BlinkLit,     \* the 6 from which it counts when the light is on
  Announces     \* the 10 broadcasts of send_key_task

ASSUME BootAssumption ==
  /\ HoldSamples \in Nat \ {0} /\ Announces \in Nat
  /\ BlinkTurns \in Nat \ {0} /\ BlinkLit \in 0 .. BlinkTurns - 1

VARIABLES
  flash,        \* stored access point: "none", "right" or "wrong"
  station,      \* the Wi-Fi station: "down", "joined" or "online" (has an IP)
  smart,        \* smartconfig: "off", "created", "listening" or "linking"
  global_flag,  \* "NULL", "junk" (allocated, not yet set), "0" or "1"
  task_client_enable,
  clients,      \* wol_client_task instances that run
  announce,     \* broadcasts send_key_task has still to make
  session,      \* wol_client_task is in its inner loop
  resetting,    \* reset_delay_task runs
  restored,     \* system_restore has returned, system_restart is to follow
  pressed,      \* the button
  count_btn,
  lit,          \* the LED
  count_led,
  tasks,        \* those of button_task and led_task that user_init has created
  starved       \* auxiliary: malloc or xTaskCreate has failed since the boot

taskVars == <<task_client_enable, clients, announce, session>>
inputVars == <<pressed, count_btn, resetting, restored>>
ledVars == <<lit, count_led, tasks>>
vars == <<flash, station, smart, global_flag, taskVars, inputVars, ledVars,
          starved>>

Lasting == {"button_task", "led_task"}

\* *global_flag = v, unless there is nothing to write to.
SetFlag(v) == global_flag' = IF global_flag = "NULL" THEN "NULL" ELSE v

\* What user_init makes of what is stored in the flash: a flag, or the task that
\* starts smartconfig.  Each task is created and the flag allocated if there is
\* memory, and nothing is said if there is none.
Booted(stored, config, flag, made, failed) ==
  /\ IF stored = "none" THEN flag = "NULL" ELSE config = "off"
  /\ failed = \/ made # Lasting
              \/ stored = "none" /\ config = "off"
              \/ stored # "none" /\ flag = "NULL"

\* user_init runs before the first task and the first event.
Init ==
  /\ flash \in {"none", "right", "wrong"} /\ station = "down"
  /\ smart \in {"off", "created"} /\ global_flag \in {"NULL", "0"}
  /\ tasks \in SUBSET Lasting /\ starved \in BOOLEAN
  /\ Booted(flash, smart, global_flag, tasks, starved)
  /\ task_client_enable = FALSE /\ clients = 0 /\ announce = 0 /\ session = FALSE
  /\ resetting = FALSE /\ restored = FALSE /\ pressed = FALSE /\ count_btn = 0
  /\ lit = TRUE /\ count_led = BlinkLit

\* The same after a restart or a power cycle; the heap and the stacks are gone.
Boots ==
  /\ UNCHANGED <<flash, pressed>>
  /\ station' = "down"
  /\ smart' \in {"off", "created"} /\ global_flag' \in {"NULL", "0"}
  /\ tasks' \in SUBSET Lasting /\ starved' \in BOOLEAN
  /\ Booted(flash, smart', global_flag', tasks', starved')
  /\ task_client_enable' = FALSE /\ clients' = 0 /\ announce' = 0 /\ session' = FALSE
  /\ resetting' = FALSE /\ restored' = FALSE
  /\ count_btn' = 0 /\ lit' = TRUE /\ count_led' = BlinkLit

-----------------------------------------------------------------------------
(* wifi_event_callback                                                     *)

\* The SDK joins with what is stored, on its own and for wifi_station_connect.
\* The handler of EVENT_STAMODE_CONNECTED publishes the pointer it got from
\* malloc ...
Connected ==
  /\ station = "down" /\ flash = "right" /\ global_flag # "junk"
  /\ station' = "joined"
  /\ \/ global_flag # "NULL" /\ UNCHANGED <<global_flag, starved>>
     \/ global_flag = "NULL" /\ global_flag' = "junk" /\ UNCHANGED starved
     \/ global_flag = "NULL" /\ starved' = TRUE /\ UNCHANGED global_flag
  /\ UNCHANGED <<flash, smart, taskVars, inputVars, ledVars>>

\* ... and then clears what it points to.
ConnectedClears ==
  /\ global_flag = "junk"
  /\ SetFlag("0")
  /\ UNCHANGED <<flash, station, smart, taskVars, inputVars, ledVars, starved>>

\* The definitions named Faulty... are slips for the properties to find.

\* EVENT_STAMODE_GOT_IP: the first one creates the tasks, if there is memory.
FaultyGotIp ==
  /\ station = "joined" /\ global_flag # "junk"
  /\ station' = "online"
  /\ clients' = clients + 1 /\ announce' = Announces
  /\ UNCHANGED <<flash, smart, global_flag, session, task_client_enable, inputVars,
                 ledVars, starved>>
GotIp ==
  /\ station = "joined" /\ global_flag # "junk"
  /\ station' = "online"
  /\ task_client_enable' = TRUE
  /\ \/ task_client_enable /\ UNCHANGED <<clients, announce, starved>>
     \/ /\ ~task_client_enable
        /\ announce' \in {0, Announces}
        /\ clients' \in {clients, clients + 1}
        /\ starved' = (starved \/ announce' = 0 \/ clients' = clients)
  /\ UNCHANGED <<flash, smart, global_flag, session, inputVars, ledVars>>

\* EVENT_STAMODE_DISCONNECTED, after wifi_station_disconnect of wol_client_task
\* or a loss of the access point, is only logged.
FaultyDisconnected ==
  /\ station # "down" /\ global_flag # "junk"
  /\ station' = "down" /\ clients' = 0 /\ session' = FALSE
  /\ UNCHANGED <<flash, smart, global_flag, task_client_enable, announce, inputVars,
                 ledVars, starved>>
Disconnected ==
  /\ station # "down" /\ global_flag # "junk"
  /\ station' = "down"
  /\ UNCHANGED <<flash, smart, global_flag, taskVars, inputVars, ledVars, starved>>

-----------------------------------------------------------------------------
(* smartconfig_task and smartconfig_callback                               *)

SmartStarts ==
  /\ smart = "created" /\ smart' = "listening"
  /\ UNCHANGED <<flash, station, global_flag, taskVars, inputVars, ledVars,
                 starved>>

\* SC_STATUS_LINK: what the phone has sent is stored and joined, before anybody
\* knows whether the password is right.
FaultySmartLink ==
  /\ smart \in {"listening", "linking"} /\ smart' = "off"
  /\ flash' \in {"right", "wrong"}
  /\ station' = "down"
  /\ UNCHANGED <<global_flag, taskVars, inputVars, ledVars, starved>>
SmartLink ==
  /\ smart \in {"listening", "linking"} /\ smart' = "linking"
  /\ flash' \in {"right", "wrong"}
  /\ station' = "down"
  /\ UNCHANGED <<global_flag, taskVars, inputVars, ledVars, starved>>

\* SC_STATUS_LINK_OVER: the phone has heard of the device's address.
SmartLinkOver ==
  /\ smart = "linking" /\ station = "online" /\ smart' = "off"
  /\ UNCHANGED <<flash, station, global_flag, taskVars, inputVars, ledVars,
                 starved>>

-----------------------------------------------------------------------------
(* wol_client_task and send_key_task                                       *)

SessionStarts ==
  /\ clients > 0 /\ ~session /\ station = "online"
  /\ session' = TRUE /\ SetFlag("1")
  /\ UNCHANGED <<flash, station, smart, task_client_enable, clients, announce,
                 inputVars, ledVars, starved>>

FaultySessionEnds ==
  /\ session
  /\ session' = FALSE /\ UNCHANGED global_flag
  /\ UNCHANGED <<flash, station, smart, task_client_enable, clients, announce,
                 inputVars, ledVars, starved>>
SessionEnds ==
  /\ session
  /\ session' = FALSE /\ SetFlag("0")
  /\ UNCHANGED <<flash, station, smart, task_client_enable, clients, announce,
                 inputVars, ledVars, starved>>

AnnouncesKey ==
  /\ announce > 0 /\ announce' = announce - 1
  /\ UNCHANGED <<flash, station, smart, global_flag, task_client_enable, clients,
                 session, inputVars, ledVars, starved>>

\* The order "reset" of the server, answered before the device resets.
ResetOrdered ==
  /\ session /\ resetting' = TRUE
  /\ UNCHANGED <<flash, station, smart, global_flag, taskVars, pressed, count_btn,
                 restored, ledVars, starved>>

-----------------------------------------------------------------------------
(* button_task, reset_delay_task and led_task                              *)

\* A sample of the button, and system_restore after the last of them.
FaultySample ==
  /\ "button_task" \in tasks /\ count_btn < HoldSamples
  /\ count_btn' = IF pressed THEN 1 ELSE 0
  /\ IF count_btn' >= HoldSamples
     THEN flash' = "none" /\ restored' = TRUE
     ELSE UNCHANGED <<flash, restored>>
  /\ UNCHANGED <<station, smart, global_flag, taskVars, pressed, resetting, ledVars,
                 starved>>
Sample ==
  /\ "button_task" \in tasks /\ count_btn < HoldSamples
  /\ count_btn' = IF pressed THEN count_btn + 1 ELSE 0
  /\ IF count_btn' >= HoldSamples
     THEN flash' = "none" /\ restored' = TRUE
     ELSE UNCHANGED <<flash, restored>>
  /\ UNCHANGED <<station, smart, global_flag, taskVars, pressed, resetting, ledVars,
                 starved>>

ResetDelayed ==
  /\ resetting
  /\ flash' = "none" /\ restored' = TRUE /\ resetting' = FALSE
  /\ UNCHANGED <<station, smart, global_flag, taskVars, pressed, count_btn,
                 ledVars, starved>>

\* system_restart.  A phone's SC_STATUS_LINK may have come in between.
Restarts == restored /\ Boots

\* No flag: the light changes at every turn, 50 ms apart.
LedFast ==
  /\ "led_task" \in tasks /\ global_flag = "NULL"
  /\ lit' = ~lit /\ UNCHANGED <<count_led, tasks>>
  /\ UNCHANGED <<flash, station, smart, global_flag, taskVars, inputVars, starved>>

\* Flag 0: the turns, 100 ms apart, are counted.
LedSlow ==
  /\ "led_task" \in tasks /\ global_flag \in {"0", "junk"}
  /\ \/ /\ (count_led + 1) % BlinkTurns # 0
        /\ count_led' = count_led + 1 /\ UNCHANGED lit
     \/ /\ (count_led + 1) % BlinkTurns = 0
        /\ lit' = ~lit
        /\ count_led' = IF lit THEN 0 ELSE BlinkLit
  /\ UNCHANGED <<flash, station, smart, global_flag, taskVars, inputVars, tasks,
                 starved>>

\* Flag 1: the light stays on; the task does not even sleep.
FaultyLedSteady ==
  /\ "led_task" \in tasks /\ global_flag \in {"1", "junk"}
  /\ UNCHANGED vars
LedSteady ==
  /\ "led_task" \in tasks /\ global_flag \in {"1", "junk"}
  /\ lit' = TRUE /\ UNCHANGED <<count_led, tasks>>
  /\ UNCHANGED <<flash, station, smart, global_flag, taskVars, inputVars, starved>>

-----------------------------------------------------------------------------
(* The user and the mains                                                  *)

Press ==
  /\ pressed' = ~pressed
  /\ UNCHANGED <<flash, station, smart, global_flag, taskVars, count_btn, resetting,
                 restored, ledVars, starved>>

PowerCycle == Boots

Events == Connected \/ ConnectedClears \/ GotIp \/ Disconnected
Smartconfig == SmartStarts \/ SmartLink \/ SmartLinkOver
Tasks ==
  \/ SessionStarts \/ SessionEnds \/ AnnouncesKey \/ ResetOrdered
  \/ Sample \/ ResetDelayed \/ Restarts
Led == LedFast \/ LedSlow \/ LedSteady
Next == Events \/ Smartconfig \/ Tasks \/ Led \/ Press \/ PowerCycle

Spec == Init /\ [][Next]_vars

\* The tasks run, and an access point that is in reach is joined in the end.
Fairness ==
  /\ WF_vars(Sample) /\ WF_vars(ResetDelayed) /\ WF_vars(Restarts)
  /\ WF_vars(Led) /\ WF_vars(SessionStarts)
  /\ WF_vars(Connected) /\ WF_vars(ConnectedClears) /\ SF_vars(GotIp)
FairSpec == Spec /\ Fairness

-----------------------------------------------------------------------------
\* Every variable has its type; the count of the blinking never passes its turn,
\* and the button's stops at the reset.
TypeOK ==
  /\ flash \in {"none", "right", "wrong"} /\ station \in {"down", "joined", "online"}
  /\ smart \in {"off", "created", "listening", "linking"}
  /\ global_flag \in {"NULL", "junk", "0", "1"}
  /\ clients \in Nat /\ announce \in 0 .. Announces
  /\ task_client_enable \in BOOLEAN /\ session \in BOOLEAN /\ starved \in BOOLEAN
  /\ resetting \in BOOLEAN /\ restored \in BOOLEAN /\ pressed \in BOOLEAN
  /\ lit \in BOOLEAN /\ tasks \subseteq Lasting
  /\ count_btn \in 0 .. HoldSamples /\ count_led \in 0 .. BlinkTurns - 1

\* However often the address is lost and found again, there is one client task:
\* two would bind the same key on two connections (user_main.c:902-908).
OneClient == clients <= 1

\* The flag tells led_task the truth, however callbacks and tasks have left what they
\* all write through: without one, which makes the light ask for an access point,
\* smartconfig is there to be told of one; it is 1 exactly while the client task has
\* a session.  But for two cases: memory has run out since the boot, so that flag or
\* smartconfig may be missing; or the device joins for the first time, and the event
\* handler, which publishes the flag before it sets it, is between the two
\* (user_main.c:415-418, 617-620, 791-803, 884-892, 1024-1036).
LedTellsTheTruth ==
  \/ starved
  \/ global_flag = "junk" /\ clients = 0
  \/ /\ global_flag = "NULL" => smart # "off" /\ ~session
     /\ global_flag = "0" => ~session
     /\ global_flag = "1" => session

\* And the light does what it is told: while a session lasts it comes to shine
\* without a break, and while there is none it goes out again and again
\* (user_main.c:702-764).
LightFollowsSession ==
  LET Told == "led_task" \in tasks /\ ~starved IN
  \/ []<><<Boots>>_vars
  \/ /\ <>[](Told /\ session) => <>[]lit
     /\ <>[](Told /\ ~session) => []<>~lit

\* Who holds the button long enough gets rid of what is stored, whatever state the
\* device is in, once button_task has seen it pressed (user_main.c:829-853).
HoldingRestores == count_btn > 0 ~> restored \/ ~pressed \/ count_btn = 0

\* Once the right password is stored, the client task comes to run, unless memory
\* runs out, for the tasks are created only once, or the password is replaced or
\* the device is switched off again and again.
ClientRuns ==
  \/ []<><<Boots>>_vars
  \/ flash = "right" ~> clients > 0 \/ starved \/ flash # "right"
=============================================================================
