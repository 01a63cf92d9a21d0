----------------------------- MODULE ServerStart -----------------------------
(***************************************************************************)
(* The life of the server's processes around the loop that WolServer       *)
(* models: run.sh starts one, waits for its end and starts the next;       *)
(* somebody may start others by hand, in the foreground or as daemons, on  *)
(* the same port or another.  A process reads its options (main), leaves   *)
(* its parents (deamon_create), takes what it needs (doMainFunc,           *)
(* listen_on), loops, and gives everything back.                           *)
(*                                                                         *)
(* Calls fail for want of something and processes are killed, MaxMishaps   *)
(* times in all; bind and listen fail when a port is taken, and only then. *)
(***************************************************************************)
EXTENDS Integers

CONSTANTS
  Shells,      \* instances of run.sh
  Hands,       \* those who start a server by hand, one each at a time
  NProcs,      \* bound of the process table
  Top,         \* the highest descriptor number
  RunPort,     \* run.sh: -p 4000
  Numbers,     \* what -p is followed by; 50173 stands for no -p at all
  Legacies,    \* the descriptors a server started by hand may find open
  MaxMishaps,
  Nobody, NoFd

Procs == 1 .. NProcs
Fds == 0 .. Top
Streams == 0 .. 2
PortRange == 65536   \* unsigned short

ASSUME StartAssumption ==
  /\ NProcs \in Nat /\ Top \in Nat /\ Top >= 2 /\ MaxMishaps \in Nat
  /\ RunPort \in 1 .. PortRange - 1 /\ Numbers \subseteq Nat
  /\ Legacies \subseteq SUBSET Fds
  /\ Shells \cap Hands = {} /\ Nobody \notin Shells \cup Hands
  /\ NoFd \notin Fds

VARIABLES
  at,          \* what the process does next, "none" when there is no such process
  origin,      \* who started it, or the parent it was forked from
  port,        \* the local variable of main
  listen_fd, m_fd, exit_flag,
  table,       \* client_list is allocated
  files,       \* the kernel's descriptor table of the process
  sock,        \* the state of its listening socket
  reuse,       \* SO_REUSEADDR is set on it
  lingering,   \* ports with connections in TIME_WAIT
  shell,       \* what run.sh does
  luck         \* mishaps left

progVars == <<port, listen_fd, m_fd, exit_flag, table>>
sockVars == <<sock, reuse, lingering>>
vars == <<at, origin, progVars, files, sockVars, shell, luck>>

\* Where a process can be: before doMainFunc, in it, and about to return from main.
Starting == {"options", "fork", "fork again", "streams"}
TakingUp == {"signals", "epoll", "table", "socket", "option", "bind", "listen",
             "register"}
GivingUp == {"close", "delete"}
InMain == TakingUp \cup {"loop"} \cup GivingUp

HasClients(p) == \E n \in Fds : files[p][n] = "client"
Bound(p) == sock[p] \in {"bound", "listening"}
Serving(p) == at[p] = "loop" /\ ~exit_flag[p] /\ sock[p] = "listening"

Init ==
  /\ at = [p \in Procs |-> "none"] /\ origin = [p \in Procs |-> Nobody]
  /\ port = [p \in Procs |-> 0] /\ exit_flag = [p \in Procs |-> FALSE]
  /\ table = [p \in Procs |-> FALSE]
  /\ listen_fd = [p \in Procs |-> NoFd] /\ m_fd = [p \in Procs |-> NoFd]
  /\ files = [p \in Procs |-> [n \in Fds |-> "free"]]
  /\ sock = [p \in Procs |-> "none"] /\ reuse = [p \in Procs |-> FALSE]
  /\ lingering = {} /\ luck = MaxMishaps
  /\ shell = [s \in Shells |-> "start"]

-----------------------------------------------------------------------------
(* The kernel                                                              *)

Lowest(n, S) == n \in S /\ \A m \in S : n <= m
Free(p) == {n \in Fds : files[p][n] = "free"}
Idle == {p \in Procs : at[p] = "none"}

Goes(p, stage) == at' = [at EXCEPT ![p] = stage]
Mishap == luck > 0 /\ luck' = luck - 1

\* Connections the process has accepted may linger when it closes them.
Lingers(p) ==
  LET left == IF HasClients(p) THEN {port[p]} ELSE {}
  IN \E ports \in SUBSET left : lingering' = lingering \cup ports

\* What the kernel takes back from a process that ends.
Ends(p) ==
  /\ Goes(p, "none")
  /\ origin' = [origin EXCEPT ![p] = Nobody]
  /\ port' = [port EXCEPT ![p] = 0]
  /\ listen_fd' = [listen_fd EXCEPT ![p] = NoFd]
  /\ m_fd' = [m_fd EXCEPT ![p] = NoFd]
  /\ exit_flag' = [exit_flag EXCEPT ![p] = FALSE]
  /\ table' = [table EXCEPT ![p] = FALSE]
  /\ files' = [files EXCEPT ![p] = [n \in Fds |-> "free"]]
  /\ sock' = [sock EXCEPT ![p] = "none"]
  /\ reuse' = [reuse EXCEPT ![p] = FALSE]
  /\ Lingers(p)

\* bind: two sockets that both allow it may be bound to a port, as long as
\* none of them listens; connections, those in TIME_WAIT too, are in the way of
\* a socket that does not.
Bindable(p) ==
  /\ \A q \in Procs \ {p} : Bound(q) /\ port[q] = port[p] =>
       sock[q] = "bound" /\ reuse[q] /\ reuse[p]
  /\ port[p] \in lingering => reuse[p]
  /\ \A q \in Procs \ {p} : HasClients(q) /\ port[q] = port[p] => reuse[p]

Listenable(p) ==
  \A q \in Procs \ {p} : port[q] = port[p] => sock[q] # "listening"

-----------------------------------------------------------------------------
(* Those who start servers                                                 *)

Starts(p, s, open) ==
  /\ Lowest(p, Idle)
  /\ Goes(p, "options")
  /\ origin' = [origin EXCEPT ![p] = s]
  /\ files' = [files EXCEPT ![p] =
                 [n \in Fds |-> IF n \in open THEN "inherited" ELSE "free"]]
  /\ UNCHANGED <<progVars, sockVars, luck>>

\* while [ -x wol_server ]; do wol_server -f -p 4000 -w 5000; sleep 1; done
ShellStarts(s) ==
  /\ shell[s] = "start"
  /\ shell' = [shell EXCEPT ![s] = "wait"]
  /\ \E p \in Procs : Starts(p, s, Streams)

ShellWaits(s) ==
  /\ shell[s] = "wait" /\ \A p \in Procs : origin[p] # s
  /\ shell' = [shell EXCEPT ![s] = "sleep"]
  /\ UNCHANGED <<at, origin, progVars, files, sockVars, luck>>

ShellSleeps(s) ==
  /\ shell[s] = "sleep"
  /\ shell' = [shell EXCEPT ![s] = "start"]
  /\ UNCHANGED <<at, origin, progVars, files, sockVars, luck>>

HandStarts(h) ==
  /\ \A p \in Procs : origin[p] # h
  /\ \E p \in Procs, open \in Legacies : Starts(p, h, open)
  /\ UNCHANGED shell

-----------------------------------------------------------------------------
(* main and deamon_create.  The definitions named Faulty... are slips for   *)
(* the properties to find.                                                  *)

\* The cast comes before the comparison with 0.
PortOf(n) == {n % PortRange} \ {0}

\* Options nobody knows, or a port 0: main returns.  In the foreground the
\* process keeps the streams it was given.
Options(p) ==
  /\ at[p] = "options"
  /\ \/ \E n \in IF origin[p] \in Shells THEN {RunPort} ELSE Numbers,
           foreground \in BOOLEAN :
          /\ origin[p] \in Shells => foreground
          /\ foreground => Streams \cap Free(p) = {}
          /\ \/ /\ PortOf(n) = {} /\ Goes(p, "return") /\ UNCHANGED port
             \/ \E k \in PortOf(n) :
                  /\ port' = [port EXCEPT ![p] = k]
                  /\ Goes(p, IF foreground THEN "signals" ELSE "fork")
     \/ /\ origin[p] \in Hands
        /\ Goes(p, "return") /\ UNCHANGED port
  /\ UNCHANGED <<origin, listen_fd, m_fd, exit_flag, table, files, sockVars, shell, luck>>

Heir(p, q, stage) ==
  /\ at' = [at EXCEPT ![p] = "return", ![q] = stage]
  /\ origin' = [origin EXCEPT ![q] = origin[p]]
  /\ port' = [port EXCEPT ![q] = port[p]]
  /\ files' = [files EXCEPT ![q] = files[p]]
  /\ UNCHANGED <<listen_fd, m_fd, exit_flag, table, sockVars, shell>>

\* fork: the parent returns, as it does when there is no child.
FaultyFork(p) ==
  \E stage \in {"fork again", "streams"}, q \in Procs :
    /\ at[p] = IF stage = "streams" THEN "fork again" ELSE "fork"
    /\ Lowest(q, Idle)
    /\ at' = [at EXCEPT ![p] = stage, ![q] = stage]
    /\ origin' = [origin EXCEPT ![q] = origin[p]]
    /\ port' = [port EXCEPT ![q] = port[p]]
    /\ files' = [files EXCEPT ![q] = files[p]]
    /\ UNCHANGED <<listen_fd, m_fd, exit_flag, table, sockVars, shell, luck>>
Fork(p) ==
  \E stage \in {"fork again", "streams"} :
    /\ at[p] = IF stage = "streams" THEN "fork again" ELSE "fork"
    /\ \/ /\ \E q \in Procs : Lowest(q, Idle) /\ Heir(p, q, stage)
          /\ UNCHANGED luck
       \/ /\ Mishap /\ Goes(p, "return")
          /\ UNCHANGED <<origin, progVars, files, sockVars, shell>>

\* Everything is closed, then /dev/null is opened three times.  A call that
\* fails leaves some of the three numbers unused.
NullStreams == [n \in Fds |-> IF n \in Streams THEN "null" ELSE "free"]
FaultyOpenStreams(p) ==
  /\ at[p] = "streams"
  /\ \/ /\ files' = [files EXCEPT ![p] = NullStreams]
        /\ UNCHANGED luck
     \/ /\ Mishap
        /\ \E few \in 0 .. 2 : files' = [files EXCEPT ![p] =
             [n \in Fds |-> IF n < few THEN "null" ELSE "free"]]
  /\ Goes(p, "signals")
  /\ UNCHANGED <<origin, progVars, sockVars, shell>>
OpenStreams(p) ==
  /\ at[p] = "streams"
  /\ \/ /\ files' = [files EXCEPT ![p] = NullStreams]
        /\ Goes(p, "signals")
        /\ UNCHANGED luck
     \/ /\ Mishap
        /\ \E few \in 0 .. 2 : files' = [files EXCEPT ![p] =
             [n \in Fds |-> IF n < few THEN "null" ELSE "free"]]
        /\ Goes(p, "return")
  /\ UNCHANGED <<origin, progVars, sockVars, shell>>

Returns(p) ==
  /\ at[p] = "return"
  /\ Ends(p)
  /\ UNCHANGED <<shell, luck>>

-----------------------------------------------------------------------------
(* doMainFunc                                                              *)

InstallHandlers(p) ==
  /\ at[p] = "signals"
  /\ Goes(p, "epoll")
  /\ UNCHANGED <<origin, progVars, files, sockVars, shell, luck>>

\* Lib_Epoll::getObject: without its two parts there is no object.
GetEpoll(p) ==
  /\ at[p] = "epoll"
  /\ \/ /\ \E n \in Fds :
             /\ Lowest(n, Free(p))
             /\ files' = [files EXCEPT ![p][n] = "epoll"]
             /\ m_fd' = [m_fd EXCEPT ![p] = n]
        /\ Goes(p, "table")
        /\ UNCHANGED luck
     \/ /\ Mishap /\ Goes(p, "return")
        /\ UNCHANGED <<files, m_fd>>
  /\ UNCHANGED <<origin, port, listen_fd, exit_flag, table, sockVars, shell>>

\* client_list, which nothing frees.
AllocTable(p) ==
  /\ at[p] = "table"
  /\ \/ table' = [table EXCEPT ![p] = TRUE] /\ Goes(p, "socket") /\ UNCHANGED luck
     \/ UNCHANGED table /\ Goes(p, "delete") /\ Mishap
  /\ UNCHANGED <<origin, port, listen_fd, m_fd, exit_flag, files, sockVars, shell>>

OpenSocket(p) ==
  /\ at[p] = "socket"
  /\ \/ /\ \E n \in Fds :
             /\ Lowest(n, Free(p))
             /\ files' = [files EXCEPT ![p][n] = "socket"]
             /\ listen_fd' = [listen_fd EXCEPT ![p] = n]
        /\ sock' = [sock EXCEPT ![p] = "open"]
        /\ Goes(p, "option")
        /\ UNCHANGED luck
     \/ /\ Mishap /\ Goes(p, "delete")
        /\ UNCHANGED <<files, listen_fd, sock>>
  /\ UNCHANGED <<origin, port, m_fd, exit_flag, table, reuse, lingering, shell>>

\* close(listen_fd), at the end of listen_on and of doMainFunc.
FaultyCloses(p) ==
  /\ Goes(p, "delete")
  /\ IF at[p] = "close"
     THEN files' = [files EXCEPT ![p] = [n \in Fds |->
                      IF n = listen_fd[p] THEN "free" ELSE files[p][n]]]
     ELSE UNCHANGED files
  /\ listen_fd' = [listen_fd EXCEPT ![p] = NoFd]
  /\ sock' = [sock EXCEPT ![p] = "none"]
  /\ reuse' = [reuse EXCEPT ![p] = FALSE]
  /\ UNCHANGED <<origin, port, m_fd, exit_flag, table, lingering, shell>>
Closes(p) ==
  /\ Goes(p, "delete")
  /\ files' = [files EXCEPT ![p] = [n \in Fds |->
                 IF n = listen_fd[p] THEN "free" ELSE files[p][n]]]
  /\ listen_fd' = [listen_fd EXCEPT ![p] = NoFd]
  /\ sock' = [sock EXCEPT ![p] = "none"]
  /\ reuse' = [reuse EXCEPT ![p] = FALSE]
  /\ UNCHANGED <<origin, port, m_fd, exit_flag, table, lingering, shell>>

FaultySetReuse(p) ==
  /\ at[p] = "option"
  /\ Goes(p, "bind")
  /\ UNCHANGED <<origin, progVars, files, sockVars, shell, luck>>
SetReuse(p) ==
  /\ at[p] = "option"
  /\ \/ /\ reuse' = [reuse EXCEPT ![p] = TRUE]
        /\ Goes(p, "bind")
        /\ UNCHANGED <<origin, progVars, files, sock, lingering, shell, luck>>
     \/ Mishap /\ Closes(p)

Bind(p) ==
  /\ at[p] = "bind"
  /\ \/ /\ Bindable(p)
        /\ sock' = [sock EXCEPT ![p] = "bound"]
        /\ Goes(p, "listen")
        /\ UNCHANGED <<origin, progVars, files, reuse, lingering, shell, luck>>
     \/ /\ ~Bindable(p)
        /\ Closes(p) /\ UNCHANGED luck

\* Another process may have got as far between bind and listen.
FaultyListen(p) ==
  /\ at[p] = "listen"
  /\ Goes(p, "register")
  /\ sock' = IF Listenable(p) THEN [sock EXCEPT ![p] = "listening"] ELSE sock
  /\ UNCHANGED <<origin, progVars, files, reuse, lingering, shell, luck>>
Listen(p) ==
  /\ at[p] = "listen"
  /\ \/ /\ Listenable(p)
        /\ sock' = [sock EXCEPT ![p] = "listening"]
        /\ Goes(p, "register")
        /\ UNCHANGED <<origin, progVars, files, reuse, lingering, shell, luck>>
     \/ /\ ~Listenable(p)
        /\ Closes(p) /\ UNCHANGED luck

Register(p) ==
  /\ at[p] = "register"
  /\ \/ Goes(p, "loop") /\ UNCHANGED luck
     \/ Goes(p, "close") /\ Mishap
  /\ UNCHANGED <<origin, progVars, files, sockVars, shell>>

\* The loop is WolServer's; here it opens and closes clients.
LoopAccepts(p) ==
  /\ at[p] = "loop"
  /\ \E n \in Fds :
       /\ Lowest(n, Free(p))
       /\ files' = [files EXCEPT ![p][n] = "client"]
  /\ UNCHANGED <<at, origin, progVars, sockVars, shell, luck>>

LoopCloses(p) ==
  /\ at[p] = "loop"
  /\ \E n \in Fds :
       /\ files[p][n] = "client"
       /\ files' = [files EXCEPT ![p][n] = "free"]
  /\ Lingers(p)
  /\ UNCHANGED <<at, origin, progVars, sock, reuse, shell, luck>>

\* The clients there are stay open, and so does their table.
LoopEnds(p) ==
  /\ at[p] = "loop" /\ exit_flag[p]
  /\ Goes(p, "close")
  /\ UNCHANGED <<origin, progVars, files, sockVars, shell, luck>>

CloseListener(p) ==
  /\ at[p] = "close"
  /\ Closes(p) /\ UNCHANGED luck

DeleteEpoll(p) ==
  /\ at[p] = "delete"
  /\ Goes(p, "return")
  /\ files' = [files EXCEPT ![p] = [n \in Fds |->
                 IF n = m_fd[p] THEN "free" ELSE files[p][n]]]
  /\ m_fd' = [m_fd EXCEPT ![p] = NoFd]
  /\ UNCHANGED <<origin, port, listen_fd, exit_flag, table, sockVars, shell, luck>>

-----------------------------------------------------------------------------
(* Signals                                                                 *)

Handled(p) == at[p] \in InMain \ {"signals"}

\* SIGINT, SIGQUIT or SIGTERM once they are handled.
Signal(p) ==
  /\ Handled(p) /\ ~exit_flag[p]
  /\ Mishap
  /\ exit_flag' = [exit_flag EXCEPT ![p] = TRUE]
  /\ UNCHANGED <<at, origin, port, listen_fd, m_fd, table, files, sockVars, shell>>

\* One of them before, SIGKILL, or a crash.
Killed(p) ==
  /\ at[p] # "none"
  /\ Mishap /\ Ends(p)
  /\ UNCHANGED shell

-----------------------------------------------------------------------------
LingeringEnds ==
  /\ \E k \in lingering : lingering' = lingering \ {k}
  /\ UNCHANGED <<at, origin, progVars, files, sock, reuse, shell, luck>>

Program(p) ==
  \/ Options(p) \/ Fork(p) \/ OpenStreams(p) \/ Returns(p)
  \/ InstallHandlers(p) \/ GetEpoll(p) \/ AllocTable(p) \/ OpenSocket(p)
  \/ SetReuse(p) \/ Bind(p) \/ Listen(p) \/ Register(p)
  \/ LoopEnds(p) \/ CloseListener(p) \/ DeleteEpoll(p)
Clients(p) == LoopAccepts(p) \/ LoopCloses(p)
Shell(s) == ShellStarts(s) \/ ShellWaits(s) \/ ShellSleeps(s)

Next == \/ \E p \in Procs : Program(p) \/ Clients(p) \/ Signal(p) \/ Killed(p)
        \/ \E s \in Shells : Shell(s)
        \/ \E h \in Hands : HandStarts(h)
        \/ LingeringEnds

Spec == Init /\ [][Next]_vars

\* Processes and shells are scheduled; nobody has to start a server by hand or to
\* connect to one, nor does a connection have to leave TIME_WAIT.
Fairness == /\ \A p \in Procs : WF_vars(Program(p))
            /\ \A s \in Shells : WF_vars(Shell(s))
FairSpec == Spec /\ Fairness

-----------------------------------------------------------------------------
TypeOK ==
  /\ at \in [Procs -> {"none", "return"} \cup Starting \cup InMain]
  /\ origin \in [Procs -> Shells \cup Hands \cup {Nobody}]
  /\ port \in [Procs -> 0 .. PortRange - 1]
  /\ listen_fd \in [Procs -> Fds \cup {NoFd}]
  /\ m_fd \in [Procs -> Fds \cup {NoFd}]
  /\ exit_flag \in [Procs -> BOOLEAN] /\ table \in [Procs -> BOOLEAN]
  /\ files \in [Procs ->
       [Fds -> {"free", "inherited", "null", "epoll", "socket", "client"}]]
  /\ sock \in [Procs -> {"none", "open", "bound", "listening"}]
  /\ reuse \in [Procs -> BOOLEAN]
  /\ lingering \subseteq 0 .. PortRange - 1
  /\ shell \in [Shells -> {"start", "wait", "sleep"}]
  /\ luck \in 0 .. MaxMishaps

\* A process that is in its loop has a port to itself: its socket listens, the port is
\* not 0, which the kernel would take for any (main.cpp:690-694), and no other process
\* serves it, although two of them can be bound to it at once (main.cpp:480-488).
ServesAlone ==
  \A p \in Procs : at[p] = "loop" =>
    /\ sock[p] = "listening" /\ port[p] # 0
    /\ \A q \in Procs \ {p} : at[q] = "loop" => port[q] # port[p]

\* Clients and their table are all that a process can leave for the kernel to take
\* back when main returns (main.cpp:584, 646-669), however far it got: at each point it
\* has one epoll object and one listening socket, those its variables name, and neither
\* at the end (main.cpp:492-497, 646-664; epoll.cpp:26-33, 231-242); and it never has a
\* client without the table to put it in, where it would be written through NULL.
OnlyClientsStay ==
  \A p \in Procs :
    /\ {n \in Fds : files[p][n] = "epoll"} = {m_fd[p]} \ {NoFd}
    /\ {n \in Fds : files[p][n] = "socket"} = {listen_fd[p]} \ {NoFd}
    /\ at[p] = "return" => m_fd[p] = NoFd /\ listen_fd[p] = NoFd
    /\ HasClients(p) => table[p]

\* Nothing the server opens gets the number of a standard stream, which printf
\* would then write to (main.cpp:539-551).
StreamsAreNoSockets ==
  \A p \in Procs : at[p] \in InMain =>
    \A n \in Streams : files[p][n] \in {"inherited", "null"}

\* One start leaves at most one server, through both forks (main.cpp:522-526).
OnePerStart ==
  \A p, q \in Procs :
    at[p] \in InMain /\ at[q] \in InMain /\ origin[p] = origin[q] => p = q

\* Only a server that runs keeps another one from its port: connections of an
\* earlier one do not (main.cpp:469-472).
OnlyListenersAreInTheWay ==
  [][ \A p \in Procs : at[p] = "bind" /\ at'[p] = "delete" =>
        \E q \in Procs \ {p} : sock[q] = "listening" /\ port[q] = port[p] ]_vars

\* While run.sh runs, there is always a server again, whoever started it, once
\* the mishaps have ended (run.sh:68-71).
ServerComesBack ==
  Shells # {} => []<>(\E p \in Procs : Serving(p) /\ port[p] = RunPort)
=============================================================================
