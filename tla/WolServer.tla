------------------------------ MODULE WolServer ------------------------------
(***************************************************************************)
(* The wol_server process: the event loop of doMainFunc (main.cpp), the    *)
(* Lib_Epoll object it runs on (epoll.cpp) and handle_socket, which serves *)
(* one ready descriptor per call.                                          *)
(*                                                                         *)
(* The process is single threaded and its sockets do not block, so one     *)
(* call of handle_socket is one action: bytes that arrive while it runs    *)
(* are indistinguishable from bytes that had arrived before it.  What does *)
(* interleave with it is the network (connections, segments, FIN and RST), *)
(* the clock and the signals, and those are actions of their own.          *)
(*                                                                         *)
(* A descriptor and the TCP connection behind it are kept apart: sock says *)
(* which connection a descriptor is open on, so that a number the kernel   *)
(* hands out again is seen to belong to another client.                    *)
(***************************************************************************)
EXTENDS Integers, Sequences, FiniteSets

CONSTANTS
  Fds,         \* descriptor numbers accept can return: indexes of client_list
  ListenFd,    \* descriptor of the listening socket
  NoFd,        \* m_listen's -1
  Conns,       \* identities of TCP connections, each used once
  NoConn,      \* what a closed descriptor is open on
  Keys,        \* device keys found in requests
  NoKey,       \* the empty key
  Kept,        \* what snprintf leaves of a key in the 16 bytes of client_info.key
  Requests,    \* the requests clients send
  IdleLimit,   \* the 10000000 added to client_info.timestamp
  SweepEvery,  \* the 10000000 added to timestamp_checktimeout
  RoundMax,    \* longest round of the loop: epoll_wait's 1000 ms and the handlers
  EventCap,    \* m_count: most events one epoll_wait returns
  WarnPort,    \* whether port_warn is not 0
  Backlog,     \* connections the kernel queues for accept
  MaxTime,     \* bound of the clock
  InCap,       \* bound of the segments a client has in flight
  OutCap,      \* bound of a socket's send buffer
  NoticeCap    \* bound of the datagrams queued for the notice process

ForwardCmds == {"wol", "shutdown", "reset"}
Commands == ForwardCmds \cup
            {"bind", "client_list", "warn", "beat", "response", "garbled"}

\* key is NoKey when a member the command needs is absent or empty; mac tells
\* whether sscanf finds six bytes in the "mac" member.
Request == [cmd : Commands, key : Keys \cup {NoKey}, mac : BOOLEAN]

\* Text that cJSON_Parse rejects or that has no known "cmd" string.
Garbled == [cmd |-> "garbled", key |-> NoKey, mac |-> FALSE]

\* TCP may deliver a request in one piece or in two.
Segment == [req : Request, part : {"whole", "head", "tail"}]

ASSUME FdAssumption ==
  /\ IsFiniteSet(Fds) /\ Fds \subseteq Nat
  /\ ListenFd \notin Fds /\ NoFd \notin Fds \cup {ListenFd}
ASSUME NameAssumption ==
  /\ NoConn \notin Conns /\ NoKey \notin Keys
  /\ Kept \in [Keys -> Keys] /\ Requests \subseteq Request
ASSUME BoundAssumption ==
  /\ IdleLimit \in Nat /\ SweepEvery \in Nat /\ RoundMax \in Nat
  /\ EventCap \in Nat \ {0} /\ Backlog \in Nat /\ MaxTime \in Nat
  /\ InCap \in Nat /\ OutCap \in Nat /\ NoticeCap \in Nat
  /\ WarnPort \in BOOLEAN

VARIABLES
  pc,           \* where doMainFunc is: "top", "wait", "dispatch" or "exited"
  batch,        \* descriptors epoll_wait returned, handle_socket not yet called
  exit_flag,    \* set by sigHandleFunc
  checktimeout, \* timestamp_checktimeout
  client_list,  \* the table, by descriptor
  m_nums,       \* Lib_Epoll: number of registered descriptors
  m_listen,     \* Lib_Epoll: descriptor of the listening socket
  interest,     \* kernel: descriptors registered with m_fd
  rdlist,       \* kernel: what is first in turn since an epoll_wait was cut short
  sock,         \* kernel: connection each descriptor is open on
  now,          \* kernel: CLOCK_MONOTONIC
  phase,        \* connection: "unused", "backlog", "up" or "gone"
  inbox,        \* segments received by the kernel, not yet by the server
  ending,       \* "open", "fin", "rst", or "reset" once recv has reported it
  rest,         \* request whose second half the client has still to send
  outbox,       \* messages sent by the server, not yet read by the client
  notices,      \* datagrams sent to the notice process
  round_at,     \* auxiliary: when this round of the loop began
  bound,        \* auxiliary: key of the last bind accepted from a connection
  last_ok       \* auxiliary: when a connection was accepted or last answered true

loopVars == <<pc, batch, exit_flag, checktimeout, round_at>>
epollVars == <<m_nums, m_listen, interest, rdlist>>
clientVars == <<inbox, ending, rest>>
auxVars == <<bound, last_ok>>
vars == <<loopVars, client_list, epollVars, sock, now, phase, clientVars,
          outbox, notices, auxVars>>

-----------------------------------------------------------------------------
(* Messages the server sends.  On the wire an answer does not name the      *)
(* request it answers, nor an order the key it was sent to: re, key and by  *)
(* are there for the properties, no action reads them.                      *)

Status(r, ok) == [type |-> "status", re |-> r, ok |-> ok]
Listing(n, keys) ==
  [type |-> "listing", ok |-> TRUE, count |-> n, keys |-> keys]
Order(r) == [type |-> "order", op |-> r.cmd, key |-> r.key]
Notice(k, c) == [key |-> k, by |-> c]

Message == [type : {"status"}, re : Request, ok : BOOLEAN]
           \cup [type : {"listing"}, ok : {TRUE}, count : Nat, keys : SUBSET Keys]
           \cup [type : {"order"}, op : ForwardCmds, key : Keys]

Datagram == [key : Keys \cup {NoKey}, by : Conns]

Entry == [enable : BOOLEAN, esp8266 : BOOLEAN, timestamp : Nat,
          key : Keys \cup {NoKey}]

\* What malloc leaves in an entry whose enable doMainFunc has cleared.
Leftover == [enable : {FALSE}, esp8266 : BOOLEAN, timestamp : {0},
             key : Keys \cup {NoKey}]

-----------------------------------------------------------------------------
(* client_list.  The definitions named Faulty... are the slips that the     *)
(* properties are measured against; nothing else uses them.                 *)

\* What accept writes into an entry.
FaultyNewEntry(fd) ==
  [client_list[fd] EXCEPT !.enable = TRUE, !.timestamp = now + IdleLimit]
NewEntry(fd) ==
  [enable |-> TRUE, esp8266 |-> FALSE, timestamp |-> now + IdleLimit,
   key |-> NoKey]

Enabled == {fd \in Fds : client_list[fd].enable}

FaultyDevices == {fd \in Fds : client_list[fd].esp8266}
Devices == {fd \in Enabled : client_list[fd].esp8266}

\* The entries a forwarded command may go to; the loop takes the lowest.
FaultyMatching(key) == Devices
Matching(key) == {fd \in Devices : client_list[fd].key = key}
Lowest(fd, S) == fd \in S /\ \A g \in S : fd <= g

FaultyExpired == {fd \in Enabled : client_list[fd].timestamp <= now + 1}
Expired == {fd \in Enabled : client_list[fd].timestamp < now}

-----------------------------------------------------------------------------
(* Lib_Epoll, and the descriptors it closes                                *)

Free == {fd \in Fds : sock[fd] = NoConn}

FaultyEpollAdd(fd) ==
  /\ interest' = interest \cup {fd}
  /\ m_nums' = m_nums + 1
  /\ m_listen' = fd
  /\ UNCHANGED rdlist
FaultyEpollAddUnwatched(fd) ==
  /\ m_nums' = m_nums + 1
  /\ UNCHANGED <<interest, m_listen, rdlist>>
EpollAdd(fd) ==
  /\ interest' = interest \cup {fd}
  /\ m_nums' = m_nums + 1
  /\ UNCHANGED <<m_listen, rdlist>>

\* del(fd) for every fd in S.  A descriptor that is not registered is neither
\* counted nor closed.
EpollDel(S) ==
  LET done == S \cap interest IN
  /\ interest' = interest \ done
  /\ m_nums' = m_nums - Cardinality(done)
  /\ m_listen' = IF m_listen \in done THEN NoFd ELSE m_listen
  /\ rdlist' = rdlist \ {sock[fd] : fd \in done}
  /\ sock' = [fd \in Fds |-> IF fd \in done THEN NoConn ELSE sock[fd]]

\* The kernel forgets what was queued on the connections cs.
Hangup(cs) ==
  /\ phase' = [c \in Conns |-> IF c \in cs THEN "gone" ELSE phase[c]]
  /\ inbox' = [c \in Conns |-> IF c \in cs THEN << >> ELSE inbox[c]]
  /\ ending' = [c \in Conns |-> IF c \in cs THEN "open" ELSE ending[c]]
  /\ rest' = [c \in Conns |-> IF c \in cs THEN Garbled ELSE rest[c]]
  /\ outbox' = [c \in Conns |-> IF c \in cs THEN << >> ELSE outbox[c]]
  /\ bound' = [c \in Conns |-> IF c \in cs THEN NoKey ELSE bound[c]]
  /\ last_ok' = [c \in Conns |-> IF c \in cs THEN 0 ELSE last_ok[c]]

ConnsOf(S) == {sock[fd] : fd \in S} \cap Conns

-----------------------------------------------------------------------------
(* doMainFunc                                                              *)

Init ==
  /\ pc = "top" /\ batch = {} /\ exit_flag = FALSE
  /\ checktimeout = 0 /\ now = 0 /\ round_at = 0
  /\ client_list \in [Fds -> Leftover]
  /\ m_nums = 1 /\ m_listen = ListenFd /\ interest = {ListenFd} /\ rdlist = {}
  /\ sock = [fd \in Fds |-> NoConn]
  /\ phase = [c \in Conns |-> "unused"]
  /\ inbox = [c \in Conns |-> << >>]
  /\ ending = [c \in Conns |-> "open"]
  /\ rest = [c \in Conns |-> Garbled]
  /\ outbox = [c \in Conns |-> << >>]
  /\ notices = << >>
  /\ bound = [c \in Conns |-> NoKey]
  /\ last_ok = [c \in Conns |-> 0]

FaultyLooping == pc = "top" /\ m_nums > 0
Looping == pc = "top" /\ ~exit_flag /\ m_nums > 0

\* The loop goes round once more and it is not yet time to look for idle clients.
LoopSkip ==
  /\ Looping /\ checktimeout >= now
  /\ pc' = "wait" /\ round_at' = now
  /\ UNCHANGED <<batch, exit_flag, checktimeout, client_list, epollVars, sock,
                 now, phase, clientVars, outbox, notices, auxVars>>

\* Every client whose timestamp has passed is closed and its entry disabled.
FaultyLoopSweep ==
  /\ Looping /\ checktimeout < now
  /\ pc' = "wait" /\ round_at' = now
  /\ checktimeout' = now + SweepEvery
  /\ EpollDel(Expired)
  /\ Hangup(ConnsOf(Expired \cap interest))
  /\ client_list' = [fd \in Fds |->
       IF fd \in Expired
       THEN [client_list[fd] EXCEPT !.timestamp = 0]
       ELSE client_list[fd]]
  /\ UNCHANGED <<batch, exit_flag, now, notices>>
LoopSweep ==
  /\ Looping /\ checktimeout < now
  /\ pc' = "wait" /\ round_at' = now
  /\ checktimeout' = now + SweepEvery
  /\ EpollDel(Expired)
  /\ Hangup(ConnsOf(Expired \cap interest))
  /\ client_list' = [fd \in Fds |->
       IF fd \in Expired
       THEN [client_list[fd] EXCEPT !.enable = FALSE, !.timestamp = 0]
       ELSE client_list[fd]]
  /\ UNCHANGED <<batch, exit_flag, now, notices>>

\* The loop ends; what the process had open goes with it.
LoopExit ==
  /\ pc = "top" /\ ~Looping
  /\ pc' = "exited"
  /\ interest' = {} /\ rdlist' = {} /\ m_nums' = 0 /\ m_listen' = NoFd
  /\ sock' = [fd \in Fds |-> NoConn]
  /\ Hangup({c \in Conns : phase[c] \in {"backlog", "up"}})
  /\ UNCHANGED <<batch, exit_flag, checktimeout, round_at, client_list, now,
                 notices>>

\* The descriptors with an event: epoll is level triggered.
FaultyReady == {fd \in interest :
            LET data == {c \in Conns : inbox[c] # << >>} IN
            \/ fd = ListenFd /\ data = {} /\ \E c \in Conns : phase[c] = "backlog"
            \/ fd # ListenFd /\ \/ sock[fd] \in data
                                \/ ending[sock[fd]] # "open"}
Ready == {fd \in interest :
            \/ fd = ListenFd /\ \E c \in Conns : phase[c] = "backlog"
            \/ fd # ListenFd /\ \/ inbox[sock[fd]] # << >>
                                \/ ending[sock[fd]] # "open"}

\* What stands for a descriptor in the kernel's ready list: its connection, and
\* NoConn for the listening socket.
SockOf(fd) == IF fd = ListenFd THEN NoConn ELSE sock[fd]

\* epoll_wait returns events, the 1000 ms run out, or a signal interrupts it.
\* When more descriptors are ready than fit in one call, the kernel returns the
\* head of its ready list and the next call goes on behind it: whoever is left
\* over comes before those that are served again or became ready later.  The
\* order among the left over, and within a batch, is left open.
EpollWait ==
  LET First == {fd \in Ready : SockOf(fd) \in rdlist} IN
  /\ pc = "wait"
  /\ batch' \in SUBSET Ready /\ Cardinality(batch') <= EventCap
  /\ batch' = Ready \/ Cardinality(batch') = EventCap
  /\ \/ First \subseteq batch' /\ rdlist' = {SockOf(fd) : fd \in Ready \ batch'}
     \/ /\ batch' \subseteq First /\ batch' # First
        /\ rdlist' = {SockOf(fd) : fd \in First \ batch'}
  /\ pc' = IF batch' = {} THEN "top" ELSE "dispatch"
  /\ UNCHANGED <<exit_flag, checktimeout, round_at, client_list, m_nums, m_listen,
                 interest, sock, now, phase, clientVars, outbox, notices, auxVars>>

-----------------------------------------------------------------------------
(* handle_socket on the listening socket                                   *)

Served(fd) ==
  /\ batch' = batch \ {fd}
  /\ pc' = IF batch = {fd} THEN "top" ELSE "dispatch"

Listening == pc = "dispatch" /\ m_listen \in batch /\ Served(m_listen)

\* accept returns the lowest number that is free.  Which of the queued
\* connections comes first matters to no property and is left open.
Accept(c) ==
  /\ Listening /\ phase[c] = "backlog"
  /\ \E fd \in Fds :
       /\ Lowest(fd, Free)
       /\ EpollAdd(fd)
       /\ sock' = [sock EXCEPT ![fd] = c]
       /\ client_list' = [client_list EXCEPT ![fd] = NewEntry(fd)]
  /\ phase' = [phase EXCEPT ![c] = "up"]
  /\ bound' = [bound EXCEPT ![c] = NoKey]
  /\ last_ok' = [last_ok EXCEPT ![c] = now]
  /\ UNCHANGED <<exit_flag, checktimeout, round_at, now, clientVars, outbox,
                 notices>>

\* setSocketNonBlock or epoll_ctl fails: the connection is closed at once.
AcceptRejected(c) ==
  /\ Listening /\ phase[c] = "backlog" /\ Free # {}
  /\ Hangup({c})
  /\ UNCHANGED <<exit_flag, checktimeout, round_at, client_list, epollVars, sock,
                 now, notices>>

\* accept fails: no descriptor is left.  The connection stays in the backlog
\* and the listening socket stays ready.
AcceptFails ==
  /\ Listening /\ Free = {}
  /\ UNCHANGED <<exit_flag, checktimeout, round_at, client_list, epollVars, sock,
                 now, phase, clientVars, outbox, notices, auxVars>>

-----------------------------------------------------------------------------
(* handle_socket on a client                                               *)

\* What cJSON_Parse and getValueString make of the bytes recv returned: the
\* first request if it is complete, and nothing of what follows it.
Parsed(q) ==
  IF q = << >> THEN Garbled
  ELSE IF q[1].part = "whole" THEN q[1].req
  ELSE IF q[1].part = "head" /\ Len(q) > 1 THEN q[1].req
  ELSE Garbled

\* recv returned 0: what arrived before the FIN is thrown away.
FaultyPeerClosed(fd) ==
  /\ pc = "dispatch" /\ fd \in batch \ {m_listen}
  /\ ending[sock[fd]] \in {"fin", "reset"}
  /\ Served(fd)
  /\ EpollDel({fd})
  /\ Hangup({sock[fd]})
  /\ UNCHANGED <<exit_flag, checktimeout, round_at, client_list, now, notices>>
PeerClosed(fd) ==
  /\ pc = "dispatch" /\ fd \in batch \ {m_listen}
  /\ ending[sock[fd]] \in {"fin", "reset"}
  /\ Served(fd)
  /\ client_list' = [client_list EXCEPT ![fd].enable = FALSE]
  /\ EpollDel({fd})
  /\ Hangup({sock[fd]})
  /\ UNCHANGED <<exit_flag, checktimeout, round_at, now, notices>>

\* What there is to read on fd when its turn comes.
Incoming(fd) == {Parsed(inbox[c]) : c \in ConnsOf({fd} \cap batch)}

\* recv is called until it fails; request r is what has been received.  A RST is
\* reported once, as a failure, and as the end of the stream from then on.
Receives(fd, r) ==
  /\ pc = "dispatch" /\ fd \in batch \ {m_listen}
  /\ ending[sock[fd]] \in {"open", "rst"}
  /\ Served(fd)
  /\ r = Parsed(inbox[sock[fd]])
  /\ inbox' = [inbox EXCEPT ![sock[fd]] = << >>]
  /\ ending' = [ending EXCEPT ![sock[fd]] = IF @ = "rst" THEN "reset" ELSE @]
  /\ UNCHANGED <<exit_flag, checktimeout, round_at, epollVars, sock, now, phase,
                 rest>>

\* send on connection c, its result ignored: the message is lost when the
\* connection is broken or its buffer is full.
Send(box, c, m) ==
  IF ending[c] \in {"rst", "reset"} \/ Len(box[c]) >= OutCap
  THEN box ELSE [box EXCEPT ![c] = Append(@, m)]

\* The answer to fd: entry is what the command has made of its entry, and box of
\* the send buffers.  Only a true answer counts as a sign of life.
FaultyAnswer(fd, entry, box, m) ==
  /\ outbox' = Send(box, sock[fd], m)
  /\ client_list' = [client_list EXCEPT ![fd] =
       [entry EXCEPT !.timestamp = now + IdleLimit]]
  /\ last_ok' = IF m.ok THEN [last_ok EXCEPT ![sock[fd]] = now] ELSE last_ok
Answer(fd, entry, box, m) ==
  /\ outbox' = Send(box, sock[fd], m)
  /\ client_list' = [client_list EXCEPT ![fd] =
       IF m.ok THEN [entry EXCEPT !.timestamp = now + IdleLimit] ELSE entry]
  /\ last_ok' = IF m.ok THEN [last_ok EXCEPT ![sock[fd]] = now] ELSE last_ok

\* bind: the key has to be there and not empty.
HandleBind(fd) ==
  \E r \in Incoming(fd) :
    /\ Receives(fd, r) /\ r.cmd = "bind"
    /\ IF r.key = NoKey
       THEN /\ Answer(fd, client_list[fd], outbox, Status(r, FALSE))
            /\ UNCHANGED bound
       ELSE /\ Answer(fd, [client_list[fd] EXCEPT !.esp8266 = TRUE,
                                                  !.key = Kept[r.key]],
                      outbox, Status(r, TRUE))
            /\ bound' = [bound EXCEPT ![sock[fd]] = r.key]
    /\ UNCHANGED notices

\* client_list: every connection is counted, the devices are listed.
HandleClientList(fd) ==
  \E r \in Incoming(fd) :
    /\ Receives(fd, r) /\ r.cmd = "client_list"
    /\ Answer(fd, client_list[fd], outbox,
              Listing(Cardinality(Enabled), {client_list[d].key : d \in Devices}))
    /\ UNCHANGED <<notices, bound>>

\* wol and shutdown need a mac, reset does not; the order goes to the first
\* device with the key, and the answer is true whether or not send succeeds.
WellFormed(r) == r.key # NoKey /\ (r.cmd = "reset" \/ r.mac)
HandleForward(fd) ==
  \E r \in Incoming(fd) :
    /\ Receives(fd, r) /\ r.cmd \in ForwardCmds
    /\ \/ /\ ~WellFormed(r) \/ Matching(r.key) = {}
          /\ Answer(fd, client_list[fd], outbox, Status(r, FALSE))
       \/ /\ WellFormed(r)
          /\ \E d \in Fds :
               /\ Lowest(d, Matching(r.key))
               /\ Answer(fd, client_list[fd],
                         Send(outbox, sock[d], Order(r)), Status(r, TRUE))
    /\ UNCHANGED <<notices, bound>>

\* send_udp to the notice process: a socket may be refused, a datagram lost.
FaultySendNotice(fd) ==
  \/ UNCHANGED notices
  \/ /\ client_list[fd].enable /\ WarnPort
     /\ Free # {} /\ Len(notices) < NoticeCap
     /\ notices' = Append(notices, Notice(client_list[fd].key, sock[fd]))
SendNotice(fd) ==
  \/ UNCHANGED notices
  \/ /\ client_list[fd].enable /\ client_list[fd].esp8266 /\ WarnPort
     /\ Free # {} /\ Len(notices) < NoticeCap
     /\ notices' = Append(notices, Notice(client_list[fd].key, sock[fd]))

\* warn: nothing sets ret_to_client, so the answer is false in any case.
HandleWarn(fd) ==
  \E r \in Incoming(fd) :
    /\ Receives(fd, r) /\ r.cmd = "warn"
    /\ SendNotice(fd)
    /\ Answer(fd, client_list[fd], outbox, Status(r, FALSE))
    /\ UNCHANGED bound

HandleBeat(fd) ==
  \E r \in Incoming(fd) :
    /\ Receives(fd, r) /\ r.cmd = "beat"
    /\ Answer(fd, client_list[fd], outbox, Status(r, TRUE))
    /\ UNCHANGED <<notices, bound>>

\* response: what a device says it did, not answered.
HandleResponse(fd) ==
  \E r \in Incoming(fd) :
    /\ Receives(fd, r) /\ r.cmd = "response"
    /\ UNCHANGED <<client_list, outbox, notices, auxVars>>

\* Not a request, or none at all when recv only reported a RST.
HandleGarbled(fd) ==
  \E r \in Incoming(fd) :
    /\ Receives(fd, r) /\ r.cmd = "garbled"
    /\ Answer(fd, client_list[fd], outbox, Status(r, FALSE))
    /\ UNCHANGED <<notices, bound>>

-----------------------------------------------------------------------------
(* The network, the clock, the signals, the supervisor                     *)

\* The handshake is the kernel's; run.sh keeps the port closed while no server
\* runs.
Connect(c) ==
  /\ pc # "exited" /\ phase[c] = "unused"
  /\ Cardinality({d \in Conns : phase[d] = "backlog"}) < Backlog
  /\ phase' = [phase EXCEPT ![c] = "backlog"]
  /\ UNCHANGED <<loopVars, client_list, epollVars, sock, now, clientVars, outbox,
                 notices, auxVars>>

CanSend(c) ==
  /\ phase[c] \in {"backlog", "up"} /\ ending[c] = "open"
  /\ Len(inbox[c]) < InCap

Arrives(c, r, part) ==
  inbox' = [inbox EXCEPT ![c] = Append(@, [req |-> r, part |-> part])]

ClientSend(c) ==
  /\ CanSend(c) /\ rest[c] = Garbled
  /\ \E r \in Requests : Arrives(c, r, "whole")
  /\ UNCHANGED <<loopVars, client_list, epollVars, sock, now, phase, ending,
                 rest, outbox, notices, auxVars>>

ClientSendHead(c) ==
  /\ CanSend(c) /\ rest[c] = Garbled
  /\ \E r \in Requests \ {Garbled} :
       Arrives(c, r, "head") /\ rest' = [rest EXCEPT ![c] = r]
  /\ UNCHANGED <<loopVars, client_list, epollVars, sock, now, phase, ending,
                 outbox, notices, auxVars>>

ClientSendTail(c) ==
  /\ CanSend(c) /\ rest[c] # Garbled
  /\ Arrives(c, rest[c], "tail")
  /\ rest' = [rest EXCEPT ![c] = Garbled]
  /\ UNCHANGED <<loopVars, client_list, epollVars, sock, now, phase, ending,
                 outbox, notices, auxVars>>

ClientFin(c) ==
  /\ phase[c] \in {"backlog", "up"} /\ ending[c] = "open"
  /\ ending' = [ending EXCEPT ![c] = "fin"]
  /\ UNCHANGED <<loopVars, client_list, epollVars, sock, now, phase, inbox, rest,
                 outbox, notices, auxVars>>

ClientRst(c) ==
  /\ phase[c] \in {"backlog", "up"} /\ ending[c] = "open"
  /\ ending' = [ending EXCEPT ![c] = "rst"]
  /\ outbox' = [outbox EXCEPT ![c] = << >>]
  /\ UNCHANGED <<loopVars, client_list, epollVars, sock, now, phase, inbox, rest,
                 notices, auxVars>>

PeerRead(c) ==
  /\ outbox[c] # << >>
  /\ outbox' = [outbox EXCEPT ![c] = Tail(@)]
  /\ UNCHANGED <<loopVars, client_list, epollVars, sock, now, phase, clientVars,
                 notices, auxVars>>

TakeNotice ==
  /\ notices # << >>
  /\ notices' = Tail(notices)
  /\ UNCHANGED <<loopVars, client_list, epollVars, sock, now, phase, clientVars,
                 outbox, auxVars>>

\* A round of the loop takes at most RoundMax.
Tick ==
  /\ now < MaxTime
  /\ pc # "exited" => now - round_at < RoundMax
  /\ now' = now + 1
  /\ UNCHANGED <<loopVars, client_list, epollVars, sock, phase, clientVars,
                 outbox, notices, auxVars>>

\* SIGINT, SIGQUIT or SIGTERM, at any point of the loop.
Signal ==
  /\ pc # "exited" /\ ~exit_flag
  /\ exit_flag' = TRUE
  /\ UNCHANGED <<pc, batch, checktimeout, round_at, client_list, epollVars, sock,
                 now, phase, clientVars, outbox, notices, auxVars>>

\* run.sh starts the server again.
Restart ==
  /\ pc = "exited"
  /\ pc' = "top" /\ batch' = {} /\ exit_flag' = FALSE
  /\ checktimeout' = 0 /\ round_at' = now
  /\ client_list' \in [Fds -> Leftover]
  /\ m_nums' = 1 /\ m_listen' = ListenFd /\ interest' = {ListenFd} /\ rdlist' = {}
  /\ UNCHANGED <<sock, now, phase, clientVars, outbox, notices, auxVars>>

-----------------------------------------------------------------------------
Loop == LoopSkip \/ LoopSweep \/ LoopExit \/ EpollWait
Listener == AcceptFails \/ \E c \in Conns : Accept(c) \/ AcceptRejected(c)
Handler(fd) ==
  \/ PeerClosed(fd) \/ HandleBind(fd) \/ HandleClientList(fd)
  \/ HandleForward(fd) \/ HandleWarn(fd) \/ HandleBeat(fd)
  \/ HandleResponse(fd) \/ HandleGarbled(fd)
Server == Loop \/ Listener \/ \E fd \in Fds : Handler(fd)

Client(c) ==
  \/ Connect(c) \/ ClientSend(c) \/ ClientSendHead(c) \/ ClientSendTail(c)
  \/ ClientFin(c) \/ ClientRst(c) \/ PeerRead(c)
World == \/ \E c \in Conns : Client(c)
         \/ TakeNotice \/ Tick \/ Signal \/ Restart

Next == Server \/ World

Spec == Init /\ [][Next]_vars

-----------------------------------------------------------------------------
(* What the server is for.                                                 *)

Running == pc # "exited"
Up == {c \in Conns : phase[c] = "up"}
BoundTo(c, k) == c \in Up /\ bound[c] # NoKey /\ Kept[bound[c]] = k
Broken(c) == ending[c] \in {"rst", "reset"}

\* What the step appends to the messages on their way to c.
SentTo(c) == {outbox'[c][i] : i \in Len(outbox[c]) + 1 .. Len(outbox'[c])}

ServerTypeOK ==
  /\ pc \in {"top", "wait", "dispatch", "exited"}
  /\ batch \subseteq Fds \cup {ListenFd}
  /\ exit_flag \in BOOLEAN
  /\ checktimeout \in Nat /\ now \in Nat /\ round_at \in Nat
  /\ client_list \in [Fds -> Entry]
  /\ m_nums \in Nat
  /\ m_listen \in {ListenFd, NoFd}
  /\ interest \subseteq Fds \cup {ListenFd}
  /\ rdlist \subseteq Conns \cup {NoConn}
  /\ sock \in [Fds -> Conns \cup {NoConn}]

NetworkTypeOK ==
  /\ phase \in [Conns -> {"unused", "backlog", "up", "gone"}]
  /\ inbox \in [Conns -> Seq(Segment)]
  /\ ending \in [Conns -> {"open", "fin", "rst", "reset"}]
  /\ rest \in [Conns -> Request]
  /\ outbox \in [Conns -> Seq(Message)]
  /\ notices \in Seq(Datagram)
  /\ bound \in [Conns -> Keys \cup {NoKey}]
  /\ last_ok \in [Conns -> Nat]

\* Every variable has its type.
TypeOK == ServerTypeOK /\ NetworkTypeOK

\* While the server runs, its table, Lib_Epoll's count and the kernel agree: an
\* entry is enabled exactly when its descriptor is open, and then the descriptor
\* is registered; no connection is held twice and none leaks (the three places
\* that close one, main.cpp:160, main.cpp:630 and the accept error, main.cpp:107).
TableMatchesKernel ==
  Running =>
    /\ interest = Enabled \cup {ListenFd}
    /\ m_nums = Cardinality(interest) /\ m_listen = ListenFd
    /\ \A fd \in Fds : fd \in Enabled <=> sock[fd] # NoConn
    /\ \A fd, g \in Enabled : sock[fd] = sock[g] => fd = g
    /\ Up = {sock[fd] : fd \in Enabled}

\* The name in an entry is the one its own connection bound last, cut to the
\* size of client_info.key; an entry taken over from a closed connection keeps
\* nothing of it (main.cpp:114-122).
NamesAreOwn ==
  Running => \A fd \in Enabled :
    LET k == bound[sock[fd]] IN
    IF client_list[fd].esp8266
    THEN k # NoKey /\ client_list[fd].key = Kept[k]
    ELSE k = NoKey

\* An order reaches one connection only, open and bound to the order's key
\* (main.cpp:290-310, 340-360, 398-412).
OrderIsForItsKey ==
  /\ \A c \in Conns : \A m \in SentTo(c) : m.type = "order" => BoundTo(c, m.key)
  /\ \A c, d \in Conns : \A m \in SentTo(c), n \in SentTo(d) :
       m.type = "order" /\ n.type = "order" => c = d
OrdersReachTheirKey == [][OrderIsForItsKey]_vars

\* A well-formed wol, shutdown or reset is answered with true exactly when an
\* open connection is bound to its key (ret_to_client, main.cpp:305).
AnswerIsTrue ==
  \A c \in Conns : \A m \in SentTo(c) :
    m.type = "status" /\ m.re.cmd \in ForwardCmds /\ WellFormed(m.re) =>
      (m.ok <=> \E d \in Conns : BoundTo(d, m.re.key))
AnswersTellTheTruth == [][AnswerIsTrue]_vars

\* client_list counts the open connections and lists the keys that are bound,
\* none of a connection that is gone (main.cpp:228-257).
ListingIsOfUp ==
  \A c \in Conns : \A m \in SentTo(c) :
    m.type = "listing" =>
      /\ m.count = Cardinality(Up)
      /\ m.keys = {Kept[bound[d]] : d \in {e \in Up : bound[e] # NoKey}}
ListingIsAccurate == [][ListingIsOfUp]_vars

\* A notice names the key of the connection whose warn caused it, and a
\* connection that has bound nothing causes none (main.cpp:368-386).
NoticeIsOfSender ==
  \A i \in Len(notices) + 1 .. Len(notices') :
    BoundTo(notices'[i].by, notices'[i].key)
NoticesNameTheirSender == [][NoticeIsOfSender]_vars

\* While it runs, the server drops an unbroken connection it has accepted only
\* when nothing has been answered true on it for longer than IdleLimit
\* (main.cpp:620-638).
DropIsOfIdle ==
  \A c \in Up : phase'[c] # "up" /\ pc' # "exited" =>
    \/ ending[c] \in {"fin", "reset"}
    \/ now > last_ok[c] + IdleLimit
EvictsOnlyTheIdle == [][DropIsOfIdle]_vars

\* A connection on which nothing is answered true is dropped, even if its peer
\* has vanished: IdleLimit, plus the period of the sweep, plus one round.
IdleAreEvicted ==
  Running => \A c \in Up : now <= last_ok[c] + IdleLimit + SweepEvery + RoundMax

-----------------------------------------------------------------------------
(* What the server does in the end.  The loop never stops by itself: an     *)
(* enabled step of it is taken (the process is scheduled), the ready        *)
(* descriptors of a round are all served, and epoll_wait returns.  Nothing  *)
(* is assumed of the clients, the clock and the signals.                    *)

Fairness ==
  /\ WF_vars(Loop)
  /\ WF_vars(Listener)
  /\ \A fd \in Fds : WF_vars(Handler(fd))

FairSpec == Spec /\ Fairness

\* A signal ends the loop, wherever in the round it comes.
SignalEndsLoop == exit_flag ~> pc = "exited"

\* A queued connection is accepted or refused while descriptors are left.
QueuedIsServed ==
  \A c \in Conns : phase[c] = "backlog" ~> phase[c] # "backlog" \/ Free = {}

\* Whatever arrives on an accepted connection is read, or the connection closed,
\* however often other descriptors are ready and fill the rounds (epoll.cpp:168-179).
ArrivedIsRead ==
  \A c \in Conns : c \in Up /\ inbox[c] # << >> ~> inbox[c] = << >>

=============================================================================
