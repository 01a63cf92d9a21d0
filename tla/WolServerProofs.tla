-------------------------- MODULE WolServerProofs --------------------------
(***************************************************************************)
(* Theorems about WolServer, for every value of its constants.             *)
(*                                                                         *)
(* The inductive invariant is Inv: the table invariant and the naming      *)
(* invariant hold while the server runs, ExitLeavesNothing says what is    *)
(* true between two runs of the process, so that a restart can establish   *)
(* them again, and BatchIsOpen makes the descriptor a handler is called    *)
(* with one that the table knows.  What is sent, and what is noticed, is   *)
(* then about the right connections.                                       *)
(*                                                                         *)
(* That WolServer implements SessionDirectory follows: the table is looked *)
(* at once, by Inv, of a state and of the next: the members are the        *)
(* connections that are up and their names in the table are those they     *)
(* have bound (TableSays).  After that a step is compared with those of    *)
(* the directory by what it does to phase, bound and outbox alone.         *)
(***************************************************************************)
EXTENDS WolDirectory, FiniteSetTheorems, SequenceTheorems, TLAPS

ExitLeavesNothing ==
  ~Running => /\ interest = {}
              /\ \A fd \in Fds : sock[fd] = NoConn
              /\ Up = {}

\* A round lasts while there are descriptors left to serve, and every one of them
\* is registered: a handler closes no descriptor but its own (epoll.cpp:176-179).
BatchIsOpen ==
  /\ pc = "dispatch" <=> batch # {}
  /\ batch \subseteq interest

Inv == /\ TypeOK
       /\ TableMatchesKernel
       /\ BatchIsOpen
       /\ NamesAreOwn
       /\ ExitLeavesNothing

USE DEF TypeOK

(***************************************************************************)
(* Facts about a state.                                                    *)
(***************************************************************************)

\* The descriptors in a batch, the listening socket apart, are open clients.
LEMMA BatchIsServed ==
  ASSUME Inv, pc = "dispatch", NEW fd \in batch \ {m_listen}
  PROVE  /\ fd \in Enabled /\ fd \in Fds
         /\ sock[fd] \in Up /\ sock[fd] \in Conns
         /\ Running /\ m_listen = ListenFd
BY NameAssumption, FdAssumption
   DEF Inv, ServerTypeOK, NetworkTypeOK, TableMatchesKernel, BatchIsOpen, Running, Enabled, Up

\* The registered descriptors are finitely many: they can be counted.
LEMMA InterestIsFinite ==
  ASSUME TypeOK
  PROVE  IsFiniteSet(interest) /\ IsFiniteSet(Enabled)
<1>1. IsFiniteSet(Fds \cup {ListenFd})
  BY FdAssumption, FS_AddElement
<1>2. interest \in SUBSET (Fds \cup {ListenFd}) /\ Enabled \in SUBSET Fds
  BY DEF ServerTypeOK, NetworkTypeOK, Enabled
<1> QED
  BY <1>1, <1>2, FdAssumption, FS_Subset

\* What does not parse is handled like a request.
LEMMA GarbledIsRequest == Garbled \in Request
BY DEF Garbled, Request, Commands

\* Whatever recv returned, what is made of it is a request.
LEMMA ParsedIsRequest ==
  ASSUME NEW q \in Seq(Segment)
  PROVE  Parsed(q) \in Request
<1>1. CASE q = << >>
  BY <1>1, GarbledIsRequest DEF Parsed
<1>2. CASE q # << >>
  <2>1. q[1] \in Segment
    BY <1>2
  <2>2. q[1].req \in Request
    BY <2>1 DEF Segment
  <2> QED
    BY <1>2, <2>2, GarbledIsRequest DEF Parsed
<1> QED
  BY <1>1, <1>2

\* So is what a handler is called with.
LEMMA IncomingIsRequest ==
  ASSUME TypeOK, NEW fd
  PROVE  Incoming(fd) \subseteq Request
<1>1. \A c \in Conns : inbox[c] \in Seq(Segment)
  BY DEF NetworkTypeOK
<1> QED
  BY <1>1, ParsedIsRequest DEF Incoming, ConnsOf

\* A sequence that grows at its end, or shrinks at its front, stays one.
LEMMA SeqType ==
  ASSUME NEW S, NEW q \in Seq(S)
  PROVE  /\ \A x \in S : Append(q, x) \in Seq(S)
         /\ q # << >> => Tail(q) \in Seq(S)
OBVIOUS

\* send keeps the buffers sequences of messages.
LEMMA SendType ==
  ASSUME NEW box \in [Conns -> Seq(Message)], NEW c \in Conns, NEW m \in Message
  PROVE  Send(box, c, m) \in [Conns -> Seq(Message)]
BY DEF Send

\* The three messages are messages.
LEMMA MessageTypes ==
  /\ \A r \in Request, ok \in BOOLEAN : Status(r, ok) \in Message
  /\ \A n \in Nat, ks \in SUBSET Keys : Listing(n, ks) \in Message
  /\ \A r \in Request : r.cmd \in ForwardCmds /\ r.key # NoKey => Order(r) \in Message
<1>1. \A r \in Request, ok \in BOOLEAN : Status(r, ok) \in Message
  BY DEF Status, Message
<1>2. \A n \in Nat, ks \in SUBSET Keys : Listing(n, ks) \in Message
  BY DEF Listing, Message
<1>3. \A r \in Request : r.cmd \in ForwardCmds /\ r.key # NoKey => Order(r) \in Message
  BY DEF Order, Message, Request
<1> QED
  BY <1>1, <1>2, <1>3

(***************************************************************************)
(* Closing the descriptors S of the table, as the sweep and the end of a   *)
(* connection do, keeps the table, the count and the names right.          *)
(***************************************************************************)
LEMMA Closing ==
  ASSUME Inv, Running, NEW S \in SUBSET Enabled,
         EpollDel(S), Hangup(ConnsOf(S)),
         client_list' \in [Fds -> Entry],
         \A fd \in Fds : client_list'[fd].enable <=> (fd \in Enabled \ S),
         \A fd \in Fds \ S : client_list'[fd] = client_list[fd]
  PROVE  /\ interest' = Enabled' \cup {ListenFd}
         /\ m_nums' = Cardinality(interest') /\ m_nums' \in Nat
         /\ m_listen' = ListenFd
         /\ interest' = interest \ S /\ rdlist' \subseteq rdlist
         /\ \A fd \in Fds : fd \in Enabled' <=> sock'[fd] # NoConn
         /\ \A fd, g \in Enabled' : sock'[fd] = sock'[g] => fd = g
         /\ Up' = {sock'[fd] : fd \in Enabled'}
         /\ sock' \in [Fds -> Conns \cup {NoConn}]
         /\ \A fd \in Enabled' : bound'[sock'[fd]] = bound[sock[fd]]
<1> USE DEF Running
<1>0. /\ TypeOK /\ interest = Enabled \cup {ListenFd} /\ m_listen = ListenFd
      /\ m_nums = Cardinality(interest)
      /\ \A fd \in Fds : fd \in Enabled <=> sock[fd] # NoConn
      /\ \A fd, g \in Enabled : sock[fd] = sock[g] => fd = g
      /\ Up = {sock[fd] : fd \in Enabled}
  BY DEF Inv, TableMatchesKernel
<1>1. Enabled' = Enabled \ S
  BY DEF Enabled
<1>2. S \cap interest = S /\ ListenFd \notin S /\ S \subseteq Fds
  BY <1>0, FdAssumption DEF Enabled
<1>3. interest' = interest \ S /\ rdlist' \subseteq rdlist
  BY <1>2 DEF EpollDel
<1>4. interest' = Enabled' \cup {ListenFd}
  BY <1>0, <1>1, <1>2, <1>3
<1>5. IsFiniteSet(interest) /\ IsFiniteSet(S) /\ IsFiniteSet(interest')
  <2>1. IsFiniteSet(interest)
    BY <1>0, InterestIsFinite
  <2>2. S \in SUBSET interest /\ interest' \in SUBSET interest
    BY <1>2, <1>3
  <2> QED
    BY <2>1, <2>2, FS_Subset
<1>6. m_nums' = Cardinality(interest')
  <2>1. Cardinality(interest \ S) = Cardinality(interest) - Cardinality(interest \cap S)
    BY <1>5, FS_Difference
  <2>2. interest \cap S = S
    BY <1>2
  <2> QED
    BY <2>1, <2>2, <1>0, <1>2, <1>3 DEF EpollDel
<1>7. m_nums' \in Nat
  BY <1>5, <1>6, FS_CardinalityType
<1>8. m_listen' = ListenFd
  BY <1>0, <1>2 DEF EpollDel
<1>9. sock' = [fd \in Fds |-> IF fd \in S THEN NoConn ELSE sock[fd]]
  BY <1>2 DEF EpollDel
<1>10. /\ \A fd \in Fds : fd \in Enabled' <=> sock'[fd] # NoConn
       /\ \A fd \in Enabled' : sock'[fd] = sock[fd] /\ fd \in Enabled /\ fd \in Fds
       /\ sock' \in [Fds -> Conns \cup {NoConn}]
  <2>1. \A fd \in Enabled : fd \in Fds
    BY DEF Enabled
  <2> QED
    BY <1>0, <1>1, <1>9, <2>1 DEF ServerTypeOK, NetworkTypeOK
<1>11. \A fd, g \in Enabled' : sock'[fd] = sock'[g] => fd = g
  BY <1>0, <1>10
<1>12. \A fd \in Enabled' : sock[fd] \in Conns /\ sock[fd] \notin ConnsOf(S)
  <2>1. ASSUME NEW fd \in Enabled', sock[fd] \in ConnsOf(S) PROVE FALSE
    <3>1. PICK g \in S : sock[g] = sock[fd]
      BY <2>1 DEF ConnsOf
    <3>2. g = fd
      BY <3>1, <1>0, <1>10
    <3> QED
      BY <3>2, <1>1
  <2>2. ASSUME NEW fd \in Enabled' PROVE sock[fd] \in Conns
    BY <2>2, <1>0, <1>10 DEF ServerTypeOK, NetworkTypeOK
  <2> QED
    BY <2>1, <2>2
<1>13. Up' = {sock'[fd] : fd \in Enabled'}
  <2>1. Up' = Up \ ConnsOf(S)
    BY DEF Hangup, Up
  <2>2. \A c \in Up' : \E fd \in Enabled' : c = sock'[fd]
    <3> TAKE c \in Up'
    <3>1. c \in Up /\ c \notin ConnsOf(S) /\ c \in Conns
      BY <2>1 DEF Up
    <3>2. PICK fd \in Enabled : sock[fd] = c
      BY <3>1, <1>0
    <3>3. fd \notin S
      BY <3>1, <3>2 DEF ConnsOf
    <3>4. fd \in Enabled'
      BY <3>2, <3>3, <1>1
    <3> QED
      BY <3>2, <3>4, <1>10
  <2>3. \A fd \in Enabled' : sock'[fd] \in Up'
    BY <2>1, <1>0, <1>10, <1>12
  <2> QED
    BY <2>2, <2>3
<1>14. \A fd \in Enabled' : bound'[sock'[fd]] = bound[sock[fd]]
  BY <1>10, <1>12 DEF Hangup
<1> QED
  BY <1>3, <1>4, <1>6, <1>7, <1>8, <1>10, <1>11, <1>13, <1>14

(***************************************************************************)
(* The steps of the loop and of the listening socket.                      *)
(***************************************************************************)
LEMMA LeftoverIsEntry ==
  ASSUME NEW f \in [Fds -> Leftover]
  PROVE  f \in [Fds -> Entry]
<1>1. \A e \in Leftover : e \in Entry
  <2> TAKE e \in Leftover
  <2>1. /\ e = [enable |-> e.enable, esp8266 |-> e.esp8266,
               timestamp |-> e.timestamp, key |-> e.key]
        /\ e.enable \in {FALSE} /\ e.esp8266 \in BOOLEAN
        /\ e.timestamp \in {0} /\ e.key \in Keys \cup {NoKey}
    BY DEF Leftover
  <2>2. e.enable \in BOOLEAN /\ e.timestamp \in Nat
    <3>1. e.enable \in BOOLEAN
      BY <2>1, Zenon
    <3>2. e.timestamp \in Nat
      BY <2>1
    <3> QED
      BY <3>1, <3>2
  <2>3. [enable |-> e.enable, esp8266 |-> e.esp8266,
         timestamp |-> e.timestamp, key |-> e.key] \in Entry
    BY <2>1, <2>2 DEF Entry
  <2> QED
    BY <2>1, <2>3, Zenon
<1> QED
  BY <1>1

\* The server starts in a state that satisfies Inv.
LEMMA InitInv == Init => Inv
<1> SUFFICES ASSUME Init PROVE Inv
  OBVIOUS
<1>1. TypeOK
  <2>1. client_list \in [Fds -> Entry]
    BY LeftoverIsEntry DEF Init
  <2>2. ServerTypeOK
    BY <2>1, FdAssumption DEF Init, ServerTypeOK
  <2>3. NetworkTypeOK
    BY GarbledIsRequest DEF Init, NetworkTypeOK
  <2> QED
    BY <2>2, <2>3
<1>2. Enabled = {} /\ Up = {} /\ Running
  BY DEF Init, Enabled, Up, Running, Leftover
<1>3. TableMatchesKernel
  BY <1>2, FdAssumption, FS_Singleton DEF Init, TableMatchesKernel
<1> QED
  BY <1>1, <1>2, <1>3
     DEF Init, Inv, BatchIsOpen, NamesAreOwn, ExitLeavesNothing

\* So does a server that run.sh starts again.
LEMMA RestartInv == Inv /\ Restart => Inv'
<1> SUFFICES ASSUME Inv, Restart PROVE Inv'
  OBVIOUS
<1>1. TypeOK'
  <2>1. client_list' \in [Fds -> Entry]
    BY LeftoverIsEntry DEF Restart
  <2>2. ServerTypeOK'
    BY <2>1, FdAssumption DEF Inv, Restart, ServerTypeOK
  <2>3. NetworkTypeOK'
    BY DEF Inv, Restart, NetworkTypeOK, clientVars, auxVars
  <2> QED
    BY <2>2, <2>3
<1>2. Enabled' = {} /\ Up' = {} /\ Running' /\ \A fd \in Fds : sock'[fd] = NoConn
  BY DEF Inv, Restart, Enabled, Up, Running, Leftover, ExitLeavesNothing
<1>3. TableMatchesKernel'
  BY <1>2, FdAssumption, FS_Singleton DEF Restart, TableMatchesKernel
<1> QED
  BY <1>1, <1>2, <1>3
     DEF Restart, Inv, BatchIsOpen, NamesAreOwn, ExitLeavesNothing

\* The kernel forgetting connections keeps every type.
LEMMA HangupType ==
  ASSUME TypeOK, NEW S, Hangup(S)
  PROVE  /\ phase' \in [Conns -> {"unused", "backlog", "up", "gone"}]
         /\ inbox' \in [Conns -> Seq(Segment)]
         /\ ending' \in [Conns -> {"open", "fin", "rst", "reset"}]
         /\ rest' \in [Conns -> Request]
         /\ outbox' \in [Conns -> Seq(Message)]
         /\ bound' \in [Conns -> Keys \cup {NoKey}]
         /\ last_ok' \in [Conns -> Nat]
BY GarbledIsRequest DEF ServerTypeOK, NetworkTypeOK, Hangup

\* The steps of doMainFunc preserve Inv.
LEMMA LoopInv == Inv /\ Loop => Inv'
<1> SUFFICES ASSUME Inv, Loop PROVE Inv'
  OBVIOUS
<1>1. CASE LoopSkip
  BY <1>1 DEF LoopSkip, Looping, Inv, ServerTypeOK, NetworkTypeOK, TableMatchesKernel, BatchIsOpen,
     NamesAreOwn, ExitLeavesNothing, Running, Enabled, Up, epollVars, clientVars,
     auxVars
<1>2. CASE LoopSweep
  <2>1. Running /\ Running' /\ Expired \in SUBSET Enabled /\ Expired \cap interest = Expired
    BY <1>2 DEF LoopSweep, Looping, Running, Expired, Inv, TableMatchesKernel
  <2>2. EpollDel(Expired) /\ Hangup(ConnsOf(Expired))
    BY <1>2, <2>1 DEF LoopSweep
  <2>3. /\ client_list' \in [Fds -> Entry]
        /\ \A fd \in Fds : client_list'[fd].enable <=> (fd \in Enabled \ Expired)
        /\ \A fd \in Fds \ Expired : client_list'[fd] = client_list[fd]
    <3>1. /\ client_list \in [Fds -> Entry]
          /\ client_list' = [fd \in Fds |->
               IF fd \in Expired
               THEN [client_list[fd] EXCEPT !.enable = FALSE, !.timestamp = 0]
               ELSE client_list[fd]]
      BY <1>2 DEF LoopSweep, Inv, ServerTypeOK
    <3>2. \A fd \in Fds : client_list[fd] \in Entry
      BY <3>1
    <3>3. \A e \in Entry : [e EXCEPT !.enable = FALSE, !.timestamp = 0] \in Entry
      BY DEF Entry
    <3>4. \A e \in Entry : [e EXCEPT !.enable = FALSE, !.timestamp = 0].enable = FALSE
      BY DEF Entry
    <3>5. \A fd \in Fds : client_list'[fd] =
            IF fd \in Expired
            THEN [client_list[fd] EXCEPT !.enable = FALSE, !.timestamp = 0]
            ELSE client_list[fd]
      BY <3>1
    <3>6. client_list' \in [Fds -> Entry]
      BY <3>1, <3>2, <3>3
    <3>7. \A fd \in Fds \ Expired : client_list'[fd] = client_list[fd]
      BY <3>5
    <3>8. \A fd \in Fds : client_list'[fd].enable <=> (fd \in Enabled \ Expired)
      <4> TAKE fd \in Fds
      <4>1. CASE fd \in Expired
        <5>1. client_list'[fd] = [client_list[fd] EXCEPT !.enable = FALSE, !.timestamp = 0]
          BY <4>1, <3>5, Zenon
        <5>2. client_list[fd] \in Entry
          BY <3>2
        <5>3. client_list'[fd].enable = FALSE
          BY <5>1, <5>2, <3>4, Zenon
        <5> QED
          BY <4>1, <5>3
      <4>2. CASE fd \notin Expired
        <5>1. client_list[fd].enable \in BOOLEAN
          BY <3>2 DEF Entry
        <5>2. client_list'[fd].enable = client_list[fd].enable
          BY <4>2, <3>5
        <5> QED
          BY <4>2, <5>1, <5>2 DEF Enabled
      <4> QED
        BY <4>1, <4>2
    <3> QED
      BY <3>6, <3>7, <3>8
  <2>4. /\ interest' = Enabled' \cup {ListenFd}
        /\ m_nums' = Cardinality(interest') /\ m_nums' \in Nat
        /\ m_listen' = ListenFd
        /\ \A fd \in Fds : fd \in Enabled' <=> sock'[fd] # NoConn
        /\ \A fd, g \in Enabled' : sock'[fd] = sock'[g] => fd = g
        /\ Up' = {sock'[fd] : fd \in Enabled'}
        /\ sock' \in [Fds -> Conns \cup {NoConn}]
        /\ rdlist' \subseteq rdlist
        /\ \A fd \in Enabled' : bound'[sock'[fd]] = bound[sock[fd]]
    BY <2>1, <2>2, <2>3, Closing
  <2>5. batch = {} /\ batch' = {} /\ pc' = "wait"
    BY <1>2 DEF LoopSweep, Looping, Inv, BatchIsOpen
  <2>6. TypeOK'
    <3>1. TypeOK
      BY DEF Inv
    <3>2. now + SweepEvery \in Nat
      BY <3>1, BoundAssumption DEF ServerTypeOK, NetworkTypeOK
    <3>3. interest' \subseteq Fds \cup {ListenFd}
      BY <2>4 DEF Enabled
    <3> QED
      BY <1>2, <2>2, <2>3, <2>4, <2>5, <3>1, <3>2, <3>3, HangupType
         DEF LoopSweep, ServerTypeOK, NetworkTypeOK
  <2>7. TableMatchesKernel'
    BY <2>4 DEF TableMatchesKernel
  <2>8. NamesAreOwn'
    <3>1. \A fd \in Enabled' : fd \in Enabled /\ client_list'[fd] = client_list[fd]
      BY <2>3 DEF Enabled
    <3> QED
      BY <2>1, <2>4, <3>1 DEF Inv, NamesAreOwn
  <2> QED
    BY <2>1, <2>5, <2>6, <2>7, <2>8 DEF Inv, BatchIsOpen, ExitLeavesNothing
<1>3. CASE LoopExit
  <2>1. ~Running' /\ Up' = {} /\ batch' = {} /\ pc' = "exited"
    BY <1>3 DEF LoopExit, Running, Up, Hangup, Inv, BatchIsOpen
  <2>2. TypeOK'
    BY <1>3, HangupType DEF LoopExit, Inv, ServerTypeOK, NetworkTypeOK
  <2> QED
    BY <1>3, <2>1, <2>2
       DEF LoopExit, Inv, BatchIsOpen, NamesAreOwn, TableMatchesKernel, ExitLeavesNothing
<1>4. CASE EpollWait
  <2>1. Ready \subseteq interest
    BY DEF Ready
  <2>2. BatchIsOpen' /\ Running' /\ Running /\ batch' \subseteq interest
    BY <1>4, <2>1 DEF EpollWait, BatchIsOpen, Running
  <2>6. \A fd \in Ready : SockOf(fd) \in Conns \cup {NoConn}
    BY <2>1 DEF SockOf, Inv, ServerTypeOK
  <2>7. rdlist' \subseteq Conns \cup {NoConn}
    BY <1>4, <2>6 DEF EpollWait
  <2>4. ServerTypeOK' /\ pc' \in {"top", "dispatch"}
    BY <1>4, <2>2, <2>7 DEF EpollWait, Inv, ServerTypeOK
  <2>5. NetworkTypeOK'
    BY <1>4 DEF EpollWait, Inv, NetworkTypeOK, clientVars, auxVars
  <2>3. TableMatchesKernel' /\ NamesAreOwn'
    BY <1>4, <2>2 DEF EpollWait, Inv, TableMatchesKernel, NamesAreOwn, epollVars,
       auxVars, Enabled, Up
  <2> QED
    BY <2>2, <2>3, <2>4, <2>5 DEF Inv, ExitLeavesNothing
<1> QED
  BY <1>1, <1>2, <1>3, <1>4 DEF Loop

\* The accept branch of handle_socket preserves Inv.
LEMMA ListenerInv == Inv /\ Listener => Inv'
<1> SUFFICES ASSUME Inv, Listener PROVE Inv'
  OBVIOUS
<1> USE DEF Running
<1>0. ASSUME Listening
      PROVE  /\ Running /\ Running' /\ m_listen = ListenFd
             /\ batch' \subseteq batch /\ BatchIsOpen /\ batch \subseteq interest
             /\ pc' \in {"top", "dispatch"}
             /\ pc' = "dispatch" <=> batch' # {}
  BY <1>0 DEF Listening, Served, Inv, TableMatchesKernel, BatchIsOpen
<1>1. ASSUME NEW c \in Conns, Accept(c) PROVE Inv'
  <2>1. PICK fd \in Fds :
          /\ Lowest(fd, Free) /\ EpollAdd(fd)
          /\ sock' = [sock EXCEPT ![fd] = c]
          /\ client_list' = [client_list EXCEPT ![fd] = NewEntry(fd)]
    BY <1>1 DEF Accept
  <2>2. Listening /\ phase[c] = "backlog"
    BY <1>1 DEF Accept
  <2>3. sock[fd] = NoConn /\ fd \notin Enabled /\ fd # ListenFd /\ fd \notin interest
    BY <1>0, <2>1, <2>2, FdAssumption DEF Lowest, Free, Inv, TableMatchesKernel
  <2>4. TypeOK /\ TableMatchesKernel /\ NamesAreOwn
    BY DEF Inv
  <2>5. NewEntry(fd) \in Entry
    BY <2>4, BoundAssumption DEF NewEntry, Entry, ServerTypeOK, NetworkTypeOK
  <2>6. Enabled' = Enabled \cup {fd}
    BY <2>1, <2>4 DEF Enabled, NewEntry, ServerTypeOK, NetworkTypeOK
  <2>7. /\ interest' = interest \cup {fd} /\ m_nums' = m_nums + 1
        /\ m_listen' = m_listen /\ rdlist' = rdlist
    BY <2>1 DEF EpollAdd
  <2>8. TypeOK'
    <3>1. batch' \subseteq batch /\ pc' \in {"top", "dispatch"}
      BY <1>0, <2>2
    <3>2. ServerTypeOK'
      BY <1>1, <2>1, <2>4, <2>5, <2>7, <3>1 DEF Accept, ServerTypeOK
    <3>3. NetworkTypeOK'
      BY <1>1, <2>4 DEF Accept, ServerTypeOK, NetworkTypeOK, clientVars
    <3> QED
      BY <3>2, <3>3
  <2>9. m_nums' = Cardinality(interest')
    BY <1>0, <2>2, <2>3, <2>4, <2>7, InterestIsFinite, FS_AddElement DEF TableMatchesKernel
  <2>10. Up' = Up \cup {c} /\ c \notin Up
    BY <1>1, <2>2, <2>4 DEF Accept, Up, ServerTypeOK, NetworkTypeOK
  <2>11. /\ \A g \in Enabled : sock'[g] = sock[g] /\ sock[g] # c /\ g \in Fds
         /\ sock'[fd] = c
    BY <1>0, <2>1, <2>2, <2>3, <2>4, <2>10
       DEF TableMatchesKernel, ServerTypeOK, NetworkTypeOK, Enabled
  <2>12. \A g \in Fds : g \in Enabled' <=> sock'[g] # NoConn
    BY <1>0, <2>1, <2>2, <2>4, <2>6, <2>11, NameAssumption
       DEF TableMatchesKernel, ServerTypeOK, NetworkTypeOK
  <2>13. \A g, h \in Enabled' : sock'[g] = sock'[h] => g = h
    BY <1>0, <2>2, <2>4, <2>6, <2>11 DEF TableMatchesKernel
  <2>14. Up' = {sock'[g] : g \in Enabled'}
    BY <1>0, <2>2, <2>4, <2>6, <2>10, <2>11 DEF TableMatchesKernel
  <2>15. TableMatchesKernel'
    BY <1>0, <2>2, <2>4, <2>6, <2>7, <2>9, <2>12, <2>13, <2>14 DEF TableMatchesKernel
  <2>16. NamesAreOwn'
    <3>1. bound' = [bound EXCEPT ![c] = NoKey] /\ bound'[c] = NoKey
      BY <1>1, <2>4 DEF Accept, ServerTypeOK, NetworkTypeOK
    <3>2. client_list'[fd].esp8266 = FALSE
      BY <2>1, <2>4 DEF NewEntry, ServerTypeOK, NetworkTypeOK
    <3>3. \A g \in Enabled : client_list'[g] = client_list[g]
                             /\ bound'[sock'[g]] = bound[sock[g]]
      BY <2>1, <2>3, <2>4, <2>11, <3>1 DEF ServerTypeOK, NetworkTypeOK
    <3> QED
      BY <1>0, <2>2, <2>4, <2>6, <2>11, <3>1, <3>2, <3>3 DEF NamesAreOwn
  <2> QED
    BY <1>0, <2>2, <2>7, <2>8, <2>15, <2>16 DEF Inv, BatchIsOpen, ExitLeavesNothing
<1>2. ASSUME NEW c \in Conns, AcceptRejected(c) PROVE Inv'
  <2>1. Listening /\ phase[c] = "backlog" /\ Hangup({c})
    BY <1>2 DEF AcceptRejected
  <2>2. TypeOK /\ TableMatchesKernel /\ NamesAreOwn
    BY DEF Inv
  <2>3. TypeOK'
    BY <1>0, <1>2, <2>1, <2>2, HangupType DEF AcceptRejected, ServerTypeOK, NetworkTypeOK, epollVars
  <2>4. Up' = Up /\ c \notin Up /\ Enabled' = Enabled
    BY <1>2, <2>1, <2>2 DEF AcceptRejected, Up, Hangup, ServerTypeOK, NetworkTypeOK, Enabled
  <2>5. TableMatchesKernel'
    BY <1>0, <1>2, <2>1, <2>2, <2>4 DEF AcceptRejected, TableMatchesKernel, epollVars
  <2>6. \A fd \in Enabled : sock[fd] \in Conns /\ bound'[sock[fd]] = bound[sock[fd]]
    <3>1. \A fd \in Enabled : sock[fd] \in Up /\ sock[fd] \in Conns
      BY <1>0, <2>1, <2>2 DEF TableMatchesKernel, Up
    <3> QED
      BY <2>1, <2>4, <3>1 DEF Hangup
  <2>7. NamesAreOwn'
    BY <1>0, <1>2, <2>1, <2>2, <2>4, <2>6 DEF AcceptRejected, NamesAreOwn
  <2> QED
    BY <1>0, <1>2, <2>1, <2>3, <2>5, <2>7
       DEF AcceptRejected, Inv, BatchIsOpen, ExitLeavesNothing, epollVars
<1>3. CASE AcceptFails
  <2>1. Listening
    BY <1>3 DEF AcceptFails
  <2>2. TypeOK'
    BY <1>0, <1>3, <2>1
       DEF AcceptFails, Inv, ServerTypeOK, NetworkTypeOK, epollVars, clientVars, auxVars
  <2>3. TableMatchesKernel' /\ NamesAreOwn'
    BY <1>0, <1>3, <2>1 DEF AcceptFails, Inv, TableMatchesKernel, NamesAreOwn,
       epollVars, auxVars, Enabled, Up
  <2> QED
    BY <1>0, <1>3, <2>1, <2>2, <2>3
       DEF AcceptFails, Inv, BatchIsOpen, ExitLeavesNothing, epollVars
<1> QED
  BY <1>1, <1>2, <1>3 DEF Listener

(***************************************************************************)
(* The steps of a client's descriptor.                                     *)
(***************************************************************************)
LEMMA PeerClosedInv ==
  ASSUME Inv, NEW fd \in Fds, PeerClosed(fd)
  PROVE  Inv'
<1>1. fd \in batch \ {m_listen} /\ pc = "dispatch" /\ Served(fd)
  BY DEF PeerClosed
<1>2. /\ fd \in Enabled /\ sock[fd] \in Up /\ sock[fd] \in Conns
      /\ Running /\ m_listen = ListenFd
  BY <1>1, BatchIsServed
<1>3. Running' /\ pc' \in {"top", "dispatch"}
      /\ batch' = batch \ {fd} /\ (pc' = "dispatch" <=> batch' # {})
  BY <1>1 DEF Served, Running
<1>4. EpollDel({fd}) /\ Hangup(ConnsOf({fd})) /\ Hangup({sock[fd]})
  <2>1. ConnsOf({fd}) = {sock[fd]}
    BY <1>2 DEF ConnsOf
  <2> QED
    BY <2>1 DEF PeerClosed
<1>5. TypeOK
  BY DEF Inv
<1>6. client_list' = [client_list EXCEPT ![fd].enable = FALSE]
  BY DEF PeerClosed
<1>7. client_list' \in [Fds -> Entry]
  BY <1>5, <1>6 DEF ServerTypeOK, Entry
<1>8. /\ \A g \in Fds : client_list'[g].enable <=> (g \in Enabled \ {fd})
      /\ \A g \in Fds \ {fd} : client_list'[g] = client_list[g]
  <2>1. client_list'[fd].enable = FALSE
    BY <1>5, <1>6 DEF ServerTypeOK, Entry
  <2>2. \A g \in Fds \ {fd} : client_list'[g] = client_list[g]
    BY <1>5, <1>6 DEF ServerTypeOK
  <2>3. \A g \in Fds \ {fd} : client_list'[g].enable <=> g \in Enabled
    BY <2>2 DEF Enabled
  <2> QED
    BY <2>1, <2>2, <2>3
<1>9. /\ interest' = Enabled' \cup {ListenFd}
      /\ m_nums' = Cardinality(interest') /\ m_nums' \in Nat
      /\ m_listen' = ListenFd
      /\ interest' = interest \ {fd} /\ rdlist' \subseteq rdlist
      /\ \A g \in Fds : g \in Enabled' <=> sock'[g] # NoConn
      /\ \A g, h \in Enabled' : sock'[g] = sock'[h] => g = h
      /\ Up' = {sock'[g] : g \in Enabled'}
      /\ sock' \in [Fds -> Conns \cup {NoConn}]
      /\ \A g \in Enabled' : bound'[sock'[g]] = bound[sock[g]]
  BY <1>2, <1>4, <1>7, <1>8, Closing
<1>10. ServerTypeOK'
  <2>1. interest' \subseteq Fds \cup {ListenFd}
    BY <1>9 DEF Enabled
  <2> QED
    BY <1>3, <1>5, <1>7, <1>9, <2>1 DEF PeerClosed, ServerTypeOK
<1>11. NetworkTypeOK'
  BY <1>4, <1>5, HangupType DEF PeerClosed, NetworkTypeOK
<1>12. TableMatchesKernel' /\ BatchIsOpen'
  BY <1>3, <1>9 DEF TableMatchesKernel, BatchIsOpen, Inv
<1>13. NamesAreOwn'
  <2>1. \A g \in Enabled' : g \in Enabled /\ client_list'[g] = client_list[g]
    BY <1>8 DEF Enabled
  <2> QED
    BY <1>2, <1>9, <2>1 DEF Inv, NamesAreOwn
<1> QED
  BY <1>3, <1>10, <1>11, <1>12, <1>13 DEF Inv, ExitLeavesNothing

\* What a request may do: read the descriptor, change its own entry so that it
\* agrees with the key k now bound, and put messages in buffers.
LEMMA RequestInv ==
  ASSUME Inv, NEW fd \in Fds, NEW r \in Request, Receives(fd, r),
         NEW e \in Entry, NEW k \in Keys \cup {NoKey},
         e.enable, client_list' = [client_list EXCEPT ![fd] = e],
         bound' = [bound EXCEPT ![sock[fd]] = k],
         IF e.esp8266 THEN k # NoKey /\ e.key = Kept[k] ELSE k = NoKey,
         outbox' \in [Conns -> Seq(Message)],
         notices' \in Seq(Datagram),
         last_ok' \in [Conns -> Nat]
  PROVE  Inv'
<1>1. fd \in batch \ {m_listen} /\ pc = "dispatch" /\ Served(fd)
  BY DEF Receives
<1>2. /\ fd \in Enabled /\ sock[fd] \in Up /\ sock[fd] \in Conns
      /\ Running /\ m_listen = ListenFd
  BY <1>1, BatchIsServed
<1>3. Running' /\ pc' \in {"top", "dispatch"}
      /\ batch' = batch \ {fd} /\ (pc' = "dispatch" <=> batch' # {})
  BY <1>1 DEF Served, Running
<1>4. TypeOK /\ TableMatchesKernel /\ NamesAreOwn /\ BatchIsOpen
  BY DEF Inv
<1>5. /\ UNCHANGED <<exit_flag, checktimeout, round_at, now, phase, rest>>
      /\ sock' = sock /\ interest' = interest /\ m_nums' = m_nums
      /\ m_listen' = m_listen /\ rdlist' = rdlist
  BY DEF Receives, epollVars
<1>6. /\ client_list' \in [Fds -> Entry] /\ client_list'[fd] = e
      /\ \A g \in Fds \ {fd} : client_list'[g] = client_list[g]
  BY <1>4 DEF ServerTypeOK
<1>7. Enabled' = Enabled
  <2>1. \A g \in Fds : client_list'[g].enable <=> client_list[g].enable
    <3> TAKE g \in Fds
    <3>1. CASE g = fd
      BY <1>2, <1>6, <3>1 DEF Enabled
    <3>2. CASE g # fd
      BY <1>6, <3>2
    <3> QED
      BY <3>1, <3>2
  <2> QED
    BY <2>1 DEF Enabled
<1>8. ServerTypeOK'
  BY <1>3, <1>4, <1>5, <1>6 DEF ServerTypeOK
<1>9. NetworkTypeOK'
  <2>1. inbox' \in [Conns -> Seq(Segment)]
    BY <1>2, <1>4 DEF Receives, NetworkTypeOK
  <2>2. ending' \in [Conns -> {"open", "fin", "rst", "reset"}]
    BY <1>2, <1>4 DEF Receives, NetworkTypeOK
  <2>3. bound' \in [Conns -> Keys \cup {NoKey}]
    BY <1>2, <1>4 DEF NetworkTypeOK
  <2> QED
    BY <1>4, <1>5, <2>1, <2>2, <2>3 DEF NetworkTypeOK
<1>10. TableMatchesKernel' /\ BatchIsOpen'
  <2>1. Up' = Up
    BY <1>5 DEF Up
  <2> QED
    BY <1>2, <1>3, <1>4, <1>5, <1>7, <2>1 DEF TableMatchesKernel, BatchIsOpen
<1>11. NamesAreOwn'
  <2>1. bound'[sock'[fd]] = k
    BY <1>2, <1>4, <1>5 DEF NetworkTypeOK
  <2>2. \A g \in Enabled \ {fd} :
          /\ g \in Fds /\ client_list'[g] = client_list[g]
          /\ bound'[sock'[g]] = bound[sock[g]]
    <3>1. \A g \in Enabled \ {fd} : g \in Fds /\ sock[g] # sock[fd] /\ sock[g] \in Conns
      BY <1>2, <1>4 DEF TableMatchesKernel, Enabled, ServerTypeOK
    <3> QED
      BY <1>4, <1>5, <1>6, <3>1 DEF NetworkTypeOK
  <2>3. ASSUME NEW g \in Enabled
        PROVE  IF client_list'[g].esp8266
               THEN bound'[sock'[g]] # NoKey /\ client_list'[g].key = Kept[bound'[sock'[g]]]
               ELSE bound'[sock'[g]] = NoKey
    <3>1. CASE g = fd
      BY <1>6, <2>1, <3>1
    <3>2. CASE g # fd
      BY <1>2, <1>4, <2>2, <3>2 DEF NamesAreOwn
    <3> QED
      BY <3>1, <3>2
  <2> QED
    BY <1>7, <2>3 DEF NamesAreOwn
<1> QED
  BY <1>3, <1>8, <1>9, <1>10, <1>11 DEF Inv, ExitLeavesNothing

\* A request answered with m, whatever the timestamp becomes.
LEMMA AnsweredInv ==
  ASSUME Inv, NEW fd \in Fds, NEW r \in Request, Receives(fd, r),
         NEW e \in Entry, NEW k \in Keys \cup {NoKey}, e.enable,
         NEW box \in [Conns -> Seq(Message)], NEW m \in Message,
         Answer(fd, e, box, m), bound' = [bound EXCEPT ![sock[fd]] = k],
         IF e.esp8266 THEN k # NoKey /\ e.key = Kept[k] ELSE k = NoKey,
         notices' \in Seq(Datagram)
  PROVE  Inv'
<1>1. fd \in batch \ {m_listen} /\ pc = "dispatch"
  BY DEF Receives
<1>2. sock[fd] \in Conns
  BY <1>1, BatchIsServed
<1>3. now + IdleLimit \in Nat /\ now \in Nat /\ last_ok \in [Conns -> Nat]
  BY BoundAssumption DEF Inv, ServerTypeOK, NetworkTypeOK
<1> DEFINE f == IF m.ok THEN [e EXCEPT !.timestamp = now + IdleLimit] ELSE e
<1>4. f \in Entry /\ f.enable /\ f.esp8266 = e.esp8266 /\ f.key = e.key
  BY <1>3 DEF Entry
<1>5. client_list' = [client_list EXCEPT ![fd] = f]
  BY DEF Answer
<1>6. outbox' \in [Conns -> Seq(Message)]
  BY <1>2, SendType DEF Answer
<1>7. last_ok' \in [Conns -> Nat]
  BY <1>2, <1>3 DEF Answer
<1>8. IF f.esp8266 THEN k # NoKey /\ f.key = Kept[k] ELSE k = NoKey
  BY <1>4
<1> HIDE DEF f
<1> QED
  BY <1>4, <1>5, <1>6, <1>7, <1>8, RequestInv

\* A request that binds nothing and is answered with m.
LEMMA UnboundAnswerInv ==
  ASSUME Inv, NEW fd \in Fds, NEW r \in Request, Receives(fd, r),
         NEW box \in [Conns -> Seq(Message)], NEW m \in Message,
         Answer(fd, client_list[fd], box, m), UNCHANGED bound,
         notices' \in Seq(Datagram)
  PROVE  Inv'
<1>1. fd \in batch \ {m_listen} /\ pc = "dispatch"
  BY DEF Receives
<1>2. sock[fd] \in Conns /\ fd \in Enabled /\ Running
  BY <1>1, BatchIsServed
<1>3. client_list[fd] \in Entry /\ client_list[fd].enable
  BY <1>2 DEF Inv, ServerTypeOK, Enabled
<1>4. bound[sock[fd]] \in Keys \cup {NoKey}
      /\ bound' = [bound EXCEPT ![sock[fd]] = bound[sock[fd]]]
  BY <1>2 DEF Inv, NetworkTypeOK
<1>5. IF client_list[fd].esp8266
      THEN bound[sock[fd]] # NoKey /\ client_list[fd].key = Kept[bound[sock[fd]]]
      ELSE bound[sock[fd]] = NoKey
  BY <1>2 DEF Inv, NamesAreOwn
<1> QED
  BY <1>3, <1>4, <1>5, AnsweredInv

\* Every branch of handle_socket on a client preserves Inv.
LEMMA HandlerInv ==
  ASSUME Inv, NEW fd \in Fds, Handler(fd)
  PROVE  Inv'
<1>0. /\ notices \in Seq(Datagram)
      /\ outbox \in [Conns -> Seq(Message)]
      /\ client_list \in [Fds -> Entry] /\ sock \in [Fds -> Conns \cup {NoConn}]
      /\ bound \in [Conns -> Keys \cup {NoKey}]
  BY DEF Inv, ServerTypeOK, NetworkTypeOK
<1>1. CASE PeerClosed(fd)
  BY <1>1, PeerClosedInv
<1>2. CASE HandleBind(fd)
  <2>1. PICK r \in Request :
          /\ Receives(fd, r) /\ r.cmd = "bind"
          /\ IF r.key = NoKey
             THEN /\ Answer(fd, client_list[fd], outbox, Status(r, FALSE))
                  /\ UNCHANGED bound
             ELSE /\ Answer(fd, [client_list[fd] EXCEPT !.esp8266 = TRUE,
                                                        !.key = Kept[r.key]],
                            outbox, Status(r, TRUE))
                  /\ bound' = [bound EXCEPT ![sock[fd]] = r.key]
          /\ UNCHANGED notices
    BY <1>2, IncomingIsRequest DEF Inv, HandleBind
  <2>2. CASE r.key = NoKey
    BY <1>0, <2>1, <2>2, MessageTypes, UnboundAnswerInv
  <2>3. CASE r.key # NoKey
    <3> DEFINE e == [client_list[fd] EXCEPT !.esp8266 = TRUE, !.key = Kept[r.key]]
    <3>1. r.key \in Keys /\ Kept[r.key] \in Keys
      BY <2>3, NameAssumption DEF Request
    <3>2. fd \in Enabled
      BY <2>1, BatchIsServed DEF Receives
    <3>3. e \in Entry /\ e.enable /\ e.esp8266 /\ e.key = Kept[r.key]
      BY <1>0, <3>1, <3>2 DEF Entry, Enabled
    <3>4. Answer(fd, e, outbox, Status(r, TRUE)) /\ Status(r, TRUE) \in Message
      BY <2>1, <2>3, MessageTypes
    <3>5. bound' = [bound EXCEPT ![sock[fd]] = r.key]
      BY <2>1, <2>3
    <3> HIDE DEF e
    <3> QED
      BY <1>0, <2>1, <2>3, <3>1, <3>3, <3>4, <3>5, AnsweredInv
  <2> QED
    BY <2>2, <2>3
<1>3. CASE HandleClientList(fd)
  <2> DEFINE keys == {client_list[d].key : d \in Devices}
             m == Listing(Cardinality(Enabled), keys)
  <2>1. PICK r \in Request :
          /\ Receives(fd, r)
          /\ Answer(fd, client_list[fd], outbox, m)
          /\ UNCHANGED <<notices, bound>>
    BY <1>3, IncomingIsRequest DEF Inv, HandleClientList
  <2>2. Cardinality(Enabled) \in Nat
    BY InterestIsFinite, FS_CardinalityType DEF Inv
  <2>3. Running
    BY <2>1 DEF Receives, Running
  <2>4. \A d \in Devices : client_list[d].key \in Keys
    <3> TAKE d \in Devices
    <3>1. d \in Enabled /\ d \in Fds /\ client_list[d].esp8266
      BY DEF Devices, Enabled
    <3>2. bound[sock[d]] # NoKey /\ client_list[d].key = Kept[bound[sock[d]]]
      BY <2>3, <3>1 DEF Inv, NamesAreOwn
    <3>3. sock[d] \in Conns
      BY <1>0, <2>3, <3>1 DEF Inv, TableMatchesKernel
    <3> QED
      BY <1>0, <3>2, <3>3, NameAssumption
  <2>5. keys \in SUBSET Keys
    BY <2>4
  <2>6. m \in Message
    BY <2>2, <2>5, MessageTypes
  <2> HIDE DEF m
  <2> QED
    BY <1>0, <2>1, <2>6, UnboundAnswerInv
<1>4. CASE HandleForward(fd)
  <2>1. PICK r \in Request :
          /\ Receives(fd, r) /\ r.cmd \in ForwardCmds
          /\ \/ /\ ~WellFormed(r) \/ Matching(r.key) = {}
                /\ Answer(fd, client_list[fd], outbox, Status(r, FALSE))
             \/ /\ WellFormed(r)
                /\ \E d \in Fds :
                     /\ Lowest(d, Matching(r.key))
                     /\ Answer(fd, client_list[fd],
                               Send(outbox, sock[d], Order(r)), Status(r, TRUE))
          /\ UNCHANGED <<notices, bound>>
    BY <1>4, IncomingIsRequest DEF Inv, HandleForward
  <2>2. CASE Answer(fd, client_list[fd], outbox, Status(r, FALSE))
    BY <1>0, <2>1, <2>2, MessageTypes, UnboundAnswerInv
  <2>3. ASSUME WellFormed(r), NEW d \in Fds, Lowest(d, Matching(r.key)),
               Answer(fd, client_list[fd],
                      Send(outbox, sock[d], Order(r)), Status(r, TRUE))
        PROVE  Inv'
    <3>1. d \in Enabled /\ Running
      BY <2>1, <2>3 DEF Lowest, Matching, Devices, Receives, Running
    <3>2. sock[d] \in Conns
      BY <1>0, <3>1 DEF Inv, TableMatchesKernel
    <3>3. Order(r) \in Message /\ Status(r, TRUE) \in Message
      BY <2>1, <2>3, MessageTypes DEF WellFormed
    <3>4. Send(outbox, sock[d], Order(r)) \in [Conns -> Seq(Message)]
      BY <1>0, <3>2, <3>3, SendType
    <3> QED
      BY <1>0, <2>1, <2>3, <3>3, <3>4, UnboundAnswerInv
  <2> QED
    BY <2>1, <2>2, <2>3
<1>5. CASE HandleWarn(fd)
  <2>1. PICK r \in Request :
          /\ Receives(fd, r) /\ SendNotice(fd)
          /\ Answer(fd, client_list[fd], outbox, Status(r, FALSE))
          /\ UNCHANGED bound
    BY <1>5, IncomingIsRequest DEF Inv, HandleWarn
  <2>2. sock[fd] \in Conns
    BY <2>1, BatchIsServed DEF Receives
  <2>3. Notice(client_list[fd].key, sock[fd]) \in Datagram
    BY <1>0, <2>2 DEF Notice, Entry, Datagram
  <2>4. notices' \in Seq(Datagram)
    <3>1. \/ notices' = notices
          \/ notices' = Append(notices, Notice(client_list[fd].key, sock[fd]))
      BY <2>1 DEF SendNotice
    <3> QED
      BY <1>0, <2>3, <3>1, SeqType
  <2> QED
    BY <1>0, <2>1, <2>4, MessageTypes, UnboundAnswerInv
<1>6. CASE HandleBeat(fd)
  BY <1>0, <1>6, IncomingIsRequest, MessageTypes, UnboundAnswerInv DEF Inv, HandleBeat
<1>7. CASE HandleResponse(fd)
  <2>1. PICK r \in Request :
          Receives(fd, r) /\ UNCHANGED <<client_list, outbox, notices, auxVars>>
    BY <1>7, IncomingIsRequest DEF Inv, HandleResponse
  <2>2. fd \in Enabled /\ sock[fd] \in Conns /\ Running
    BY <2>1, BatchIsServed DEF Receives
  <2>3. client_list' = [client_list EXCEPT ![fd] = client_list[fd]]
        /\ client_list[fd] \in Entry /\ client_list[fd].enable
    BY <1>0, <2>1, <2>2 DEF Enabled
  <2>4. bound' = [bound EXCEPT ![sock[fd]] = bound[sock[fd]]]
        /\ bound[sock[fd]] \in Keys \cup {NoKey}
    BY <1>0, <2>1, <2>2 DEF auxVars
  <2>5. IF client_list[fd].esp8266
        THEN bound[sock[fd]] # NoKey /\ client_list[fd].key = Kept[bound[sock[fd]]]
        ELSE bound[sock[fd]] = NoKey
    BY <2>2 DEF Inv, NamesAreOwn
  <2>6. last_ok' \in [Conns -> Nat] /\ outbox' = outbox /\ notices' = notices
    BY <2>1 DEF auxVars, Inv, NetworkTypeOK
  <2> QED
    BY <1>0, <2>1, <2>3, <2>4, <2>5, <2>6, RequestInv
<1>8. CASE HandleGarbled(fd)
  BY <1>0, <1>8, IncomingIsRequest, MessageTypes, UnboundAnswerInv DEF Inv, HandleGarbled
<1> QED
  BY <1>1, <1>2, <1>3, <1>4, <1>5, <1>6, <1>7, <1>8 DEF Handler

(***************************************************************************)
(* The steps of the world, and the theorems.                               *)
(***************************************************************************)
LEMMA WorldInv == Inv /\ World => Inv'
<1> SUFFICES ASSUME Inv, World PROVE Inv'
  OBVIOUS
<1> USE DEF Inv, loopVars, epollVars, clientVars, auxVars
<1>1. ASSUME NEW c \in Conns, Connect(c) PROVE Inv'
  <2>1. ServerTypeOK'
    BY <1>1 DEF Connect, ServerTypeOK
  <2>2. NetworkTypeOK'
    BY <1>1 DEF Connect, NetworkTypeOK
  <2>3. Up' = Up /\ Enabled' = Enabled
    BY <1>1 DEF Connect, Up, Enabled, NetworkTypeOK
  <2> QED
    BY <1>1, <2>1, <2>2, <2>3 DEF Connect, TableMatchesKernel, BatchIsOpen,
       NamesAreOwn, ExitLeavesNothing, Running
<1>2. ASSUME UNCHANGED <<loopVars, client_list, epollVars, sock, phase, bound>>
      PROVE  /\ TableMatchesKernel' /\ BatchIsOpen' /\ NamesAreOwn'
             /\ ExitLeavesNothing'
             /\ now' \in Nat => ServerTypeOK'
  <2>1. Up' = Up /\ Enabled' = Enabled /\ Running' = Running
    BY <1>2 DEF Up, Enabled, Running
  <2> QED
    BY <1>2, <2>1 DEF TableMatchesKernel, BatchIsOpen, NamesAreOwn,
       ExitLeavesNothing, ServerTypeOK
<1>3. ASSUME NEW c \in Conns,
             \/ ClientSend(c) \/ ClientSendHead(c) \/ ClientSendTail(c)
      PROVE  Inv'
  <2>1. Requests \subseteq Request /\ rest[c] \in Request
    BY NameAssumption DEF NetworkTypeOK
  <2>2. \A r \in Request, p \in {"whole", "head", "tail"} :
          [req |-> r, part |-> p] \in Segment
    BY DEF Segment
  <2>3. \A r \in Request, p \in {"whole", "head", "tail"} :
          Arrives(c, r, p) => inbox' \in [Conns -> Seq(Segment)]
    <3> SUFFICES ASSUME NEW r \in Request, NEW p \in {"whole", "head", "tail"},
                        Arrives(c, r, p)
                 PROVE  inbox' \in [Conns -> Seq(Segment)]
      OBVIOUS
    <3>1. inbox' = [inbox EXCEPT ![c] = Append(inbox[c], [req |-> r, part |-> p])]
      BY DEF Arrives
    <3>2. Append(inbox[c], [req |-> r, part |-> p]) \in Seq(Segment)
      BY <2>2, SeqType DEF NetworkTypeOK
    <3> QED
      BY <3>1, <3>2 DEF NetworkTypeOK
  <2>4. inbox' \in [Conns -> Seq(Segment)] /\ rest' \in [Conns -> Request]
    BY <1>3, <2>1, <2>3, GarbledIsRequest
       DEF ClientSend, ClientSendHead, ClientSendTail, NetworkTypeOK
  <2>5. /\ UNCHANGED <<loopVars, client_list, epollVars, sock, phase, bound>>
        /\ UNCHANGED <<now, ending, outbox, notices, last_ok>>
    BY <1>3 DEF ClientSend, ClientSendHead, ClientSendTail
  <2>6. NetworkTypeOK'
    BY <2>4, <2>5 DEF NetworkTypeOK
  <2> QED
    BY <1>2, <2>5, <2>6 DEF ServerTypeOK
<1>4. ASSUME NEW c \in Conns, ClientFin(c) \/ ClientRst(c) \/ PeerRead(c)
      PROVE  Inv'
  <2>1. ending' \in [Conns -> {"open", "fin", "rst", "reset"}]
    BY <1>4 DEF ClientFin, ClientRst, PeerRead, NetworkTypeOK
  <2>2. outbox' \in [Conns -> Seq(Message)]
    <3>1. \/ outbox' = outbox
          \/ outbox' = [outbox EXCEPT ![c] = << >>]
          \/ outbox[c] # << >> /\ outbox' = [outbox EXCEPT ![c] = Tail(outbox[c])]
      BY <1>4 DEF ClientFin, ClientRst, PeerRead
    <3>2. << >> \in Seq(Message) /\ outbox \in [Conns -> Seq(Message)]
      BY DEF NetworkTypeOK
    <3>3. outbox[c] # << >> => Tail(outbox[c]) \in Seq(Message)
      BY <3>2, SeqType
    <3> QED
      BY <3>1, <3>2, <3>3
  <2>3. /\ UNCHANGED <<loopVars, client_list, epollVars, sock, phase, bound>>
        /\ UNCHANGED <<now, inbox, rest, notices, last_ok>>
    BY <1>4 DEF ClientFin, ClientRst, PeerRead
  <2>4. NetworkTypeOK'
    BY <2>1, <2>2, <2>3 DEF NetworkTypeOK
  <2> QED
    BY <1>2, <2>3, <2>4 DEF ServerTypeOK
<1>5. CASE TakeNotice
  <2>1. notices' \in Seq(Datagram)
    BY <1>5 DEF TakeNotice, NetworkTypeOK
  <2>2. /\ UNCHANGED <<loopVars, client_list, epollVars, sock, phase, bound>>
        /\ UNCHANGED <<now, inbox, rest, ending, outbox, last_ok>>
    BY <1>5 DEF TakeNotice
  <2>3. NetworkTypeOK'
    BY <2>1, <2>2 DEF NetworkTypeOK
  <2> QED
    BY <1>2, <2>2, <2>3 DEF ServerTypeOK
<1>6. CASE Tick
  <2>1. /\ UNCHANGED <<loopVars, client_list, epollVars, sock, phase, bound>>
        /\ UNCHANGED <<inbox, rest, ending, outbox, notices, last_ok>>
        /\ now' = now + 1
    BY <1>6 DEF Tick
  <2>2. now' \in Nat
    BY <2>1 DEF ServerTypeOK
  <2> QED
    BY <1>2, <2>1, <2>2 DEF NetworkTypeOK
<1>7. CASE Signal
  <2>1. ServerTypeOK'
    BY <1>7 DEF Signal, ServerTypeOK
  <2>2. NetworkTypeOK'
    BY <1>7 DEF Signal, NetworkTypeOK
  <2>3. Up' = Up /\ Enabled' = Enabled /\ Running' = Running
    BY <1>7 DEF Signal, Up, Enabled, Running
  <2> QED
    BY <1>7, <2>1, <2>2, <2>3 DEF Signal, TableMatchesKernel, BatchIsOpen,
       NamesAreOwn, ExitLeavesNothing
<1>8. CASE Restart
  BY <1>8, RestartInv
<1> QED
  BY <1>1, <1>3, <1>4, <1>5, <1>6, <1>7, <1>8 DEF World, Client

\* A step that changes nothing preserves Inv.
LEMMA StutterInv == Inv /\ UNCHANGED vars => Inv'
BY DEF Inv, ServerTypeOK, NetworkTypeOK, TableMatchesKernel, BatchIsOpen,
   NamesAreOwn, ExitLeavesNothing, Running, Enabled, Up, vars, loopVars,
   epollVars, clientVars, auxVars

\* Every step preserves Inv.
LEMMA NextInv == Inv /\ [Next]_vars => Inv'
<1> SUFFICES ASSUME Inv, [Next]_vars PROVE Inv'
  OBVIOUS
<1>1. CASE Server
  BY <1>1, LoopInv, ListenerInv, HandlerInv DEF Server
<1>2. CASE World
  BY <1>2, WorldInv
<1>3. CASE UNCHANGED vars
  BY <1>3, StutterInv
<1> QED
  BY <1>1, <1>2, <1>3 DEF Next

\* The conjunction that is inductive holds in every reachable state: every branch of
\* handle_socket, the sweep and the exit of doMainFunc preserve it.
THEOREM Invariance == Spec => []Inv
<1>1. Init => Inv
  BY InitInv
<1>2. Inv /\ [Next]_vars => Inv'
  BY NextInv
<1> QED
  BY <1>1, <1>2, PTL DEF Spec

\* Every variable of the server and of its connections keeps its type.
THEOREM TypeCorrect == Spec => []TypeOK
<1>1. Inv => TypeOK
  BY DEF Inv
<1> QED
  BY <1>1, Invariance, PTL

\* Table, count and kernel agree whenever the server runs: no descriptor leaks, none
\* is held twice (main.cpp:105-120, 153-162, 626-636).
THEOREM TableCorrect == Spec => []TableMatchesKernel
<1>1. Inv => TableMatchesKernel
  BY DEF Inv
<1> QED
  BY <1>1, Invariance, PTL

\* No entry has a name that its own connection did not bind (main.cpp:114-122, 210-218).
THEOREM NamesCorrect == Spec => []NamesAreOwn
<1>1. Inv => NamesAreOwn
  BY DEF Inv
<1> QED
  BY <1>1, Invariance, PTL

(***************************************************************************)
(* Time.  A descriptor that has survived the last sweep is not older than  *)
(* that sweep, and while a client is open the sweep is not later than the  *)
(* round: so a client can be overdue by one period and one round, no more. *)
(***************************************************************************)
Clock ==
  Running =>
    /\ round_at <= now /\ now <= round_at + RoundMax
    /\ checktimeout <= now + SweepEvery
    /\ checktimeout >= round_at \/ (pc = "top" /\ Enabled = {})
    /\ \A fd \in Enabled :
         /\ client_list[fd].timestamp = last_ok[sock[fd]] + IdleLimit
         /\ client_list[fd].timestamp + SweepEvery >= checktimeout

\* No connection is open at the start, so none is overdue.
LEMMA InitClock == Init => Clock
<1>1. Init => Enabled = {} /\ pc = "top" /\ round_at = 0 /\ now = 0 /\ checktimeout = 0
  BY DEF Init, Enabled, Leftover
<1> QED
  BY <1>1, BoundAssumption DEF Clock

\* What the clock reads and the limits are numbers.
LEMMA ClockTypes ==
  ASSUME Inv
  PROVE  /\ now \in Nat /\ round_at \in Nat /\ checktimeout \in Nat
         /\ IdleLimit \in Nat /\ SweepEvery \in Nat /\ RoundMax \in Nat
         /\ \A fd \in Fds : client_list[fd].timestamp \in Nat
         /\ last_ok \in [Conns -> Nat]
<1>1. client_list \in [Fds -> Entry]
  BY DEF Inv, ServerTypeOK
<1>2. \A e \in Entry : e.timestamp \in Nat
  BY DEF Entry
<1> QED
  BY <1>1, <1>2, BoundAssumption DEF Inv, ServerTypeOK, NetworkTypeOK

\* A descriptor whose entry and connection a step leaves alone stays in time.
LEMMA SameTimes ==
  ASSUME Inv, Clock, Running, Running',
         UNCHANGED <<round_at, now, checktimeout>>, pc # "top",
         \A fd \in Enabled' : \/ /\ fd \in Enabled
                                 /\ client_list'[fd].timestamp = client_list[fd].timestamp
                                 /\ last_ok'[sock'[fd]] = last_ok[sock[fd]]
                              \/ /\ client_list'[fd].timestamp = now + IdleLimit
                                 /\ last_ok'[sock'[fd]] = now
  PROVE  Clock'
<1>1. ASSUME NEW fd \in Enabled'
      PROVE  /\ client_list'[fd].timestamp = last_ok'[sock'[fd]] + IdleLimit
             /\ client_list'[fd].timestamp + SweepEvery >= checktimeout'
  <2>1. CASE /\ fd \in Enabled
             /\ client_list'[fd].timestamp = client_list[fd].timestamp
             /\ last_ok'[sock'[fd]] = last_ok[sock[fd]]
    BY <2>1 DEF Clock
  <2>2. CASE /\ client_list'[fd].timestamp = now + IdleLimit
             /\ last_ok'[sock'[fd]] = now
    <3>1. checktimeout <= now + SweepEvery
      BY DEF Clock
    <3> QED
      BY <2>2, <3>1, ClockTypes
  <2> QED
    BY <1>1, <2>1, <2>2
<1> QED
  BY <1>1 DEF Clock

\* Serving a client keeps the clock's invariant: the clock stands still, and an
\* answer moves an entry's timestamp and last_ok together.
LEMMA HandlerClock ==
  ASSUME Inv, Clock, NEW fd \in Fds, Handler(fd)
  PROVE  Clock'
<1>1. fd \in batch \ {m_listen} /\ pc = "dispatch" /\ Served(fd)
      /\ UNCHANGED <<round_at, now, checktimeout>>
  BY DEF Handler, PeerClosed, HandleBind, HandleClientList, HandleForward,
     HandleWarn, HandleBeat, HandleResponse, HandleGarbled, Receives
<1>2. fd \in Enabled /\ sock[fd] \in Conns /\ Running /\ Running'
  BY <1>1, BatchIsServed DEF Served, Running
<1>3. /\ \A g \in Enabled : g \in Fds /\ sock[g] \in Conns
      /\ \A g \in Enabled \ {fd} : sock[g] # sock[fd]
      /\ client_list \in [Fds -> Entry] /\ last_ok \in [Conns -> Nat]
      /\ interest \subseteq Fds \cup {ListenFd}
  BY <1>2 DEF Inv, TableMatchesKernel, Enabled, ServerTypeOK, NetworkTypeOK
<1>4. CASE PeerClosed(fd)
  <2>1. /\ client_list' = [client_list EXCEPT ![fd].enable = FALSE]
        /\ EpollDel({fd}) /\ Hangup({sock[fd]})
    BY <1>4 DEF PeerClosed
  <2>2. \A g \in Enabled' : /\ g \in Enabled \ {fd} /\ g \in Fds
                            /\ client_list'[g] = client_list[g]
    BY <1>3, <2>1 DEF Enabled, Entry
  <2>3. \A g \in Enabled \ {fd} : sock'[g] = sock[g]
    BY <1>3, <2>1 DEF EpollDel
  <2>4. \A g \in Enabled \ {fd} : last_ok'[sock[g]] = last_ok[sock[g]]
    BY <1>3, <2>1 DEF Hangup
  <2> QED
    BY <1>1, <1>2, <2>2, <2>3, <2>4, SameTimes
<1>5. ASSUME NEW e \in Entry, NEW box, NEW m, NEW r, Receives(fd, r),
             Answer(fd, e, box, m), e.timestamp = client_list[fd].timestamp
      PROVE  Clock'
  <2>1. sock' = sock
    BY <1>5 DEF Receives
  <2>2. CASE m.ok
    <3>1. /\ client_list' = [client_list EXCEPT ![fd] = [e EXCEPT !.timestamp = now + IdleLimit]]
          /\ last_ok' = [last_ok EXCEPT ![sock[fd]] = now]
      BY <1>5, <2>2 DEF Answer
    <3>2. client_list'[fd].timestamp = now + IdleLimit /\ last_ok'[sock[fd]] = now
      BY <1>2, <1>3, <3>1 DEF Entry
    <3>3. \A g \in Fds \ {fd} : client_list'[g] = client_list[g]
      BY <1>3, <3>1
    <3>4. \A g \in Enabled' \ {fd} : g \in Enabled /\ g \in Fds
      BY <3>3 DEF Enabled
    <3>5. \A g \in Enabled \ {fd} : last_ok'[sock[g]] = last_ok[sock[g]]
      BY <1>3, <3>1
    <3> QED
      BY <1>1, <1>2, <2>1, <3>2, <3>3, <3>4, <3>5, SameTimes
  <2>3. CASE ~m.ok
    <3>1. client_list' = [client_list EXCEPT ![fd] = e] /\ last_ok' = last_ok
      BY <1>5, <2>3 DEF Answer
    <3>2. client_list'[fd].timestamp = client_list[fd].timestamp
      BY <1>3, <1>5, <3>1
    <3>3. \A g \in Fds \ {fd} : client_list'[g] = client_list[g]
      BY <1>3, <3>1
    <3>4. \A g \in Enabled' : g = fd \/ (g \in Enabled /\ g \in Fds)
      BY <3>3 DEF Enabled
    <3> QED
      BY <1>1, <1>2, <2>1, <3>1, <3>2, <3>3, <3>4, SameTimes
  <2> QED
    BY <2>2, <2>3
<1>6. client_list[fd] \in Entry
  BY <1>3
<1>7. CASE HandleBind(fd)
  <2>1. PICK r \in Request :
          /\ Receives(fd, r)
          /\ \/ Answer(fd, client_list[fd], outbox, Status(r, FALSE))
             \/ /\ r.key # NoKey
                /\ Answer(fd, [client_list[fd] EXCEPT !.esp8266 = TRUE,
                                                      !.key = Kept[r.key]],
                          outbox, Status(r, TRUE))
    BY <1>7, IncomingIsRequest DEF Inv, HandleBind
  <2>2. r.key # NoKey => Kept[r.key] \in Keys
    BY NameAssumption DEF Request
  <2> DEFINE e == [client_list[fd] EXCEPT !.esp8266 = TRUE, !.key = Kept[r.key]]
  <2>3. r.key # NoKey => e \in Entry /\ e.timestamp = client_list[fd].timestamp
    BY <1>6, <2>2 DEF Entry
  <2> HIDE DEF e
  <2>4. CASE Answer(fd, client_list[fd], outbox, Status(r, FALSE))
    BY <1>5, <1>6, <2>1, <2>4
  <2>5. CASE r.key # NoKey /\ Answer(fd, e, outbox, Status(r, TRUE))
    BY <1>5, <2>1, <2>3, <2>5
  <2> QED
    BY <2>1, <2>4, <2>5 DEF e
<1>8. ASSUME NEW r, NEW box, NEW m, Receives(fd, r),
             Answer(fd, client_list[fd], box, m)
      PROVE  Clock'
  BY <1>5, <1>6, <1>8
<1>9. CASE HandleClientList(fd) \/ HandleForward(fd) \/ HandleWarn(fd)
           \/ HandleBeat(fd) \/ HandleGarbled(fd)
  BY <1>8, <1>9 DEF HandleClientList, HandleForward, HandleWarn, HandleBeat, HandleGarbled
<1>10. CASE HandleResponse(fd)
  <2>1. UNCHANGED <<client_list, last_ok, sock>>
    BY <1>10 DEF HandleResponse, Receives, auxVars
  <2>2. Enabled' = Enabled
    BY <2>1 DEF Enabled
  <2> QED
    BY <1>1, <1>2, <2>1, <2>2, SameTimes
<1> QED
  BY <1>4, <1>7, <1>9, <1>10 DEF Handler

\* A sweep leaves no entry behind that is overdue, and skipping it only entries
\* that the next sweep will still find in time.
LEMMA LoopClock == Inv /\ Clock /\ Loop => Clock'
<1> SUFFICES ASSUME Inv, Clock, Loop PROVE Clock'
  OBVIOUS
<1>1. CASE LoopSkip
  <2>1. /\ Running /\ round_at' = now /\ now' = now /\ checktimeout >= now
        /\ UNCHANGED <<checktimeout, client_list, sock, last_ok>>
    BY <1>1 DEF LoopSkip, Looping, Running, auxVars
  <2>2. Enabled' = Enabled
    BY <2>1 DEF Enabled
  <2> QED
    BY <2>1, <2>2, ClockTypes DEF Clock
<1>2. CASE LoopSweep
  <2>0. /\ Running /\ round_at' = now /\ now' = now
        /\ checktimeout' = now + SweepEvery
    BY <1>2 DEF LoopSweep, Looping, Running
  <2>1. /\ EpollDel(Expired) /\ Hangup(ConnsOf(Expired \cap interest))
        /\ client_list' = [fd \in Fds |->
             IF fd \in Expired
             THEN [client_list[fd] EXCEPT !.enable = FALSE, !.timestamp = 0]
             ELSE client_list[fd]]
    BY <1>2 DEF LoopSweep, Looping, Running
  <2>2. Expired \subseteq Enabled /\ Enabled \subseteq Fds
    BY DEF Expired, Enabled
  <2>3. \A fd \in Enabled' : fd \in Fds /\ fd \notin Expired
    <3>1. \A fd \in Expired : client_list'[fd].enable = FALSE
      <4> TAKE fd \in Expired
      <4>1. client_list[fd] \in Entry /\ fd \in Fds
        BY <2>2 DEF Inv, ServerTypeOK
      <4>2. \A e \in Entry : [e EXCEPT !.enable = FALSE, !.timestamp = 0].enable = FALSE
        BY DEF Entry
      <4>3. client_list'[fd] = [client_list[fd] EXCEPT !.enable = FALSE, !.timestamp = 0]
        BY <2>1, <4>1, Zenon
      <4> QED
        BY <4>1, <4>2, <4>3, Zenon
    <3> QED
      BY <3>1 DEF Enabled
  <2>4. \A fd \in Enabled' : client_list'[fd] = client_list[fd] /\ fd \in Enabled
    <3>1. \A fd \in Enabled' : client_list'[fd] = client_list[fd]
      BY <2>1, <2>3
    <3> QED
      BY <2>3, <3>1 DEF Enabled
  <2>5. \A fd \in Enabled' : /\ sock'[fd] = sock[fd]
                             /\ last_ok'[sock[fd]] = last_ok[sock[fd]]
    <3> TAKE fd \in Enabled'
    <3>1. fd \in Enabled /\ fd \in Fds /\ fd \notin Expired
      BY <2>3, <2>4
    <3>2. sock'[fd] = sock[fd]
      BY <2>1, <3>1 DEF EpollDel
    <3>3. sock[fd] \in Conns /\ sock[fd] \notin ConnsOf(Expired \cap interest)
      BY <2>0, <2>2, <3>1 DEF Inv, TableMatchesKernel, ServerTypeOK, ConnsOf
    <3> QED
      BY <2>1, <3>2, <3>3 DEF Hangup
  <2>6. \A fd \in Enabled' : client_list[fd].timestamp >= now
    <3>1. \A fd \in Enabled' : ~(client_list[fd].timestamp < now) /\ fd \in Fds
      BY <2>3, <2>4 DEF Expired
    <3> QED
      BY <3>1, ClockTypes
  <2>7. \A fd \in Enabled' :
          /\ client_list'[fd].timestamp = last_ok'[sock'[fd]] + IdleLimit
          /\ client_list'[fd].timestamp + SweepEvery >= checktimeout'
    <3> TAKE fd \in Enabled'
    <3>1. client_list[fd].timestamp = last_ok[sock[fd]] + IdleLimit
      BY <2>0, <2>4 DEF Clock
    <3>2. client_list[fd].timestamp \in Nat /\ now \in Nat /\ SweepEvery \in Nat
      BY <2>3, ClockTypes
    <3>3. /\ client_list'[fd].timestamp = client_list[fd].timestamp
          /\ last_ok'[sock'[fd]] = last_ok[sock[fd]]
          /\ client_list[fd].timestamp >= now
      BY <2>4, <2>5, <2>6
    <3> QED
      BY <2>0, <3>1, <3>2, <3>3
  <2>8. /\ round_at' <= now' /\ now' <= round_at' + RoundMax
        /\ checktimeout' <= now' + SweepEvery /\ checktimeout' >= round_at'
    BY <2>0, ClockTypes
  <2> QED
    BY <2>7, <2>8 DEF Clock
<1>3. CASE LoopExit
  BY <1>3 DEF LoopExit, Clock, Running
<1>4. CASE EpollWait
  <2>1. /\ UNCHANGED <<round_at, now, checktimeout, client_list, sock, last_ok>>
        /\ pc = "wait" /\ Running /\ Running'
    BY <1>4 DEF EpollWait, auxVars, Running
  <2>2. Enabled' = Enabled
    BY <2>1 DEF Enabled
  <2> QED
    BY <2>1, <2>2, SameTimes
<1> QED
  BY <1>1, <1>2, <1>3, <1>4 DEF Loop

\* A new entry starts with a full IdleLimit.
LEMMA ListenerClock == Inv /\ Clock /\ Listener => Clock'
<1> SUFFICES ASSUME Inv, Clock, Listener PROVE Clock'
  OBVIOUS
<1>1. pc = "dispatch" /\ Running /\ Running' /\ UNCHANGED <<round_at, now, checktimeout>>
  BY DEF Listener, Listening, Served, Running, Accept, AcceptRejected, AcceptFails
<1>2. /\ client_list \in [Fds -> Entry] /\ last_ok \in [Conns -> Nat]
      /\ sock \in [Fds -> Conns \cup {NoConn}]
      /\ \A fd \in Enabled : fd \in Fds /\ sock[fd] \in Conns /\ sock[fd] \in Up
  BY <1>1 DEF Inv, TableMatchesKernel, ServerTypeOK, NetworkTypeOK, Enabled
<1>3. ASSUME NEW c \in Conns, Accept(c) PROVE Clock'
  <2>1. PICK fd \in Fds :
          /\ sock' = [sock EXCEPT ![fd] = c]
          /\ client_list' = [client_list EXCEPT ![fd] = NewEntry(fd)]
    BY <1>3 DEF Accept
  <2>2. last_ok' = [last_ok EXCEPT ![c] = now] /\ c \notin Up
    BY <1>3 DEF Accept, Up
  <2>3. /\ client_list'[fd].timestamp = now + IdleLimit
        /\ last_ok'[sock'[fd]] = now
    BY <1>2, <2>1, <2>2 DEF NewEntry
  <2>4. \A g \in Enabled' \ {fd} :
          /\ g \in Enabled /\ client_list'[g] = client_list[g] /\ sock'[g] = sock[g]
    BY <1>2, <2>1 DEF Enabled
  <2>5. \A g \in Enabled : last_ok'[sock[g]] = last_ok[sock[g]]
    BY <1>2, <2>2
  <2> QED
    BY <1>1, <2>3, <2>4, <2>5, SameTimes
<1>4. ASSUME NEW c \in Conns, AcceptRejected(c) PROVE Clock'
  <2>1. client_list' = client_list /\ sock' = sock /\ Hangup({c}) /\ c \notin Up
    BY <1>4 DEF AcceptRejected, Up
  <2>2. Enabled' = Enabled
    BY <2>1 DEF Enabled
  <2>3. \A g \in Enabled : last_ok'[sock[g]] = last_ok[sock[g]]
    BY <1>2, <2>1 DEF Hangup
  <2> QED
    BY <1>1, <2>1, <2>2, <2>3, SameTimes
<1>5. CASE AcceptFails
  <2>1. UNCHANGED <<client_list, sock, last_ok>>
    BY <1>5 DEF AcceptFails, auxVars
  <2>2. Enabled' = Enabled
    BY <2>1 DEF Enabled
  <2> QED
    BY <1>1, <2>1, <2>2, SameTimes
<1> QED
  BY <1>3, <1>4, <1>5 DEF Listener

\* The clients, the signals and the clock keep it; the clock goes no further than
\* the round may last.
LEMMA WorldClock == Inv /\ Clock /\ World => Clock'
<1> SUFFICES ASSUME Inv, Clock, World PROVE Clock'
  OBVIOUS
<1>1. ASSUME UNCHANGED <<pc, round_at, now, checktimeout, client_list, sock, last_ok>>
      PROVE  Clock'
  <2>1. Enabled' = Enabled /\ Running' = Running
    BY <1>1 DEF Enabled, Running
  <2> QED
    BY <1>1, <2>1 DEF Clock
<1>2. ASSUME NEW c \in Conns, Client(c) PROVE Clock'
  BY <1>1, <1>2 DEF Client, Connect, ClientSend, ClientSendHead, ClientSendTail,
     ClientFin, ClientRst, PeerRead, loopVars, auxVars
<1>3. CASE TakeNotice \/ Signal
  BY <1>1, <1>3 DEF TakeNotice, Signal, loopVars, auxVars
<1>4. CASE Tick
  <2>1. /\ now' = now + 1 /\ Running' = Running /\ Enabled' = Enabled
        /\ Running => now - round_at < RoundMax
        /\ UNCHANGED <<pc, round_at, checktimeout, client_list, sock, last_ok>>
    BY <1>4 DEF Tick, loopVars, auxVars, Running, Enabled
  <2> QED
    BY <2>1, ClockTypes DEF Clock
<1>5. CASE Restart
  <2>1. /\ Enabled' = {} /\ pc' = "top" /\ round_at' = now /\ now' = now
        /\ checktimeout' = 0
    BY <1>5 DEF Restart, Enabled, Leftover
  <2> QED
    BY <2>1, ClockTypes DEF Clock
<1> QED
  BY <1>2, <1>3, <1>4, <1>5 DEF World

\* Every step preserves it.
LEMMA NextClock == Inv /\ Clock /\ [Next]_vars => Clock'
<1> SUFFICES ASSUME Inv, Clock, [Next]_vars PROVE Clock'
  OBVIOUS
<1>1. CASE Server
  BY <1>1, LoopClock, ListenerClock, HandlerClock DEF Server
<1>2. CASE World
  BY <1>2, WorldClock
<1>3. CASE UNCHANGED vars
  BY <1>3 DEF vars, loopVars, auxVars, Clock, Running, Enabled
<1> QED
  BY <1>1, <1>2, <1>3 DEF Next

\* The times in the table, the time of the next sweep and the length of a round
\* always fit together, for every IdleLimit, SweepEvery and RoundMax
\* (main.cpp:616-641 with 116 and 438).
THEOREM ClockInvariance == Spec => []Clock
<1>1. Init => Clock
  BY InitClock
<1>2. Inv /\ Clock /\ [Next]_vars => Clock'
  BY NextClock
<1> QED
  BY <1>1, <1>2, Invariance, PTL DEF Spec

\* Whatever its peer does, an idle connection is dropped in a bounded time
\* (main.cpp:616-641).
THEOREM IdleBound == Spec => []IdleAreEvicted
<1>1. ASSUME Inv, Clock PROVE IdleAreEvicted
  <2> SUFFICES ASSUME Running, NEW c \in Up
               PROVE  now <= last_ok[c] + IdleLimit + SweepEvery + RoundMax
    BY DEF IdleAreEvicted
  <2>1. PICK fd \in Enabled : sock[fd] = c
    BY <1>1 DEF Inv, TableMatchesKernel
  <2>2. /\ client_list[fd].timestamp = last_ok[c] + IdleLimit
        /\ client_list[fd].timestamp + SweepEvery >= checktimeout
        /\ checktimeout >= round_at /\ now <= round_at + RoundMax
    BY <1>1, <2>1 DEF Clock
  <2>3. client_list[fd].timestamp \in Nat /\ last_ok[c] \in Nat
    BY <1>1, ClockTypes DEF Enabled, Up
  <2> QED
    BY <1>1, <2>2, <2>3, ClockTypes
<1> QED
  BY <1>1, Invariance, ClockInvariance, PTL

\* A connection that is not broken is dropped for idleness only (main.cpp:153-166,
\* 626-636).
THEOREM EvictsOnlyIdle == Spec => EvictsOnlyTheIdle
<1>1. ASSUME Inv, Clock, [Next]_vars, NEW c \in Up, phase'[c] # "up", pc' # "exited"
      PROVE  ending[c] \in {"fin", "reset"} \/ now > last_ok[c] + IdleLimit
  <2>0. c \in Conns /\ phase[c] = "up"
    BY <1>1 DEF Up
  <2>1. CASE LoopSweep
    <3>1. Hangup(ConnsOf(Expired \cap interest)) /\ Running
      BY <2>1 DEF LoopSweep, Looping, Running
    <3>2. c \in ConnsOf(Expired \cap interest)
      BY <1>1, <2>0, <3>1 DEF Hangup
    <3>3. PICK fd \in Expired : sock[fd] = c
      BY <3>2 DEF ConnsOf
    <3>4. fd \in Enabled /\ fd \in Fds /\ client_list[fd].timestamp < now
      BY <3>3 DEF Expired, Enabled
    <3>5. client_list[fd].timestamp = last_ok[c] + IdleLimit
      BY <1>1, <3>1, <3>3, <3>4 DEF Clock
    <3>6. client_list[fd].timestamp \in Nat /\ now \in Nat
      BY <1>1, <3>4, ClockTypes
    <3> QED
      BY <3>4, <3>5, <3>6
  <2>2. ASSUME NEW fd \in Fds, PeerClosed(fd)
        PROVE  ending[c] \in {"fin", "reset"}
    <3>1. Hangup({sock[fd]}) /\ ending[sock[fd]] \in {"fin", "reset"}
      BY <2>2 DEF PeerClosed
    <3>2. c = sock[fd]
      BY <1>1, <2>0, <3>1 DEF Hangup
    <3> QED
      BY <3>1, <3>2
  <2>3. CASE LoopSkip \/ LoopExit \/ EpollWait
    BY <1>1, <2>0, <2>3 DEF LoopSkip, LoopExit, EpollWait
  <2>4. CASE Listener
    <3>1. ASSUME NEW d \in Conns, Accept(d) PROVE FALSE
      BY <1>1, <2>0, <3>1 DEF Accept, Inv, NetworkTypeOK
    <3>2. ASSUME NEW d \in Conns, AcceptRejected(d) PROVE FALSE
      BY <1>1, <2>0, <3>2 DEF AcceptRejected, Hangup
    <3>3. CASE AcceptFails
      BY <1>1, <2>0, <3>3 DEF AcceptFails
    <3> QED
      BY <2>4, <3>1, <3>2, <3>3 DEF Listener
  <2>5. ASSUME NEW fd \in Fds, Handler(fd), ~PeerClosed(fd) PROVE FALSE
    BY <1>1, <2>0, <2>5 DEF Handler, HandleBind, HandleClientList, HandleForward,
       HandleWarn, HandleBeat, HandleResponse, HandleGarbled, Receives
  <2>6. CASE World
    <3>1. ASSUME NEW d \in Conns, Client(d) PROVE FALSE
      <4>1. \/ phase' = phase
            \/ phase' = [phase EXCEPT ![d] = "backlog"] /\ phase[d] = "unused"
        BY <3>1 DEF Client, Connect, ClientSend, ClientSendHead, ClientSendTail,
           ClientFin, ClientRst, PeerRead
      <4>2. phase \in [Conns -> {"unused", "backlog", "up", "gone"}]
        BY <1>1 DEF Inv, NetworkTypeOK
      <4> QED
        BY <1>1, <2>0, <4>1, <4>2
    <3>2. CASE TakeNotice \/ Tick \/ Signal \/ Restart
      BY <1>1, <2>0, <3>2 DEF TakeNotice, Tick, Signal, Restart
    <3> QED
      BY <2>6, <3>1, <3>2 DEF World
  <2>7. CASE UNCHANGED vars
    BY <1>1, <2>0, <2>7 DEF vars
  <2> QED
    BY <1>1, <2>1, <2>2, <2>3, <2>4, <2>5, <2>6, <2>7 DEF Next, Server, Loop
<1>2. Inv /\ Clock /\ [Next]_vars => DropIsOfIdle
  BY <1>1 DEF DropIsOfIdle
<1> QED
  BY <1>2, Invariance, ClockInvariance, PTL DEF Spec, EvictsOnlyTheIdle

(***************************************************************************)
(* What is sent, and to whom.                                              *)
(***************************************************************************)

\* send adds m at the end of the buffer of c, or nothing anywhere.
LEMMA SendAdds ==
  ASSUME NEW box \in [Conns -> Seq(Message)], NEW c \in Conns, NEW m \in Message,
         NEW x \in Conns, NEW after, after = Send(box, c, m)
  PROVE  /\ Len(after[x]) >= Len(box[x])
         /\ \A i \in Len(box[x]) + 1 .. Len(after[x]) : x = c /\ after[x][i] = m
         /\ \A i \in 1 .. Len(box[x]) : after[x][i] = box[x][i]
<1>0. box[x] \in Seq(Message)
  OBVIOUS
<1>1. CASE after = box
  BY <1>0, <1>1
<1>2. CASE after = [box EXCEPT ![c] = Append(box[c], m)]
  <2>1. CASE x = c
    <3>1. after[x] = Append(box[x], m)
      BY <1>2, <2>1
    <3> QED
      BY <1>0, <2>1, <3>1
  <2>2. CASE x # c
    <3>1. after[x] = box[x]
      BY <1>2, <2>2
    <3> QED
      BY <1>0, <3>1
  <2> QED
    BY <2>1, <2>2
<1> QED
  BY <1>1, <1>2 DEF Send

\* The messages of a step come from the one request it handles: an answer to its
\* sender, and for a forwarded command an order to the device that is chosen.
Answered(r, m) ==
  \/ /\ m.type = "status" /\ m.re = r /\ m.ok \in BOOLEAN
     /\ r.cmd \in ForwardCmds /\ WellFormed(r) => (m.ok <=> Matching(r.key) # {})
  \/ m = Listing(Cardinality(Enabled), {client_list[d].key : d \in Devices})

Forwarded(r, c, m) ==
  /\ r.cmd \in ForwardCmds /\ WellFormed(r) /\ m = Order(r)
  /\ \E d \in Fds : Lowest(d, Matching(r.key)) /\ c = sock[d]

\* An answer alone puts one message in one buffer.
LEMMA OneAnswer ==
  ASSUME Inv, NEW fd \in Fds, NEW r \in Request, Receives(fd, r), NEW m \in Message,
         Answer(fd, client_list[fd], outbox, m) \/ outbox' = Send(outbox, sock[fd], m),
         NEW c \in Conns, NEW n \in SentTo(c)
  PROVE  c = sock[fd] /\ n = m
<1>1. outbox' = Send(outbox, sock[fd], m) /\ outbox \in [Conns -> Seq(Message)]
  BY DEF Answer, Inv, NetworkTypeOK
<1>2. sock[fd] \in Conns
  BY BatchIsServed DEF Receives
<1>3. PICK i \in Len(outbox[c]) + 1 .. Len(outbox'[c]) : n = outbox'[c][i]
  BY DEF SentTo
<1> QED
  BY <1>1, <1>2, <1>3, SendAdds

\* Whatever a step appends to a buffer, it is the answer to the request it read
\* or the order that request stands for.
LEMMA WhatIsSent ==
  ASSUME Inv, Next, NEW c \in Conns, NEW m \in SentTo(c)
  PROVE  \E fd \in Fds, r \in Request :
           /\ Receives(fd, r)
           /\ (c = sock[fd] /\ Answered(r, m)) \/ Forwarded(r, c, m)
<1>0. /\ outbox \in [Conns -> Seq(Message)] /\ sock \in [Fds -> Conns \cup {NoConn}]
      /\ outbox[c] \in Seq(Message) /\ Len(outbox[c]) \in Nat
  BY DEF Inv, ServerTypeOK, NetworkTypeOK
<1>1. PICK i \in Len(outbox[c]) + 1 .. Len(outbox'[c]) : m = outbox'[c][i]
  BY DEF SentTo
<1>2. ~(outbox'[c] = outbox[c] \/ outbox'[c] = << >>
        \/ (outbox[c] # << >> /\ outbox'[c] = Tail(outbox[c])))
  BY <1>0, <1>1
<1>3. ~Loop /\ ~Listener
  <2>1. ASSUME NEW S, Hangup(S) PROVE outbox'[c] = outbox[c] \/ outbox'[c] = << >>
    BY <2>1 DEF Hangup
  <2> QED
    BY <1>2, <2>1 DEF Loop, LoopSkip, LoopSweep, LoopExit, EpollWait, Listener,
       Accept, AcceptRejected, AcceptFails
<1>4. ~World
  <2>1. ASSUME NEW d \in Conns, Client(d) PROVE FALSE
    <3>1. \/ outbox' = outbox \/ outbox' = [outbox EXCEPT ![d] = << >>]
          \/ outbox[d] # << >> /\ outbox' = [outbox EXCEPT ![d] = Tail(outbox[d])]
      BY <2>1 DEF Client, Connect, ClientSend, ClientSendHead, ClientSendTail,
         ClientFin, ClientRst, PeerRead
    <3> QED
      BY <1>0, <1>2, <3>1
  <2> QED
    BY <1>2, <2>1 DEF World, TakeNotice, Tick, Signal, Restart
<1>5. PICK fd \in Fds : Handler(fd)
  BY <1>3, <1>4 DEF Next, Server
<1>6. ~PeerClosed(fd) /\ ~HandleResponse(fd)
  BY <1>2 DEF PeerClosed, Hangup, HandleResponse
<1>7. ASSUME NEW r \in Request, Receives(fd, r), NEW e, NEW ok \in BOOLEAN,
             Answer(fd, e, outbox, Status(r, ok)),
             r.cmd \in ForwardCmds /\ WellFormed(r) => (ok <=> Matching(r.key) # {})
      PROVE  c = sock[fd] /\ Answered(r, m)
  <2>1. Status(r, ok) \in Message /\ outbox' = Send(outbox, sock[fd], Status(r, ok))
    BY <1>7, MessageTypes DEF Answer
  <2>2. c = sock[fd] /\ m = Status(r, ok)
    BY <1>7, <2>1, OneAnswer
  <2>3. m.type = "status" /\ m.re = r /\ m.ok = ok
    BY <2>2 DEF Status
  <2> QED
    BY <1>7, <2>2, <2>3 DEF Answered
<1>8. CASE HandleBind(fd) \/ HandleWarn(fd) \/ HandleBeat(fd) \/ HandleGarbled(fd)
  <2>1. PICK r \in Request, ok \in BOOLEAN :
          /\ Receives(fd, r) /\ r.cmd \notin ForwardCmds
          /\ \E e : Answer(fd, e, outbox, Status(r, ok))
    BY <1>8, IncomingIsRequest
       DEF Inv, HandleBind, HandleWarn, HandleBeat, HandleGarbled, ForwardCmds
  <2> QED
    BY <1>7, <2>1
<1>9. CASE HandleClientList(fd)
  <2> DEFINE l == Listing(Cardinality(Enabled), {client_list[d].key : d \in Devices})
  <2>1. PICK r \in Request : Receives(fd, r) /\ Answer(fd, client_list[fd], outbox, l)
    BY <1>9, IncomingIsRequest DEF Inv, HandleClientList
  <2>2. outbox'[c] = Send(outbox, sock[fd], l)[c] /\ sock[fd] \in Conns
    BY <2>1, BatchIsServed DEF Answer, Receives
  <2>3. outbox'[c] = Append(outbox[c], l) /\ c = sock[fd]
    BY <1>0, <1>2, <2>2 DEF Send
  <2>4. m = l
    <3> HIDE DEF l
    <3>1. i = Len(outbox[c]) + 1
      BY <1>0, <1>1, <2>3
    <3> QED
      BY <1>0, <1>1, <2>3, <3>1
  <2> QED
    BY <2>1, <2>3, <2>4 DEF Answered
<1>10. CASE HandleForward(fd)
  <2>1. PICK r \in Request :
          /\ Receives(fd, r) /\ r.cmd \in ForwardCmds
          /\ \/ /\ ~WellFormed(r) \/ Matching(r.key) = {}
                /\ Answer(fd, client_list[fd], outbox, Status(r, FALSE))
             \/ /\ WellFormed(r)
                /\ \E d \in Fds :
                     /\ Lowest(d, Matching(r.key))
                     /\ Answer(fd, client_list[fd],
                               Send(outbox, sock[d], Order(r)), Status(r, TRUE))
    BY <1>10, IncomingIsRequest DEF Inv, HandleForward
  <2>2. CASE /\ ~WellFormed(r) \/ Matching(r.key) = {}
             /\ Answer(fd, client_list[fd], outbox, Status(r, FALSE))
    BY <1>7, <2>1, <2>2
  <2>3. ASSUME WellFormed(r), NEW d \in Fds, Lowest(d, Matching(r.key)),
               Answer(fd, client_list[fd],
                      Send(outbox, sock[d], Order(r)), Status(r, TRUE))
        PROVE  (c = sock[fd] /\ Answered(r, m)) \/ Forwarded(r, c, m)
    <3> DEFINE box == Send(outbox, sock[d], Order(r))
    <3>1. d \in Enabled /\ Running /\ d \in Matching(r.key)
      BY <2>1, <2>3 DEF Lowest, Matching, Devices, Receives, Running
    <3>2. sock[d] \in Conns /\ sock[fd] \in Conns
      BY <1>0, <2>1, <3>1, BatchIsServed DEF Inv, TableMatchesKernel, Receives
    <3>3. Order(r) \in Message /\ Status(r, TRUE) \in Message
      BY <2>1, <2>3, MessageTypes DEF WellFormed
    <3>4. box \in [Conns -> Seq(Message)]
      BY <1>0, <3>2, <3>3, SendType
    <3>5. outbox' = Send(box, sock[fd], Status(r, TRUE))
          /\ outbox' \in [Conns -> Seq(Message)]
      BY <2>3, <3>2, <3>3, <3>4, SendType DEF Answer
    <3>6. /\ Len(box[c]) >= Len(outbox[c])
          /\ \A j \in Len(outbox[c]) + 1 .. Len(box[c]) : c = sock[d] /\ box[c][j] = Order(r)
      BY <1>0, <3>2, <3>3, SendAdds
    <3> HIDE DEF box
    <3> DEFINE answer == Status(r, TRUE)
    <3>7. /\ Len(outbox'[c]) >= Len(box[c])
          /\ \A j \in Len(box[c]) + 1 .. Len(outbox'[c]) :
               c = sock[fd] /\ outbox'[c][j] = answer
          /\ \A j \in 1 .. Len(box[c]) : outbox'[c][j] = box[c][j]
      <4>1. answer \in Message /\ outbox' = Send(box, sock[fd], answer)
        BY <3>3, <3>5
      <4> HIDE DEF answer
      <4> QED
        BY <3>2, <3>4, <4>1, SendAdds
    <3> HIDE DEF answer
    <3>8. /\ i \in Nat /\ i >= 1 /\ i >= Len(outbox[c]) + 1
          /\ i <= Len(outbox'[c]) /\ m = outbox'[c][i]
          /\ Len(box[c]) \in Nat /\ Len(outbox'[c]) \in Nat
      <4>1. box[c] \in Seq(Message) /\ outbox'[c] \in Seq(Message)
        BY <3>4, <3>5
      <4> QED
        BY <1>0, <1>1, <4>1
    <3>9. CASE i <= Len(box[c])
      <4>1. c = sock[d] /\ m = Order(r)
        BY <1>0, <3>6, <3>7, <3>8, <3>9
      <4> QED
        BY <2>1, <2>3, <4>1 DEF Forwarded
    <3>10. CASE i > Len(box[c])
      <4>1. c = sock[fd] /\ m = Status(r, TRUE)
        <5>1. i \in Len(box[c]) + 1 .. Len(outbox'[c])
          BY <3>8, <3>10
        <5> QED
          BY <3>7, <3>8, <5>1 DEF answer
      <4>2. m.type = "status" /\ m.re = r /\ m.ok = TRUE
        BY <4>1 DEF Status
      <4> QED
        BY <2>3, <3>1, <4>1, <4>2 DEF Answered
    <3> QED
      BY <3>8, <3>9, <3>10
  <2> QED
    BY <2>1, <2>2, <2>3
<1> QED
  BY <1>5, <1>6, <1>8, <1>9, <1>10 DEF Handler

\* The entries that match a key are those of the connections bound to it.
LEMMA MatchingIsBound ==
  ASSUME Inv, Running, NEW k
  PROVE  /\ \A d \in Matching(k) : BoundTo(sock[d], k) /\ sock[d] \in Conns /\ d \in Fds
         /\ \A c \in Conns : BoundTo(c, k) => \E d \in Matching(k) : sock[d] = c
<1>1. /\ Up = {sock[fd] : fd \in Enabled}
      /\ \A fd \in Enabled :
           IF client_list[fd].esp8266
           THEN bound[sock[fd]] # NoKey /\ client_list[fd].key = Kept[bound[sock[fd]]]
           ELSE bound[sock[fd]] = NoKey
  BY DEF Inv, TableMatchesKernel, NamesAreOwn
<1>2. Up \subseteq Conns /\ Enabled \subseteq Fds
  BY DEF Up, Enabled
<1>3. \A d \in Matching(k) : BoundTo(sock[d], k) /\ sock[d] \in Conns /\ d \in Fds
  BY <1>1, <1>2 DEF Matching, Devices, BoundTo
<1>4. \A c \in Conns : BoundTo(c, k) => \E d \in Matching(k) : sock[d] = c
  <2> SUFFICES ASSUME NEW c \in Conns, BoundTo(c, k)
               PROVE  \E d \in Matching(k) : sock[d] = c
    OBVIOUS
  <2>1. PICK d \in Enabled : sock[d] = c
    BY <1>1 DEF BoundTo
  <2>2. d \in Matching(k)
    BY <1>1, <2>1 DEF BoundTo, Matching, Devices
  <2> QED
    BY <2>1, <2>2
<1> QED
  BY <1>3, <1>4

\* The kinds of messages are told apart by their type.
LEMMA MessageKinds ==
  /\ \A n, ks : Listing(n, ks).type = "listing"
  /\ \A r : Order(r).type = "order" /\ Order(r).key = r.key
BY DEF Listing, Order

\* A step reads from one descriptor, and one request.
LEMMA OneRequestPerStep ==
  ASSUME NEW fd, NEW r, Receives(fd, r), NEW fe, NEW q, Receives(fe, q)
  PROVE  fd = fe /\ r = q
<1>1. fd \in batch /\ fe \in batch /\ batch \ {fd} = batch \ {fe}
  BY DEF Receives, Served
<1> QED
  BY <1>1 DEF Receives

\* An order goes to one connection, open and bound to the key of the request
\* (main.cpp:290-311, 340-361, 396-414).
THEOREM OrdersReach == Spec => OrdersReachTheirKey
<1>1. ASSUME Inv, Next, NEW c \in Conns, NEW m \in SentTo(c), m.type = "order"
      PROVE  \E fd \in Fds, r \in Request : Receives(fd, r) /\ Forwarded(r, c, m)
  <2>1. PICK fd \in Fds, r \in Request :
          /\ Receives(fd, r)
          /\ (c = sock[fd] /\ Answered(r, m)) \/ Forwarded(r, c, m)
    BY <1>1, WhatIsSent
  <2>2. ~Answered(r, m)
    BY <1>1, MessageKinds DEF Answered
  <2> QED
    BY <2>1, <2>2
<1>2. ASSUME Inv, Next, NEW c \in Conns, NEW m \in SentTo(c), m.type = "order"
      PROVE  BoundTo(c, m.key)
  <2>1. PICK fd \in Fds, r \in Request : Receives(fd, r) /\ Forwarded(r, c, m)
    BY <1>1, <1>2
  <2>2. PICK d \in Fds : d \in Matching(r.key) /\ c = sock[d]
    BY <2>1 DEF Forwarded, Lowest
  <2>3. Running /\ m.key = r.key
    BY <2>1, MessageKinds DEF Receives, Running, Forwarded
  <2> QED
    BY <1>2, <2>2, <2>3, MatchingIsBound
<1>3. ASSUME Inv, Next, NEW c \in Conns, NEW d \in Conns,
             NEW m \in SentTo(c), NEW n \in SentTo(d),
             m.type = "order", n.type = "order"
      PROVE  c = d
  <2>1. PICK fd \in Fds, r \in Request : Receives(fd, r) /\ Forwarded(r, c, m)
    BY <1>1, <1>3
  <2>2. PICK fe \in Fds, q \in Request : Receives(fe, q) /\ Forwarded(q, d, n)
    BY <1>1, <1>3
  <2>3. r = q
    BY <2>1, <2>2, OneRequestPerStep
  <2>4. PICK g \in Fds : Lowest(g, Matching(r.key)) /\ c = sock[g]
    BY <2>1 DEF Forwarded
  <2>5. PICK h \in Fds : Lowest(h, Matching(r.key)) /\ d = sock[h]
    BY <2>2, <2>3 DEF Forwarded
  <2>6. g \in Nat /\ h \in Nat /\ g <= h /\ h <= g
    BY <2>4, <2>5, FdAssumption DEF Lowest
  <2> QED
    BY <2>4, <2>5, <2>6
<1>4. Inv /\ [Next]_vars => [OrderIsForItsKey]_vars
  BY <1>2, <1>3 DEF OrderIsForItsKey
<1> QED
  BY <1>4, Invariance, PTL DEF Spec, OrdersReachTheirKey

\* A well-formed order is answered with true exactly when its key belongs to an open
\* connection (main.cpp:294-309, 344-359, 400-412).
THEOREM AnswersAreTrue == Spec => AnswersTellTheTruth
<1>1. ASSUME Inv, Next, NEW c \in Conns, NEW m \in SentTo(c), m.type = "status",
             m.re.cmd \in ForwardCmds, WellFormed(m.re)
      PROVE  m.ok <=> \E d \in Conns : BoundTo(d, m.re.key)
  <2>1. PICK fd \in Fds, r \in Request :
          /\ Receives(fd, r)
          /\ (c = sock[fd] /\ Answered(r, m)) \/ Forwarded(r, c, m)
    BY <1>1, WhatIsSent
  <2>2. /\ m.re = r /\ m.ok \in BOOLEAN
        /\ m.ok <=> Matching(r.key) # {}
    BY <1>1, <2>1, MessageKinds DEF Answered, Forwarded
  <2>3. Running
    BY <2>1 DEF Receives, Running
  <2> QED
    BY <1>1, <2>2, <2>3, MatchingIsBound
<1>2. Inv /\ [Next]_vars => [AnswerIsTrue]_vars
  BY <1>1 DEF AnswerIsTrue
<1> QED
  BY <1>2, Invariance, PTL DEF Spec, AnswersTellTheTruth

\* The entries of the table and the connections that are up are equally many.
LEMMA AsManyAsUp ==
  ASSUME Inv, Running
  PROVE  Cardinality(Enabled) = Cardinality(Up)
<1> DEFINE f == [fd \in Enabled |-> sock[fd]]
<1>1. /\ \A fd, g \in Enabled : sock[fd] = sock[g] => fd = g
      /\ Up = {sock[fd] : fd \in Enabled}
  BY DEF Inv, TableMatchesKernel
<1>2. f \in [Enabled -> Up]
  BY <1>1
<1>3. f \in Injection(Enabled, Up)
  BY <1>1, <1>2 DEF Injection, IsInjective
<1>4. f \in Surjection(Enabled, Up)
  BY <1>1, <1>2 DEF Surjection
<1>5. ExistsBijection(Enabled, Up)
  BY <1>3, <1>4 DEF ExistsBijection, Bijection
<1> QED
  BY <1>5, InterestIsFinite, FS_Bijection DEF Inv

\* client_list counts the open connections and names those that have bound, nobody
\* else (main.cpp:228-257).
THEOREM ListingCorrect == Spec => ListingIsAccurate
<1>1. ASSUME Inv, Next, NEW c \in Conns, NEW m \in SentTo(c), m.type = "listing"
      PROVE  /\ m.count = Cardinality(Up)
             /\ m.keys = {Kept[bound[d]] : d \in {e \in Up : bound[e] # NoKey}}
  <2>1. PICK fd \in Fds, r \in Request :
          /\ Receives(fd, r)
          /\ (c = sock[fd] /\ Answered(r, m)) \/ Forwarded(r, c, m)
    BY <1>1, WhatIsSent
  <2>2. m = Listing(Cardinality(Enabled), {client_list[d].key : d \in Devices})
    BY <1>1, <2>1, MessageKinds DEF Answered, Forwarded
  <2>3. m.count = Cardinality(Enabled) /\ m.keys = {client_list[d].key : d \in Devices}
    BY <2>2 DEF Listing
  <2>4. Running
    BY <2>1 DEF Receives, Running
  <2>5. /\ Up = {sock[d] : d \in Enabled}
        /\ \A d \in Enabled :
             IF client_list[d].esp8266
             THEN bound[sock[d]] # NoKey /\ client_list[d].key = Kept[bound[sock[d]]]
             ELSE bound[sock[d]] = NoKey
    BY <1>1, <2>4 DEF Inv, TableMatchesKernel, NamesAreOwn
  <2>6. {client_list[d].key : d \in Devices}
          = {Kept[bound[d]] : d \in {e \in Up : bound[e] # NoKey}}
    <3>1. ASSUME NEW d \in Devices
          PROVE  \E e \in Up : bound[e] # NoKey /\ client_list[d].key = Kept[bound[e]]
      BY <2>5 DEF Devices
    <3>2. ASSUME NEW e \in Up, bound[e] # NoKey
          PROVE  \E d \in Devices : client_list[d].key = Kept[bound[e]]
      BY <2>5, <3>2 DEF Devices
    <3> QED
      BY <3>1, <3>2
  <2> QED
    BY <1>1, <2>3, <2>4, <2>6, AsManyAsUp
<1>2. Inv /\ [Next]_vars => [ListingIsOfUp]_vars
  BY <1>1 DEF ListingIsOfUp
<1> QED
  BY <1>2, Invariance, PTL DEF Spec, ListingIsAccurate

\* A step queues no notice but that of a warn it reads, from a connection that has bound.
LEMMA WhatIsNoticed ==
  ASSUME Inv, Next, NEW i \in Len(notices) + 1 .. Len(notices')
  PROVE  \E fd \in Devices :
           /\ Running /\ sock[fd] \in Conns
           /\ notices'[i] = Notice(client_list[fd].key, sock[fd])
<1>0. notices \in Seq(Datagram) /\ Len(notices) \in Nat
  BY DEF Inv, NetworkTypeOK
<1>1. notices' # notices
  BY <1>0
<1>2. ~Loop /\ ~Listener
  BY <1>1 DEF Loop, LoopSkip, LoopSweep, LoopExit, EpollWait, Listener, Accept,
     AcceptRejected, AcceptFails
<1>3. ~World
  <2>1. ASSUME TakeNotice PROVE FALSE
    <3>1. notices # << >> /\ notices' = Tail(notices)
      BY <2>1 DEF TakeNotice
    <3>2. Len(notices') = Len(notices) - 1
      BY <1>0, <3>1
    <3> QED
      BY <1>0, <3>2
  <2> QED
    BY <1>1, <2>1 DEF World, Client, Connect, ClientSend, ClientSendHead,
       ClientSendTail, ClientFin, ClientRst, PeerRead, Tick, Signal, Restart
<1>4. PICK fd \in Fds : HandleWarn(fd)
  BY <1>1, <1>2, <1>3 DEF Next, Server, Handler, PeerClosed, HandleBind,
     HandleClientList, HandleForward, HandleBeat, HandleResponse, HandleGarbled
<1>5. PICK r : Receives(fd, r) /\ SendNotice(fd)
  BY <1>4 DEF HandleWarn
<1>6. /\ client_list[fd].enable /\ client_list[fd].esp8266
      /\ notices' = Append(notices, Notice(client_list[fd].key, sock[fd]))
  BY <1>1, <1>5 DEF SendNotice
<1>7. Running /\ sock[fd] \in Conns /\ fd \in Devices
  BY <1>5, <1>6, BatchIsServed DEF Receives, Devices, Enabled
<1>8. Notice(client_list[fd].key, sock[fd]) \in Datagram
  BY <1>7 DEF Notice, Datagram, Inv, ServerTypeOK, Entry
<1>9. notices'[i] = Notice(client_list[fd].key, sock[fd])
  <2> DEFINE n == Notice(client_list[fd].key, sock[fd])
  <2>1. n \in Datagram /\ notices' = Append(notices, n)
    BY <1>6, <1>8
  <2> HIDE DEF n
  <2>2. Len(notices') = Len(notices) + 1 /\ notices'[Len(notices) + 1] = n
    BY <1>0, <2>1
  <2>3. i = Len(notices) + 1
    BY <1>0, <2>2
  <2> QED
    BY <2>2, <2>3 DEF n
<1> QED
  BY <1>7, <1>9

\* A notice names the key that the connection it is about has bound
\* (main.cpp:368-386).
THEOREM NoticesCorrect == Spec => NoticesNameTheirSender
<1>1. ASSUME Inv, Next, NEW i \in Len(notices) + 1 .. Len(notices')
      PROVE  BoundTo(notices'[i].by, notices'[i].key)
  <2>1. PICK fd \in Devices :
          /\ Running /\ sock[fd] \in Conns
          /\ notices'[i] = Notice(client_list[fd].key, sock[fd])
    BY <1>1, WhatIsNoticed
  <2>2. notices'[i].by = sock[fd] /\ notices'[i].key = client_list[fd].key
    BY <2>1 DEF Notice
  <2>3. fd \in Matching(client_list[fd].key)
    BY <2>1 DEF Matching
  <2> QED
    BY <1>1, <2>1, <2>2, <2>3, MatchingIsBound
<1>2. Inv /\ [Next]_vars => [NoticeIsOfSender]_vars
  BY <1>1 DEF NoticeIsOfSender
<1> QED
  BY <1>2, Invariance, PTL DEF Spec, NoticesNameTheirSender

(***************************************************************************)
(* What the directory sees of a state.                                     *)
(***************************************************************************)

Bound(c) == IF c \in Up /\ bound[c] # NoKey THEN Kept[bound[c]] ELSE NoKey

\* Who is in the table, and under which name.
LEMMA TableSays ==
  ASSUME Inv
  PROVE  /\ Members = Up
         /\ NameList = [c \in Conns |-> Bound(c)]
<1>1. CASE Running
  <2>1. /\ Up = {sock[fd] : fd \in Enabled}
        /\ \A fd, g \in Enabled : sock[fd] = sock[g] => fd = g
        /\ \A fd \in Enabled :
             IF client_list[fd].esp8266
             THEN bound[sock[fd]] # NoKey /\ client_list[fd].key = Kept[bound[sock[fd]]]
             ELSE bound[sock[fd]] = NoKey
    BY <1>1 DEF Inv, TableMatchesKernel, NamesAreOwn
  <2>2. Members = Up
    BY <2>1 DEF Members, ConnsOf, Up
  <2>3. ASSUME NEW c \in Conns PROVE NameOf(c) = Bound(c)
    <3>1. CASE c \notin Up
      <4>1. EntryOf(c) = {}
        BY <2>1, <3>1 DEF EntryOf
      <4> QED
        BY <3>1, <4>1 DEF NameOf, Bound
    <3>2. CASE c \in Up
      <4>1. PICK fd \in Enabled : sock[fd] = c
        BY <2>1, <3>2
      <4>2. EntryOf(c) = {fd}
        BY <2>1, <4>1 DEF EntryOf
      <4>3. CASE client_list[fd].esp8266
        <5>1. (CHOOSE g \in EntryOf(c) : client_list[g].esp8266) = fd
          BY <4>2, <4>3
        <5>2. NameOf(c) = client_list[fd].key
          BY <4>2, <4>3, <5>1 DEF NameOf
        <5> QED
          BY <2>1, <3>2, <4>1, <4>3, <5>2 DEF Bound
      <4>4. CASE ~client_list[fd].esp8266
        BY <2>1, <3>2, <4>1, <4>2, <4>4 DEF NameOf, Bound
      <4> QED
        BY <4>3, <4>4
    <3> QED
      BY <3>1, <3>2
  <2> QED
    BY <2>2, <2>3 DEF NameList
<1>2. CASE ~Running
  <2>1. Up = {} /\ \A fd \in Fds : sock[fd] = NoConn
    BY <1>2 DEF Inv, ExitLeavesNothing
  <2>2. Members = {}
    BY <2>1, NameAssumption DEF Members, ConnsOf, Enabled
  <2>3. \A c \in Conns : EntryOf(c) = {}
    BY <2>1, NameAssumption DEF EntryOf, Enabled
  <2> QED
    BY <2>1, <2>2, <2>3 DEF NameList, NameOf, Bound
<1> QED
  BY <1>1, <1>2

Word(m) == IF m.type = "order" THEN m.key ELSE NoKey

\* The mail of a buffer, and what sending and reading make of it.
LEMMA MailProperties ==
  ASSUME NEW q \in Seq(Message)
  PROVE  /\ q = << >> <=> Mail(q) = << >>
         /\ \A m \in Message : Mail(Append(q, m)) = Append(Mail(q), Word(m))
         /\ q # << >> => Mail(Tail(q)) = Tail(Mail(q))
<1>1. Len(q) \in Nat /\ \A i \in 1 .. Len(q) : q[i] \in Message
  OBVIOUS
<1>2. \A m \in Message : Word(m) \in Keys \cup {NoKey}
  BY DEF Word, Message
<1>3. ASSUME NEW p \in Seq(Message)
      PROVE  /\ Mail(p) \in Seq(Keys \cup {NoKey}) /\ Len(Mail(p)) = Len(p)
             /\ \A i \in 1 .. Len(p) : Mail(p)[i] = Word(p[i])
  <2>1. Len(p) \in Nat /\ \A i \in 1 .. Len(p) : p[i] \in Message
    OBVIOUS
  <2>2. Mail(p) = [i \in 1 .. Len(p) |-> Word(p[i])]
    BY DEF Mail, Word
  <2>3. \A i \in 1 .. Len(p) : Word(p[i]) \in Keys \cup {NoKey}
    BY <1>2, <2>1
  <2> QED
    BY <2>1, <2>2, <2>3, IsASeq
<1>4. q = << >> <=> Mail(q) = << >>
  BY <1>1, <1>3, EmptySeq
<1>5. ASSUME NEW m \in Message PROVE Mail(Append(q, m)) = Append(Mail(q), Word(m))
  <2>1. /\ Append(q, m) \in Seq(Message) /\ Len(Append(q, m)) = Len(q) + 1
        /\ Append(q, m)[Len(q) + 1] = m
        /\ \A i \in 1 .. Len(q) : Append(q, m)[i] = q[i]
    BY AppendProperties
  <2>2. /\ Append(Mail(q), Word(m)) \in Seq(Keys \cup {NoKey})
        /\ Len(Append(Mail(q), Word(m))) = Len(q) + 1
        /\ Append(Mail(q), Word(m))[Len(q) + 1] = Word(m)
        /\ \A i \in 1 .. Len(q) : Append(Mail(q), Word(m))[i] = Mail(q)[i]
    BY <1>2, <1>3, AppendProperties
  <2>3. /\ Mail(Append(q, m)) \in Seq(Keys \cup {NoKey})
        /\ Len(Mail(Append(q, m))) = Len(q) + 1
        /\ \A i \in 1 .. Len(q) + 1 : Mail(Append(q, m))[i] = Word(Append(q, m)[i])
    BY <1>3, <2>1
  <2>4. \A i \in 1 .. Len(q) + 1 : Mail(Append(q, m))[i] = Append(Mail(q), Word(m))[i]
    <3> SUFFICES ASSUME NEW i \in 1 .. Len(q) + 1
                 PROVE  Mail(Append(q, m))[i] = Append(Mail(q), Word(m))[i]
      OBVIOUS
    <3>1. i \in 1 .. Len(q) \/ i = Len(q) + 1
      BY <1>1
    <3> QED
      BY <1>1, <1>3, <2>1, <2>2, <2>3, <3>1
  <2> QED
    BY <2>2, <2>3, <2>4, SeqEqual
<1>6. ASSUME q # << >> PROVE Mail(Tail(q)) = Tail(Mail(q))
  <2>1. /\ Tail(q) \in Seq(Message) /\ Len(Tail(q)) = Len(q) - 1
        /\ \A i \in 1 .. Len(q) - 1 : Tail(q)[i] = q[i + 1]
    BY <1>6, HeadTailProperties
  <2>2. /\ Tail(Mail(q)) \in Seq(Keys \cup {NoKey}) /\ Len(Tail(Mail(q))) = Len(q) - 1
        /\ \A i \in 1 .. Len(q) - 1 : Tail(Mail(q))[i] = Mail(q)[i + 1]
    BY <1>3, <1>4, <1>6, HeadTailProperties
  <2>3. /\ Mail(Tail(q)) \in Seq(Keys \cup {NoKey}) /\ Len(Mail(Tail(q))) = Len(q) - 1
        /\ \A i \in 1 .. Len(q) - 1 : Mail(Tail(q))[i] = Word(Tail(q)[i])
    BY <1>3, <2>1
  <2>4. \A i \in 1 .. Len(q) - 1 : i + 1 \in 1 .. Len(q)
    BY <1>1
  <2>5. \A i \in 1 .. Len(q) - 1 : Mail(Tail(q))[i] = Tail(Mail(q))[i]
    BY <1>3, <2>1, <2>2, <2>3, <2>4
  <2> QED
    BY <2>2, <2>3, <2>5, SeqEqual
<1> QED
  BY <1>4, <1>5, <1>6

\* There is none of an empty buffer.
LEMMA EmptyMail == Mail(<< >>) = << >>
<1>1. << >> \in Seq(Message)
  OBVIOUS
<1> QED
  BY <1>1, MailProperties

(***************************************************************************)
(* Steps of the server and of the directory.                               *)
(***************************************************************************)

DirectoryStep == [Directory!Next]_Directory!vars

\* The directory before and after a step, by phase, bound and outbox.
Seen ==
  /\ Members = Up /\ Members' = Up'
  /\ NameList = [c \in Conns |-> Bound(c)] /\ NameList' = [c \in Conns |-> Bound(c)']
  /\ \A c \in Conns : phase[c] \in {"unused", "backlog", "up", "gone"}
  /\ outbox \in [Conns -> Seq(Message)] /\ outbox' \in [Conns -> Seq(Message)]

\* Every step of the server is seen as one of phase, bound and outbox.
LEMMA StepSeen == Inv /\ [Next]_vars => Seen
<1>1. Inv => Members = Up /\ NameList = [c \in Conns |-> Bound(c)]
  BY TableSays
<1>2. Inv' => (Members = Up /\ NameList = [c \in Conns |-> Bound(c)])'
  BY <1>1, PTL
<1>3. Inv => /\ \A c \in Conns : phase[c] \in {"unused", "backlog", "up", "gone"}
             /\ outbox \in [Conns -> Seq(Message)]
  BY DEF Inv, TypeOK, NetworkTypeOK
<1>4. Inv' => outbox' \in [Conns -> Seq(Message)]
  BY DEF Inv, TypeOK, NetworkTypeOK
<1> QED
  BY <1>1, <1>2, <1>3, <1>4, NextInv DEF Seen

\* What leaves who is up, bound and mailed to alone is no step of the directory.
LEMMA Stutters ==
  ASSUME Seen, Up' = Up, Left' = Left, UNCHANGED <<bound, outbox>>
  PROVE  DirectoryStep
<1>1. Members' = Members
  BY DEF Seen
<1>2. NameList' = NameList
  BY DEF Seen, Bound
<1>3. Mailboxes' = Mailboxes
  BY DEF Mailboxes
<1> QED
  BY <1>1, <1>2, <1>3 DEF DirectoryStep, Directory!vars

\* Connections that are closed, accepted or not, leave with all they had.
LEMMA HangupLeaves ==
  ASSUME Seen, NEW cs \in SUBSET Conns, Hangup(cs)
  PROVE  DirectoryStep
<1>1. Up' = Up \ cs /\ Left' = Left \cup cs
  BY DEF Hangup, Up, Left
<1>2. \A c \in Conns : Bound(c)' = IF c \in cs THEN NoKey ELSE Bound(c)
  BY <1>1 DEF Hangup, Bound
<1>3. \A c \in Conns : Mail(outbox'[c]) = IF c \in cs THEN << >> ELSE Mail(outbox[c])
  <2>1. Mail(<< >>) = << >>
    BY EmptyMail
  <2> QED
    BY <2>1 DEF Hangup
<1>4. CASE cs = {}
  <2>1. Members' = Members /\ NameList' = NameList /\ Left' = Left
    BY <1>1, <1>2, <1>4 DEF Seen
  <2>2. Mailboxes' = Mailboxes
    BY <1>3, <1>4 DEF Mailboxes
  <2> QED
    BY <2>1, <2>2 DEF DirectoryStep, Directory!vars
<1>5. CASE cs # {}
  <2>1. Members' = Members \ cs /\ Left' = Left \cup cs
    BY <1>1 DEF Seen
  <2>2. NameList' = [c \in Conns |-> IF c \in cs THEN NoKey ELSE NameList[c]]
    BY <1>2 DEF Seen
  <2>3. Mailboxes' = [c \in Conns |-> IF c \in cs THEN << >> ELSE Mailboxes[c]]
    BY <1>3 DEF Mailboxes
  <2>4. Directory!Leave(cs)
    BY <2>1, <2>2, <2>3 DEF Directory!Leave
  <2> QED
    BY <1>5, <2>4 DEF DirectoryStep, Directory!Next
<1> QED
  BY <1>4, <1>5

\* accept lets a session join, without a name.
LEMMA AcceptJoins ==
  ASSUME Seen, NEW c \in Conns, phase[c] = "backlog", phase' = [phase EXCEPT ![c] = "up"],
         bound' = [bound EXCEPT ![c] = NoKey], UNCHANGED outbox,
         Inv
  PROVE  DirectoryStep
<1>1. phase \in [Conns -> {"unused", "backlog", "up", "gone"}]
      /\ bound \in [Conns -> Keys \cup {NoKey}]
  BY DEF Inv, TypeOK, NetworkTypeOK
<1>2. Up' = Up \cup {c} /\ Left' = Left /\ c \notin Up \cup Left
  BY <1>1 DEF Up, Left
<1>3. \A d \in Conns : Bound(d)' = Bound(d)
  BY <1>1, <1>2 DEF Bound
<1>4. NameList' = NameList /\ Mailboxes' = Mailboxes
  BY <1>3 DEF Seen, Mailboxes
<1>5. Directory!Join(c)
  BY <1>2, <1>4 DEF Directory!Join, Seen
<1> QED
  BY <1>5 DEF DirectoryStep, Directory!Next

\* A peer that reads collects, and one that resets its connection loses, what is there.
LEMMA PeerCollects ==
  ASSUME Seen, NEW c \in Conns, UNCHANGED <<phase, bound>>,
         \/ outbox[c] # << >> /\ outbox' = [outbox EXCEPT ![c] = Tail(outbox[c])]
         \/ outbox' = [outbox EXCEPT ![c] = << >>]
  PROVE  DirectoryStep
<1>1. Up' = Up /\ Left' = Left /\ UNCHANGED bound
  BY DEF Up, Left
<1>2. Members' = Members /\ NameList' = NameList
  BY <1>1 DEF Seen, Bound
<1>3. outbox[c] \in Seq(Message)
  BY DEF Seen
<1>4. CASE outbox[c] # << >> /\ outbox' = [outbox EXCEPT ![c] = Tail(outbox[c])]
  <2>1. Mailboxes[c] # << >> /\ Mailboxes' = [Mailboxes EXCEPT ![c] = Tail(Mailboxes[c])]
    BY <1>3, <1>4, MailProperties DEF Mailboxes, Seen
  <2>2. Directory!Collect(c)
    BY <1>1, <1>2, <2>1 DEF Directory!Collect
  <2> QED
    BY <2>2 DEF DirectoryStep, Directory!Next
<1>5. CASE outbox[c] = << >> /\ outbox' = [outbox EXCEPT ![c] = << >>]
  <2>1. outbox' = outbox
    BY <1>5 DEF Seen
  <2> QED
    BY <1>1, <2>1, Stutters
<1>6. CASE outbox[c] # << >> /\ outbox' = [outbox EXCEPT ![c] = << >>]
  <2>0. Mail(<< >>) = << >>
    BY EmptyMail
  <2>1. Mailboxes[c] # << >> /\ Mailboxes' = [Mailboxes EXCEPT ![c] = << >>]
    BY <1>3, <1>6, <2>0, MailProperties DEF Mailboxes, Seen
  <2>2. Directory!Lose(c)
    BY <1>1, <1>2, <2>1 DEF Directory!Lose
  <2> QED
    BY <2>2 DEF DirectoryStep, Directory!Next
<1> QED
  BY <1>4, <1>5, <1>6

\* send puts a message into a mailbox, or loses it.
LEMMA SendPuts ==
  ASSUME NEW box \in [Conns -> Seq(Message)], NEW c \in Conns, NEW m \in Message
  PROVE  [d \in Conns |-> Mail(Send(box, c, m)[d])]
           \in Directory!Put([d \in Conns |-> Mail(box[d])], c, Word(m))
<1> DEFINE old == [d \in Conns |-> Mail(box[d])]
           new == [d \in Conns |-> Mail(Send(box, c, m)[d])]
<1>1. CASE Send(box, c, m) = box
  BY <1>1 DEF Directory!Put
<1>2. CASE Send(box, c, m) = [box EXCEPT ![c] = Append(box[c], m)]
  <2>1. Mail(Append(box[c], m)) = Append(Mail(box[c]), Word(m))
    BY MailProperties
  <2>2. new = [old EXCEPT ![c] = Append(old[c], Word(m))]
    BY <1>2, <2>1
  <2> QED
    BY <2>2 DEF Directory!Put
<1> QED
  BY <1>1, <1>2 DEF Send

(***************************************************************************)
(* The branches of handle_socket.                                          *)
(***************************************************************************)

\* The sender of what is read is up.
LEMMA ReaderIsMember ==
  ASSUME Inv, Seen, NEW fd \in Fds, NEW r, Receives(fd, r)
  PROVE  sock[fd] \in Conns /\ sock[fd] \in Members /\ Running
BY BatchIsServed DEF Receives, Seen

\* A request that changes no name is answered.
LEMMA RequestAnswered ==
  ASSUME Inv, Seen, NEW fd \in Fds, NEW r, Receives(fd, r), UNCHANGED bound,
         NEW m \in Message, m.type # "order", outbox' = Send(outbox, sock[fd], m)
  PROVE  DirectoryStep
<1>1. sock[fd] \in Conns /\ sock[fd] \in Members
  BY ReaderIsMember
<1>2. Up' = Up /\ Left' = Left
  BY DEF Receives, Up, Left
<1>3. Members' = Members /\ NameList' = NameList
  BY <1>2 DEF Seen, Bound
<1>4. Word(m) = NoKey
  BY DEF Word
<1>5. Mailboxes' \in Directory!Put(Mailboxes, sock[fd], NoKey)
  BY <1>1, <1>4, SendPuts DEF Seen, Mailboxes
<1>6. Directory!Answer(sock[fd])
  BY <1>1, <1>2, <1>3, <1>5 DEF Directory!Answer
<1> QED
  BY <1>1, <1>6 DEF DirectoryStep, Directory!Next

\* A bind renames its sender, to what is kept of the key.
LEMMA BindRenames ==
  ASSUME Inv, Seen, NEW fd \in Fds, NEW r \in Request, Receives(fd, r), r.key # NoKey,
         bound' = [bound EXCEPT ![sock[fd]] = r.key],
         outbox' = Send(outbox, sock[fd], Status(r, TRUE))
  PROVE  DirectoryStep
<1>1. sock[fd] \in Conns /\ sock[fd] \in Members
  BY ReaderIsMember
<1>2. Up' = Up /\ Left' = Left /\ sock[fd] \in Up
  BY <1>1 DEF Receives, Up, Left, Seen
<1>3. r.key \in Keys /\ Kept[r.key] \in Keys
  BY NameAssumption DEF Request
<1>4. bound \in [Conns -> Keys \cup {NoKey}]
  BY DEF Inv, TypeOK, NetworkTypeOK
<1>5. \A c \in Conns : Bound(c)' = IF c = sock[fd] THEN Kept[r.key] ELSE Bound(c)
  BY <1>1, <1>2, <1>3, <1>4, NameAssumption DEF Bound
<1>6. Members' = Members /\ NameList' = [NameList EXCEPT ![sock[fd]] = Kept[r.key]]
  BY <1>1, <1>2, <1>5 DEF Seen
<1>7. Status(r, TRUE) \in Message /\ Word(Status(r, TRUE)) = NoKey
  BY MessageTypes DEF Word, Status
<1>8. Mailboxes' \in Directory!Put(Mailboxes, sock[fd], NoKey)
  BY <1>1, <1>7, SendPuts DEF Seen, Mailboxes
<1>9. Directory!Rename(sock[fd])
  BY <1>1, <1>2, <1>3, <1>6, <1>8 DEF Directory!Rename
<1> QED
  BY <1>1, <1>9 DEF DirectoryStep, Directory!Next

\* An order is delivered to a member of that name, and its sender answered.
LEMMA OrderDelivered ==
  ASSUME Inv, Seen, NEW fd \in Fds, NEW r \in Request, Receives(fd, r), UNCHANGED bound,
         r.cmd \in ForwardCmds, r.key # NoKey,
         NEW d \in Matching(r.key),
         outbox' = Send(Send(outbox, sock[d], Order(r)), sock[fd], Status(r, TRUE))
  PROVE  DirectoryStep
<1>1. sock[fd] \in Conns /\ sock[fd] \in Members /\ Running
  BY ReaderIsMember
<1>2. Up' = Up /\ Left' = Left
  BY DEF Receives, Up, Left
<1>3. Members' = Members /\ NameList' = NameList
  BY <1>2 DEF Seen, Bound
<1>4. sock[d] \in Conns /\ BoundTo(sock[d], r.key)
  BY <1>1, MatchingIsBound
<1>5. sock[d] \in Members /\ NameList[sock[d]] = r.key
  BY <1>4 DEF Seen, BoundTo, Bound
<1>6. /\ Order(r) \in Message /\ Word(Order(r)) = r.key
      /\ Status(r, TRUE) \in Message /\ Word(Status(r, TRUE)) = NoKey
  BY MessageTypes DEF Word, Order, Status
<1> DEFINE box == Send(outbox, sock[d], Order(r))
           mid == [c \in Conns |-> Mail(box[c])]
<1>7. box \in [Conns -> Seq(Message)]
  BY <1>4, <1>6, SendType DEF Seen
<1>8. mid \in Directory!Put(Mailboxes, sock[d], NameList[sock[d]])
  BY <1>4, <1>5, <1>6, SendPuts DEF Seen, Mailboxes
<1>9. Mailboxes' \in Directory!Put(mid, sock[fd], NoKey)
  <2>1. outbox' = Send(box, sock[fd], Status(r, TRUE))
    OBVIOUS
  <2> HIDE DEF box
  <2> QED
    BY <1>1, <1>6, <1>7, <2>1, SendPuts DEF Mailboxes
<1>10. Directory!Deliver(sock[fd], sock[d])
  <2> HIDE DEF mid
  <2> QED
    BY <1>1, <1>2, <1>3, <1>5, <1>8, <1>9, NameAssumption DEF Directory!Deliver
<1> QED
  BY <1>1, <1>4, <1>10 DEF DirectoryStep, Directory!Next

\* Each branch is a step of the directory.
LEMMA HandlerStep ==
  ASSUME Inv, Seen, NEW fd \in Fds, Handler(fd)
  PROVE  DirectoryStep
<1>0. Incoming(fd) \subseteq Request
  BY IncomingIsRequest DEF Inv
<1>1. CASE PeerClosed(fd)
  <2>1. sock[fd] \in Conns
    BY <1>1, BatchIsServed DEF PeerClosed
  <2> QED
    BY <1>1, <2>1, HangupLeaves DEF PeerClosed
<1>2. ASSUME NEW r \in Request, NEW ok \in BOOLEAN, NEW e, Receives(fd, r),
             UNCHANGED bound, Answer(fd, e, outbox, Status(r, ok))
      PROVE  DirectoryStep
  <2>1. Status(r, ok) \in Message /\ Status(r, ok).type # "order"
    BY MessageTypes DEF Status
  <2> QED
    BY <1>2, <2>1, RequestAnswered DEF Answer
<1>3. CASE HandleBind(fd)
  <2>1. PICK r \in Request :
          /\ Receives(fd, r)
          /\ \/ /\ Answer(fd, client_list[fd], outbox, Status(r, FALSE))
                /\ UNCHANGED bound
             \/ /\ r.key # NoKey /\ \E e : Answer(fd, e, outbox, Status(r, TRUE))
                /\ bound' = [bound EXCEPT ![sock[fd]] = r.key]
    BY <1>0, <1>3 DEF HandleBind
  <2> QED
    BY <1>2, <2>1, BindRenames DEF Answer
<1>4. CASE HandleClientList(fd)
  <2> DEFINE l == Listing(Cardinality(Enabled), {client_list[d].key : d \in Devices})
  <2>1. PICK r \in Request :
          Receives(fd, r) /\ Answer(fd, client_list[fd], outbox, l) /\ UNCHANGED bound
    BY <1>0, <1>4 DEF HandleClientList
  <2>2. l \in Message
    <3>1. Cardinality(Enabled) \in Nat
      BY InterestIsFinite, FS_CardinalityType DEF Inv
    <3>2. {client_list[d].key : d \in Devices} \subseteq Keys
      <4>1. Running
        BY <2>1 DEF Receives, Running
      <4> QED
        BY <4>1, NameAssumption
           DEF Inv, TypeOK, ServerTypeOK, NetworkTypeOK, TableMatchesKernel, NamesAreOwn, Devices,
               Enabled, Up
    <3> QED
      BY <3>1, <3>2, MessageTypes
  <2>3. l.type # "order"
    BY DEF Listing
  <2>4. outbox' = Send(outbox, sock[fd], l) /\ UNCHANGED bound
    BY <2>1 DEF Answer
  <2> HIDE DEF l
  <2> QED
    BY <2>1, <2>2, <2>3, <2>4, RequestAnswered
<1>5. CASE HandleForward(fd)
  <2>1. PICK r \in Request :
          /\ Receives(fd, r) /\ r.cmd \in ForwardCmds /\ UNCHANGED bound
          /\ \/ Answer(fd, client_list[fd], outbox, Status(r, FALSE))
             \/ /\ WellFormed(r)
                /\ \E d \in Fds :
                     /\ Lowest(d, Matching(r.key))
                     /\ Answer(fd, client_list[fd],
                               Send(outbox, sock[d], Order(r)), Status(r, TRUE))
    BY <1>0, <1>5 DEF HandleForward
  <2>2. CASE Answer(fd, client_list[fd], outbox, Status(r, FALSE))
    BY <1>2, <2>1, <2>2
  <2>3. ASSUME WellFormed(r), NEW d \in Fds, Lowest(d, Matching(r.key)),
               Answer(fd, client_list[fd], Send(outbox, sock[d], Order(r)), Status(r, TRUE))
        PROVE  DirectoryStep
    BY <2>1, <2>3, OrderDelivered DEF WellFormed, Lowest, Answer
  <2> QED
    BY <2>1, <2>2, <2>3
<1>6. CASE HandleWarn(fd) \/ HandleBeat(fd) \/ HandleGarbled(fd)
  <2>1. PICK r \in Request, ok \in BOOLEAN :
          /\ Receives(fd, r) /\ UNCHANGED bound
          /\ Answer(fd, client_list[fd], outbox, Status(r, ok))
    BY <1>0, <1>6 DEF HandleWarn, HandleBeat, HandleGarbled
  <2> QED
    BY <1>2, <2>1
<1>7. CASE HandleResponse(fd)
  <2>1. UNCHANGED <<phase, bound, outbox>>
    BY <1>7 DEF HandleResponse, Receives, auxVars
  <2> QED
    BY <2>1, Stutters DEF Up, Left
<1> QED
  BY <1>1, <1>3, <1>4, <1>5, <1>6, <1>7 DEF Handler

\* The steps of the loop, the listener and the world.
LEMMA OtherStep ==
  ASSUME Inv, Seen, Loop \/ Listener \/ World \/ UNCHANGED vars
  PROVE  DirectoryStep
<1>0. phase \in [Conns -> {"unused", "backlog", "up", "gone"}]
  BY DEF Inv, TypeOK, NetworkTypeOK
<1>1. CASE UNCHANGED <<phase, bound, outbox>>
  BY <1>1, Stutters DEF Up, Left
<1>2. CASE Loop
  <2>1. ConnsOf(Expired \cap interest) \in SUBSET Conns
    BY DEF ConnsOf
  <2>2. CASE LoopSweep
    BY <2>1, <2>2, HangupLeaves DEF LoopSweep
  <2>3. CASE LoopExit
    BY <2>3, HangupLeaves DEF LoopExit
  <2>4. CASE LoopSkip \/ EpollWait
    BY <1>1, <2>4 DEF LoopSkip, EpollWait, auxVars
  <2> QED
    BY <1>2, <2>2, <2>3, <2>4 DEF Loop
<1>3. CASE Listener
  <2>1. ASSUME NEW c \in Conns, Accept(c) PROVE DirectoryStep
    BY <2>1, AcceptJoins DEF Accept
  <2>2. ASSUME NEW c \in Conns, AcceptRejected(c) PROVE DirectoryStep
    BY <2>2, HangupLeaves DEF AcceptRejected
  <2>3. CASE AcceptFails
    BY <1>1, <2>3 DEF AcceptFails, auxVars
  <2> QED
    BY <1>3, <2>1, <2>2, <2>3 DEF Listener
<1>4. ASSUME NEW c \in Conns, Client(c) PROVE DirectoryStep
  <2>1. CASE Connect(c)
    <3>1. Up' = Up /\ Left' = Left /\ UNCHANGED <<bound, outbox>>
      BY <1>0, <2>1 DEF Connect, Up, Left, auxVars
    <3> QED
      BY <3>1, Stutters
  <2>2. CASE PeerRead(c)
    BY <2>2, PeerCollects DEF PeerRead, auxVars
  <2>3. CASE ClientRst(c)
    BY <2>3, PeerCollects DEF ClientRst, auxVars
  <2>4. CASE ClientSend(c) \/ ClientSendHead(c) \/ ClientSendTail(c) \/ ClientFin(c)
    BY <1>1, <2>4 DEF ClientSend, ClientSendHead, ClientSendTail, ClientFin, auxVars
  <2> QED
    BY <1>4, <2>1, <2>2, <2>3, <2>4 DEF Client
<1>5. CASE TakeNotice \/ Tick \/ Signal \/ Restart
  BY <1>1, <1>5 DEF TakeNotice, Tick, Signal, Restart, auxVars
<1>6. CASE UNCHANGED vars
  BY <1>1, <1>6 DEF vars, auxVars
<1> QED
  BY <1>2, <1>3, <1>4, <1>5, <1>6 DEF World

\* The server starts as an empty directory.
LEMMA StartsEmpty == Init => Directory!Init
<1> SUFFICES ASSUME Init PROVE Directory!Init
  OBVIOUS
<1>1. Inv
  BY InitInv
<1>2. Up = {} /\ Left = {} /\ outbox = [c \in Conns |-> << >>]
  BY DEF Init, Up, Left
<1>3. Members = {} /\ NameList = [c \in Conns |-> NoKey]
  BY <1>1, <1>2, TableSays DEF Bound
<1>4. Mailboxes = [c \in Conns |-> << >>]
  BY <1>2, EmptyMail DEF Mailboxes
<1> QED
  BY <1>2, <1>3, <1>4 DEF Directory!Init

\* The server keeps the promise of SessionDirectory, whatever clients, network, clock and
\* supervisor do (the whole of handle_socket and of the sweep, main.cpp:88-454 and 616-644).
THEOREM Implements == Spec => ImplementsDirectory
<1>1. Inv /\ [Next]_vars => [Directory!Next]_Directory!vars
  <2> SUFFICES ASSUME Inv, [Next]_vars PROVE DirectoryStep
    BY DEF DirectoryStep
  <2>1. Seen
    BY StepSeen
  <2> QED
    BY <2>1, HandlerStep, OtherStep DEF Next, Server
<1> QED
  BY <1>1, StartsEmpty, Invariance, PTL DEF Spec, ImplementsDirectory, Directory!Spec
=============================================================================
