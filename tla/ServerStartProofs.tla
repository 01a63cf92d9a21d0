-------------------------- MODULE ServerStartProofs --------------------------
(***************************************************************************)
(* Theorems about ServerStart, for any number of processes, shells and     *)
(* hands, and any number of mishaps.                                       *)
(*                                                                         *)
(* The inductive invariant is IInv.  InStage says of each process what the *)
(* point it has reached tells about its socket, its descriptors, its port  *)
(* and its origin; PortsApart, that no two sockets listen on a port;       *)
(* OneOfEach, that a start has at most one process that has not yet turned *)
(* to its end, and that a shell which does not wait for one has none.      *)
(* TableKept, which rests on it, says which points a process only reaches  *)
(* with its table, and that it has no clients without.                     *)
(***************************************************************************)
EXTENDS ServerStart, TLAPS

\* The points at which a process has an epoll object, a socket, the option on it,
\* and at which that socket listens.
HasEpoll == {"table", "socket", "option", "bind", "listen", "register", "loop",
             "close", "delete"}
HasReuse == {"bind", "listen", "register", "loop", "close"}
Listens == {"register", "loop", "close"}
HasSocket == {"option"} \cup HasReuse
Live == Starting \cup InMain
Stages == {"none", "return"} \cup Starting \cup InMain
HasTable == {"socket"} \cup HasSocket
Uses == {"free", "inherited", "null", "epoll", "socket", "client"}

SocketFits(x, so, r) ==
  /\ so = "listening" <=> x \in Listens
  /\ so = "bound" <=> x = "listen"
  /\ r <=> x \in HasReuse

Holds(open, use, fd) == \A n \in Fds : open[n] = use <=> n = fd
FilesFit(x, m, l, open) ==
  /\ m = NoFd <=> x \notin HasEpoll
  /\ l = NoFd <=> x \notin HasSocket
  /\ Holds(open, "epoll", m) /\ Holds(open, "socket", l)
  /\ x \in InMain => \A n \in Streams : open[n] \in {"inherited", "null"}
  /\ x \in Starting => \A n \in Fds : open[n] \in {"inherited", "free"}

PortFits(x, k) == x \in Live \ {"options"} => k # 0
OriginFits(x, o) == o = Nobody <=> x = "none"

InStage ==
  \A p \in Procs : /\ SocketFits(at[p], sock[p], reuse[p])
                   /\ FilesFit(at[p], m_fd[p], listen_fd[p], files[p])
                   /\ PortFits(at[p], port[p])
                   /\ OriginFits(at[p], origin[p])

PortsApart ==
  \A p, q \in Procs : at[p] \in Listens /\ at[q] \in Listens /\ port[p] = port[q] => p = q

OneOfEach ==
  /\ \A p, q \in Procs : at[p] \in Live /\ at[q] \in Live /\ origin[p] = origin[q] => p = q
  /\ \A s \in Shells : shell[s] # "wait" => \A p \in Procs : origin[p] # s

TableKept ==
  \A p \in Procs : at[p] \in HasTable \/ HasClients(p) => table[p]

IInv == TypeOK /\ InStage /\ PortsApart /\ OneOfEach

\* The sets of points, spelled out.
LEMMA StageFacts ==
  /\ Live \subseteq Stages /\ InMain \subseteq Live /\ Starting \subseteq Live
  /\ "none" \in Stages \ Live /\ "return" \in Stages \ Live
  /\ InMain \cap Starting = {} /\ HasEpoll \subseteq InMain
  /\ HasSocket \subseteq HasEpoll /\ HasReuse \subseteq HasSocket
  /\ Listens \subseteq HasReuse
BY DEF Stages, Live, Starting, InMain, TakingUp, GivingUp, HasEpoll, HasSocket,
       HasReuse, Listens

\* Before anything is started.
LEMMA InitIInv == Init => IInv
<1> SUFFICES ASSUME Init PROVE IInv
  OBVIOUS
<1>1. TypeOK
  BY StartAssumption DEF Init, TypeOK, PortRange
<1>2. \A p \in Procs : /\ at[p] = "none" /\ origin[p] = Nobody /\ sock[p] = "none"
                       /\ reuse[p] = FALSE /\ m_fd[p] = NoFd /\ listen_fd[p] = NoFd
                       /\ \A n \in Fds : files[p][n] = "free"
  BY DEF Init
<1>3. InStage
  BY <1>2, StartAssumption, StageFacts
     DEF InStage, SocketFits, FilesFit, Holds, PortFits, OriginFits
<1>4. PortsApart /\ OneOfEach
  BY <1>2, StartAssumption, StageFacts DEF PortsApart, OneOfEach
<1> QED
  BY <1>1, <1>3, <1>4 DEF IInv

(***************************************************************************)
(* A step changes what belongs to one process, p: the point it is at, its  *)
(* origin, port, descriptors, socket.                                      *)
(***************************************************************************)
Change(p, x, o, k, l, m, open, so, r) ==
  /\ at' = [at EXCEPT ![p] = x]
  /\ origin' = [origin EXCEPT ![p] = o]
  /\ port' = [port EXCEPT ![p] = k]
  /\ listen_fd' = [listen_fd EXCEPT ![p] = l]
  /\ m_fd' = [m_fd EXCEPT ![p] = m]
  /\ files' = [files EXCEPT ![p] = open]
  /\ sock' = [sock EXCEPT ![p] = so]
  /\ reuse' = [reuse EXCEPT ![p] = r]

\* The rest of a step.
Around ==
  /\ exit_flag' \in [Procs -> BOOLEAN] /\ table' \in [Procs -> BOOLEAN]
  /\ lingering' \subseteq 0 .. PortRange - 1
  /\ luck' \in 0 .. MaxMishaps
  /\ shell' \in [Shells -> {"start", "wait", "sleep"}]

\* What a process may become: the values are of their types and fit together, ...
Fit(x, o, k, l, m, open, so, r) ==
  /\ x \in Stages /\ o \in Shells \cup Hands \cup {Nobody}
  /\ k \in 0 .. PortRange - 1
  /\ l \in Fds \cup {NoFd} /\ m \in Fds \cup {NoFd} /\ open \in [Fds -> Uses]
  /\ so \in {"none", "open", "bound", "listening"} /\ r \in BOOLEAN
  /\ SocketFits(x, so, r) /\ FilesFit(x, m, l, open)
  /\ PortFits(x, k) /\ OriginFits(x, o)

\* ... it does not listen where another process does, ...
Clear(p, x, k) ==
  x \in Listens => \A q \in Procs \ {p} : at[q] \in Listens => port[q] # k

\* ... and it is no new process.
NotNew(p, x, o) == (o = origin[p] \/ o = Nobody) /\ (x \in Live => at[p] \in Live)

\* What is not changed is set to what it is.
LEMMA Kept ==
  ASSUME TypeOK, NEW p \in Procs
  PROVE  /\ at = [at EXCEPT ![p] = at[p]]
         /\ origin = [origin EXCEPT ![p] = origin[p]]
         /\ port = [port EXCEPT ![p] = port[p]]
         /\ listen_fd = [listen_fd EXCEPT ![p] = listen_fd[p]]
         /\ m_fd = [m_fd EXCEPT ![p] = m_fd[p]]
         /\ files = [files EXCEPT ![p] = files[p]]
         /\ sock = [sock EXCEPT ![p] = sock[p]]
         /\ reuse = [reuse EXCEPT ![p] = reuse[p]]
BY DEF TypeOK

\* The types of what belongs to a process.
LEMMA Types ==
  ASSUME IInv, NEW p \in Procs
  PROVE  /\ at[p] \in Stages /\ origin[p] \in Shells \cup Hands \cup {Nobody}
         /\ port[p] \in 0 .. PortRange - 1
         /\ listen_fd[p] \in Fds \cup {NoFd} /\ m_fd[p] \in Fds \cup {NoFd}
         /\ files[p] \in [Fds -> Uses]
         /\ sock[p] \in {"none", "open", "bound", "listening"} /\ reuse[p] \in BOOLEAN
         /\ SocketFits(at[p], sock[p], reuse[p])
         /\ FilesFit(at[p], m_fd[p], listen_fd[p], files[p])
         /\ PortFits(at[p], port[p]) /\ OriginFits(at[p], origin[p])
<1>1. TypeOK /\ InStage
  BY DEF IInv
<1>2. at[p] \in Stages /\ files[p] \in [Fds -> Uses]
  BY <1>1 DEF TypeOK, Stages, Uses
<1>3. /\ origin[p] \in Shells \cup Hands \cup {Nobody}
      /\ port[p] \in 0 .. PortRange - 1
      /\ listen_fd[p] \in Fds \cup {NoFd} /\ m_fd[p] \in Fds \cup {NoFd}
      /\ sock[p] \in {"none", "open", "bound", "listening"} /\ reuse[p] \in BOOLEAN
  BY <1>1 DEF TypeOK
<1> QED
  BY <1>1, <1>2, <1>3 DEF InStage

\* A change to a process that fits together, and to no port that another listens on.
LEMMA ChangeFits ==
  ASSUME IInv, NEW p \in Procs, Around,
         NEW x, NEW o, NEW k, NEW l, NEW m, NEW open, NEW so, NEW r,
         Change(p, x, o, k, l, m, open, so, r), Fit(x, o, k, l, m, open, so, r),
         Clear(p, x, k)
  PROVE  TypeOK' /\ InStage' /\ PortsApart'
<1>0. /\ x \in Stages /\ o \in Shells \cup Hands \cup {Nobody}
      /\ k \in 0 .. PortRange - 1
      /\ l \in Fds \cup {NoFd} /\ m \in Fds \cup {NoFd} /\ open \in [Fds -> Uses]
      /\ so \in {"none", "open", "bound", "listening"} /\ r \in BOOLEAN
      /\ SocketFits(x, so, r) /\ FilesFit(x, m, l, open)
      /\ PortFits(x, k) /\ OriginFits(x, o)
  BY DEF Fit
<1>1. TypeOK
  BY DEF IInv
<1>2. /\ at' \in [Procs -> Stages]
      /\ origin' \in [Procs -> Shells \cup Hands \cup {Nobody}]
      /\ port' \in [Procs -> 0 .. PortRange - 1]
      /\ listen_fd' \in [Procs -> Fds \cup {NoFd}]
      /\ m_fd' \in [Procs -> Fds \cup {NoFd}]
      /\ sock' \in [Procs -> {"none", "open", "bound", "listening"}]
      /\ reuse' \in [Procs -> BOOLEAN]
  BY <1>0, <1>1 DEF TypeOK, Change, Stages
<1>3. files' \in [Procs -> [Fds -> Uses]]
  BY <1>0, <1>1 DEF TypeOK, Change, Uses
<1>4. TypeOK'
  BY <1>2, <1>3 DEF TypeOK, Around, Stages, Uses
<1>5. /\ at'[p] = x /\ origin'[p] = o /\ port'[p] = k /\ listen_fd'[p] = l
      /\ m_fd'[p] = m /\ files'[p] = open /\ sock'[p] = so /\ reuse'[p] = r
  BY <1>0, <1>1 DEF TypeOK, Change
<1>6. \A q \in Procs \ {p} :
        /\ at'[q] = at[q] /\ origin'[q] = origin[q] /\ port'[q] = port[q]
        /\ listen_fd'[q] = listen_fd[q] /\ m_fd'[q] = m_fd[q]
        /\ files'[q] = files[q] /\ sock'[q] = sock[q] /\ reuse'[q] = reuse[q]
  BY <1>0, <1>1 DEF TypeOK, Change
<1>7. InStage'
  <2>1. ASSUME NEW q \in Procs
        PROVE  /\ SocketFits(at'[q], sock'[q], reuse'[q])
               /\ FilesFit(at'[q], m_fd'[q], listen_fd'[q], files'[q])
               /\ PortFits(at'[q], port'[q]) /\ OriginFits(at'[q], origin'[q])
    <3>1. CASE q = p
      BY <1>0, <1>5, <3>1
    <3>2. CASE q # p
      BY <1>6, <3>2 DEF IInv, InStage
    <3> QED
      BY <3>1, <3>2
  <2> QED
    BY <2>1 DEF InStage, SocketFits, FilesFit, Holds, PortFits, OriginFits
<1>8. PortsApart'
  <2> SUFFICES ASSUME NEW a \in Procs, NEW b \in Procs, a # b,
                      at'[a] \in Listens, at'[b] \in Listens, port'[a] = port'[b]
               PROVE  FALSE
    BY DEF PortsApart
  <2>1. CASE a # p /\ b # p
    BY <1>6, <2>1 DEF IInv, PortsApart
  <2>2. CASE a = p
    BY <1>5, <1>6, <2>2 DEF Clear
  <2>3. CASE b = p
    BY <1>5, <1>6, <2>3 DEF Clear
  <2> QED
    BY <2>1, <2>2, <2>3
<1> QED
  BY <1>4, <1>7, <1>8

\* A process that is not started by the step leaves the counting right.
LEMMA ChangeInv ==
  ASSUME IInv, NEW p \in Procs, Around, shell' = shell,
         NEW x, NEW o, NEW k, NEW l, NEW m, NEW open, NEW so, NEW r,
         Change(p, x, o, k, l, m, open, so, r), Fit(x, o, k, l, m, open, so, r),
         Clear(p, x, k), NotNew(p, x, o)
  PROVE  IInv'
<1>1. TypeOK' /\ InStage' /\ PortsApart'
  BY ChangeFits
<1>2. TypeOK
  BY DEF IInv
<1>3. \A q \in Procs : origin'[q] = origin[q] \/ origin'[q] = Nobody
  BY <1>2 DEF TypeOK, Change, NotNew
<1>4. \A q \in Procs : at'[q] \in Live => at[q] \in Live /\ origin'[q] = origin[q]
  <2>1. ASSUME NEW q \in Procs, at'[q] \in Live PROVE at[q] \in Live
    BY <1>2, <2>1 DEF TypeOK, Change, NotNew
  <2>2. ASSUME NEW q \in Procs, at'[q] \in Live PROVE origin'[q] = origin[q]
    <3>1. origin'[q] # Nobody
      BY <1>1, <2>2, StageFacts DEF InStage, OriginFits
    <3> QED
      BY <1>3, <3>1
  <2> QED
    BY <2>1, <2>2
<1>5. \A a, b \in Procs :
        at'[a] \in Live /\ at'[b] \in Live /\ origin'[a] = origin'[b] => a = b
  BY <1>4 DEF IInv, OneOfEach
<1>6. \A s \in Shells : shell'[s] # "wait" => \A q \in Procs : origin'[q] # s
  BY <1>3, StartAssumption DEF IInv, OneOfEach
<1> QED
  BY <1>1, <1>5, <1>6 DEF IInv, OneOfEach

(***************************************************************************)
(* The steps of a process.                                                 *)
(***************************************************************************)

\* A mishap is one less, and nothing else is as good.
LEMMA LuckType ==
  ASSUME TypeOK, luck' = luck \/ Mishap
  PROVE  luck' \in 0 .. MaxMishaps
BY StartAssumption DEF TypeOK, Mishap

\* What surrounds a step that leaves shells and flags alone.
LEMMA AroundSame ==
  ASSUME TypeOK, luck' = luck \/ Mishap, shell' = shell, exit_flag' = exit_flag,
         table' = table \/ table' \in [Procs -> BOOLEAN], lingering' = lingering
  PROVE  Around
BY LuckType DEF TypeOK, Around

\* Going on from one point to the next, with what one has and the table or not.
LEMMA GoesOn ==
  ASSUME IInv, NEW p \in Procs, NEW x \in Stages, Goes(p, x),
         luck' = luck \/ Mishap, table' = table \/ table' \in [Procs -> BOOLEAN],
         UNCHANGED <<origin, port, listen_fd, m_fd, exit_flag, files, sockVars, shell>>,
         x # "none", at[p] # "none", x = "listen" <=> at[p] = "listen",
         \A S \in {HasEpoll, HasSocket, HasReuse, Listens} : x \in S <=> at[p] \in S,
         x \in InMain => at[p] \in InMain, x \in Starting => at[p] \in Starting,
         x \in Live \ {"options"} => at[p] \in Live \ {"options"}
  PROVE  IInv'
<1>1. TypeOK
  BY DEF IInv
<1>2. Change(p, x, origin[p], port[p], listen_fd[p], m_fd[p], files[p], sock[p], reuse[p])
  BY <1>1, Kept DEF Goes, Change, sockVars
<1>3. Around
  BY <1>1, AroundSame DEF sockVars
<1>4. /\ SocketFits(x, sock[p], reuse[p])
      /\ FilesFit(x, m_fd[p], listen_fd[p], files[p])
      /\ PortFits(x, port[p]) /\ OriginFits(x, origin[p])
  BY Types DEF SocketFits, FilesFit, PortFits, OriginFits
<1>5. x \in Listens => \A q \in Procs \ {p} : at[q] \in Listens => port[q] # port[p]
  BY DEF IInv, PortsApart
<1>6. x \in Live => at[p] \in Live
  BY StageFacts DEF Live
<1>7. /\ origin[p] \in Shells \cup Hands \cup {Nobody}
      /\ port[p] \in 0 .. PortRange - 1
      /\ listen_fd[p] \in Fds \cup {NoFd} /\ m_fd[p] \in Fds \cup {NoFd}
      /\ files[p] \in [Fds -> Uses]
      /\ sock[p] \in {"none", "open", "bound", "listening"} /\ reuse[p] \in BOOLEAN
  BY Types
<1>8. Fit(x, origin[p], port[p], listen_fd[p], m_fd[p], files[p], sock[p], reuse[p])
  BY <1>4, <1>7 DEF Fit
<1>9. Clear(p, x, port[p]) /\ NotNew(p, x, origin[p])
  BY <1>5, <1>6 DEF Clear, NotNew
<1> QED
  BY <1>2, <1>3, <1>8, <1>9, ChangeInv

\* Going on with just what one has.
LEMMA GoesInv ==
  ASSUME IInv, NEW p \in Procs, NEW x \in Stages, Goes(p, x),
         luck' = luck \/ Mishap,
         UNCHANGED <<origin, progVars, files, sockVars, shell>>,
         x # "none", at[p] # "none", x = "listen" <=> at[p] = "listen",
         \A S \in {HasEpoll, HasSocket, HasReuse, Listens} : x \in S <=> at[p] \in S,
         x \in InMain => at[p] \in InMain, x \in Starting => at[p] \in Starting,
         x \in Live \ {"options"} => at[p] \in Live \ {"options"}
  PROVE  IInv'
BY GoesOn DEF progVars

\* The signals are handled.
LEMMA InstallHandlersInv ==
  ASSUME IInv, NEW p \in Procs, InstallHandlers(p)
  PROVE  IInv'
<1>1. /\ at[p] = "signals" /\ Goes(p, "epoll")
      /\ luck' = luck \/ Mishap
      /\ UNCHANGED <<origin, progVars, files, sockVars, shell>>
  BY DEF InstallHandlers
<1>2. CASE Goes(p, "epoll")
  <2>1. "epoll" \in Stages /\ \A S \in {HasEpoll, HasSocket, HasReuse, Listens} :
          "epoll" \in S <=> at[p] \in S
    BY <1>1 DEF Stages, Live, Starting, InMain, TakingUp, GivingUp,
                HasEpoll, HasSocket, HasReuse, Listens
  <2>2. /\ "epoll" \in InMain => at[p] \in InMain
        /\ "epoll" \notin Starting /\ at[p] \in Live \ {"options"}
    BY <1>1 DEF Live, Starting, InMain, TakingUp, GivingUp
  <2> QED
    BY <1>1, <1>2, <2>1, <2>2, GoesInv
<1> QED
  BY <1>1, <1>2

\* The table is there, or not.
LEMMA AllocTableInv ==
  ASSUME IInv, NEW p \in Procs, AllocTable(p)
  PROVE  IInv'
<1>1. /\ at[p] = "table" /\ (Goes(p, "socket") \/ Goes(p, "delete"))
      /\ luck' = luck \/ Mishap
      /\ table' = table \/ table' \in [Procs -> BOOLEAN]
      /\ UNCHANGED <<origin, port, listen_fd, m_fd, exit_flag, files, sockVars, shell>>
  <2>1. table \in [Procs -> BOOLEAN]
    BY DEF IInv, TypeOK
  <2> QED
    BY <2>1 DEF AllocTable
<1>2. CASE Goes(p, "socket")
  <2>1. "socket" \in Stages /\ \A S \in {HasEpoll, HasSocket, HasReuse, Listens} :
          "socket" \in S <=> at[p] \in S
    BY <1>1 DEF Stages, Live, Starting, InMain, TakingUp, GivingUp,
                HasEpoll, HasSocket, HasReuse, Listens
  <2>2. /\ "socket" \in InMain => at[p] \in InMain
        /\ "socket" \notin Starting /\ at[p] \in Live \ {"options"}
    BY <1>1 DEF Live, Starting, InMain, TakingUp, GivingUp
  <2> QED
    BY <1>1, <1>2, <2>1, <2>2, GoesOn
<1>3. CASE Goes(p, "delete")
  <2>1. "delete" \in Stages /\ \A S \in {HasEpoll, HasSocket, HasReuse, Listens} :
          "delete" \in S <=> at[p] \in S
    BY <1>1 DEF Stages, Live, Starting, InMain, TakingUp, GivingUp,
                HasEpoll, HasSocket, HasReuse, Listens
  <2>2. /\ "delete" \in InMain => at[p] \in InMain
        /\ "delete" \notin Starting /\ at[p] \in Live \ {"options"}
    BY <1>1 DEF Live, Starting, InMain, TakingUp, GivingUp
  <2> QED
    BY <1>1, <1>3, <2>1, <2>2, GoesOn
<1> QED
  BY <1>1, <1>2, <1>3

\* The listening socket is watched, or not.
LEMMA RegisterInv ==
  ASSUME IInv, NEW p \in Procs, Register(p)
  PROVE  IInv'
<1>1. /\ at[p] = "register" /\ (Goes(p, "loop") \/ Goes(p, "close"))
      /\ luck' = luck \/ Mishap
      /\ UNCHANGED <<origin, progVars, files, sockVars, shell>>
  BY DEF Register
<1>2. CASE Goes(p, "loop")
  <2>1. "loop" \in Stages /\ \A S \in {HasEpoll, HasSocket, HasReuse, Listens} :
          "loop" \in S <=> at[p] \in S
    BY <1>1 DEF Stages, Live, Starting, InMain, TakingUp, GivingUp,
                HasEpoll, HasSocket, HasReuse, Listens
  <2>2. /\ "loop" \in InMain => at[p] \in InMain
        /\ "loop" \notin Starting /\ at[p] \in Live \ {"options"}
    BY <1>1 DEF Live, Starting, InMain, TakingUp, GivingUp
  <2> QED
    BY <1>1, <1>2, <2>1, <2>2, GoesInv
<1>3. CASE Goes(p, "close")
  <2>1. "close" \in Stages /\ \A S \in {HasEpoll, HasSocket, HasReuse, Listens} :
          "close" \in S <=> at[p] \in S
    BY <1>1 DEF Stages, Live, Starting, InMain, TakingUp, GivingUp,
                HasEpoll, HasSocket, HasReuse, Listens
  <2>2. /\ "close" \in InMain => at[p] \in InMain
        /\ "close" \notin Starting /\ at[p] \in Live \ {"options"}
    BY <1>1 DEF Live, Starting, InMain, TakingUp, GivingUp
  <2> QED
    BY <1>1, <1>3, <2>1, <2>2, GoesInv
<1> QED
  BY <1>1, <1>2, <1>3

\* The loop ends.
LEMMA LoopEndsInv ==
  ASSUME IInv, NEW p \in Procs, LoopEnds(p)
  PROVE  IInv'
<1>1. /\ at[p] = "loop" /\ Goes(p, "close")
      /\ luck' = luck \/ Mishap
      /\ UNCHANGED <<origin, progVars, files, sockVars, shell>>
  BY DEF LoopEnds
<1>2. CASE Goes(p, "close")
  <2>1. "close" \in Stages /\ \A S \in {HasEpoll, HasSocket, HasReuse, Listens} :
          "close" \in S <=> at[p] \in S
    BY <1>1 DEF Stages, Live, Starting, InMain, TakingUp, GivingUp,
                HasEpoll, HasSocket, HasReuse, Listens
  <2>2. /\ "close" \in InMain => at[p] \in InMain
        /\ "close" \notin Starting /\ at[p] \in Live \ {"options"}
    BY <1>1 DEF Live, Starting, InMain, TakingUp, GivingUp
  <2> QED
    BY <1>1, <1>2, <2>1, <2>2, GoesInv
<1> QED
  BY <1>1, <1>2

\* A lingering connection lingers on a port.
LEMMA LingersType ==
  ASSUME TypeOK, NEW p \in Procs, Lingers(p)
  PROVE  lingering' \subseteq 0 .. PortRange - 1
BY DEF TypeOK, Lingers

\* The end of a process.
LEMMA EndsInv ==
  ASSUME IInv, NEW p \in Procs, Ends(p), luck' = luck \/ Mishap, shell' = shell
  PROVE  IInv'
<1> DEFINE nothing == [n \in Fds |-> "free"]
<1>1. TypeOK
  BY DEF IInv
<1>2. Change(p, "none", Nobody, 0, NoFd, NoFd, nothing, "none", FALSE)
  BY DEF Ends, Goes, Change
<1>3. Around
  <2>1. exit_flag' \in [Procs -> BOOLEAN] /\ table' \in [Procs -> BOOLEAN]
    BY <1>1 DEF Ends, TypeOK
  <2>2. lingering' \subseteq 0 .. PortRange - 1
    BY <1>1, LingersType DEF Ends
  <2>3. luck' \in 0 .. MaxMishaps /\ shell' \in [Shells -> {"start", "wait", "sleep"}]
    BY <1>1, LuckType DEF TypeOK
  <2> QED
    BY <2>1, <2>2, <2>3 DEF Around
<1>4. nothing \in [Fds -> Uses] /\ 0 \in 0 .. PortRange - 1
  BY DEF Uses, PortRange
<1>5. /\ "none" \in Stages /\ "none" \notin Live
      /\ SocketFits("none", "none", FALSE) /\ FilesFit("none", NoFd, NoFd, nothing)
      /\ PortFits("none", 0) /\ OriginFits("none", Nobody)
  BY StageFacts, StartAssumption DEF SocketFits, FilesFit, Holds, PortFits, OriginFits
<1>6. "none" \notin Listens
  BY StageFacts
<1>7. Fit("none", Nobody, 0, NoFd, NoFd, nothing, "none", FALSE)
  BY <1>4, <1>5 DEF Fit
<1>8. Clear(p, "none", 0) /\ NotNew(p, "none", Nobody)
  BY <1>5, <1>6 DEF Clear, NotNew
<1> HIDE DEF nothing
<1> QED
  BY <1>2, <1>3, <1>7, <1>8, ChangeInv

\* The socket is closed.
LEMMA ClosesInv ==
  ASSUME IInv, NEW p \in Procs, at[p] \in HasSocket, Closes(p), luck' = luck \/ Mishap
  PROVE  IInv'
<1> DEFINE open == [n \in Fds |-> IF n = listen_fd[p] THEN "free" ELSE files[p][n]]
<1>1. TypeOK
  BY DEF IInv
<1>2. Change(p, "delete", origin[p], port[p], NoFd, m_fd[p], open, "none", FALSE)
  BY <1>1, Kept DEF Closes, Goes, Change
<1>3. Around
  BY <1>1, LingersType, LuckType DEF Closes, Around, TypeOK
<1>4. /\ listen_fd[p] \in Fds /\ files[p] \in [Fds -> Uses]
      /\ FilesFit(at[p], m_fd[p], listen_fd[p], files[p])
      /\ at[p] \in InMain \ {"none"} /\ at[p] \in HasEpoll /\ at[p] \in Live \ {"options"}
  <2>1. at[p] \in InMain \ {"none"} /\ at[p] \in HasEpoll
    BY StageFacts
  <2>2. at[p] \in Live \ {"options"}
    BY <2>1 DEF Live, Starting, InMain, TakingUp, GivingUp
  <2> QED
    BY <2>1, <2>2, Types DEF FilesFit
<1>5. open \in [Fds -> Uses]
  BY <1>4 DEF Uses
<1>6. /\ "delete" \in Stages /\ "delete" \in Live /\ "delete" \notin Listens
      /\ "delete" \in HasEpoll /\ "delete" \notin HasSocket /\ "delete" \notin HasReuse
      /\ "delete" \notin Starting
  BY DEF Stages, Live, Starting, InMain, TakingUp, GivingUp, HasEpoll, HasSocket,
         HasReuse, Listens
<1>7. FilesFit("delete", m_fd[p], NoFd, open)
  <2>1. m_fd[p] # NoFd
    BY <1>4 DEF FilesFit
  <2>2. Holds(open, "epoll", m_fd[p]) /\ Holds(open, "socket", NoFd)
    BY <1>4, StartAssumption DEF FilesFit, Holds
  <2>3. \A n \in Streams : open[n] \in {"inherited", "null"}
    <3>1. \A n \in Streams : n \in Fds /\ files[p][n] \in {"inherited", "null"}
      BY <1>4, StartAssumption DEF FilesFit, Streams, Fds
    <3>2. files[p][listen_fd[p]] = "socket"
      BY <1>4 DEF FilesFit, Holds
    <3> QED
      BY <3>1, <3>2
  <2> QED
    BY <1>6, <2>1, <2>2, <2>3 DEF FilesFit
<1>8. SocketFits("delete", "none", FALSE) /\ PortFits("delete", port[p])
      /\ OriginFits("delete", origin[p])
  BY <1>4, <1>6, Types DEF SocketFits, PortFits, OriginFits
<1>9. /\ origin[p] \in Shells \cup Hands \cup {Nobody} /\ port[p] \in 0 .. PortRange - 1
      /\ m_fd[p] \in Fds \cup {NoFd} /\ shell' = shell
  BY Types DEF Closes
<1> HIDE DEF open
<1>10. Fit("delete", origin[p], port[p], NoFd, m_fd[p], open, "none", FALSE)
  BY <1>5, <1>6, <1>7, <1>8, <1>9 DEF Fit
<1>11. Clear(p, "delete", port[p]) /\ NotNew(p, "delete", origin[p])
  BY <1>4, <1>6 DEF Clear, NotNew
<1> QED
  BY <1>2, <1>3, <1>9, <1>10, <1>11, ChangeInv

\* The socket gets from one state to the next.
LEMMA SocketInv ==
  ASSUME IInv, NEW p \in Procs, NEW x \in Stages, Goes(p, x),
         NEW so \in {"none", "open", "bound", "listening"}, NEW r \in BOOLEAN,
         sock' = [sock EXCEPT ![p] = so], reuse' = [reuse EXCEPT ![p] = r],
         UNCHANGED <<origin, progVars, files, lingering, shell, luck>>,
         at[p] \in HasSocket, x \in HasSocket, SocketFits(x, so, r),
         x \in Listens => \A q \in Procs \ {p} : at[q] \in Listens => port[q] # port[p]
  PROVE  IInv'
<1>1. TypeOK
  BY DEF IInv
<1>2. Change(p, x, origin[p], port[p], listen_fd[p], m_fd[p], files[p], so, r)
  BY <1>1, Kept DEF Goes, Change, progVars
<1>3. Around
  BY <1>1, AroundSame DEF progVars
<1>4. \A y \in HasSocket : /\ y \in HasEpoll /\ y \in InMain /\ y \in Live \ {"options"}
                           /\ y \notin Starting /\ y # "none"
  BY DEF HasSocket, HasReuse, HasEpoll, Live, InMain, Starting, TakingUp, GivingUp
<1>5. /\ FilesFit(x, m_fd[p], listen_fd[p], files[p])
      /\ PortFits(x, port[p]) /\ OriginFits(x, origin[p])
  BY <1>4, Types DEF FilesFit, PortFits, OriginFits
<1>6. /\ origin[p] \in Shells \cup Hands \cup {Nobody}
      /\ port[p] \in 0 .. PortRange - 1
      /\ listen_fd[p] \in Fds \cup {NoFd} /\ m_fd[p] \in Fds \cup {NoFd}
      /\ files[p] \in [Fds -> Uses] /\ shell' = shell
  BY Types
<1>7. Fit(x, origin[p], port[p], listen_fd[p], m_fd[p], files[p], so, r)
  BY <1>5, <1>6 DEF Fit
<1>8. Clear(p, x, port[p]) /\ NotNew(p, x, origin[p])
  BY <1>4 DEF Clear, NotNew
<1> QED
  BY <1>2, <1>3, <1>6, <1>7, <1>8, ChangeInv

\* SO_REUSEADDR is set, or not.
LEMMA SetReuseInv ==
  ASSUME IInv, NEW p \in Procs, SetReuse(p)
  PROVE  IInv'
<1>1. at[p] = "option" /\ at[p] \in HasSocket /\ TypeOK
  BY DEF SetReuse, HasSocket, IInv
<1>2. CASE Mishap /\ Closes(p)
  BY <1>1, <1>2, ClosesInv
<1>3. CASE /\ reuse' = [reuse EXCEPT ![p] = TRUE]
           /\ Goes(p, "bind")
           /\ UNCHANGED <<origin, progVars, files, sock, lingering, shell, luck>>
  <2>1. "bind" \in HasSocket /\ "bind" \in Stages /\ "bind" \notin Listens
    BY DEF Live, Starting, InMain, TakingUp, GivingUp,
           HasEpoll, HasSocket, HasReuse, Listens, Stages
  <2>2. SocketFits("bind", sock[p], TRUE)
    BY <1>1, Types DEF SocketFits, Listens, HasReuse
  <2>3. sock' = [sock EXCEPT ![p] = sock[p]]
        /\ sock[p] \in {"none", "open", "bound", "listening"}
    BY <1>1, <1>3, Kept, Types
  <2> QED
    BY <1>1, <1>3, <2>1, <2>2, <2>3, SocketInv
<1> QED
  BY <1>2, <1>3 DEF SetReuse

\* bind succeeds, or not.
LEMMA BindInv ==
  ASSUME IInv, NEW p \in Procs, Bind(p)
  PROVE  IInv'
<1>1. at[p] = "bind" /\ at[p] \in HasSocket /\ TypeOK
  BY DEF Bind, HasSocket, HasReuse, IInv
<1>2. CASE Closes(p) /\ UNCHANGED luck
  BY <1>1, <1>2, ClosesInv
<1>3. CASE /\ sock' = [sock EXCEPT ![p] = "bound"]
           /\ Goes(p, "listen")
           /\ UNCHANGED <<origin, progVars, files, reuse, lingering, shell, luck>>
  <2>1. "listen" \in HasSocket /\ "listen" \in Stages /\ "listen" \notin Listens
    BY DEF Live, Starting, InMain, TakingUp, GivingUp,
           HasEpoll, HasSocket, HasReuse, Listens, Stages
  <2>2. reuse[p] = TRUE /\ reuse' = [reuse EXCEPT ![p] = reuse[p]]
    BY <1>1, <1>3, Kept, Types DEF SocketFits, HasReuse
  <2>3. SocketFits("listen", "bound", TRUE)
    BY DEF SocketFits, Listens, HasReuse
  <2> QED
    BY <1>1, <1>3, <2>1, <2>2, <2>3, SocketInv
<1> QED
  BY <1>2, <1>3 DEF Bind

\* listen succeeds when no other process listens on the port.
LEMMA ListenInv ==
  ASSUME IInv, NEW p \in Procs, Listen(p)
  PROVE  IInv'
<1>1. at[p] = "listen" /\ at[p] \in HasSocket /\ TypeOK
  BY DEF Listen, HasSocket, HasReuse, IInv
<1>2. CASE Closes(p) /\ UNCHANGED luck
  BY <1>1, <1>2, ClosesInv
<1>3. CASE /\ Listenable(p)
           /\ sock' = [sock EXCEPT ![p] = "listening"]
           /\ Goes(p, "register")
           /\ UNCHANGED <<origin, progVars, files, reuse, lingering, shell, luck>>
  <2>1. "register" \in HasSocket /\ "register" \in Stages
    BY DEF Live, Starting, InMain, TakingUp, GivingUp,
           HasEpoll, HasSocket, HasReuse, Listens, Stages
  <2>2. reuse[p] = TRUE /\ reuse' = [reuse EXCEPT ![p] = reuse[p]]
    BY <1>1, <1>3, Kept, Types DEF SocketFits, HasReuse
  <2>3. SocketFits("register", "listening", TRUE)
    BY DEF SocketFits, Listens, HasReuse
  <2>4. \A q \in Procs \ {p} : at[q] \in Listens => port[q] # port[p]
    BY <1>3, Types DEF Listenable, SocketFits
  <2> QED
    BY <1>1, <1>3, <2>1, <2>2, <2>3, <2>4, SocketInv
<1> QED
  BY <1>2, <1>3 DEF Listen

\* The listening socket is closed at the end.
LEMMA CloseListenerInv ==
  ASSUME IInv, NEW p \in Procs, CloseListener(p)
  PROVE  IInv'
<1>1. at[p] \in HasSocket
  BY DEF CloseListener, HasSocket, HasReuse
<1> QED
  BY <1>1, ClosesInv DEF CloseListener

\* The free number a new descriptor gets belongs to no stream.
LEMMA FreeIsNoStream ==
  ASSUME IInv, NEW p \in Procs, at[p] \in InMain, NEW n \in Free(p)
  PROVE  /\ n \in Fds /\ n \notin Streams /\ files[p][n] = "free"
         /\ m_fd[p] # n /\ listen_fd[p] # n
<1>1. n \in Fds /\ files[p][n] = "free"
  BY DEF Free
<1>2. \A i \in Streams : files[p][i] \in {"inherited", "null"}
  BY Types DEF FilesFit
<1>3. m_fd[p] # n /\ listen_fd[p] # n
  BY <1>1, Types DEF FilesFit, Holds
<1> QED
  BY <1>1, <1>2, <1>3

\* The process gets its epoll object, or returns.
LEMMA GetEpollInv ==
  ASSUME IInv, NEW p \in Procs, GetEpoll(p)
  PROVE  IInv'
<1>1. at[p] = "epoll" /\ TypeOK /\ m_fd[p] = NoFd /\ listen_fd[p] = NoFd
  <2>1. "epoll" \notin HasEpoll /\ "epoll" \notin HasSocket
    BY DEF HasEpoll, HasSocket, HasReuse
  <2> QED
    BY <2>1, Types DEF GetEpoll, FilesFit, IInv
<1>2. CASE Mishap /\ Goes(p, "return") /\ UNCHANGED <<files, m_fd>>
  <2>1. /\ "return" \in Stages
        /\ \A S \in {HasEpoll, HasSocket, HasReuse, Listens} : "return" \in S <=> at[p] \in S
        /\ "return" \notin InMain /\ "return" \notin Starting /\ "return" \notin Live
    BY <1>1 DEF Live, Starting, InMain, TakingUp, GivingUp,
                HasEpoll, HasSocket, HasReuse, Listens, Stages
  <2>2. UNCHANGED <<origin, progVars, files, sockVars, shell>>
    BY <1>2 DEF GetEpoll, progVars
  <2> QED
    BY <1>1, <1>2, <2>1, <2>2, GoesInv
<1>3. ASSUME NEW n \in Fds, Lowest(n, Free(p)),
             files' = [files EXCEPT ![p][n] = "epoll"],
             m_fd' = [m_fd EXCEPT ![p] = n],
             Goes(p, "table"), UNCHANGED luck
      PROVE  IInv'
  <2> DEFINE open == [files[p] EXCEPT ![n] = "epoll"]
  <2>1. /\ "table" \in Stages /\ "table" \in HasEpoll /\ "table" \notin HasSocket
        /\ "table" \notin HasReuse /\ "table" \notin Listens /\ "table" \in InMain
        /\ "table" \notin Starting /\ "epoll" \in InMain /\ "epoll" \notin HasReuse
        /\ "epoll" \notin Listens /\ "epoll" \in Live \ {"options"}
    BY DEF Live, Starting, InMain, TakingUp, GivingUp,
           HasEpoll, HasSocket, HasReuse, Listens, Stages
  <2>2. files' = [files EXCEPT ![p] = open]
    BY <1>1, <1>3 DEF TypeOK
  <2>3. Change(p, "table", origin[p], port[p], listen_fd[p], n, open, sock[p], reuse[p])
    BY <1>1, <1>3, <2>2, Kept DEF GetEpoll, Goes, Change, sockVars
  <2>4. Around
    BY <1>1, <1>3, AroundSame DEF GetEpoll, sockVars
  <2>5. n \notin Streams
    BY <1>1, <1>3, <2>1, FreeIsNoStream DEF Lowest
  <2>6. files[p] \in [Fds -> Uses] /\ open \in [Fds -> Uses]
    BY <1>3, Types DEF Uses
  <2>7. FilesFit("table", n, listen_fd[p], open)
    <3>1. FilesFit("epoll", NoFd, NoFd, files[p])
      BY <1>1, Types
    <3>2. Holds(open, "epoll", n) /\ Holds(open, "socket", NoFd)
      BY <1>3, <2>6, <3>1, StartAssumption DEF FilesFit, Holds
    <3>3. \A i \in Streams : i \in Fds /\ open[i] \in {"inherited", "null"}
      BY <2>1, <2>5, <2>6, <3>1, StartAssumption DEF FilesFit, Streams, Fds
    <3> QED
      BY <1>1, <1>3, <2>1, <3>2, <3>3, StartAssumption DEF FilesFit
  <2>8. SocketFits("table", sock[p], reuse[p]) /\ PortFits("table", port[p])
        /\ OriginFits("table", origin[p])
    BY <1>1, <2>1, Types DEF SocketFits, PortFits, OriginFits
  <2> HIDE DEF open
  <2>9. Fit("table", origin[p], port[p], listen_fd[p], n, open, sock[p], reuse[p])
    BY <2>1, <2>6, <2>7, <2>8, Types DEF Fit
  <2>10. Clear(p, "table", port[p]) /\ NotNew(p, "table", origin[p])
    BY <1>1, <2>1 DEF Clear, NotNew
  <2> QED
    BY <2>3, <2>4, <2>9, <2>10, ChangeInv DEF GetEpoll
<1> QED
  BY <1>2, <1>3 DEF GetEpoll

\* The socket is opened, or the epoll object given back.
LEMMA OpenSocketInv ==
  ASSUME IInv, NEW p \in Procs, OpenSocket(p)
  PROVE  IInv'
<1>1. at[p] = "socket" /\ TypeOK /\ m_fd[p] # NoFd /\ listen_fd[p] = NoFd
  <2>1. "socket" \in HasEpoll /\ "socket" \notin HasSocket
    BY DEF HasEpoll, HasSocket, HasReuse
  <2> QED
    BY <2>1, Types DEF OpenSocket, FilesFit, IInv
<1>2. CASE Mishap /\ Goes(p, "delete") /\ UNCHANGED <<files, listen_fd, sock>>
  <2>1. /\ "delete" \in Stages
        /\ \A S \in {HasEpoll, HasSocket, HasReuse, Listens} : "delete" \in S <=> at[p] \in S
        /\ at[p] \in InMain /\ "delete" \notin Starting /\ at[p] \in Live \ {"options"}
    BY <1>1 DEF Live, Starting, InMain, TakingUp, GivingUp,
                HasEpoll, HasSocket, HasReuse, Listens, Stages
  <2>2. UNCHANGED <<origin, progVars, files, sockVars, shell>>
    BY <1>2 DEF OpenSocket, progVars, sockVars
  <2> QED
    BY <1>1, <1>2, <2>1, <2>2, GoesInv
<1>3. ASSUME NEW n \in Fds, Lowest(n, Free(p)),
             files' = [files EXCEPT ![p][n] = "socket"],
             listen_fd' = [listen_fd EXCEPT ![p] = n],
             sock' = [sock EXCEPT ![p] = "open"],
             Goes(p, "option"), UNCHANGED luck
      PROVE  IInv'
  <2> DEFINE open == [files[p] EXCEPT ![n] = "socket"]
  <2>1. /\ "option" \in Stages /\ "option" \in HasEpoll /\ "option" \in HasSocket
        /\ "option" \notin HasReuse /\ "option" \notin Listens /\ "option" \in InMain
        /\ "option" \notin Starting /\ "socket" \in InMain /\ "socket" \notin HasReuse
        /\ "socket" \in Live \ {"options"}
    BY DEF Live, Starting, InMain, TakingUp, GivingUp,
           HasEpoll, HasSocket, HasReuse, Listens, Stages
  <2>2. files' = [files EXCEPT ![p] = open]
    BY <1>1, <1>3 DEF TypeOK
  <2>3. Change(p, "option", origin[p], port[p], n, m_fd[p], open, "open", reuse[p])
    BY <1>1, <1>3, <2>2, Kept DEF OpenSocket, Goes, Change
  <2>4. Around
    BY <1>1, <1>3, AroundSame DEF OpenSocket
  <2>5. n \notin Streams /\ m_fd[p] # n
    BY <1>1, <1>3, <2>1, FreeIsNoStream DEF Lowest
  <2>6. files[p] \in [Fds -> Uses] /\ open \in [Fds -> Uses]
    BY <1>3, Types DEF Uses
  <2>7. FilesFit("option", m_fd[p], n, open)
    <3>1. FilesFit("socket", m_fd[p], NoFd, files[p])
      BY <1>1, Types
    <3>2. Holds(open, "epoll", m_fd[p]) /\ Holds(open, "socket", n)
      BY <1>3, <2>5, <2>6, <3>1, StartAssumption DEF FilesFit, Holds
    <3>3. \A i \in Streams : i \in Fds /\ open[i] \in {"inherited", "null"}
      BY <2>1, <2>5, <2>6, <3>1, StartAssumption DEF FilesFit, Streams, Fds
    <3> QED
      BY <1>1, <1>3, <2>1, <3>2, <3>3, StartAssumption DEF FilesFit
  <2>8. SocketFits("option", "open", reuse[p]) /\ PortFits("option", port[p])
        /\ OriginFits("option", origin[p])
    BY <1>1, <2>1, Types DEF SocketFits, PortFits, OriginFits
  <2> HIDE DEF open
  <2>9. Fit("option", origin[p], port[p], n, m_fd[p], open, "open", reuse[p])
    BY <1>3, <2>1, <2>6, <2>7, <2>8, Types DEF Fit
  <2>10. Clear(p, "option", port[p]) /\ NotNew(p, "option", origin[p])
    BY <1>1, <2>1 DEF Clear, NotNew
  <2> QED
    BY <2>3, <2>4, <2>9, <2>10, ChangeInv DEF OpenSocket
<1> QED
  BY <1>2, <1>3 DEF OpenSocket

\* The epoll object is deleted.
LEMMA DeleteEpollInv ==
  ASSUME IInv, NEW p \in Procs, DeleteEpoll(p)
  PROVE  IInv'
<1> DEFINE open == [n \in Fds |-> IF n = m_fd[p] THEN "free" ELSE files[p][n]]
<1>1. at[p] = "delete" /\ TypeOK /\ m_fd[p] # NoFd /\ listen_fd[p] = NoFd
  <2>1. "delete" \in HasEpoll /\ "delete" \notin HasSocket
    BY DEF HasEpoll, HasSocket, HasReuse
  <2> QED
    BY <2>1, Types DEF DeleteEpoll, FilesFit, IInv
<1>2. Change(p, "return", origin[p], port[p], listen_fd[p], NoFd, open, sock[p], reuse[p])
  BY <1>1, Kept DEF DeleteEpoll, Goes, Change, sockVars
<1>3. Around
  BY <1>1, AroundSame DEF DeleteEpoll, sockVars
<1>4. files[p] \in [Fds -> Uses] /\ open \in [Fds -> Uses]
  <2>1. files[p] \in [Fds -> Uses]
    BY Types
  <2> QED
    BY <2>1 DEF Uses
<1>5. /\ "return" \in Stages /\ "return" \notin Live /\ "return" \notin HasEpoll
      /\ "return" \notin HasSocket /\ "return" \notin HasReuse /\ "return" \notin Listens
      /\ "return" \notin InMain /\ "return" \notin Starting /\ "delete" \notin HasReuse
      /\ "delete" \notin Listens
  BY DEF Live, Starting, InMain, TakingUp, GivingUp, HasEpoll, HasSocket, HasReuse, Listens, Stages
<1>6. FilesFit("return", NoFd, listen_fd[p], open)
  <2>1. FilesFit("delete", m_fd[p], NoFd, files[p])
    BY <1>1, Types
  <2>2. Holds(open, "epoll", NoFd) /\ Holds(open, "socket", NoFd)
    BY <2>1, StartAssumption DEF FilesFit, Holds
  <2> QED
    BY <1>1, <1>5, <2>2 DEF FilesFit
<1>7. SocketFits("return", sock[p], reuse[p]) /\ PortFits("return", port[p])
      /\ OriginFits("return", origin[p])
  BY <1>1, <1>5, Types DEF SocketFits, PortFits, OriginFits
<1> HIDE DEF open
<1>8. Fit("return", origin[p], port[p], listen_fd[p], NoFd, open, sock[p], reuse[p])
  BY <1>4, <1>5, <1>6, <1>7, Types DEF Fit
<1>9. Clear(p, "return", port[p]) /\ NotNew(p, "return", origin[p])
  BY <1>5 DEF Clear, NotNew
<1> QED
  BY <1>2, <1>3, <1>8, <1>9, ChangeInv DEF DeleteEpoll

\* A client comes or goes: a number that was free, or a client's, becomes one or free.
LEMMA ClientsInv ==
  ASSUME IInv, NEW p \in Procs, Clients(p)
  PROVE  IInv'
<1>1. PICK n \in Fds, use \in {"client", "free"} :
        /\ files[p][n] \in {"free", "client"}
        /\ files' = [files EXCEPT ![p][n] = use]
  BY DEF Clients, LoopAccepts, LoopCloses, Lowest, Free
<1> DEFINE open == [files[p] EXCEPT ![n] = use]
<1>2. /\ TypeOK /\ at[p] = "loop"
      /\ UNCHANGED <<at, origin, progVars, sock, reuse, shell, luck>>
      /\ lingering' = lingering \/ Lingers(p)
  BY DEF Clients, LoopAccepts, LoopCloses, sockVars, IInv
<1>3. files' = [files EXCEPT ![p] = open]
  BY <1>1, <1>2 DEF TypeOK
<1>4. Change(p, at[p], origin[p], port[p], listen_fd[p], m_fd[p], open, sock[p], reuse[p])
  BY <1>2, <1>3, Kept DEF Change, progVars
<1>5. Around
  BY <1>2, LingersType DEF Around, TypeOK, progVars
<1>6. files[p] \in [Fds -> Uses] /\ open \in [Fds -> Uses]
  BY <1>1, Types DEF Uses
<1>7. FilesFit(at[p], m_fd[p], listen_fd[p], open)
  <2>1. FilesFit(at[p], m_fd[p], listen_fd[p], files[p])
    BY Types
  <2>2. Holds(open, "epoll", m_fd[p]) /\ Holds(open, "socket", listen_fd[p])
    BY <1>1, <1>6, <2>1 DEF FilesFit, Holds
  <2>3. "loop" \in InMain /\ "loop" \notin Starting
    BY DEF InMain, TakingUp, GivingUp, Starting
  <2>4. \A i \in Streams : open[i] \in {"inherited", "null"}
    <3>1. \A i \in Streams : i \in Fds /\ files[p][i] \in {"inherited", "null"}
      BY <1>2, <2>1, <2>3, StartAssumption DEF FilesFit, Streams, Fds
    <3> QED
      BY <1>1, <1>6, <3>1
  <2> HIDE DEF open
  <2> QED
    BY <1>2, <2>1, <2>2, <2>3, <2>4 DEF FilesFit
<1> HIDE DEF open
<1>8. Fit(at[p], origin[p], port[p], listen_fd[p], m_fd[p], open, sock[p], reuse[p])
  BY <1>6, <1>7, Types DEF Fit
<1>9. Clear(p, at[p], port[p]) /\ NotNew(p, at[p], origin[p])
  BY DEF Clear, NotNew, IInv, PortsApart
<1> QED
  BY <1>2, <1>4, <1>5, <1>8, <1>9, ChangeInv

(***************************************************************************)
(* The steps before doMainFunc, those that start processes, and signals.   *)
(***************************************************************************)

\* A process that is starting has taken nothing yet.
LEMMA StartingHasNothing ==
  ASSUME IInv, NEW p \in Procs, at[p] \in {"none"} \cup Starting
  PROVE  /\ m_fd[p] = NoFd /\ listen_fd[p] = NoFd /\ reuse[p] = FALSE
         /\ sock[p] # "bound" /\ sock[p] # "listening"
<1>1. /\ at[p] \notin HasEpoll /\ at[p] \notin HasSocket /\ at[p] \notin HasReuse
      /\ at[p] \notin Listens /\ at[p] # "listen"
  BY DEF Live, Starting, InMain, TakingUp, GivingUp, HasEpoll, HasSocket, HasReuse, Listens
<1> QED
  BY <1>1, Types DEF FilesFit, SocketFits

\* The options are read: a port that is not 0, in the foreground or not, or the end.
LEMMA OptionsInv ==
  ASSUME IInv, NEW p \in Procs, Options(p)
  PROVE  IInv'
<1>1. /\ at[p] = "options" /\ TypeOK
      /\ UNCHANGED <<origin, listen_fd, m_fd, exit_flag, table, files, sockVars, shell, luck>>
  BY DEF Options, IInv
<1>2. /\ "options" \in Live /\ "options" \in Starting
      /\ \A x \in {"return", "signals", "fork"} :
           /\ x \in Stages /\ x \notin HasEpoll /\ x \notin HasSocket
           /\ x \notin HasReuse /\ x \notin Listens
      /\ "return" \notin InMain \cup Starting /\ "return" \notin Live
      /\ "signals" \in InMain \ Starting
      /\ "fork" \in Starting \ InMain
  BY DEF Live, Starting, InMain, TakingUp, GivingUp, HasEpoll, HasSocket, HasReuse, Listens, Stages
<1>3. CASE Goes(p, "return") /\ UNCHANGED port
  <2>1. UNCHANGED <<origin, progVars, files, sockVars, shell>>
    BY <1>1, <1>3 DEF progVars
  <2>2. /\ \A S \in {HasEpoll, HasSocket, HasReuse, Listens} : at[p] \notin S
        /\ at[p] # "none" /\ at[p] # "listen"
    BY <1>1 DEF Live, Starting, InMain, TakingUp, GivingUp, HasEpoll, HasSocket, HasReuse, Listens
  <2> QED
    BY <1>1, <1>2, <1>3, <2>1, <2>2, GoesInv
<1>4. ASSUME NEW n \in Nat, NEW k \in PortOf(n), NEW x \in {"signals", "fork"},
             x = "signals" => Streams \cap Free(p) = {},
             port' = [port EXCEPT ![p] = k], Goes(p, x)
      PROVE  IInv'
  <2>1. k \in 0 .. PortRange - 1 /\ k # 0
    <3>1. PortRange \in Nat /\ PortRange > 0
      BY DEF PortRange
    <3>2. n % PortRange \in 0 .. PortRange - 1
      BY <1>4, <3>1
    <3> QED
      BY <1>4, <3>2 DEF PortOf
  <2>2. Change(p, x, origin[p], k, listen_fd[p], m_fd[p], files[p], sock[p], reuse[p])
    BY <1>1, <1>4, Kept DEF Goes, Change, sockVars
  <2>3. Around
    BY <1>1, AroundSame DEF sockVars
  <2>4. /\ m_fd[p] = NoFd /\ listen_fd[p] = NoFd /\ reuse[p] = FALSE
        /\ sock[p] # "bound" /\ sock[p] # "listening"
    BY <1>1, <1>2, StartingHasNothing
  <2>5. FilesFit("options", NoFd, NoFd, files[p])
    BY <1>1, <2>4, Types
  <2>6. FilesFit(x, NoFd, NoFd, files[p])
    <3>1. x \in InMain => \A i \in Streams : files[p][i] \in {"inherited", "null"}
      <4> SUFFICES ASSUME x \in InMain, NEW i \in Streams
                   PROVE  files[p][i] \in {"inherited", "null"}
        OBVIOUS
      <4>1. x = "signals" /\ i \in Fds
        BY <1>2, <1>4, StartAssumption DEF Streams, Fds
      <4>2. files[p][i] # "free"
        BY <1>4, <4>1 DEF Free
      <4> QED
        BY <1>2, <2>5, <4>1, <4>2 DEF FilesFit
    <3> QED
      BY <1>2, <1>4, <2>5, <3>1 DEF FilesFit
  <2>7. SocketFits(x, sock[p], reuse[p]) /\ PortFits(x, k) /\ OriginFits(x, origin[p])
    BY <1>1, <1>2, <1>4, <2>1, <2>4, Types DEF SocketFits, PortFits, OriginFits
  <2>8. Fit(x, origin[p], k, listen_fd[p], m_fd[p], files[p], sock[p], reuse[p])
    BY <1>2, <1>4, <2>1, <2>4, <2>6, <2>7, Types DEF Fit
  <2>9. Clear(p, x, k) /\ NotNew(p, x, origin[p])
    BY <1>1, <1>2, <1>4 DEF Clear, NotNew
  <2> QED
    BY <1>1, <2>2, <2>3, <2>8, <2>9, ChangeInv
<1>5. CASE \E n \in IF origin[p] \in Shells THEN {RunPort} ELSE Numbers,
              foreground \in BOOLEAN :
             /\ foreground => Streams \cap Free(p) = {}
             /\ \/ Goes(p, "return") /\ UNCHANGED port
                \/ \E k \in PortOf(n) :
                     /\ port' = [port EXCEPT ![p] = k]
                     /\ Goes(p, IF foreground THEN "signals" ELSE "fork")
  <2>1. PICK n \in Nat, foreground \in BOOLEAN :
             /\ foreground => Streams \cap Free(p) = {}
             /\ \/ Goes(p, "return") /\ UNCHANGED port
                \/ \E k \in PortOf(n) :
                     /\ port' = [port EXCEPT ![p] = k]
                     /\ Goes(p, IF foreground THEN "signals" ELSE "fork")
    <3>1. PortRange \in Nat
      BY DEF PortRange
    <3>2. (IF origin[p] \in Shells THEN {RunPort} ELSE Numbers) \subseteq Nat
      BY <3>1, StartAssumption
    <3> QED
      BY <1>5, <3>2
  <2>2. ASSUME NEW k \in PortOf(n), port' = [port EXCEPT ![p] = k],
               Goes(p, IF foreground THEN "signals" ELSE "fork")
        PROVE  IInv'
    <3>1. CASE foreground
      BY <1>4, <2>1, <2>2, <3>1
    <3>2. CASE ~foreground
      BY <1>4, <2>2, <3>2
    <3> QED
      BY <3>1, <3>2
  <2> QED
    BY <1>3, <2>1, <2>2
<1>6. \/ Goes(p, "return") /\ UNCHANGED port
      \/ \E n \in IF origin[p] \in Shells THEN {RunPort} ELSE Numbers,
            foreground \in BOOLEAN :
           /\ foreground => Streams \cap Free(p) = {}
           /\ \/ Goes(p, "return") /\ UNCHANGED port
              \/ \E k \in PortOf(n) :
                   /\ port' = [port EXCEPT ![p] = k]
                   /\ Goes(p, IF foreground THEN "signals" ELSE "fork")
  BY DEF Options
<1> QED
  BY <1>3, <1>5, <1>6

\* The streams are on /dev/null, or the process returns.
LEMMA OpenStreamsInv ==
  ASSUME IInv, NEW p \in Procs, OpenStreams(p)
  PROVE  IInv'
<1>1. /\ at[p] = "streams" /\ TypeOK
      /\ UNCHANGED <<origin, progVars, sockVars, shell>>
      /\ luck' = luck \/ Mishap
  BY DEF OpenStreams, IInv
<1>2. /\ "streams" \in Starting /\ "streams" \in Live \ {"options"}
      /\ \A x \in {"return", "signals"} :
           /\ x \in Stages /\ x \notin HasEpoll /\ x \notin HasSocket
           /\ x \notin HasReuse /\ x \notin Listens /\ x \notin Starting
           /\ x # "none" /\ x # "listen"
      /\ "return" \notin Live /\ "return" \notin InMain
  BY DEF Live, Starting, InMain, TakingUp, GivingUp, HasEpoll, HasSocket, HasReuse, Listens, Stages
<1>3. /\ m_fd[p] = NoFd /\ listen_fd[p] = NoFd /\ reuse[p] = FALSE
      /\ sock[p] # "bound" /\ sock[p] # "listening"
  BY <1>1, <1>2, StartingHasNothing
<1>4. ASSUME NEW x \in {"return", "signals"}, NEW few \in 0 .. 3,
             x = "signals" => few = 3, Goes(p, x),
             files' = [files EXCEPT ![p] =
                         [n \in Fds |-> IF n < few THEN "null" ELSE "free"]]
      PROVE  IInv'
  <2> DEFINE open == [n \in Fds |-> IF n < few THEN "null" ELSE "free"]
  <2>1. Change(p, x, origin[p], port[p], listen_fd[p], m_fd[p], open, sock[p], reuse[p])
    BY <1>1, <1>4, Kept DEF Goes, Change, progVars, sockVars
  <2>2. Around
    BY <1>1, AroundSame DEF progVars, sockVars
  <2>3. open \in [Fds -> Uses]
    BY DEF Uses
  <2>4. FilesFit(x, NoFd, NoFd, open)
    <3>1. Holds(open, "epoll", NoFd) /\ Holds(open, "socket", NoFd)
      BY StartAssumption DEF Holds
    <3>2. x \in InMain => \A n \in Streams : open[n] \in {"inherited", "null"}
      BY <1>2, <1>4, StartAssumption DEF Streams, Fds
    <3> QED
      BY <1>2, <1>4, <3>1, <3>2 DEF FilesFit
  <2>5. SocketFits(x, sock[p], reuse[p]) /\ PortFits(x, port[p]) /\ OriginFits(x, origin[p])
    BY <1>1, <1>2, <1>3, <1>4, Types DEF SocketFits, PortFits, OriginFits
  <2> HIDE DEF open
  <2>6. Fit(x, origin[p], port[p], listen_fd[p], m_fd[p], open, sock[p], reuse[p])
    BY <1>2, <1>3, <1>4, <2>3, <2>4, <2>5, Types DEF Fit
  <2>7. Clear(p, x, port[p]) /\ NotNew(p, x, origin[p])
    BY <1>1, <1>2, <1>4 DEF Clear, NotNew
  <2> QED
    BY <1>1, <2>1, <2>2, <2>6, <2>7, ChangeInv
<1>5. CASE files' = [files EXCEPT ![p] = NullStreams] /\ Goes(p, "signals")
  <2>1. NullStreams = [n \in Fds |-> IF n < 3 THEN "null" ELSE "free"]
    BY StartAssumption DEF NullStreams, Streams, Fds
  <2> QED
    BY <1>4, <1>5, <2>1
<1>6. CASE /\ Goes(p, "return")
           /\ \E few \in 0 .. 2 : files' = [files EXCEPT ![p] =
                [n \in Fds |-> IF n < few THEN "null" ELSE "free"]]
  <2>1. PICK few \in 0 .. 2 : files' = [files EXCEPT ![p] =
          [n \in Fds |-> IF n < few THEN "null" ELSE "free"]]
    BY <1>6
  <2>2. few \in 0 .. 3
    OBVIOUS
  <2>3. Goes(p, "return") /\ ("return" = "signals" => few = 3)
    BY <1>6
  <2> QED
    BY <1>4, <2>1, <2>2, <2>3
<1> QED
  BY <1>5, <1>6 DEF OpenStreams

\* fork: the child goes on where the parent was, and the parent returns.
LEMMA ForkInv ==
  ASSUME IInv, NEW p \in Procs, Fork(p)
  PROVE  IInv'
<1>1. PICK stage \in {"fork again", "streams"} :
        /\ at[p] = IF stage = "streams" THEN "fork again" ELSE "fork"
        /\ \/ /\ \E q \in Procs : Lowest(q, Idle) /\ Heir(p, q, stage)
              /\ UNCHANGED luck
           \/ /\ Mishap /\ Goes(p, "return")
              /\ UNCHANGED <<origin, progVars, files, sockVars, shell>>
  BY DEF Fork
<1>2. /\ TypeOK /\ at[p] \in Starting /\ at[p] \in Live \ {"options"}
      /\ stage \in Starting /\ stage \in Live \ {"options"} /\ stage \notin InMain
      /\ stage \in Stages /\ "return" \in Stages
      /\ \A x \in {stage, "return", at[p]} :
           /\ x \notin HasEpoll /\ x \notin HasSocket /\ x \notin HasReuse
           /\ x \notin Listens /\ x # "none" /\ x # "listen"
      /\ "return" \notin InMain \cup Starting /\ "return" \notin Live
  BY <1>1 DEF Live, Starting, InMain, TakingUp, GivingUp,
              HasEpoll, HasSocket, HasReuse, Listens, Stages, IInv
<1>3. CASE /\ Mishap /\ Goes(p, "return")
           /\ UNCHANGED <<origin, progVars, files, sockVars, shell>>
  BY <1>2, <1>3, GoesInv
<1>4. ASSUME NEW q \in Procs, Lowest(q, Idle), Heir(p, q, stage), UNCHANGED luck
      PROVE  IInv'
  <2>1. q # p /\ at[q] = "none"
    BY <1>2, <1>4 DEF Lowest, Idle
  <2>2. \A r \in {p, q} :
          /\ m_fd[r] = NoFd /\ listen_fd[r] = NoFd /\ reuse[r] = FALSE
          /\ sock[r] # "bound" /\ sock[r] # "listening"
    BY <1>2, <2>1, StartingHasNothing
  <2>3. /\ at'[p] = "return" /\ at'[q] = stage
        /\ origin'[p] = origin[p] /\ origin'[q] = origin[p]
        /\ port'[p] = port[p] /\ port'[q] = port[p]
        /\ files'[p] = files[p] /\ files'[q] = files[p]
        /\ UNCHANGED <<listen_fd, m_fd, exit_flag, table, sock, reuse, lingering, shell>>
    BY <1>2, <1>4, <2>1 DEF Heir, TypeOK, sockVars
  <2>4. \A r \in Procs \ {p, q} :
          /\ at'[r] = at[r] /\ origin'[r] = origin[r]
          /\ port'[r] = port[r] /\ files'[r] = files[r]
    BY <1>2, <1>4 DEF Heir, TypeOK
  <2>5. TypeOK'
    <3>1. at' \in [Procs -> Stages] /\ files' \in [Procs -> [Fds -> Uses]]
      <4>1. at \in [Procs -> Stages] /\ files \in [Procs -> [Fds -> Uses]]
        BY <1>2 DEF TypeOK, Stages, Uses
      <4> QED
        BY <1>2, <1>4, <4>1 DEF Heir
    <3>2. /\ origin' \in [Procs -> Shells \cup Hands \cup {Nobody}]
          /\ port' \in [Procs -> 0 .. PortRange - 1]
      BY <1>2, <1>4 DEF Heir, TypeOK
    <3> QED
      BY <1>2, <1>4, <2>3, <3>1, <3>2 DEF TypeOK, Stages, Uses
  <2>6. ASSUME NEW r \in Procs
        PROVE  /\ SocketFits(at'[r], sock'[r], reuse'[r])
               /\ FilesFit(at'[r], m_fd'[r], listen_fd'[r], files'[r])
               /\ PortFits(at'[r], port'[r]) /\ OriginFits(at'[r], origin'[r])
    <3>1. CASE r \notin {p, q}
      BY <2>3, <2>4, <3>1, Types
    <3>2. FilesFit(at[p], NoFd, NoFd, files[p]) /\ PortFits(at[p], port[p])
          /\ origin[p] # Nobody
      BY <1>2, <2>2, Types DEF OriginFits
    <3>3. CASE r = p
      BY <1>2, <2>2, <2>3, <3>2, <3>3
         DEF SocketFits, FilesFit, PortFits, OriginFits
    <3>4. CASE r = q
      BY <1>2, <2>2, <2>3, <3>2, <3>4
         DEF SocketFits, FilesFit, PortFits, OriginFits
    <3> QED
      BY <3>1, <3>3, <3>4
  <2>7. InStage'
    BY <2>6 DEF InStage, SocketFits, FilesFit, Holds, PortFits, OriginFits
  <2>8. PortsApart'
    <3>1. \A r \in Procs : at'[r] \in Listens => r \notin {p, q}
      BY <1>2, <2>3
    <3> QED
      BY <2>4, <3>1 DEF IInv, PortsApart
  <2>9. \A a, b \in Procs :
          at'[a] \in Live /\ at'[b] \in Live /\ origin'[a] = origin'[b] => a = b
    <3> SUFFICES ASSUME NEW a \in Procs, NEW b \in Procs, a # b,
                        at'[a] \in Live, at'[b] \in Live, origin'[a] = origin'[b]
                 PROVE  FALSE
      OBVIOUS
    <3>1. a # p /\ b # p
      BY <1>2, <2>3
    <3>2. CASE a = q
      BY <1>2, <2>3, <2>4, <3>1, <3>2 DEF IInv, OneOfEach
    <3>3. CASE b = q
      BY <1>2, <2>3, <2>4, <3>1, <3>3 DEF IInv, OneOfEach
    <3>4. CASE a # q /\ b # q
      BY <2>4, <3>1, <3>4 DEF IInv, OneOfEach
    <3> QED
      BY <3>2, <3>3, <3>4
  <2>10. \A s \in Shells : shell'[s] # "wait" => \A r \in Procs : origin'[r] # s
    <3>1. \A r \in Procs : \E o \in Procs : origin'[r] = origin[o]
      BY <2>3, <2>4
    <3> QED
      BY <2>3, <3>1 DEF IInv, OneOfEach
  <2> QED
    BY <2>5, <2>7, <2>8, <2>9, <2>10 DEF IInv, OneOfEach
<1> QED
  BY <1>1, <1>3, <1>4

\* Steps that touch none of what IInv speaks of but the types.
LEMMA AsideInv ==
  ASSUME IInv, UNCHANGED <<at, origin, port, listen_fd, m_fd, files, sock, reuse, shell>>,
         exit_flag' \in [Procs -> BOOLEAN], table' \in [Procs -> BOOLEAN],
         lingering' \subseteq 0 .. PortRange - 1, luck' \in 0 .. MaxMishaps
  PROVE  IInv'
<1>1. TypeOK'
  BY DEF IInv, TypeOK
<1>2. InStage' /\ PortsApart' /\ OneOfEach'
  BY DEF IInv, InStage, SocketFits, FilesFit, Holds, PortFits, OriginFits, PortsApart,
         OneOfEach
<1> QED
  BY <1>1, <1>2 DEF IInv

\* A signal, once it is handled.
LEMMA SignalInv ==
  ASSUME IInv, NEW p \in Procs, Signal(p)
  PROVE  IInv'
<1>1. TypeOK
  BY DEF IInv
<1>2. /\ exit_flag' \in [Procs -> BOOLEAN] /\ lingering' \subseteq 0 .. PortRange - 1
      /\ table' \in [Procs -> BOOLEAN]
  BY <1>1 DEF Signal, TypeOK, sockVars
<1>3. luck' \in 0 .. MaxMishaps
  BY <1>1, LuckType DEF Signal
<1> QED
  BY <1>2, <1>3, AsideInv DEF Signal, sockVars

\* A new process, of a starter that has none.
LEMMA StartsInv ==
  ASSUME IInv, NEW p \in Procs, NEW s \in Shells \cup Hands, NEW open \in SUBSET Fds,
         Starts(p, s, open), \A q \in Procs : origin[q] # s,
         shell' \in [Shells -> {"start", "wait", "sleep"}],
         s \in Shells => shell'[s] = "wait",
         \A z \in Shells \ {s} : shell'[z] = shell[z]
  PROVE  IInv'
<1> DEFINE given == [n \in Fds |-> IF n \in open THEN "inherited" ELSE "free"]
<1>1. TypeOK /\ at[p] = "none"
  BY DEF IInv, Starts, Lowest, Idle
<1>2. /\ m_fd[p] = NoFd /\ listen_fd[p] = NoFd /\ reuse[p] = FALSE
      /\ sock[p] # "bound" /\ sock[p] # "listening"
  BY <1>1, StartingHasNothing
<1>3. Change(p, "options", s, port[p], listen_fd[p], m_fd[p], given, sock[p], reuse[p])
  BY <1>1, Kept DEF Starts, Goes, Change, progVars, sockVars
<1>4. Around
  BY <1>1 DEF Starts, TypeOK, Around, progVars, sockVars
<1>5. /\ "options" \in Stages /\ "options" \notin HasEpoll /\ "options" \notin HasSocket
      /\ "options" \notin HasReuse /\ "options" \notin Listens /\ "options" \notin InMain
  BY DEF Live, Starting, InMain, TakingUp, GivingUp, HasEpoll, HasSocket, HasReuse, Listens, Stages
<1>6. given \in [Fds -> Uses] /\ FilesFit("options", NoFd, NoFd, given)
  <2>1. given \in [Fds -> Uses]
    BY DEF Uses
  <2>2. Holds(given, "epoll", NoFd) /\ Holds(given, "socket", NoFd)
    BY StartAssumption DEF Holds
  <2>3. \A n \in Fds : given[n] \in {"inherited", "free"}
    OBVIOUS
  <2> HIDE DEF given
  <2> QED
    BY <1>5, <2>1, <2>2, <2>3 DEF FilesFit
<1> HIDE DEF given
<1>7. /\ SocketFits("options", sock[p], reuse[p]) /\ PortFits("options", port[p])
      /\ OriginFits("options", s)
  BY <1>2, <1>5, StartAssumption DEF SocketFits, PortFits, OriginFits
<1>8. Fit("options", s, port[p], listen_fd[p], m_fd[p], given, sock[p], reuse[p])
  BY <1>2, <1>5, <1>6, <1>7, Types DEF Fit
<1>9. Clear(p, "options", port[p])
  BY <1>5 DEF Clear
<1>10. TypeOK' /\ InStage' /\ PortsApart'
  BY <1>3, <1>4, <1>8, <1>9, ChangeFits
<1>11. /\ origin'[p] = s
       /\ \A q \in Procs \ {p} : origin'[q] = origin[q] /\ at'[q] = at[q]
  BY <1>1, <1>3 DEF Change, TypeOK
<1>12. \A a, b \in Procs :
         at'[a] \in Live /\ at'[b] \in Live /\ origin'[a] = origin'[b] => a = b
  BY <1>11 DEF IInv, OneOfEach
<1>13. \A z \in Shells : shell'[z] # "wait" => \A q \in Procs : origin'[q] # z
  <2> SUFFICES ASSUME NEW z \in Shells, shell'[z] # "wait", NEW q \in Procs
               PROVE  origin'[q] # z
    OBVIOUS
  <2>1. z # s /\ shell[z] # "wait"
    OBVIOUS
  <2> QED
    BY <1>11, <2>1 DEF IInv, OneOfEach
<1> QED
  BY <1>10, <1>12, <1>13 DEF IInv, OneOfEach

\* run.sh starts a server, waits for its end, sleeps.
LEMMA ShellInv ==
  ASSUME IInv, NEW s \in Shells, Shell(s)
  PROVE  IInv'
<1>1. TypeOK
  BY DEF IInv
<1>2. CASE ShellStarts(s)
  <2>1. PICK p \in Procs : Starts(p, s, Streams)
    BY <1>2 DEF ShellStarts
  <2>2. Streams \in SUBSET Fds
    BY StartAssumption DEF Streams, Fds
  <2>3. \A q \in Procs : origin[q] # s
    BY <1>2 DEF ShellStarts, IInv, OneOfEach
  <2>4. /\ shell' \in [Shells -> {"start", "wait", "sleep"}] /\ shell'[s] = "wait"
        /\ \A z \in Shells \ {s} : shell'[z] = shell[z]
    BY <1>1, <1>2 DEF ShellStarts, TypeOK
  <2> QED
    BY <2>1, <2>2, <2>3, <2>4, StartsInv
<1>3. CASE ShellWaits(s) \/ ShellSleeps(s)
  <2>1. /\ shell' \in [Shells -> {"start", "wait", "sleep"}]
        /\ \A z \in Shells \ {s} : shell'[z] = shell[z]
        /\ \A q \in Procs : origin[q] # s
        /\ UNCHANGED <<at, origin, progVars, files, sockVars, luck>>
    BY <1>1, <1>3 DEF ShellWaits, ShellSleeps, TypeOK, IInv, OneOfEach
  <2>2. TypeOK' /\ InStage' /\ PortsApart'
    BY <2>1 DEF IInv, TypeOK, InStage, SocketFits, FilesFit, Holds, PortFits,
       OriginFits, PortsApart, progVars, sockVars
  <2>3. OneOfEach'
    BY <2>1 DEF IInv, OneOfEach
  <2> QED
    BY <2>2, <2>3 DEF IInv
<1> QED
  BY <1>2, <1>3 DEF Shell

\* Every step preserves IInv.
LEMMA NextIInv == IInv /\ [Next]_vars => IInv'
<1> SUFFICES ASSUME IInv, [Next]_vars PROVE IInv'
  OBVIOUS
<1>1. TypeOK
  BY DEF IInv
<1>2. ASSUME NEW p \in Procs, Program(p) PROVE IInv'
  <2>1. CASE Returns(p)
    BY <2>1, EndsInv DEF Returns
  <2> QED
    BY <1>2, <2>1, OptionsInv, ForkInv, OpenStreamsInv, InstallHandlersInv,
       GetEpollInv, AllocTableInv, OpenSocketInv, SetReuseInv, BindInv, ListenInv,
       RegisterInv, LoopEndsInv, CloseListenerInv, DeleteEpollInv DEF Program
<1>3. ASSUME NEW p \in Procs, Killed(p) PROVE IInv'
  BY <1>3, EndsInv DEF Killed
<1>4. ASSUME NEW h \in Hands, HandStarts(h) PROVE IInv'
  <2>1. PICK p \in Procs, open \in Legacies : Starts(p, h, open)
    BY <1>4 DEF HandStarts
  <2>2. open \in SUBSET Fds /\ h \notin Shells
    BY <1>4, StartAssumption
  <2>3. shell' \in [Shells -> {"start", "wait", "sleep"}] /\ shell' = shell
    BY <1>1, <1>4 DEF HandStarts, TypeOK
  <2>4. \A q \in Procs : origin[q] # h
    BY <1>4 DEF HandStarts
  <2> QED
    BY <2>1, <2>2, <2>3, <2>4, StartsInv
<1>5. CASE LingeringEnds
  BY <1>1, <1>5, AsideInv DEF LingeringEnds, TypeOK, progVars
<1>6. CASE UNCHANGED vars
  BY <1>1, <1>6, AsideInv DEF vars, TypeOK, progVars, sockVars
<1> QED
  BY <1>2, <1>3, <1>4, <1>5, <1>6, ClientsInv, SignalInv, ShellInv DEF Next

\* The table is there from the point on where it is allocated, until the process ends.
LEMMA NextTable == IInv /\ TableKept /\ [Next]_vars => TableKept'
<1> SUFFICES ASSUME IInv, TableKept, [Next]_vars PROVE TableKept'
  OBVIOUS
<1>1. /\ TypeOK /\ at \in [Procs -> Stages] /\ table \in [Procs -> BOOLEAN]
      /\ files \in [Procs -> [Fds -> Uses]]
  BY DEF IInv, TypeOK, Stages, Uses
<1>2. /\ \A x \in Starting \cup {"none", "return", "signals", "epoll", "table", "delete"} :
           x \notin HasTable
      /\ {"socket", "option", "bind", "listen", "register", "loop", "close"} \subseteq HasTable
  BY DEF HasTable, HasSocket, HasReuse, Starting
\* What a step may do to a process: no new clients, and no way behind AllocTable, ...
<1> DEFINE Quiet(p) == /\ table'[p] = table[p]
                       /\ \A n \in Fds : files'[p][n] = "client" => files[p][n] = "client"
                       /\ at'[p] \in HasTable => at[p] \in HasTable
\* ... or it is before that, without clients, ...
           Fresh(p) == /\ \A n \in Fds : files'[p][n] # "client"
                       /\ at'[p] \notin HasTable
<1>3. (\A p \in Procs : Quiet(p) \/ Fresh(p) \/ table'[p]) => TableKept'
  BY DEF TableKept, HasClients
\* ... and nothing to the others.
<1> DEFINE Others(p) == \A q \in Procs \ {p} :
             at'[q] = at[q] /\ files'[q] = files[q] /\ table'[q] = table[q]
<1>4. ASSUME NEW p \in Procs, Others(p), Quiet(p) \/ Fresh(p) \/ table'[p]
      PROVE  TableKept'
  BY <1>3, <1>4
<1>5. ASSUME NEW p \in Procs, Options(p) PROVE TableKept'
  <2>1. Others(p)
    BY <1>1, <1>5 DEF Options, Goes
  <2>2. Quiet(p)
    <3>1. \E x \in {"return", "signals", "fork"} : Goes(p, x)
      BY <1>5 DEF Options
    <3>2. {"return", "signals", "fork"} \cap HasTable = {}
      BY <1>2 DEF Starting
    <3>3. UNCHANGED <<table, files>>
      BY <1>5 DEF Options
    <3> QED
      BY <1>1, <3>1, <3>2, <3>3 DEF Goes
  <2> QED
    BY <1>4, <2>1, <2>2
<1>6. ASSUME NEW p \in Procs, InstallHandlers(p) PROVE TableKept'
  <2>1. Others(p)
    BY <1>1, <1>6 DEF InstallHandlers, Goes, progVars
  <2>2. Quiet(p)
    BY <1>1, <1>2, <1>6 DEF InstallHandlers, Goes, progVars, Uses
  <2> QED
    BY <1>4, <2>1, <2>2
<1>7. ASSUME NEW p \in Procs, GetEpoll(p) PROVE TableKept'
  <2>1. Others(p)
    BY <1>1, <1>7 DEF GetEpoll, Goes
  <2>2. Quiet(p)
    BY <1>1, <1>2, <1>7 DEF GetEpoll, Goes, Uses
  <2> QED
    BY <1>4, <2>1, <2>2
<1>8. ASSUME NEW p \in Procs, OpenSocket(p) PROVE TableKept'
  <2>1. Others(p)
    BY <1>1, <1>8 DEF OpenSocket, Goes
  <2>2. Quiet(p)
    BY <1>1, <1>2, <1>8 DEF OpenSocket, Goes, Uses
  <2> QED
    BY <1>4, <2>1, <2>2
<1>9. ASSUME NEW p \in Procs, SetReuse(p) PROVE TableKept'
  <2>1. Others(p)
    BY <1>1, <1>9 DEF SetReuse, Goes, progVars, Closes
  <2>2. Quiet(p)
    BY <1>1, <1>2, <1>9 DEF SetReuse, Goes, progVars, Closes, Uses
  <2> QED
    BY <1>4, <2>1, <2>2
<1>10. ASSUME NEW p \in Procs, Bind(p) PROVE TableKept'
  <2>1. Others(p)
    BY <1>1, <1>10 DEF Bind, Goes, progVars, Closes
  <2>2. Quiet(p)
    BY <1>1, <1>2, <1>10 DEF Bind, Goes, progVars, Closes, Uses
  <2> QED
    BY <1>4, <2>1, <2>2
<1>11. ASSUME NEW p \in Procs, Listen(p) PROVE TableKept'
  <2>1. Others(p)
    BY <1>1, <1>11 DEF Listen, Goes, progVars, Closes
  <2>2. Quiet(p)
    BY <1>1, <1>2, <1>11 DEF Listen, Goes, progVars, Closes, Uses
  <2> QED
    BY <1>4, <2>1, <2>2
<1>12. ASSUME NEW p \in Procs, Register(p) PROVE TableKept'
  <2>1. Others(p)
    BY <1>1, <1>12 DEF Register, Goes, progVars
  <2>2. Quiet(p)
    BY <1>1, <1>2, <1>12 DEF Register, Goes, progVars, Uses
  <2> QED
    BY <1>4, <2>1, <2>2
<1>13. ASSUME NEW p \in Procs, LoopEnds(p) PROVE TableKept'
  <2>1. Others(p)
    BY <1>1, <1>13 DEF LoopEnds, Goes, progVars
  <2>2. Quiet(p)
    BY <1>1, <1>2, <1>13 DEF LoopEnds, Goes, progVars, Uses
  <2> QED
    BY <1>4, <2>1, <2>2
<1>14. ASSUME NEW p \in Procs, CloseListener(p) PROVE TableKept'
  <2>1. Others(p)
    BY <1>1, <1>14 DEF CloseListener, Goes, Closes
  <2>2. Quiet(p)
    BY <1>1, <1>2, <1>14 DEF CloseListener, Goes, Closes, Uses
  <2> QED
    BY <1>4, <2>1, <2>2
<1>15. ASSUME NEW p \in Procs, DeleteEpoll(p) PROVE TableKept'
  <2>1. Others(p)
    BY <1>1, <1>15 DEF DeleteEpoll, Goes
  <2>2. Quiet(p)
    BY <1>1, <1>2, <1>15 DEF DeleteEpoll, Goes, Uses
  <2> QED
    BY <1>4, <2>1, <2>2
<1>16. ASSUME NEW p \in Procs, LoopCloses(p) PROVE TableKept'
  <2>1. Others(p)
    BY <1>1, <1>16 DEF LoopCloses, progVars
  <2>2. Quiet(p)
    BY <1>1, <1>2, <1>16 DEF LoopCloses, progVars, Uses
  <2> QED
    BY <1>4, <2>1, <2>2
<1>17. ASSUME NEW p \in Procs, Signal(p) PROVE TableKept'
  <2>1. Others(p)
    BY <1>1, <1>17 DEF Signal
  <2>2. Quiet(p)
    BY <1>1, <1>2, <1>17 DEF Signal, Uses
  <2> QED
    BY <1>4, <2>1, <2>2
<1>18. ASSUME NEW p \in Procs, OpenStreams(p) PROVE TableKept'
  <2>1. Others(p)
    BY <1>1, <1>18 DEF OpenStreams, Goes, progVars
  <2>2. Fresh(p)
    BY <1>1, <1>2, <1>18 DEF OpenStreams, Goes, NullStreams
  <2> QED
    BY <1>4, <2>1, <2>2
<1>19. ASSUME NEW p \in Procs, Ends(p) PROVE TableKept'
  <2>1. Others(p)
    BY <1>1, <1>19 DEF Ends, Goes
  <2>2. Fresh(p)
    BY <1>1, <1>2, <1>19 DEF Ends, Goes
  <2> QED
    BY <1>4, <2>1, <2>2
<1>20. ASSUME NEW p \in Procs, AllocTable(p) PROVE TableKept'
  <2>1. Others(p)
    BY <1>1, <1>20 DEF AllocTable, Goes
  <2>2. Quiet(p) \/ table'[p]
    BY <1>1, <1>2, <1>20 DEF AllocTable, Goes
  <2> QED
    BY <1>4, <2>1, <2>2
<1>21. ASSUME NEW p \in Procs, LoopAccepts(p) PROVE TableKept'
  <2>1. Others(p)
    BY <1>1, <1>21 DEF LoopAccepts, progVars
  <2>2. table'[p]
    BY <1>2, <1>21 DEF LoopAccepts, progVars, TableKept
  <2> QED
    BY <1>4, <2>1, <2>2
<1>22. ASSUME NEW p \in Procs, Fork(p) PROVE TableKept'
  <2>1. at[p] \in Starting /\ \A n \in Fds : files[p][n] # "client"
    <3>1. at[p] \in Starting
      BY <1>22 DEF Fork, Starting
    <3> QED
      BY <3>1, Types DEF FilesFit
  <2>2. CASE /\ Goes(p, "return")
             /\ UNCHANGED <<origin, progVars, files, sockVars, shell>>
    <3>1. Others(p) /\ Fresh(p)
      BY <1>1, <1>2, <2>1, <2>2 DEF Goes, progVars
    <3> QED
      BY <1>4, <3>1
  <2>3. ASSUME NEW q \in Procs, NEW stage \in {"fork again", "streams"}, Heir(p, q, stage)
        PROVE  TableKept'
    <3>1. \A r \in Procs \ {p, q} : Quiet(r)
      BY <1>1, <2>3 DEF Heir
    <3>2. Fresh(p) /\ Fresh(q)
      <4>1. {stage, "return"} \cap HasTable = {}
        BY <1>2 DEF Starting
      <4>2. /\ files'[p] = files[p] /\ files'[q] = files[p]
            /\ at'[p] \in {stage, "return"} /\ at'[q] \in {stage, "return"}
        BY <1>1, <2>3 DEF Heir
      <4> QED
        BY <2>1, <4>1, <4>2
    <3> QED
      BY <1>3, <3>1, <3>2
  <2> QED
    BY <1>22, <2>2, <2>3 DEF Fork
<1>23. ASSUME NEW p \in Procs, NEW z, NEW given, Starts(p, z, given) PROVE TableKept'
  <2>1. Others(p)
    BY <1>1, <1>23 DEF Starts, Goes, progVars
  <2>2. Fresh(p)
    BY <1>1, <1>2, <1>23 DEF Starts, Goes, Starting
  <2> QED
    BY <1>4, <2>1, <2>2
<1>24. CASE UNCHANGED <<at, files, table>>
  BY <1>3, <1>24
<1> HIDE DEF Quiet, Fresh, Others
<1>25. ASSUME NEW p \in Procs, Program(p) \/ Clients(p) \/ Killed(p) PROVE TableKept'
  BY <1>5, <1>6, <1>7, <1>8, <1>9, <1>10, <1>11, <1>12, <1>13,
     <1>14, <1>15, <1>16, <1>17, <1>18, <1>19, <1>20, <1>21, <1>22,
     <1>25
     DEF Program, Clients, Returns, Killed
<1>26. CASE \E s \in Shells : Shell(s)
  BY <1>23, <1>24, <1>26 DEF Shell, ShellStarts, ShellWaits, ShellSleeps, progVars
<1>27. CASE \E h \in Hands : HandStarts(h)
  BY <1>23, <1>27 DEF HandStarts
<1> QED
  BY <1>17, <1>24, <1>25, <1>26, <1>27 DEF Next, LingeringEnds, vars, progVars

(***************************************************************************)
(* The theorems.                                                           *)
(***************************************************************************)

\* Everything below rests on this.
THEOREM Invariance == Spec => []IInv
BY InitIInv, NextIInv, PTL DEF Spec

\* No client without a table.
LEMMA TableInvariance == Spec => []TableKept
<1>1. Init => TableKept
  <2>1. "none" \notin HasTable
    BY DEF HasTable, HasSocket, HasReuse
  <2> QED
    BY <2>1 DEF Init, TableKept, HasClients
<1> QED
  BY <1>1, NextTable, Invariance, PTL DEF Spec

\* The variables keep their types; the port stays an unsigned short.
THEOREM TypeCorrect == Spec => []TypeOK
<1>1. IInv => TypeOK
  BY DEF IInv
<1> QED
  BY <1>1, Invariance, PTL

\* No two processes serve a port, however their starts interleave (main.cpp:480-488),
\* and none serves port 0 (main.cpp:690-694).
THEOREM Alone == Spec => []ServesAlone
<1>1. ASSUME IInv PROVE ServesAlone
  <2>1. "loop" \in Listens /\ "loop" \in Live \ {"options"}
    BY DEF Listens, Live, InMain, TakingUp, GivingUp, Starting
  <2>2. \A p \in Procs : at[p] = "loop" => sock[p] = "listening" /\ port[p] # 0
    BY <1>1, <2>1, Types DEF SocketFits, PortFits
  <2> QED
    BY <1>1, <2>1, <2>2 DEF IInv, PortsApart, ServesAlone
<1> QED
  BY <1>1, Invariance, PTL

\* All that main can leave behind when it returns are clients and their table
\* (main.cpp:584, 646-669): every way out of doMainFunc closes the listening socket and
\* the epoll object (main.cpp:492-497, 646-664; epoll.cpp:26-33, 231-242).
THEOREM Balanced == Spec => []OnlyClientsStay
<1>1. ASSUME IInv, TableKept PROVE OnlyClientsStay
  <2>1. ASSUME NEW p \in Procs
        PROVE  /\ {n \in Fds : files[p][n] = "epoll"} = {m_fd[p]} \ {NoFd}
               /\ {n \in Fds : files[p][n] = "socket"} = {listen_fd[p]} \ {NoFd}
               /\ at[p] = "return" => m_fd[p] = NoFd /\ listen_fd[p] = NoFd
    <3>1. /\ FilesFit(at[p], m_fd[p], listen_fd[p], files[p])
          /\ m_fd[p] \in Fds \cup {NoFd} /\ listen_fd[p] \in Fds \cup {NoFd}
      BY <1>1, Types
    <3>2. "return" \notin HasEpoll /\ "return" \notin HasSocket
      BY StageFacts
    <3> QED
      BY <3>1, <3>2, StartAssumption DEF FilesFit, Holds
  <2> QED
    BY <1>1, <2>1 DEF OnlyClientsStay, TableKept
<1> QED
  BY <1>1, Invariance, TableInvariance, PTL

\* A client never gets the number printf writes to (main.cpp:539-551).
THEOREM StreamsKept == Spec => []StreamsAreNoSockets
<1>1. IInv => StreamsAreNoSockets
  BY Types DEF StreamsAreNoSockets, FilesFit
<1> QED
  BY <1>1, Invariance, PTL

\* The two forks leave one process (main.cpp:522-526).
THEOREM OneLeft == Spec => []OnePerStart
<1>1. IInv => OnePerStart
  BY DEF IInv, OneOfEach, OnePerStart, Live
<1> QED
  BY <1>1, Invariance, PTL

\* bind fails only where another process listens: the option sees to it that neither
\* TIME_WAIT nor a socket that is merely bound is in the way (main.cpp:469-472).
THEOREM OnlyListeners == Spec => OnlyListenersAreInTheWay
<1> DEFINE P == \A p \in Procs : at[p] = "bind" /\ at'[p] = "delete" =>
                  \E q \in Procs \ {p} : sock[q] = "listening" /\ port[q] = port[p]
<1>1. ASSUME IInv, Next, NEW p \in Procs, at[p] = "bind", at'[p] = "delete"
      PROVE  \E q \in Procs \ {p} : sock[q] = "listening" /\ port[q] = port[p]
  <2>1. Bind(p)
    <3>0. at \in [Procs -> {"none", "return"} \cup Starting \cup InMain]
      BY <1>1 DEF IInv, TypeOK
    <3>1. ASSUME NEW q \in Procs, NEW x, Goes(q, x) PROVE q = p /\ x = "delete"
      BY <1>1, <3>0, <3>1 DEF Goes
    <3>2. ASSUME NEW q \in Procs, Program(q) PROVE Bind(p)
      <4>1. at[q] = "bind"
        <5>1. ~Fork(q)
          BY <1>1, <3>0 DEF Fork, Heir, Goes, Lowest, Idle
        <5>2. \E x : Goes(q, x)
          BY <3>2, <5>1 DEF Program, Options, OpenStreams, Returns, Ends, InstallHandlers,
             GetEpoll, AllocTable, OpenSocket, SetReuse, Bind, Listen, Register,
             LoopEnds, CloseListener, DeleteEpoll, Closes
        <5> QED
          BY <1>1, <3>1, <5>2
      <4>2. q = p
        <5>1. ~Fork(q)
          BY <4>1 DEF Fork
        <5>2. \E x : Goes(q, x)
          BY <3>2, <5>1 DEF Program, Options, OpenStreams, Returns, Ends, InstallHandlers,
             GetEpoll, AllocTable, OpenSocket, SetReuse, Bind, Listen, Register,
             LoopEnds, CloseListener, DeleteEpoll, Closes
        <5> QED
          BY <3>1, <5>2
      <4> QED
        BY <3>2, <4>1, <4>2 DEF Program, Options, Fork, OpenStreams, Returns,
           InstallHandlers, GetEpoll, AllocTable, OpenSocket, SetReuse, Listen, Register,
           LoopEnds, CloseListener, DeleteEpoll
    <3>3. ASSUME NEW q \in Procs, Killed(q) PROVE FALSE
      BY <3>1, <3>3 DEF Killed, Ends
    <3>4. ASSUME NEW q \in Procs, NEW z, NEW open, Starts(q, z, open) PROVE FALSE
      BY <3>1, <3>4 DEF Starts
    <3> QED
      BY <1>1, <3>2, <3>3, <3>4 DEF Next, Signal, Shell, ShellStarts, ShellWaits,
         ShellSleeps, HandStarts, LingeringEnds, Clients, LoopAccepts, LoopCloses
  <2>2. ~Bindable(p)
    BY <1>1, <2>1 DEF Bind, Goes, IInv, TypeOK
  <2>3. \A q \in Procs : /\ sock[q] = "bound" => reuse[q]
                         /\ at[q] = "bind" => reuse[q]
    <3>1. "listen" \in HasReuse /\ "bind" \in HasReuse
      BY DEF HasReuse
    <3> QED
      BY <1>1, <3>1, Types DEF SocketFits
  <2> QED
    BY <1>1, <2>2, <2>3 DEF Bindable, Bound
<1>2. IInv /\ [Next]_vars => [P]_vars
  BY <1>1
<1> QED
  BY <1>2, Invariance, PTL DEF Spec, OnlyListenersAreInTheWay
=============================================================================
