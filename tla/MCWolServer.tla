----------------------------- MODULE MCWolServer -----------------------------
(***************************************************************************)
(* Values of the constants of WolServer for TLC, shared by its runs: which *)
(* requests the clients send, and the kept part of each key.               *)
(***************************************************************************)
EXTENDS WolDirectory, TLC

CONSTANTS k1, k2

Req(cmd, key) == [cmd |-> cmd, key |-> key, mac |-> TRUE]

\* A device that binds, one that binds another key, orders to the first.
RoutingRequests == {Req("bind", k1), Req("bind", k2), Req("wol", k1)}

\* A key too long to be kept whole, orders to what is left of it, the list of devices.
DirectoryRequests == {Req("bind", k2), Req("wol", k1), Req("client_list", NoKey)}

\* Two devices that bind and warn.
NoticeRequests == {Req("bind", k1), Req("bind", k2), Req("warn", NoKey)}

\* What counts as a sign of life, and what does not.
LifeRequests == {Req("bind", k1), Req("beat", NoKey), Req("warn", NoKey),
                 Req("response", NoKey), Garbled}

\* One request is enough for what the server does in the end.
LivenessRequests == {Req("client_list", NoKey)}

\* k1 and k2 both fit in client_info.key.
SameKept == [k \in Keys |-> k]

\* k2 is k1 with something after the fifteenth character.
CutKept == [k \in Keys |-> k1]

\* malloc leaves the same in every entry.
AlikeInit == Init /\ \A fd, g \in Fds : client_list[fd] = client_list[g]

\* Routing among three connections: requests come whole, connections end with
\* FIN, the server is not stopped.  The other runs have the rest of the world.
RoutingWorld ==
  \E c \in Conns : Connect(c) \/ ClientSend(c) \/ ClientFin(c) \/ PeerRead(c)
RoutingSpec == AlikeInit /\ [][Server \/ RoutingWorld]_vars

\* The clock runs, requests come whole, connections end with FIN, the notice
\* process takes what it is sent.
TimingWorld ==
  \/ TakeNotice \/ Tick
  \/ \E c \in Conns : Connect(c) \/ ClientSend(c) \/ ClientFin(c) \/ PeerRead(c)
TimingSpec == AlikeInit /\ [][Server \/ TimingWorld]_vars

\* Everything a connection can come to and a restart; only a bind comes in two pieces.
DirectoryWorld ==
  \/ Signal \/ Restart
  \/ \E c \in Conns : \/ Connect(c) \/ ClientSend(c) \/ ClientSendTail(c)
                      \/ ClientSendHead(c) /\ rest'[c].cmd = "bind"
                      \/ ClientFin(c) \/ ClientRst(c) \/ PeerRead(c)
DirectorySpec == Init /\ [][Server \/ DirectoryWorld]_vars

\* More connections come than there are descriptors, and more descriptors are ready
\* than epoll_wait returns at once; signals, restarts, and connections that end in any
\* way besides.
LivenessWorld ==
  \/ Signal \/ Restart
  \/ \E c \in Conns : Connect(c) \/ ClientSend(c) \/ ClientFin(c) \/ ClientRst(c)
LivenessSpec == AlikeInit /\ [][Server \/ LivenessWorld]_vars /\ Fairness

ConnSymmetry == Permutations(Conns)
=============================================================================
