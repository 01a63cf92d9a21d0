\* One run.sh and one who starts servers by hand: a daemon has up to three
\* processes at a time.  69536 is 4000 and 65536 is 0, as unsigned short; a
\* server on another port shares nothing with these.
CONSTANTS
  Shells = {s1}
  Hands = {h1}
  NProcs = 4
  Top = 5
  RunPort = 4000
  Numbers = {65536, 69536}
  Legacies = {{}, {0, 1, 2}, {0, 1, 2, 3}}
  MaxMishaps = 2
  Nobody = Nobody
  NoFd = NoFd
\* Once the mishaps are used up servers may loop for good.
CHECK_DEADLOCK FALSE
SPECIFICATION FairSpec
INVARIANTS ServesAlone OnlyClientsStay StreamsAreNoSockets OnePerStart
PROPERTIES OnlyListenersAreInTheWay ServerComesBack
