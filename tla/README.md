# A verification of wol_server

TLA+ specifications of the wol_server repository, the TLC runs that check them and
the theorems TLAPS proves about them. Everything is translated from the source; line
numbers below and in the modules are those of the repository.

## The system

A *device* (an ESP8266, `smart_config/user/user_main.c`) sits in a home network and keeps
one TCP connection to the *server* (`main.cpp`, on the epoll object of `epoll.cpp`). It
binds a key and beats every few seconds. A *client* sends the server `wol`, `shutdown` or
`reset` with a key; the server forwards it to the device that has bound the key, and
answers whether there was one. A device may also `warn`; the server passes that on in a
datagram to the *notice* process (`notice/src/notice`), which makes an HTTPS request of
it. `run.sh` starts notice once and the server for ever.

| Component | State | Operations | Hard about it |
|---|---|---|---|
| Event loop, `Lib_Epoll`, `handle_socket` (main.cpp 88-454, 559-669; epoll.cpp) | `client_list` by descriptor, count and listening descriptor of the epoll object, time of the next sweep, `exit_flag` | accept, receive, one branch per command, close, sweep, exit | descriptors handed out again, batches of events, several endings of a connection, requests in pieces or several at once, time, signals |
| `wol_client_task` (user_main.c 332-656) | two target times, a flag and a counter of missing answers, retries, samples of the warning pin | connect, bind, beat, warn, obey, give up | lost and coalesced answers, a dead link, a clock that wraps, leaking sockets |
| Rest of the firmware (user_main.c 284-330, 658-1041) | stored access point, `global_flag`, button and blink counters | boot, Wi-Fi events, smartconfig, button, LED, key broadcast | tasks and callbacks interleave and share a pointer; reset in two steps |
| notice (main.go, httpreq.go) | time of each key's last request, a signal channel | read, dial, exchange, signal | one goroutine reads and blocks in requests; timeouts inside timeouts |
| Processes: `main`, `deamon_create`, `doMainFunc` around its loop, `listen_on` (main.cpp 456-500, 516-669, 671-721), run.sh | options, epoll object, listening socket; the kernel's process and descriptor tables | start, fork, take, fail, give back, restart | several servers on one machine, steps that fail with others done, stream numbers |
| Supervisor (run.sh), seen from the network | none | start again | the server's state is gone, its peers' is not |
| `Lib_Json`, cJSON (json.cpp, cJSON.cpp) | a tree of linked nodes, two cursors into it | parse, look up, change, copy, print, delete | any allocation may fail, calls deep; cursors and copies outlive what they came from; a number is kept twice; lengths counted in one loop and used in another |
| `Lib_IfConfig` | none | ioctl, fcntl | not modelled: only the failures of two calls matter, and they are |

What makes them right: a descriptor's entry, the epoll registration and the open
connection never come apart; a name in the table was bound by the connection that has it;
orders, answers, lists and notices are about the right connections; idle connections go
in a bounded time and live ones stay; the two ends of a link give it up for a reason and
in time; the device comes back; one process at most serves a port and there is always one
again; a process leaves only its clients and their table for the kernel to take back, and the parser
nothing; notices are rationed and the process ends when told; the LED and the button can be relied on.

## Modules

```
SessionDirectory            the promise: sessions, names, mailboxes
      ^ refined by
WolDirectory  -- extends --> WolServer
      ^ extends
      |--- MCWolServer  (five .cfg)
      |--- WolServerProofs

WolDevice <-- extends -- WolLink <-- extends -- WolLinkProofs
Notice <-- extends -- NoticeProofs      DeviceBoot <-- extends -- DeviceBootProofs
ServerStart <-- extends -- ServerStartProofs
LibJson <-- extends -- JsonText <-- extends -- JsonTextProofs
      ^ extends                                       |
      |--- LibJsonProofs <-- extends -----------------|
JsonNumbers <-- extends -- WakeOrder <-- extends -- WakeOrderProofs
```

**WolServer.** The process is single threaded and its sockets do not block, so one call
of `handle_socket` is one action; the steps of the loop (`LoopSkip`, `LoopSweep`,
`LoopExit`, `EpollWait`) are actions of their own, and between any two of them the network
(`Connect`, `ClientSend`, `ClientSendHead/Tail`, `ClientFin`, `ClientRst`, `PeerRead`), the
clock (`Tick`), a signal (`Signal`) and the supervisor (`Restart`) may act. `Receives` is
the recv loop: it takes all that has arrived, of which `Parsed` keeps the first complete
request. The `Handle...` actions are the branches of the command, each with the answer
(`Answer`, main.cpp 430-451) and its effect on the timestamp. `sock` keeps descriptor and
connection apart, so that a number handed out again is seen to be another client's.
The auxiliary `bound` and `last_ok` record what each connection asked for and when it was
last answered true, for the properties to compare the table with; `round_at` bounds the
length of a round. `rdlist` is the kernel's list of ready sockets, by which the descriptors that one
call of `epoll_wait` has no room for come first in the next. Definitions called `Faulty...` are slips that could have been
made in the code, kept to show that each property notices one.

**SessionDirectory, WolDirectory.** The promise without descriptors: sessions join
without a name, rename themselves, get orders for their name, leave with all they had; whoever
asks is answered in the same step, and an order with its answer are one step, though to two
mailboxes.  `WolDirectory` maps the server's table to it: the names are those in `client_list`, not
those the clients asked for, and of a mailbox it keeps for an order the name it was sent to and for
an answer that it is one.

**WolDevice, WolLink.** The client task in whole seconds, with the wrap of
`system_get_time` at 4294 s; a wake-up may be `Late`. `WolLink` gives it the server's side
of its one connection (WolServer has that in full), a link that may be cut without either
end hearing of it, restarts of both, and orders from clients. What is under way to the server may stay so
for `DelayMax` seconds (`delay`), and `ServesPart` reads what one recv loop returns of it: some whole
messages, of which the first is parsed, and perhaps a piece of the next, whose `"rest"` follows. A piece
or a rest does not parse and is answered false. A silent second of recv ends with
a sample of the warning pin (`RecvTimesOut`); the count of low samples, `io_warn_count`, is the one
counter of the task that survives a reconnect.

**Notice.** The reader goroutine and the main goroutine. Times are distances (how long
ago, how much is left), which keeps the model finite without a bound on the clock.

**DeviceBoot.** `user_init`, the Wi-Fi and smartconfig callbacks, `button_task`,
`led_task`, `send_key_task` and what the client task does to `global_flag`. A turn of a
task between two delays is an action; the event handler that publishes `global_flag` before
setting what it points to is two. Each task of `user_init` is created if there is memory for it (`Booted`),
and so are those of the first address; `starved` remembers that something was not.

**ServerStart.** The life of the processes around the loop: `Shell...` is run.sh,
`HandStarts` somebody who starts a server besides, `Options` is `main`, `Fork` and
`OpenStreams` are `deamon_create`, `OpenSocket`, `SetReuse`, `Bind`, `Listen` and the failing
branch of each, `Closes`, are `listen_on`, the others `doMainFunc`. What a system call does to
other processes (numbers, ports, TIME_WAIT) is the kernel's and marked external. Of the loop there is what
matters to the process: it accepts and closes clients (`LoopAccepts`, `LoopCloses`), whose descriptors are in
`files`, and `table` is `client_list`, which no way out frees. A process is *in its loop* where WolServer begins: WolServer's `Init` is a process that has come so far, its
`Restart` what run.sh makes of an end.

**LibJson.** The heap of cJSON nodes, with the recursive calls of parser and duplication as
stacks (`open`, `copies`), since it is between those calls that malloc fails. A text is what
the parser finds as it goes. WolServer's `Parsed` takes from here that the first complete value
is what counts and that a member is read by its first occurrence; there a request is one value,
here a tree. `prev` is left out: nothing that Lib_Json calls follows it.

**JsonText.** LibJson's tree made into text: the recursive calls of `print_array` and
`print_object` as a stack, each with what it has collected so far. Of a text the length is kept:
`len` grows with each child as the loop over `entries` makes it grow, and `Malloced` is what becomes of
it; `Composed` is what the second loop writes of `k` children and their `chars`.

**JsonNumbers, WakeOrder.** A number is a pair of `valueint` and `valuedouble`, given in halves: an odd
one stands for the fractions between two integers. A double holds the integers up to `Exactly` (2^53);
of a larger one `Rounded` leaves open which of the large integers it becomes, and `Prints` leaves open
what a fraction is printed as, within one of it or, where `%e` prints it, anything. A type is given by how many values it has, its half being negative if it
has a sign: 2^15, 2^31 and 2^63 for the real ones. `meant` records what the parser or the caller
made of it last. `WakeOrder` sends the six numbers of an address through them, from the text of a
client's request over the order of the server to the packet the device broadcasts.

## Runs

| Run | Question | Bounds |
|---|---|---|
| routing | whose orders, answers and names, while descriptors are reused | 3 connections on 2 descriptors, 2 keys; requests whole, FIN only (`RoutingSpec`) |
| directory | the server implements SessionDirectory through FIN, RST, refusal and restart; table, kernel and list agree | 2 connections, 2 keys with one kept part; of the requests only a bind comes in two pieces; no sweep, which timing has (`DirectorySpec`) |
| timing | who is evicted, and when | limits of 2, rounds of 1, clock to 6: three sweeps; no replies kept |
| notices | whose key a notice has | 2 connections, 3 descriptors, so that the datagram finds one free |
| liveness | signals, the accept queue, unread bytes when rounds are cut | 3 connections on 2 descriptors, so that accept runs out; 1 event in a round, so that up to two of the listener and the clients are left over; whole requests, every ending, restarts; no replies kept (`LivenessSpec`) |
| link_safety | when each end gives up; which warnings are heard, and whether the server knows whom it answers | counter limit 2, bind 3, beat 1, idle 3, wrap at 9 s, wake-ups late by 1, messages late by 1 and in up to two pieces, 2 messages under way before an order, a warning after 1 low sample |
| link_liveness | the silence after the wrap ends; devices come back | counter limit 2, wrap at 9 s, 2 sockets, nothing late, a warning after 1 low sample |
| notice | blocking time, ration, ending | 2 keys, 5 s timeout, dials of 2 to 3 s, 1 redirect |
| device_boot | client task, flag and light of the LED, button, smartconfig, with and without memory | 3 samples, 4 turns, 2 broadcasts |
| server_start | who has a port, what main leaves behind when it returns, through every failure; a server comes back | 1 run.sh, 1 hand, 4 processes, descriptors 0 to 5, 2 mishaps, port 4000 and numbers that become 0 and 4000 in 16 bits |
| lib_json | leaks, dangling pointers, look-up, copies, texts and their buffers | documents of up to 4 values, one name in two spellings, one copy at a time, texts of one character |
| numbers | what every reader makes of a number; which packet an address becomes | types of 2, 6 and 16 values, a double that holds the integers up to 6, bytes of 3; addresses of 5, 6 and 7 groups |

A *mishap* is a call that fails, a signal or a kill. Two let one server go wrong while another
does, or one go wrong on its way out. Four processes are a daemon's three and run.sh's one; a
fifth would wait for a place in the table. There is one port in the run: servers on different ports
share no more than the process table, and the theorems have any ports. Deadlock is not checked in
server_start (with the mishaps used up all servers may loop for good, and their loops are in
WolServer) nor in notice (a process that has ended does nothing).

In link_safety a delay of one second and a piece of one message are enough to lose a beat, a bind, an
answer or a warning in each of the ways the properties except, and two losses reach the device's limit.

A node with two children, one of which has a child, is the least that tells the order, the depth
and the ends of a copy apart; it takes four values. It also takes three members to make a text longer than the
five characters that `print_object` asks for to spare. The types of numbers keep the order of the
real ones, each twice the one before at least (`NumberAssumption`), so that there are values that fit
one and not the next, of either sign; bytes are narrower than an int, as the real ones.

The type invariants of WolServer, WolLink, Notice, DeviceBoot and ServerStart are in no run, since they
are proved for every value of the constants. That nothing points to freed nodes is part of
`NoMemoryLeaks`.

Why these are enough: the hazards of the server need one descriptor used twice and a
second live connection to be mistaken for, which 2 descriptors and 3 connections give; a
connection is used once, so a returning client is a new one. What a cut round does depends on there being
more ready than fits, and on those that are served becoming ready again before the others have had their turn:
three that can be ready and rounds of one have both (the real ones are 1024 and 512); without the rotation of
`EpollWait` TLC finds `ArrivedIsRead` violated. `MCDirectory` has the world but for the clock and for requests
in pieces other than a bind's, `MCLiveness` but for the clock, requests in pieces and replies, `MCRouting`,
`MCTiming` and `MCNotices` have a part of it, named in `MCWolServer`, to afford a third connection or a clock.
`MCLiveness`, `MCTiming` and `MCNotices` keep no replies (`OutCap = 0`: every send finds the buffer full),
which the evictions, the notices and the end of a wait do not depend on. These three and `MCRouting` set
`malloc`'s leftovers alike in all entries; `MCDirectory` lets them differ. The limits of the link keep the
order of the real ones (60, 6, 10, 10, 3 and a wrap far beyond them): `LinkAssumption` says that a beat and
its lateness fit in `IdleLimit`, and that they fit before the wrap. Symmetry over connections is used in
safety runs only.

What the link runs show of the code beyond that: a device gives a working link up only
after something was not read (an answer behind an order in one recv, a request
behind another message or in two pieces) or came late; the server evicts a device whose link works only
after one of its requests was dropped unread, came in two pieces or late, or after the device's clock wrapped, when targets set before the wrap keep
the task silent until the eviction (`Silent`, `SilenceEnds`); as long as nothing to the server is late, a warning is the first message
of what the server reads, but what follows it is dropped: a warning sent in the first second after a
connect at second 0 (targets are compared with `<`, so nothing is due then) goes unheard and can
swallow the bind behind it, after which the beats are answered true for a device that no key finds
until the next bind, and a bind that comes in two pieces, behind the rest of something or after a delay is lost
in the same way (`BindIsLost`, which `BindsAreHeard` has to except); a device that fails to resolve
the server's name leaks a socket each time and in the end cannot connect (`Reconnects` has to
except it).

### Assumptions and abstractions

* `RoundMax`: the recv loop ends. The code puts no bound on it.
* A send is taken whole or lost whole. Which connection of the queue accept returns, and
  the order of the events of a batch, is left open. Of the kernel's ready list it is kept which sockets
  the last call left over; those come before others, in any order among themselves.
* `client_list` is indexed by the descriptors in `Fds`; that accept returns no others
  (1024 and more) is an assumption on the limit of open files.
* The answer names its request (`re`) and an order its key in the model only.
* In WolLink the network delivers to the device within the second and to the server within `DelayMax`
  more, each message in at most two pieces, until it is cut; sends on a cut link succeed; counters are zeroed at the disconnect, since nothing reads them before the
  next attempt does; the server's half of a cut link is not followed once the device has
  left it.
* In WolServer a parse takes the first complete request and drops the rest; texts, MACs and lengths
  are not modelled there; `client_list`'s 32 KiB buffer is not modelled at all.
* Whether a board has the warning pin (IO_WARN_TO_PINID) is open in `RecvTimesOut`: a pin that never
  warns is one of its behaviours. An ssid is taken to have no quotes or backslashes, which the device
  does not escape and with which no bind would parse.
* In JsonText a string without text is not printed: `print_string_ptr` would read it, and who was
  refused memory by `putValueString` knows. Escapes are left out; their lengths are counted per character.
* In JsonNumbers fractions are told apart only by the integers around them, and an integer that a double does
  not hold exactly becomes any that is beyond `Exactly` on its side: what is read of either is of no property.
  A conversion of a double that the type does not hold may give anything.
* In ServerStart the handlers of a process are installed in one step, `bind` and `listen` fail on a conflict
  only, and ports are privileged for nobody (no EACCES). Who starts a server in the foreground leaves it its streams, as run.sh does;
  who starts a daemon need not. `wol_server` stays executable, and the process table has
  room for the next start.
* DeviceBoot is that of a board with IO_LED_TO_PINID and IO_RESET_TO_PINID, which
  `user_config.h` leaves to the board; SDK events come as the SDK documents them (joined,
  then an address; SC_STATUS_LINK_OVER after the phone has heard of it).

### Fairness

The server: one process that is scheduled, so the steps of the loop, the listener and the
handler of each ready descriptor are weakly fair; clients, clock and signals are free. The
link: the tasks and the server's loop run, the access point comes back, time does not stand
still, and of infinitely many attempts to connect some succeed (strong fairness of
`Connects`: without it no device ever need connect). ServerStart: processes and run.sh are scheduled, mishaps are finitely
many; nobody has to start a server by hand, nor to stop one. notice: the main goroutine and
the sleep of the broken reader. DeviceBoot: the tasks are time-sliced, a stored and reachable
access point is joined, and of infinitely many joins some yield an address.

## Proofs

All proofs hold for every value of the constants under the named assumptions
(`FdAssumption`, `NameAssumption`, `BoundAssumption`, `DeviceAssumption`,
`LinkAssumption`, `NoticeAssumption`, `BootAssumption`, `StartAssumption`, `JsonAssumption`,
`TextAssumption`, `NumberAssumption`, `WakeAssumption`).

* **WolServerProofs.** `Inv` is the conjunction of the types, `TableMatchesKernel`,
  `BatchIsOpen` (what a round has still to serve is open) and `NamesAreOwn`. They need each other: a handler may be trusted to find an
  open connection only if its batch is open, that stays so only while the table matches the
  kernel, and names survive the reuse of a descriptor only because an enabled entry is an
  open one. One lemma per group of actions (loop, listener, handlers, world) preserves it;
  `Closing` has what the three places that close share. `Clock` adds where timestamps,
  `last_ok`, the next sweep and the round stand to one another: inductive on top of `Inv`, it
  gives `IdleBound` and, with the guard of `Expired`, `EvictsOnlyIdle`. The two action
  properties on messages rest on `WhatIsSent` (a step sends the answer to the request it
  read, or the order it stands for) and `MatchingIsBound` (matching entries are those of
  the connections bound to the key, by `NamesAreOwn`). Two more rest on them: a list counts the
  entries, of which there is a bijection to the connections that are up (`AsManyAsUp`), so
  `ListingIsAccurate` needs no count of its own; and a notice is sent only by the branch of `warn`, with
  the key of the entry of whoever warned (`WhatIsNoticed`).
  The refinement of SessionDirectory, step by step, comes last. `TableSays` looks at the table once, in a
  state with `Inv` and in the one after it: the members are the connections that are up, and their names in
  the table those they have bound. After that each action is compared with those of the directory by what
  it does to `phase`, `bound` and `outbox` only: an accept is `Join`, a bind `Rename`, an order that
  finds its device `Deliver`, every ending, the sweep and the exit `Leave` with those that go.
* **WolLinkProofs.** `TypeOK` and `LostCountsSilence` are inductive together. For
  `GiveUpHasACause` the account `Accounted` says that on a working link every counted request
  is under way, answered and under way back, or was dropped, torn or late (`missed`). `WarningsAreHeard` and
  `BindsAreHeard` follow from `Heard`. Its part `InTime` holds while nothing is delayed: nothing is under way
  once `recv` has waited a second, so a warning is alone when it is sent, and so is the rest of a message;
  no bind is due while one or a beat is unread, so only a warning or a rest can be in front of it, or the
  response of a device that is known already. `ToBeKnown` holds with delays too, by `bind_lost`.
  For `EvictionHasACause`, `Punctual` bounds the time to the next request by its period, and `Timely`
  says that, save under `excuse`, the age of the entry and the time to the next request add up to a period
  and its lateness, which is less than `IdleLimit`. For `DeadLinkIsNoticed`, `DeadAsLongAs` says that a
  link has been dead for at most one period more than there are counts of missing answers. Both need
  that a beat fits before the wrap of the clock: else a wrap could hide one. For the device's clock of
  4294 s and its beat of 10 s that is nothing.
* **NoticeProofs.** `HopBound` strengthens `HopIsBounded` by what a dial was given and when;
  `RateLimit` by the equality of `timemap` with what was asked.
* **DeviceBootProofs.** The state properties are inductive with three facts: tasks are
  created by the first address (`Created`), whoever has joined has a flag unless memory ran out (`Joined`),
  and a flag that is not yet set is that of the first joining (`JunkIsFirst`), before there is a client
  task. `LedTellsTheTruth` is what they say together; the light itself, `LightFollowsSession`, is a
  liveness property and TLC's.
* **ServerStartProofs.** `IInv` says of each process what the point it has reached tells of its
  socket, descriptors, port and origin (`InStage`), that no two sockets listen on a port
  (`PortsApart`) and that a start has one process that still goes on (`OneOfEach`): `OnlyClientsStay`
  speaks of the end of `main` and needs the account at each point before, and with `TableKept`, proved on top,
  that there are clients only where there is a table. `ChangeInv` reduces a
  step to one process to whether its new values `Fit`, and each action has a lemma.
  `OnlyListeners` follows from a bound socket having SO_REUSEADDR.
* **WakeOrderProofs.** `Agree` relates the pair to what was meant of it: the double is it, if a double holds it
  (`Exact`), and so is the int, if an int does, whoever wrote last. `NumbersAreKept` then is a matter of
  conversions, which are lemmas about `%` and `Truncated`. `OnItsWay` says of each stage (request, order,
  the six numbers, packet) that it has what the one before had; `MacArrives` is its last stage,
  with sixteen times an address shown to be what the loop of the device appends to. Lengths
  are kept as names in the proofs, since the provers take a literal range apart.
* **LibJsonProofs.** What the heap looks like, whatever the document: `TreeInv`. What is live is what lies
  below something held, and no two of these trees share a node (`Trees`); what is held is held once
  (`Apart`). So deleting one tree leaves the others whole. `Path` says where the parser is (each item it has open is the last child of the
  one before, and its list ends with what it has read last), `Copying` that the copy of each call of
  `cJSON_Duplicate` under way is a tree of its own, whose list of children ends with `nptr`.
  `Below` and `Chain` are recursive functions over the number of steps. `LeastNatural`, `Induction` and `Iterate` prove
  what is needed of them from the least number that violates it; `BelowIs` gives `Below` as the least set
  that has the node and is closed under child and next (it is reached in as many steps as there are nodes),
  and only this is used from there on: `TreePlanted` (a new node), `TreeGrafted` (a tree hung under a held one)
  and `TreesFelled` (a deletion) are the three changes of the heap there are. Look-up stays in the tree
  it began in (`GetItemBelow`), which is all that is needed of `Chain`. No node is linked twice, and what
  is held is not linked at all (`Once`); so `cJSON_Duplicate` meets each node once. `CopyInv`: there is a set of nodes it has met and
  a map F from them to their copies; what is linked next, and what follows an item it is in, it has not met
  yet (`At`); and F makes of each link a link of the copy, but for those the calls under way
  have still to make (`LinkedUp`). When only the first call is left and has no child
  left, none is excepted (`AllIsCopied`). The children of an item are a list that next leads through
  (`Lists`); there is one such list (`ListsOnce`), it is what `Chain` computes (`ChildrenListed`), and those
  of two items share no node (`ListsApart`). `Finds` says what the first of a name in a list has, and
  `ReadInv` that this is what `said` has: for the document, and for what is being parsed (`Reading`), where the
  last child of `top` counts only once its value is there and the calls are elsewhere when they
  are deeper. It needs `JsonAssumption` to say that NULL is no pair, since `said` holds the one or the other.
  The module has lemmas only.
* **JsonTextProofs.** `TextFits` speaks of a call that is through with its children, the invariant of one
  at any child: `Needed` is what `len` must be after `k` children, a sum over all of them without a loop,
  since each child costs the same beside its text. The rest is arithmetic in four cases.
  `NoMemoryLeaks` is `TreeInv` for the nodes, and for the buffers the sum of what each call under way owes
  (`BuffersInv`), which a call adds to or takes from at the end only. `CopyIsOwn` is that every step keeps
  the nodes below `owned` (`OwnKept`), since they are apart from all that it writes to. `CopyIsFaithful` is
  `CopyInv` where only the first call is left; and there `ReadInv` follows for a document made of a copy, since the
  map of `CopyInv` takes the children of the original to those of the copy. `ReadsFirstMember` is `ReadInv`
  with the uniqueness of the list and of the first of a name.

Only model-checked: the liveness properties, since fairness and ENABLED are beyond the prover. Every
invariant and every action property of the runs is a theorem.

## Observed, without a property of its own

* `warn` is answered false in every case and does not count as a sign of life
  (main.cpp 366-387).
* The total that main.cpp 643 prints counts the listening socket.
* `saveFile` opens the file with `w+` before it prints: without memory for the text the old content is
  gone; and it returns true whatever `fprintf` and `fclose` say (json.cpp 653-669).
* `print_number` writes fractions with the six decimals of `%f`, and those above 1e9 or below 1e-6 with
  `%e`, which keeps seven digits (cJSON.cpp 169-171): 0.1234567 comes back as 0.123457. And a `long long`
  beyond 2^53 is rounded on its way into `valuedouble` (json.cpp 59-60). `NumbersAreKept` is about integers
  up to 2^53 only.
* `client_list` is freed on no way out of `doMainFunc`, and the sockets of the clients that are connected when
  the loop ends are open when `main` returns (main.cpp 584, 646-669); the kernel takes both back.
* A request in two segments is parsed in neither and answered false twice (main.cpp 178-192, 430-447). A
  device that this befalls `MaxLost` times in a row gives up a working link, and one whose beats it befalls
  is evicted.
* When `xTaskCreate` fails for `smartconfig_task` the LED asks for an access point that nobody listens
  for, until the device is switched off and on (user_main.c 1026; `starved`).
* An order is answered true though `send` to the device failed (main.cpp 303).
* `-w 65536` becomes 0, and then no notice goes anywhere (main.cpp 697); `-p` is checked.
* `putValueString` frees the text before it makes the new one: when that fails it returns false
  and leaves a string without text, which `getValueString` would read (json.cpp 330-337, 373).
* `getValueObject` with `dup` returns true with a NULL when there was no memory for the copy, and
  without a name it returns the cursor itself, not a copy (json.cpp 250-257, 448).
* The token in notice/run.sh has 6 characters where cli.go 21 wants 54: it has to be filled in
  before notice starts at all.
* `led_task` does not sleep while the flag is 1 (user_main.c 742-746).

## Not modelled

* `Lib_IfConfig`, but for the two calls that may fail under the server.
* The escapes of strings, in both directions, the files of `loadFile` and `saveFile`, `getLenght`,
  the buffered printing and the parts of cJSON that Lib_Json does not call.
* The command lines of notice and the installation in rc.local: they run once, before anything else.
* `user_get_flash_size`, `user_rf_cal_sector_set`, `io_init_at`: nothing else reads what they set.
* The 32 KiB and the 1024 entries of the server, and a recv loop that does not end (see the hazards).

## Plan

Done, in this order: WolServer with its runs, refinement and proofs; WolDevice and WolLink with the
warning pin; Notice; DeviceBoot; ServerStart; LibJson and JsonText; JsonNumbers and WakeOrder. How long
orders go to the connection a device has left behind is `IdleAreEvicted`, so this needs no model of
its own. So are the proofs of the server, the refinement, the link, numbers, texts, of the heap
of the parser, of copies and of what is read of a document. Left are the liveness properties, which stay
with TLC, and what is listed as not modelled.
