------------------------------ MODULE WakeOrder ------------------------------
(***************************************************************************)
(* What becomes of a MAC address: a client writes it into wol or shutdown, *)
(* handle_socket (main.cpp) makes six numbers of it and forwards them, the *)
(* device (user_main.c) makes bytes of the numbers and sends the magic     *)
(* packet, or the shutdown message, into its network.                      *)
(*                                                                         *)
(* Which device, and whether the order gets there, is in WolServer; a      *)
(* number on its way is one of JsonNumbers.                                *)
(***************************************************************************)
EXTENDS JsonNumbers, Sequences

CONSTANTS
  ByteSize,   \* 256: the values of a byte
  Bytes,      \* those addresses are made of
  NULL

ASSUME WakeAssumption ==
  /\ ByteSize \in Nat /\ 0 < ByteSize /\ ByteSize <= IntHalf
  /\ Bytes \subseteq 0 .. ByteSize - 1

VARIABLES
  request,    \* the client's: command, separators, groups of hexadecimal digits
  order,      \* the server's: command and numbers
  mac,        \* the device's buffer of six bytes, as far as it is filled
  packet      \* what the device has broadcast

wakeVars == <<request, order, mac, packet>>

NoWake == request = NULL /\ order = NULL /\ mac = <<>> /\ packet = NULL
WakeInit == NumberInit /\ NoWake

\* Groups of one or two digits; 5 are too few, and what follows the sixth is ignored.
Asks ==
  /\ request = NULL /\ numberVars = <<0, 0, 0>>
  /\ \E cmd \in {"wol", "shutdown"}, separators \in {"colons", "dashes", "both"}, n \in 5 .. 7 :
       \E groups \in [1 .. n -> Bytes] :
         request' = [cmd |-> cmd, separators |-> separators, groups |-> groups]
  /\ UNCHANGED <<numberVars, order, mac, packet>>

\* sscanf wants six groups with one separator between them.
Parsable(r) == Len(r.groups) >= 6 /\ r.separators # "both"

\* To the device with the key, if there is one.
Forwards ==
  /\ request # NULL /\ order = NULL
  /\ Parsable(request)
  /\ order' = [cmd |-> IF request.cmd = "wol" THEN "wol_send" ELSE "shutdown_send",
               mac |-> [i \in 1 .. 6 |-> request.groups[i] % ByteSize]]
  /\ UNCHANGED <<numberVars, request, mac, packet>>

\* json_get_value_array: the low byte of the valueint that parse_number has left.
Byte(v) == v % ByteSize
TakesByte ==
  /\ order # NULL /\ Len(mac) < 6
  /\ Parses(2 * order.mac[Len(mac) + 1])
  /\ meant' = 2 * order.mac[Len(mac) + 1]
  /\ mac' = Append(mac, Byte(valueint'))
  /\ UNCHANGED <<request, order, packet>>

AllOnes == ByteSize - 1

\* wol_send: memset, six bytes, and a loop from 0x6 to 0x66.
FaultyMagic(m) ==
  [i \in 1 .. 108 |-> IF i <= 6 THEN AllOnes ELSE IF i <= 96 THEN m[1 + ((i - 7) % 6)] ELSE 0]
Magic(m) ==
  [i \in 1 .. 108 |-> IF i <= 6 THEN AllOnes ELSE IF i <= 102 THEN m[1 + ((i - 7) % 6)] ELSE 0]

\* wol_send, shutdown_send.
Broadcasts ==
  /\ order # NULL /\ Len(mac) = 6 /\ packet = NULL
  /\ packet' = IF order.cmd = "wol_send" THEN [port |-> 60069, payload |-> Magic(mac)]
               ELSE [port |-> 4003, payload |-> mac]
  /\ UNCHANGED <<numberVars, request, order, mac>>

\* The request is refused, or the order lost anywhere; or all is done.
Over ==
  /\ request # NULL
  /\ request' = NULL /\ order' = NULL /\ mac' = <<>> /\ packet' = NULL
  /\ valueint' = 0 /\ valuedouble' = 0 /\ meant' = 0

WakeNext ==
  \/ Numbers /\ request = NULL /\ UNCHANGED wakeVars
  \/ Asks \/ Forwards \/ TakesByte \/ Broadcasts \/ Over
WakeSpec == WakeInit /\ [][WakeNext]_<<numberVars, wakeVars>>

WakeTypeOK ==
  /\ NumberTypeOK
  /\ request = NULL => order = NULL
  /\ order = NULL => mac = <<>>
  /\ Len(mac) < 6 => packet = NULL

\* s, n times over.
Times(n, s) == [i \in 1 .. n * Len(s) |-> s[1 + ((i - 1) % Len(s))]]

\* The first six numbers of a request, and the magic packet for them.
Address(r) == SubSeq(r.groups, 1, 6)
MagicPacket(address) == Times(6, <<AllOnes>>) \o Times(16, address) \o Times(6, <<0>>)

\* What the device broadcasts for wol is the magic packet of the address the client wrote:
\* six bytes of ones, the address sixteen times, six zeros; for shutdown it names the
\* same address.  An address that is none goes nowhere (main.cpp:276-304,
\* user_main.c:112-140, 186-282).
MacArrives ==
  packet # NULL =>
    /\ Parsable(request)
    /\ packet = IF request.cmd = "shutdown" THEN [port |-> 4003, payload |-> Address(request)]
                ELSE [port |-> 60069, payload |-> MagicPacket(Address(request))]
=============================================================================
