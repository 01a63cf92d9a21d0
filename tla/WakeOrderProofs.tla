---------------------------- MODULE WakeOrderProofs ----------------------------
(***************************************************************************)
(* WakeOrder, and JsonNumbers in it, proved for types of all widths: that  *)
(* an integer is read as what was written, as long as a double holds it,   *)
(* and that the address a client wrote is the one the device broadcasts.   *)
(***************************************************************************)
EXTENDS WakeOrder, SequenceTheorems, TLAPS

-----------------------------------------------------------------------------
(* Conversions                                                             *)

\* A multiple of m that is smaller than m is zero.
LEMMA SmallMultiple ==
  ASSUME NEW m \in Nat \ {0}, NEW x \in Int, -m < x, x < m, x % m = 0
  PROVE  x = 0
<1>1. CASE x >= 0
  BY <1>1
<1>2. CASE x < 0
  BY <1>2
<1> QED BY <1>1, <1>2

\* What is left of x by m, and what is taken from it.
LEMMA Remainder ==
  ASSUME NEW m \in Nat \ {0}, NEW x \in Int
  PROVE  x % m \in 0 .. m - 1 /\ ((x % m) - x) % m = 0
<1> DEFINE q == x \div m
           r == x % m
<1>1. q \in Int /\ r \in 0 .. m - 1 /\ x = q * m + r
  OBVIOUS
<1> HIDE DEF q, r
<1>2. r - x = m * (-q) /\ -q \in Int
  BY <1>1
<1>3. \A k \in Int : (m * k) % m = 0
  OBVIOUS
<1> QED BY <1>1, <1>2, <1>3 DEF r

\* What a type holds.
LEMMA Ranges ==
  /\ Holds["short"] = -ShortHalf .. ShortHalf - 1
  /\ Holds["ushort"] = 0 .. 2 * ShortHalf - 1
  /\ Holds["int"] = -IntHalf .. IntHalf - 1
  /\ Holds["uint"] = 0 .. 2 * IntHalf - 1
  /\ Holds["llong"] = -LongHalf .. LongHalf - 1
  /\ Holds["ullong"] = 0 .. 2 * LongHalf - 1
  /\ Integral = {"short", "ushort", "int", "uint", "llong", "ullong"}
  BY DEF Holds, Integral, Signed, Unsigned

\* A value that the type holds is converted to itself.
LEMMA NarrowedSame ==
  ASSUME NEW type \in {"short", "ushort", "int"}, NEW v \in Holds[type]
  PROVE  Narrowed(v, type) = v
<1> DEFINE m == Width(type)
<1>1. m \in Nat \ {0} /\ v \in Int
  BY NumberAssumption, Ranges DEF Width
<1>2. ASSUME NEW w \in Holds[type] PROVE w \in Int /\ -m < w - v /\ w - v < m
  BY NumberAssumption, Ranges DEF Width
<1> HIDE DEF m
<1>3. ASSUME NEW w \in Holds[type], (w - v) % m = 0 PROVE w = v
  <2>1. w - v \in Int /\ w - v = 0
    BY <1>1, <1>2, <1>3, SmallMultiple
  <2> QED BY <1>1, <1>2, <2>1
<1>4. (v - v) % m = 0
  BY <1>1
<1> QED BY <1>3, <1>4 DEF Narrowed, m

\* Among as many values as there are remainders every number has its like.
LEMMA NarrowedType ==
  ASSUME NEW v \in Int
  PROVE  Narrowed(v, "int") \in Holds["int"]
<1> DEFINE m == 2 * IntHalf
           x == v + IntHalf
           w == (x % m) - IntHalf
<1>1. m \in Nat \ {0} /\ x \in Int /\ IntHalf \in Nat
  BY NumberAssumption
<1>2. x % m \in 0 .. m - 1 /\ ((x % m) - x) % m = 0
  <2> HIDE DEF m, x
  <2> QED BY <1>1, Remainder
<1>3. w \in Holds["int"]
  <2> DEFINE r == x % m
  <2>1. r \in 0 .. m - 1
    BY <1>2
  <2> HIDE DEF r
  <2>2. r - IntHalf \in -IntHalf .. IntHalf - 1
    BY <1>1, <2>1
  <2> QED BY <2>2, Ranges DEF r
<1>4. w - v = (x % m) - x
  <2> DEFINE r == x % m
  <2>1. r \in Int
    BY <1>2
  <2> HIDE DEF r
  <2>2. (r - IntHalf) - v = r - (v + IntHalf)
    BY <1>1, <2>1
  <2> QED BY <2>2 DEF r
<1>5. (w - v) % m = 0
  BY <1>2, <1>4
<1>6. Width("int") = m
  BY DEF Width
<1> HIDE DEF w, m
<1> QED BY <1>3, <1>5, <1>6 DEF Narrowed

\* A double without a fraction is half of its halves.
LEMMA WholeTruncated ==
  ASSUME NEW h \in Int
  PROVE  /\ Truncated(h) \in Int
         /\ Whole(h) => Truncated(h) = h \div 2 /\ h = 2 * (h \div 2) /\ h \div 2 \in Int
  BY DEF Truncated, Whole

\* Numbers of any type are doubles.
LEMMA DoubleHoldsAll ==
  ASSUME NEW type \in Integral, NEW v \in Holds[type]
  PROVE  v \in Int /\ 2 * v \in Halves /\ Whole(2 * v) /\ (2 * v) \div 2 = v
<1>1. v \in -LongHalf .. 2 * LongHalf - 1
  BY NumberAssumption, Ranges
<1>2. v \in Int /\ 2 * v \in Halves
  BY <1>1, NumberAssumption DEF Halves
<1>3. (2 * v) % 2 = 0 /\ (2 * v) \div 2 = v
  BY <1>2
<1> QED BY <1>2, <1>3 DEF Whole

-----------------------------------------------------------------------------
(* Numbers                                                                 *)

\* An integer that a double holds.
Exact(h) == Whole(h) /\ h \in -2 * Exactly .. 2 * Exactly

\* What an int holds a double does.
LEMMA IntIsExact ==
  ASSUME NEW h \in Halves, Whole(h), h \div 2 \in Holds["int"]
  PROVE  Exact(h)
<1>1. h \in Int /\ h = 2 * (h \div 2)
  BY NumberAssumption, WholeTruncated DEF Halves
<1> QED BY <1>1, NumberAssumption, Ranges DEF Exact

\* Rounding stays within the numbers there are, and keeps what a double holds.
LEMMA RoundedIs ==
  ASSUME NEW h \in Halves, NEW g \in Rounded(h)
  PROVE  g \in Halves /\ g \in Int /\ (Exact(h) => g = h)
<1>1. Halves \subseteq Int
  BY NumberAssumption DEF Halves
<1> QED BY <1>1 DEF Rounded, Exact

\* The double is what was written, if it can hold it, and the int is too.
Agree ==
  /\ NumberTypeOK
  /\ Exact(meant) => valuedouble = meant
  /\ Whole(meant) /\ meant \div 2 \in Holds["int"] => valueint = meant \div 2

\* The parser writes both.
LEMMA ParsesAgrees ==
  ASSUME NEW h \in Halves, Parses(h),
         meant' = h \/ (UNCHANGED meant /\ meant \in Halves /\ (Exact(meant) => h = meant))
  PROVE  Agree'
<1>1. /\ h \in Int /\ valuedouble' \in Halves /\ (Exact(h) => valuedouble' = h)
      /\ valueint' \in FromDouble(valuedouble', "int")
  BY NumberAssumption, RoundedIs DEF Halves, Parses
<1>2. valueint' \in Holds["int"]
  BY <1>1 DEF FromDouble
<1>3. meant' \in Halves /\ (Exact(meant') => meant' = h)
  OBVIOUS
<1>4. ASSUME Whole(meant'), meant' \div 2 \in Holds["int"] PROVE valueint' = meant' \div 2
  <2>1. meant' = h /\ valuedouble' = h
    BY <1>1, <1>3, <1>4, IntIsExact
  <2>2. Truncated(h) = h \div 2
    BY <1>1, <1>4, <2>1, WholeTruncated
  <2> QED BY <1>1, <1>4, <2>1, <2>2 DEF FromDouble
<1> QED BY <1>1, <1>2, <1>3, <1>4 DEF Agree, NumberTypeOK, Exact

\* So does a caller, under any type.
LEMMA PutsAgrees ==
  ASSUME NEW type \in {"int", "uint", "llong", "ullong"}, NEW v \in Holds[type],
         PutsIntegral(type, v), meant' = 2 * v
  PROVE  Agree'
<1>1. v \in Int /\ 2 * v \in Halves /\ (2 * v) \div 2 = v
  BY DoubleHoldsAll, Ranges
<1>2. /\ valueint' \in Holds["int"] /\ valuedouble' \in Halves
      /\ Exact(2 * v) => valuedouble' = 2 * v
  BY <1>1, NarrowedType, RoundedIs DEF PutsIntegral
<1>3. v \in Holds["int"] => valueint' = v
  BY NarrowedSame DEF PutsIntegral
<1>4. meant' \div 2 = v
  BY <1>1
<1> QED BY <1>1, <1>2, <1>3, <1>4 DEF Agree, NumberTypeOK, Exact

\* Every way a number is written keeps the pair and what was meant in agreement.
LEMMA NumbersAgree == Agree /\ Numbers => Agree'
<1> SUFFICES ASSUME Agree, Numbers PROVE Agree'
  OBVIOUS
<1>t. /\ valueint \in Holds["int"] /\ valuedouble \in Halves /\ meant \in Halves
      /\ Exact(meant) => valuedouble = meant
  BY DEF Agree, NumberTypeOK
<1>1. ASSUME NEW h \in Halves, Parses(h) \/ PutsDouble(h), meant' = h PROVE Agree'
  <2>1. Parses(h)
    BY <1>1 DEF Parses, PutsDouble
  <2> QED BY <1>1, <2>1, ParsesAgrees
<1>2. ASSUME NEW type \in {"int", "uint", "llong", "ullong"}, NEW v \in Holds[type],
             PutsIntegral(type, v), meant' = 2 * v
      PROVE  Agree'
  BY <1>2, PutsAgrees
<1>3. ASSUME NEW h \in Prints, Parses(h), UNCHANGED meant PROVE Agree'
  <2>1. h = valuedouble \/ (h \in Halves /\ ~Whole(valuedouble))
    BY <1>3 DEF Prints
  <2>2. h \in Halves
    BY <1>t, <2>1
  <2>3. Exact(meant) => h = meant
    BY <1>t, <2>1 DEF Exact
  <2> QED BY <1>3, <1>t, <2>2, <2>3, ParsesAgrees
<1> QED BY <1>1, <1>2, <1>3 DEF Numbers

\* What the reader makes of both.
LEMMA AgreeKept == Agree => NumbersAreKept
<1> SUFFICES ASSUME Agree PROVE NumbersAreKept
  OBVIOUS
<1>0. meant \in Int
  BY NumberAssumption DEF Agree, NumberTypeOK, Halves
<1>1. ASSUME NEW type \in Integral, Exact(meant), Whole(meant), meant \div 2 \in Holds[type]
      PROVE  Reads(type) = {meant \div 2}
  <2>1. valuedouble = meant
    BY <1>1 DEF Agree
  <2>2. CASE type \in {"short", "ushort", "int"}
    <3>1. meant \div 2 \in Holds["int"]
      BY <1>1, <2>2, NumberAssumption, Ranges
    <3>2. valueint = meant \div 2
      BY <1>1, <3>1 DEF Agree
    <3> QED BY <1>1, <2>2, <3>2, NarrowedSame DEF Reads
  <2>3. CASE type \in {"uint", "llong", "ullong"}
    <3>1. Truncated(valuedouble) = meant \div 2
      BY <1>0, <1>1, <2>1, WholeTruncated
    <3>2. FromDouble(valuedouble, type) = {meant \div 2}
      BY <1>1, <3>1 DEF FromDouble
    <3> QED BY <2>3, <3>2 DEF Reads
  <2> QED BY <2>2, <2>3, Ranges
<1> QED BY <1>1 DEF NumbersAreKept, Exact

-----------------------------------------------------------------------------
(* An address on its way                                                   *)

\* A function on 1 .. n is a sequence of n elements.
LEMMA FunctionIsSeq ==
  ASSUME NEW S, NEW n \in Nat, NEW f \in [1 .. n -> S]
  PROVE  f \in Seq(S) /\ Len(f) = n
<1>1. f \in Seq(S)
  BY SeqDef
<1>2. Len(f) \in Nat /\ 1 .. n = 1 .. Len(f)
  BY <1>1, LenProperties
<1> QED BY <1>1, <1>2

Messages == [cmd : {"wol", "shutdown"}, separators : {"colons", "dashes", "both"},
             groups : UNION {[1 .. n -> Bytes] : n \in 5 .. 7}]

\* What the device makes of an order and the bytes it has taken from it.
Message(cmd, m) ==
  IF cmd = "wol_send" THEN [port |-> 60069, payload |-> Magic(m)]
  ELSE [port |-> 4003, payload |-> m]

\* Each stage has what the one before it had: the order the six numbers of the request,
\* the buffer those it has taken from the order, the packet all of them.
Asked == request # NULL => request \in Messages
Ordered ==
  order # NULL =>
    /\ request # NULL /\ Parsable(request)
    /\ order.cmd = IF request.cmd = "wol" THEN "wol_send" ELSE "shutdown_send"
    /\ order.mac = Address(request)
Taken ==
  /\ mac \in Seq(Bytes) /\ Len(mac) <= 6
  /\ order = NULL => mac = <<>> /\ packet = NULL
  /\ \A i \in 1 .. Len(mac) : mac[i] = order.mac[i]
Sent == packet # NULL => order # NULL /\ Len(mac) = 6 /\ packet = Message(order.cmd, mac)
OnItsWay == Asked /\ Ordered /\ Taken /\ Sent

\* The six numbers that a request with enough groups names.
LEMMA SixBytes ==
  ASSUME request \in Messages, Parsable(request)
  PROVE  /\ Address(request) \in Seq(Bytes)
         /\ Len(Address(request)) = 6
         /\ \A i \in 1 .. 6 : Address(request)[i] = request.groups[i]
         /\ \A i \in 1 .. 6 : request.groups[i] \in Bytes
<1>1. PICK n \in 5 .. 7 : request.groups \in [1 .. n -> Bytes]
  BY DEF Messages
<1>2. request.groups \in Seq(Bytes) /\ Len(request.groups) = n
  BY <1>1, FunctionIsSeq
<1>3. n >= 6
  BY <1>2 DEF Parsable
<1>4. \A i \in 1 .. 6 : request.groups[i] \in Bytes
  BY <1>1, <1>3
<1>5. /\ Address(request) \in Seq(Bytes)
      /\ Len(Address(request)) = 6
      /\ \A i \in 1 .. 6 : Address(request)[i] = request.groups[1 + i - 1]
  BY <1>4, SubSeqProperties DEF Address
<1> QED BY <1>4, <1>5

\* A byte is a number the type int holds, and its own low byte.
LEMMA ByteIsInt ==
  ASSUME NEW b \in Bytes
  PROVE  /\ b \in Int /\ b % ByteSize = b /\ b \in Holds["int"] /\ 2 * b \in Halves
         /\ Truncated(2 * b) = b /\ Exact(2 * b)
<1>1. b \in 0 .. ByteSize - 1 /\ ByteSize \in Nat \ {0}
  BY WakeAssumption
<1>2. b \in Int /\ b % ByteSize = b
  BY <1>1
<1>3. b \in Holds["int"]
  BY <1>1, WakeAssumption, NumberAssumption, Ranges
<1>4. 2 * b \in Halves /\ Whole(2 * b) /\ (2 * b) \div 2 = b
  BY <1>3, DoubleHoldsAll, Ranges
<1>5. Truncated(2 * b) = b
  BY <1>2, <1>4, WholeTruncated
<1>6. Exact(2 * b)
  BY <1>3, <1>4, IntIsExact
<1> QED BY <1>2, <1>3, <1>4, <1>5, <1>6

\* Nothing is on its way.
LEMMA OnItsWayInit == WakeInit => OnItsWay
  BY EmptySeq DEF WakeInit, NoWake, OnItsWay, Asked, Ordered, Taken, Sent

\* Zero is zero.
LEMMA AgreeInit == WakeInit => Agree
<1>1. 0 \in Holds["int"] /\ 0 \in Halves /\ 0 \div 2 = 0
  BY NumberAssumption, Ranges DEF Halves
<1> QED BY <1>1 DEF WakeInit, NumberInit, Agree, NumberTypeOK

\* The server's numbers are the client's.
LEMMA ForwardsRight == OnItsWay /\ Forwards => OnItsWay'
<1> SUFFICES ASSUME OnItsWay, Forwards PROVE OnItsWay'
  OBVIOUS
<1>1. request \in Messages /\ Parsable(request) /\ order = NULL
  BY DEF OnItsWay, Asked, Ordered, Taken, Sent, Forwards
<1> DEFINE m == [i \in 1 .. 6 |-> request.groups[i] % ByteSize]
           s == Address(request)
<1>2. m = s
  <2>1. m \in [1 .. 6 -> Bytes] /\ \A i \in 1 .. 6 : m[i] = request.groups[i]
    BY <1>1, SixBytes, ByteIsInt
  <2>2. m \in Seq(Bytes) /\ Len(m) = 6
    BY <2>1, FunctionIsSeq
  <2>3. s \in Seq(Bytes) /\ Len(s) = 6 /\ \A i \in 1 .. 6 : s[i] = request.groups[i]
    BY <1>1, SixBytes
  <2> HIDE DEF m, s
  <2> QED BY <2>1, <2>2, <2>3, SeqEqual
<1>3. order'.mac = m
      /\ order'.cmd = IF request.cmd = "wol" THEN "wol_send" ELSE "shutdown_send"
  BY DEF Forwards
<1>4. request' = request /\ request # NULL /\ mac' = mac /\ packet' = packet
  BY DEF Forwards
<1>5. mac = <<>> /\ packet = NULL
  BY <1>1 DEF OnItsWay, Asked, Ordered, Taken, Sent
<1>6. Len(mac) = 0
  BY <1>5
<1> HIDE DEF m, s
<1> QED BY <1>1, <1>2, <1>3, <1>4, <1>5, <1>6 DEF OnItsWay, Asked, Ordered, Taken, Sent, s, Parsable

\* The device's bytes are the server's numbers.
LEMMA TakesRight == OnItsWay /\ TakesByte => OnItsWay' /\ Agree'
<1> SUFFICES ASSUME OnItsWay, TakesByte PROVE OnItsWay' /\ Agree'
  OBVIOUS
<1> DEFINE b == order.mac[Len(mac) + 1]
<1>1. /\ order # NULL /\ request \in Messages /\ Parsable(request)
      /\ order.mac = Address(request)
      /\ mac \in Seq(Bytes) /\ Len(mac) \in Nat /\ Len(mac) < 6
  BY DEF OnItsWay, Asked, Ordered, Taken, Sent, TakesByte
<1>2. b \in Bytes
  BY <1>1, SixBytes
<1>3. Parses(2 * b) /\ meant' = 2 * b /\ mac' = Append(mac, Byte(valueint'))
  BY DEF TakesByte
<1>u. UNCHANGED <<request, order, packet>>
  BY DEF TakesByte
<1> HIDE DEF b
<1>4. Agree'
  BY <1>2, <1>3, ByteIsInt, ParsesAgrees
<1>5. valueint' = b
  <2>1. valuedouble' = 2 * b
    BY <1>2, <1>3, ByteIsInt, RoundedIs DEF Parses
  <2> QED BY <1>2, <1>3, <2>1, ByteIsInt DEF Parses, FromDouble
<1>6. mac' = Append(mac, b)
  BY <1>2, <1>3, <1>5, ByteIsInt DEF Byte
<1>7. /\ mac' \in Seq(Bytes) /\ Len(mac') = Len(mac) + 1
      /\ \A i \in 1 .. Len(mac) : mac'[i] = mac[i]
      /\ mac'[Len(mac) + 1] = b
  BY <1>1, <1>2, <1>6, AppendProperties
<1>8. \A i \in 1 .. Len(mac') : mac'[i] = order'.mac[i]
  <2> SUFFICES ASSUME NEW i \in 1 .. Len(mac') PROVE mac'[i] = order'.mac[i]
    OBVIOUS
  <2>1. CASE i \in 1 .. Len(mac)
    BY <2>1, <1>7, <1>u DEF OnItsWay, Asked, Ordered, Taken, Sent
  <2>2. CASE i = Len(mac) + 1
    BY <2>2, <1>7, <1>u DEF b
  <2> QED BY <2>1, <2>2, <1>1, <1>7
<1>9. packet = NULL
  <2>1. \A l \in Nat : l < 6 => l # 6
    OBVIOUS
  <2>2. Len(mac) # 6
    BY <1>1, <2>1, Zenon
  <2> QED BY <2>2, Zenon DEF OnItsWay, Sent
<1>10. OnItsWay'
  BY <1>1, <1>7, <1>8, <1>9, <1>u DEF OnItsWay, Asked, Ordered, Taken, Sent, Parsable
<1> QED BY <1>4, <1>10

\* Numbers are written, or the order goes a stage further.
LEMMA WakeStep ==
  OnItsWay /\ Agree /\ [WakeNext]_<<numberVars, wakeVars>> => OnItsWay' /\ Agree'
<1> SUFFICES ASSUME OnItsWay, Agree, [WakeNext]_<<numberVars, wakeVars>>
             PROVE  OnItsWay' /\ Agree'
  OBVIOUS
<1>1. ASSUME UNCHANGED numberVars PROVE Agree'
  BY <1>1 DEF numberVars, Agree, NumberTypeOK
<1>2. ASSUME UNCHANGED wakeVars PROVE OnItsWay'
  BY <1>2 DEF wakeVars, OnItsWay, Asked, Ordered, Taken, Sent, Parsable
<1>3. CASE Numbers /\ UNCHANGED wakeVars
  BY <1>2, <1>3, NumbersAgree
<1>4. CASE Asks
  <2>1. request' \in Messages /\ order' = order /\ mac' = mac /\ packet' = packet
    BY <1>4 DEF Asks, Messages
  <2>2. order = NULL
    BY <1>4 DEF Asks, OnItsWay, Asked, Ordered, Taken, Sent
  <2>3. OnItsWay'
    BY <2>1, <2>2 DEF OnItsWay, Asked, Ordered, Taken, Sent
  <2> QED BY <1>1, <1>4, <2>3 DEF Asks
<1>5. CASE Forwards
  BY <1>1, <1>5, ForwardsRight DEF Forwards
<1>6. CASE TakesByte
  BY <1>6, TakesRight
<1>7. CASE Broadcasts
  <2>1. order # NULL /\ Len(mac) = 6 /\ packet' = Message(order.cmd, mac)
    BY <1>7 DEF Broadcasts, Message
  <2>2. UNCHANGED <<numberVars, request, order, mac>>
    BY <1>7 DEF Broadcasts
  <2>3. Sent'
    BY <2>1, <2>2 DEF Sent
  <2>4. Asked' /\ Ordered' /\ Taken'
    <3>1. Asked /\ Ordered /\ Taken
      BY DEF OnItsWay
    <3>2. Asked' /\ Ordered'
      BY <2>2, <3>1 DEF Asked, Ordered, Parsable, Address
    <3>3. Taken'
      BY <2>1, <2>2, <3>1 DEF Taken
    <3> QED BY <3>2, <3>3
  <2> QED BY <1>1, <2>2, <2>3, <2>4 DEF OnItsWay
<1>8. CASE Over
  <2>1. 0 \in Holds["int"] /\ 0 \in Halves /\ 0 \div 2 = 0
    BY NumberAssumption, Ranges DEF Halves
  <2>2. Agree'
    BY <1>8, <2>1 DEF Over, Agree, NumberTypeOK
  <2>3. OnItsWay'
    BY <1>8, EmptySeq DEF Over, OnItsWay, Asked, Ordered, Taken, Sent
  <2> QED BY <2>2, <2>3
<1> QED BY <1>1, <1>2, <1>3, <1>4, <1>5, <1>6, <1>7, <1>8 DEF WakeNext

-----------------------------------------------------------------------------
(* What is broadcast                                                       *)

\* A sequence several times over.
LEMMA TimesIs ==
  ASSUME NEW S, NEW n \in Nat, NEW s \in Seq(S), Len(s) # 0
  PROVE  /\ Times(n, s) \in Seq(S) /\ Len(Times(n, s)) = n * Len(s)
         /\ \A i \in 1 .. n * Len(s) : Times(n, s)[i] = s[1 + ((i - 1) % Len(s))]
<1> DEFINE l == Len(s)
<1>1. l \in Nat \ {0} /\ n * l \in Nat
  BY LenProperties
<1>2. ASSUME NEW i \in 1 .. n * l PROVE s[1 + ((i - 1) % l)] \in S
  <2>1. i - 1 \in Int
    BY <1>1
  <2> HIDE DEF l
  <2>2. (i - 1) % l \in 0 .. l - 1
    BY <1>1, <2>1, Remainder
  <2>3. 1 + ((i - 1) % l) \in 1 .. l
    BY <1>1, <2>2
  <2> QED BY <2>3, ElementOfSeq DEF l
<1>3. Times(n, s) \in [1 .. n * l -> S]
  BY <1>2 DEF Times
<1>4. Times(n, s) \in Seq(S) /\ Len(Times(n, s)) = n * l
  <2> HIDE DEF l
  <2> QED BY <1>1, <1>3, FunctionIsSeq
<1> QED BY <1>4 DEF Times

\* One value, k times over.
LEMMA ValueTimes ==
  ASSUME NEW S, NEW v \in S, NEW k \in Nat
  PROVE  /\ Times(k, <<v>>) \in Seq(S) /\ Len(Times(k, <<v>>)) = k
         /\ \A i \in 1 .. k : Times(k, <<v>>)[i] = v
<1> DEFINE s == <<v>>
           t == Times(k, s)
<1>1. s \in Seq(S) /\ Len(s) = 1 /\ s[1] = v
  OBVIOUS
<1>2. k * 1 = k /\ \A i \in 1 .. k : 1 + ((i - 1) % 1) = 1
  OBVIOUS
<1> HIDE DEF s
<1>3. /\ t \in Seq(S) /\ Len(t) = k * Len(s)
      /\ \A i \in 1 .. k * Len(s) : t[i] = s[1 + ((i - 1) % Len(s))]
  <2>1. Len(s) # 0
    BY <1>1
  <2> QED BY <1>1, <2>1, TimesIs
<1> HIDE DEF t
<1>4. t \in Seq(S) /\ Len(t) = k /\ \A i \in 1 .. k : t[i] = v
  BY <1>1, <1>2, <1>3
<1> QED BY <1>4 DEF s, t

\* f has the i elements of a and then the j elements of b.
Joins(f, a, b, i, j) ==
  /\ Len(f) = i + j /\ Len(a) = i /\ Len(b) = j
  /\ \A x \in 1 .. i + j : f[x] = IF x <= i THEN a[x] ELSE b[x - i]

\* A concatenation does; and only it does.
LEMMA JoinsConcat ==
  ASSUME NEW S, NEW a \in Seq(S), NEW b \in Seq(S), NEW i \in Nat, NEW j \in Nat,
         Len(a) = i, Len(b) = j
  PROVE  a \o b \in Seq(S) /\ Joins(a \o b, a, b, i, j)
<1>1. /\ a \o b \in Seq(S) /\ Len(a \o b) = i + j
      /\ \A x \in 1 .. i + j : (a \o b)[x] = IF x <= i THEN a[x] ELSE b[x - i]
  BY ConcatProperties
<1> QED BY <1>1 DEF Joins

\* There is one sequence that two sequences join to.
LEMMA JoinsOne ==
  ASSUME NEW S, NEW f \in Seq(S), NEW g \in Seq(S), NEW a, NEW b, NEW i \in Nat, NEW j \in Nat,
         Joins(f, a, b, i, j), Joins(g, a, b, i, j)
  PROVE  f = g
<1>1. Len(f) = i + j /\ Len(g) = i + j
  BY DEF Joins
<1>2. \A x \in 1 .. Len(f) : f[x] = g[x]
  BY DEF Joins
<1>3. Len(f) = Len(g)
  BY <1>1
<1> QED BY <1>2, <1>3, SeqEqual

\* It is the concatenation.
LEMMA JoinIs ==
  ASSUME NEW S, NEW a \in Seq(S), NEW b \in Seq(S), NEW i \in Nat, NEW j \in Nat,
         NEW f \in Seq(S), Joins(f, a, b, i, j)
  PROVE  f = a \o b
<1>1. Len(a) = i /\ Len(b) = j
  BY DEF Joins
<1>2. a \o b \in Seq(S) /\ Joins(a \o b, a, b, i, j)
  BY <1>1, JoinsConcat
<1> QED BY <1>2, JoinsOne

\* The bytes of the packet, one by one.
Filled(one, zero, k, p, q, l, m) ==
  [i \in 1 .. l |-> IF i <= k THEN one
                    ELSE IF i <= q THEN m[1 + ((i - p) % k)] ELSE zero]

\* The three parts of it.
Joined(one, zero, k, n, m) == Times(k, <<one>>) \o Times(n, m) \o Times(k, <<zero>>)

\* Where its parts begin and end.
Parts(m, k, n, p, w, q, l) ==
  /\ k \in Nat /\ n \in Nat /\ p \in Nat /\ w \in Nat /\ q \in Nat /\ l \in Nat
  /\ Len(m) = k /\ k # 0 /\ p = k + 1 /\ w = n * k /\ q = k + w /\ l = q + k

\* k ones, an address of k bytes n times, k zeros.  The numbers stand for themselves: the
\* provers take a range between literals apart, element by element.
LEMMA MagicJoins ==
  ASSUME NEW S, NEW one \in S, NEW zero \in S, NEW m \in Seq(S),
         NEW k, NEW n, NEW p, NEW w, NEW q, NEW l, Parts(m, k, n, p, w, q, l)
  PROVE  Filled(one, zero, k, p, q, l, m) = Joined(one, zero, k, n, m)
<1> DEFINE f == Filled(one, zero, k, p, q, l, m)
           g == [i \in 1 .. q |-> IF i <= k THEN one ELSE m[1 + ((i - p) % k)]]
           a == Times(k, <<one>>)
           b == Times(n, m)
           c == Times(k, <<zero>>)
<1>0. /\ k \in Nat /\ n \in Nat /\ p \in Nat /\ w \in Nat /\ q \in Nat /\ l \in Nat
      /\ Len(m) = k /\ k # 0 /\ p = k + 1 /\ w = n * k /\ q = k + w /\ l = q + k
  BY DEF Parts
<1>1. \A i \in 1 .. q : m[1 + ((i - p) % k)] \in S
  <2> SUFFICES ASSUME NEW i \in 1 .. q PROVE m[1 + ((i - p) % k)] \in S
    OBVIOUS
  <2>1. i - p \in Int /\ k \in Nat \ {0}
    BY <1>0
  <2>2. (i - p) % k \in 0 .. k - 1
    BY <2>1, Remainder
  <2>3. 1 + ((i - p) % k) \in 1 .. Len(m)
    BY <1>0, <2>2
  <2> QED BY <2>3, ElementOfSeq
<1>2. f \in Seq(S) /\ Len(f) = l
  <2>1. \A i \in 1 .. l : (IF i <= k THEN one
                           ELSE IF i <= q THEN m[1 + ((i - p) % k)] ELSE zero) \in S
    BY <1>1
  <2>2. f \in [1 .. l -> S]
    BY <2>1 DEF Filled
  <2> HIDE DEF f
  <2> QED BY <1>0, <2>2, FunctionIsSeq
<1>3. g \in Seq(S) /\ Len(g) = q
  <2>1. \A i \in 1 .. q : (IF i <= k THEN one ELSE m[1 + ((i - p) % k)]) \in S
    BY <1>1
  <2>2. g \in [1 .. q -> S]
    BY <2>1
  <2> HIDE DEF g
  <2> QED BY <1>0, <2>2, FunctionIsSeq
<1>4. a \in Seq(S) /\ Len(a) = k /\ \A i \in 1 .. k : a[i] = one
  BY <1>0, ValueTimes
<1>5. b \in Seq(S) /\ Len(b) = w /\ \A i \in 1 .. w : b[i] = m[1 + ((i - 1) % k)]
  <2>1. n \in Nat /\ Len(m) # 0
    BY <1>0
  <2>2. /\ b \in Seq(S) /\ Len(b) = n * Len(m)
        /\ \A i \in 1 .. n * Len(m) : b[i] = m[1 + ((i - 1) % Len(m))]
    BY <2>1, TimesIs
  <2> HIDE DEF b
  <2> QED BY <1>0, <2>2
<1>6. c \in Seq(S) /\ Len(c) = k /\ \A i \in 1 .. k : c[i] = zero
  BY <1>0, ValueTimes
<1>7. \A i \in 1 .. q : g[i] = IF i <= k THEN one ELSE m[1 + ((i - p) % k)]
  OBVIOUS
<1>8. \A i \in 1 .. l : f[i] = IF i <= q THEN g[i] ELSE zero
  BY <1>0, <1>7 DEF Filled
<1> HIDE DEF a, b, c, f, g
<1>9. Joins(g, a, b, k, w)
  <2>1. ASSUME NEW i \in 1 .. q, i <= k PROVE g[i] = a[i]
    <3>1. i \in 1 .. k
      BY <1>0, <2>1
    <3> QED BY <2>1, <3>1, <1>4, <1>7
  <2>2. ASSUME NEW i \in 1 .. q, ~(i <= k) PROVE g[i] = b[i - k]
    <3>1. i - k \in 1 .. w /\ (i - k) - 1 = i - p
      BY <1>0, <2>2
    <3>2. b[i - k] = m[1 + ((i - p) % k)]
      BY <1>5, <3>1
    <3> QED BY <1>7, <2>2, <3>2
  <2>3. \A i \in 1 .. q : g[i] = IF i <= k THEN a[i] ELSE b[i - k]
    BY <2>1, <2>2
  <2> QED BY <1>0, <1>3, <1>4, <1>5, <2>3 DEF Joins
<1>10. Joins(f, g, c, q, k)
  <2>1. ASSUME NEW i \in 1 .. l, ~(i <= q) PROVE f[i] = c[i - q]
    <3>1. i - q \in 1 .. k
      BY <1>0, <2>1
    <3> QED BY <1>6, <1>8, <2>1, <3>1
  <2>2. \A i \in 1 .. l : f[i] = IF i <= q THEN g[i] ELSE c[i - q]
    BY <1>8, <2>1
  <2> QED BY <1>0, <1>2, <1>3, <1>6, <2>2 DEF Joins
<1>11. g = a \o b
  BY <1>0, <1>3, <1>4, <1>5, <1>9, JoinIs
<1>12. f = g \o c
  BY <1>0, <1>2, <1>3, <1>6, <1>10, JoinIs
<1> QED BY <1>11, <1>12 DEF a, b, c, f, Joined

\* The magic packet: ones, the address sixteen times, zeros.
LEMMA MagicIs ==
  ASSUME NEW m \in Seq(Bytes), NEW k \in Nat, k = 6, Len(m) = k
  PROVE  Magic(m) = MagicPacket(m)
<1> DEFINE n == 16
           p == 7
           w == 96
           q == 102
           l == 108
<1>1. Parts(m, k, n, p, w, q, l)
  BY DEF Parts
<1> DEFINE S == Int
           one == AllOnes
           zero == 0
           f == Magic(m)
<1>2. one \in S /\ zero \in S
  BY WakeAssumption DEF AllOnes
<1>3. m \in Seq(S)
  <2>1. Bytes \subseteq S
    BY WakeAssumption
  <2>2. m \in [1 .. k -> Bytes]
    BY LenProperties
  <2> HIDE DEF S
  <2>3. m \in [1 .. k -> S]
    BY <2>1, <2>2
  <2> QED BY <2>3, FunctionIsSeq
<1>4. f = Filled(one, zero, k, p, q, l, m)
  BY DEF Magic, Filled
<1> HIDE DEF n, p, w, q, l, S, one, zero, f
<1>5. Filled(one, zero, k, p, q, l, m) = Joined(one, zero, k, n, m)
  BY <1>1, <1>2, <1>3, MagicJoins
<1>6. f = Joined(one, zero, k, n, m)
  BY <1>4, <1>5
<1> QED BY <1>6 DEF n, one, zero, f, Joined, MagicPacket

\* What has gone through all the stages is what was asked for.
LEMMA ArrivesRight == OnItsWay => MacArrives
<1> SUFFICES ASSUME OnItsWay, packet # NULL
             PROVE  /\ Parsable(request)
                    /\ packet = IF request.cmd = "shutdown"
                                THEN [port |-> 4003, payload |-> Address(request)]
                                ELSE [port |-> 60069, payload |-> MagicPacket(Address(request))]
  BY DEF MacArrives
<1>1. order # NULL /\ Len(mac) = 6 /\ packet = Message(order.cmd, mac)
  BY DEF OnItsWay, Sent
<1>2. /\ request \in Messages /\ Parsable(request)
      /\ order.cmd = IF request.cmd = "wol" THEN "wol_send" ELSE "shutdown_send"
      /\ order.mac = Address(request)
  BY <1>1 DEF OnItsWay, Asked, Ordered
<1>3. Address(request) \in Seq(Bytes) /\ Len(Address(request)) = 6
  BY <1>2, SixBytes
<1>4. mac \in Seq(Bytes) /\ \A i \in 1 .. Len(mac) : mac[i] = Address(request)[i]
  BY <1>2 DEF OnItsWay, Taken
<1>5. mac = Address(request)
  <2> DEFINE a == Address(request)
  <2>1. a \in Seq(Bytes) /\ Len(mac) = Len(a) /\ \A i \in 1 .. Len(mac) : mac[i] = a[i]
    BY <1>1, <1>3, <1>4
  <2> HIDE DEF a
  <2>2. mac = a
    BY <1>4, <2>1, SeqEqual
  <2> QED BY <2>2 DEF a
<1>6. Magic(Address(request)) = MagicPacket(Address(request))
  <2>1. 6 \in Nat
    OBVIOUS
  <2> QED BY <1>3, <2>1, MagicIs
<1>7. request.cmd = "wol" \/ request.cmd = "shutdown"
  BY <1>2 DEF Messages
<1>8. CASE request.cmd = "wol"
  <2>1. order.cmd = "wol_send" /\ "wol" # "shutdown"
    BY <1>2, <1>8
  <2> QED BY <1>1, <1>2, <1>5, <1>6, <1>8, <2>1 DEF Message
<1>9. CASE request.cmd = "shutdown"
  <2>1. order.cmd = "shutdown_send" /\ "shutdown_send" # "wol_send"
    BY <1>2, <1>9
  <2> QED BY <1>1, <1>2, <1>5, <1>9, <2>1 DEF Message
<1> QED BY <1>7, <1>8, <1>9

-----------------------------------------------------------------------------
\* In every state.
LEMMA WakeAlways == WakeSpec => [](OnItsWay /\ Agree)
  BY OnItsWayInit, AgreeInit, WakeStep, PTL DEF WakeSpec

\* Integers that a double holds are read as what was written, whatever wrote and printed
\* them, for types of all widths and doubles of all precisions.
THEOREM NumbersCorrect == WakeSpec => []NumbersAreKept
  BY AgreeKept, WakeAlways, PTL

\* A packet names the address the client wrote, for all bytes.
THEOREM MacCorrect == WakeSpec => []MacArrives
  BY ArrivesRight, WakeAlways, PTL
=============================================================================
