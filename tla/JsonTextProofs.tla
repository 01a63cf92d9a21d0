---------------------------- MODULE JsonTextProofs ----------------------------
(***************************************************************************)
(* JsonText proved, for documents of any size and depth and values of any  *)
(* length.                                                                 *)
(*                                                                         *)
(* A text fits: what one loop has added up is known at every child, not    *)
(* only after the last.  Nothing leaks: what each call owes is known,      *)
(* beside the trees of LibJsonProofs.                                      *)
(***************************************************************************)
EXTENDS JsonText, LibJsonProofs

\* What the first loop has added up after k children.
Needed(c) ==
  IF IsObject(c.item)
  THEN 7 + c.chars + 2 * c.k + Formatted(fmt, c.depth + 1 + c.k * (c.depth + 3))
  ELSE 5 + c.chars + 2 * c.k + Formatted(fmt, c.k)

IsCall(c) ==
  /\ c = [item |-> c.item, depth |-> c.depth, cptr |-> c.cptr, len |-> c.len,
          k |-> c.k, chars |-> c.chars, kept |-> c.kept, fail |-> c.fail]
  /\ c.depth \in Nat /\ c.k \in Nat /\ c.chars \in Nat /\ c.len \in Nat /\ c.kept \in Nat
  /\ c.fail \in BOOLEAN
  /\ ~c.fail => c.len = Needed(c)
Calls(s) == \E S : s \in Seq(S) /\ \A c \in S : IsCall(c)

CallsInv ==
  /\ fmt \in BOOLEAN
  /\ Calls(prints)
  /\ prints # <<>> => stage = "print"

-----------------------------------------------------------------------------
(* Calls                                                                   *)

\* A sequence of calls, whatever set they are from.
LEMMA AreCalls ==
  ASSUME NEW s, NEW S, s \in Seq(S), \A c \in S : IsCall(c)
  PROVE  Calls(s)
  BY DEF Calls

\* Nothing printed is nothing wrong.
LEMMA NoCalls == Calls(<<>>)
<1> DEFINE S == {}
<1>1. <<>> \in Seq(S) /\ \A c \in S : IsCall(c)
  BY EmptySeq
<1> HIDE DEF S
<1> QED BY <1>1, AreCalls

\* A call on top of calls.
LEMMA OneMore ==
  ASSUME NEW s, Calls(s), NEW c, IsCall(c)
  PROVE  Calls(Append(s, c))
<1>1. PICK S : s \in Seq(S) /\ \A d \in S : IsCall(d)
  BY DEF Calls
<1> DEFINE T == S \cup {c}
<1>2. s \in Seq(T)
  <2>1. S \subseteq T
    OBVIOUS
  <2> HIDE DEF T
  <2>2. s \in [1 .. Len(s) -> S] /\ Len(s) \in Nat
    BY <1>1, LenProperties
  <2>3. s \in [1 .. Len(s) -> T]
    BY <2>1, <2>2
  <2> QED BY <2>2, <2>3, SeqDef
<1>3. c \in T /\ \A d \in T : IsCall(d)
  BY <1>1
<1> HIDE DEF T
<1>4. Append(s, c) \in Seq(T)
  BY <1>2, <1>3, AppendProperties
<1> QED BY <1>3, <1>4 DEF Calls

\* The innermost call, those below it, and the caller.
LEMMA OneLess ==
  ASSUME NEW s, Calls(s), s # <<>>
  PROVE  Calls(Front(s)) /\ IsCall(Last(s)) /\ Len(s) \in Nat \ {0} /\ Len(Front(s)) = Len(s) - 1
         /\ (Len(s) # 1 => Front(s) # <<>> /\ Last(Front(s)) = s[Len(s) - 1])
<1>1. PICK S : s \in Seq(S) /\ \A d \in S : IsCall(d)
  BY DEF Calls
<1>2. Len(s) \in Nat \ {0}
  BY <1>1, EmptySeq
<1> DEFINE n == Len(s)
<1>3. s[n] \in S /\ \A i \in 1 .. n - 1 : s[i] \in S
  BY <1>1, <1>2, ElementOfSeq
<1> DEFINE f == SubSeq(s, 1, n - 1)
<1>4. /\ f \in Seq(S) /\ Len(f) = IF 1 <= n - 1 THEN (n - 1) - 1 + 1 ELSE 0
      /\ \A i \in 1 .. (n - 1) - 1 + 1 : f[i] = s[1 + i - 1]
  <2>1. 1 \in Int /\ n - 1 \in Int
    BY <1>2
  <2> HIDE DEF n
  <2> QED BY <1>3, <2>1, SubSeqProperties
<1> HIDE DEF n, f
<1>5. n \in Nat \ {0}
  BY <1>2 DEF n
<1>6. Len(f) = n - 1 /\ (n # 1 => f # <<>> /\ f[n - 1] = s[n - 1])
  BY <1>4, <1>5, EmptySeq
<1>7. Calls(f) /\ IsCall(s[n])
  BY <1>1, <1>3, <1>4 DEF Calls
<1> QED BY <1>5, <1>6, <1>7 DEF f, n, Front, Last

\* Of what the formatting consists does not matter, but that it is a number.
LEMMA FormattedIs ==
  ASSUME NEW f \in BOOLEAN, NEW n \in Nat
  PROVE  Formatted(f, n) \in Nat
  BY DEF Formatted

\* A call that begins.
LEMMA BeginsRight ==
  ASSUME NEW f \in BOOLEAN, fmt = f, NEW item, NEW d \in Nat
  PROVE  /\ IsCall(PrintCall(item, d, f))
         /\ PrintCall(item, d, f).item = item /\ PrintCall(item, d, f).kept = 0
<1> DEFINE c == PrintCall(item, d, f)
<1>1. c = [item |-> item, depth |-> d, cptr |-> node[item].child,
           len |-> IF IsObject(item) THEN 7 + Formatted(f, d + 1) ELSE 5,
           k |-> 0, chars |-> 0, kept |-> 0, fail |-> FALSE]
  BY DEF PrintCall
<1>2. d + 1 + 0 * (d + 3) = d + 1 /\ d + 1 \in Nat
  OBVIOUS
<1>3. Formatted(f, d + 1) \in Nat /\ Formatted(f, 0) = 0
  BY <1>2, FormattedIs DEF Formatted
<1> HIDE DEF c
<1>4. /\ c.item = item /\ c.depth = d /\ c.k = 0 /\ c.chars = 0 /\ c.kept = 0 /\ c.fail = FALSE
      /\ c.len = IF IsObject(item) THEN 7 + Formatted(f, d + 1) ELSE 5
  BY <1>1
<1>5. c.len \in Nat /\ c.len = Needed(c)
  <2>1. CASE IsObject(item)
    BY <1>2, <1>3, <1>4, <2>1 DEF Needed
  <2>2. CASE ~IsObject(item)
    BY <1>2, <1>3, <1>4, <2>2 DEF Needed
  <2> QED BY <2>1, <2>2
<1>6. c = [item |-> c.item, depth |-> c.depth, cptr |-> c.cptr, len |-> c.len,
           k |-> c.k, chars |-> c.chars, kept |-> c.kept, fail |-> c.fail]
  BY <1>1
<1>7. c.depth \in Nat /\ c.k \in Nat /\ c.chars \in Nat /\ c.kept \in Nat
  BY <1>4
<1>8. c.fail \in BOOLEAN
  BY <1>4, Zenon
<1>9. IsCall(c)
  BY <1>5, <1>6, <1>7, <1>8, Zenon DEF IsCall
<1> QED BY <1>4, <1>9 DEF c

\* A text, or none, or of what is no array or object.
LEMMA CharsIs == \A n : Chars(n) \in Nat
  BY TextAssumption DEF Chars

\* A name, or none, or no memory for it.
LEMMA NamesAre == \A p : \A name \in NameOf(p) : name = NULL \/ name \in Nat
  BY TextAssumption DEF NameOf

\* A call that is through with another child: the tabs grow with the depth and with the
\* number of children.
LEMMA GetsRight ==
  ASSUME fmt \in BOOLEAN, NEW c, IsCall(c), NEW value, NEW name,
         value = NULL \/ value \in Nat, name = NULL \/ name \in Nat
  PROVE  /\ IsCall(Gets(c, value, name))
         /\ Gets(c, value, name).item = c.item
         /\ Gets(c, value, name).kept = c.kept + BuffersOf(c.item, value, name)
<1> DEFINE made == NULL \notin {value, name}
           e == Gets(c, value, name)
           each == IF IsObject(c.item) THEN c.depth + 3 ELSE 1
<1>1. /\ c.depth \in Nat /\ c.k \in Nat /\ c.chars \in Nat /\ c.len \in Nat /\ c.kept \in Nat
      /\ c.fail \in BOOLEAN
      /\ ~c.fail => c.len = Needed(c)
  BY DEF IsCall
<1>2. e = [item |-> c.item, depth |-> c.depth, cptr |-> node[c.cptr].next,
           len |-> IF made THEN c.len + Counted(c, value, name) ELSE c.len,
           k |-> c.k + 1,
           chars |-> IF made THEN c.chars + value + name ELSE c.chars,
           kept |-> c.kept + BuffersOf(c.item, value, name),
           fail |-> c.fail \/ ~made]
  <2> DEFINE item == c.item
             depth == c.depth
             cptr == c.cptr
             len == c.len
             k == c.k
             chars == c.chars
             kept == c.kept
             fail == c.fail
  <2>1. c = [item |-> item, depth |-> depth, cptr |-> cptr, len |-> len,
             k |-> k, chars |-> chars, kept |-> kept, fail |-> fail]
    BY DEF IsCall
  <2>2. e = [c EXCEPT !.cptr = node[cptr].next, !.k = k + 1,
                      !.kept = kept + BuffersOf(item, value, name),
                      !.len = IF made THEN len + Counted(c, value, name) ELSE len,
                      !.chars = IF made THEN chars + value + name ELSE chars,
                      !.fail = fail \/ ~made]
    BY DEF Gets
  <2> HIDE DEF item, depth, cptr, len, k, chars, kept, fail, e, made
  <2>3. e = [item |-> item, depth |-> depth, cptr |-> node[cptr].next,
             len |-> IF made THEN len + Counted(c, value, name) ELSE len,
             k |-> k + 1,
             chars |-> IF made THEN chars + value + name ELSE chars,
             kept |-> kept + BuffersOf(item, value, name),
             fail |-> fail \/ ~made]
    BY <2>1, <2>2
  <2> QED BY <2>3 DEF item, depth, cptr, len, k, chars, kept, fail
<1>3. each \in Nat /\ Formatted(fmt, each) \in Nat
  BY <1>1, FormattedIs
<1>4. Counted(c, value, name) = value + name + 2 + Formatted(fmt, each)
  BY DEF Counted
<1> HIDE DEF e, each
<1>5. /\ e.item = c.item /\ e.depth = c.depth /\ e.k = c.k + 1
      /\ e.len = IF made THEN c.len + Counted(c, value, name) ELSE c.len
      /\ e.chars = IF made THEN c.chars + value + name ELSE c.chars
      /\ e.kept = c.kept + BuffersOf(c.item, value, name)
      /\ e.fail = (c.fail \/ ~made)
      /\ e = [item |-> e.item, depth |-> e.depth, cptr |-> e.cptr, len |-> e.len,
              k |-> e.k, chars |-> e.chars, kept |-> e.kept, fail |-> e.fail]
  BY <1>2
<1>6. made => value \in Nat /\ name \in Nat
  OBVIOUS
<1> HIDE DEF made
<1>7. e.depth \in Nat /\ e.k \in Nat /\ e.chars \in Nat /\ e.len \in Nat
  BY <1>1, <1>3, <1>4, <1>5, <1>6
<1>8. e.fail \in BOOLEAN /\ e.kept \in Nat
  <2>1. BuffersOf(c.item, value, name) \in Nat
    BY DEF BuffersOf, Buffer
  <2> QED BY <1>1, <1>5, <2>1
<1>9. ASSUME ~e.fail PROVE e.len = Needed(e)
  <2>1. made /\ ~c.fail
    BY <1>5, <1>9
  <2>2. /\ e.len = c.len + (value + name + 2 + Formatted(fmt, each))
        /\ e.chars = c.chars + value + name
        /\ c.len = Needed(c) /\ value \in Nat /\ name \in Nat
    BY <1>1, <1>4, <1>5, <1>6, <2>1
  <2>3. CASE IsObject(c.item)
    <3> DEFINE x == c.depth + 1 + c.k * (c.depth + 3)
               y == c.depth + 1 + (c.k + 1) * (c.depth + 3)
    <3>1. x \in Nat /\ y = x + (c.depth + 3) /\ each = c.depth + 3
      BY <1>1, <2>3 DEF each
    <3>2. /\ Needed(c) = 7 + c.chars + 2 * c.k + Formatted(fmt, x)
          /\ Needed(e) = 7 + e.chars + 2 * (c.k + 1) + Formatted(fmt, y)
      BY <1>5, <2>3 DEF Needed
    <3> HIDE DEF x, y
    <3>3. /\ Formatted(fmt, y) = Formatted(fmt, x) + Formatted(fmt, each)
          /\ Formatted(fmt, x) \in Nat
      BY <1>1, <3>1 DEF Formatted
    <3> QED BY <1>1, <1>3, <2>2, <3>2, <3>3
  <2>4. CASE ~IsObject(c.item)
    <3>1. /\ Needed(c) = 5 + c.chars + 2 * c.k + Formatted(fmt, c.k)
          /\ Needed(e) = 5 + e.chars + 2 * (c.k + 1) + Formatted(fmt, c.k + 1)
      BY <1>5, <2>4 DEF Needed
    <3>2. each = 1
      BY <2>4 DEF each
    <3>3. /\ Formatted(fmt, c.k + 1) = Formatted(fmt, c.k) + Formatted(fmt, each)
          /\ Formatted(fmt, c.k) \in Nat
      BY <1>1, <3>2 DEF Formatted
    <3> QED BY <1>1, <1>3, <2>2, <3>1, <3>3
  <2> QED BY <2>3, <2>4
<1>10. IsCall(e)
  BY <1>5, <1>7, <1>8, <1>9 DEF IsCall
<1> QED BY <1>5, <1>10 DEF e

\* What is written fits, and is a text again.
LEMMA FitsRight ==
  ASSUME fmt \in BOOLEAN, NEW c, IsCall(c), ~c.fail
  PROVE  Composed(c) <= Malloced(c) /\ Composed(c) - 1 \in Nat
<1>1. c.depth \in Nat /\ c.k \in Nat /\ c.chars \in Nat /\ c.len = Needed(c)
  BY DEF IsCall
<1>2. CASE IsObject(c.item) /\ c.k > 0
  <2> DEFINE p == c.k * (c.depth + 3)
  <2>1. p \in Nat
    BY <1>1
  <2>2. /\ Composed(c) = 2 + c.chars + 2 * c.k + Formatted(fmt, 1 + p + c.depth)
        /\ Malloced(c) = 7 + c.chars + 2 * c.k + Formatted(fmt, c.depth + 1 + p)
    BY <1>1, <1>2 DEF Composed, Malloced, Needed
  <2> HIDE DEF p
  <2>3. /\ 1 + p + c.depth = c.depth + 1 + p
        /\ Formatted(fmt, c.depth + 1 + p) \in Nat
    BY <1>1, <2>1, FormattedIs
  <2> QED BY <1>1, <2>2, <2>3
<1>3. CASE IsObject(c.item) /\ c.k = 0
  BY <1>1, <1>3 DEF Composed, Malloced, Formatted
<1>4. CASE ~IsObject(c.item) /\ c.k > 0
  <2>1. /\ Composed(c) = 2 + c.chars + c.k + Formatted(fmt, c.k - 1)
        /\ Malloced(c) = 5 + c.chars + 2 * c.k + Formatted(fmt, c.k)
    BY <1>1, <1>4 DEF Composed, Malloced, Needed
  <2>2. Formatted(fmt, c.k - 1) <= Formatted(fmt, c.k) /\ Formatted(fmt, c.k - 1) \in Nat
        /\ Formatted(fmt, c.k) \in Nat
    BY <1>1, <1>4 DEF Formatted
  <2> QED BY <1>1, <2>1, <2>2
<1>5. CASE ~IsObject(c.item) /\ c.k = 0
  BY <1>1, <1>5 DEF Composed, Malloced
<1> QED BY <1>1, <1>2, <1>3, <1>4, <1>5
-----------------------------------------------------------------------------
(* The steps                                                               *)

\* No call changes the document it prints: what was right of the calls there are now
\* will be.
LEMMA CallsStay ==
  ASSUME UNCHANGED node, UNCHANGED fmt, Calls(prints')
  PROVE  Calls(prints)'
<1>1. PICK S : prints' \in Seq(S) /\ \A c \in S : IsCall(c)
  BY DEF Calls
<1>2. \A c : Needed(c)' = Needed(c)
  BY DEF Needed, IsObject, Formatted
<1>3. \A c \in S : IsCall(c)'
  BY <1>1, <1>2, Zenon DEF IsCall
<1> QED BY <1>1, <1>3 DEF Calls

\* Nothing is printed at first.
LEMMA InitInv == TextInit => CallsInv
  BY NoCalls DEF TextInit, CallsInv

\* A call without callers: only here the line breaks may change.
LEMMA PrintBeginsKeeps == CallsInv /\ PrintBegins => CallsInv'
<1>1. (\A f \in BOOLEAN : fmt = f => \A item : IsCall(PrintCall(item, 0, f)))'
  <2>1. \A f \in BOOLEAN : fmt = f => \A item : IsCall(PrintCall(item, 0, f))
    BY BeginsRight
  <2> QED BY <2>1, PTL
<1> SUFFICES ASSUME CallsInv, PrintBegins PROVE CallsInv'
  OBVIOUS
<1>2. UNCHANGED node /\ stage' = "print"
  BY DEF PrintBegins, heap
<1>3. \E item : \E f \in BOOLEAN : fmt' = f /\ prints' = <<PrintCall(item, 0, f)>>
  BY DEF PrintBegins
<1>4. PICK item, f : f \in BOOLEAN /\ fmt' = f /\ prints' = <<PrintCall(item, 0, f)>>
  BY <1>3
<1>5. PICK c : c = PrintCall(item, 0, f)
  OBVIOUS
<1>6. c = PrintCall(item, 0, f)'
  BY <1>2, <1>5 DEF PrintCall, IsObject, Formatted
<1>7. IsCall(c)'
  BY <1>1, <1>4, <1>6
<1>8. prints' \in Seq({c}) /\ \A d \in {c} : IsCall(d)'
  BY <1>4, <1>5, <1>7
<1>9. Calls(prints)'
  BY <1>8 DEF Calls
<1> QED BY <1>2, <1>4, <1>9 DEF CallsInv

\* A child whose text is made on the spot.
LEMMA PrintValueKeeps == CallsInv /\ PrintValue => CallsInv'
<1> SUFFICES ASSUME CallsInv, PrintValue PROVE CallsInv'
  OBVIOUS
<1>1. /\ fmt \in BOOLEAN /\ Calls(prints) /\ prints # <<>> /\ stage = "print"
      /\ UNCHANGED fmt /\ UNCHANGED node /\ UNCHANGED stage
  BY DEF CallsInv, PrintValue, InLoop, PrintStep, heap
<1>2. PICK value \in {NULL} \cup {Chars(Printing.cptr)}, name \in NameOf(Printing.item) :
        prints' = Append(Front(prints), Gets(Printing, value, name))
  BY DEF PrintValue
<1>3. (value = NULL \/ value \in Nat) /\ (name = NULL \/ name \in Nat)
  BY <1>2, CharsIs, NamesAre
<1>4. Calls(Front(prints)) /\ IsCall(Printing)
  BY <1>1, OneLess DEF Printing
<1>5. IsCall(Gets(Printing, value, name))
  BY <1>1, <1>3, <1>4, GetsRight
<1>6. Calls(prints')
  BY <1>2, <1>4, <1>5, OneMore
<1> QED BY <1>1, <1>6, CallsStay DEF CallsInv

\* A child that is a call of its own.
LEMMA PrintCallsKeeps == CallsInv /\ PrintCalls => CallsInv'
<1> SUFFICES ASSUME CallsInv, PrintCalls PROVE CallsInv'
  OBVIOUS
<1>1. /\ fmt \in BOOLEAN /\ Calls(prints) /\ prints # <<>> /\ stage = "print"
      /\ UNCHANGED fmt /\ UNCHANGED node /\ UNCHANGED stage
      /\ prints' = Append(prints, PrintCall(Printing.cptr, Printing.depth + 1, fmt))
  BY DEF CallsInv, PrintCalls, InLoop, PrintStep, heap
<1>2. IsCall(Printing)
  BY <1>1, OneLess DEF Printing
<1>3. Printing.depth + 1 \in Nat
  BY <1>2 DEF IsCall
<1>4. IsCall(PrintCall(Printing.cptr, Printing.depth + 1, fmt))
  BY <1>1, <1>3, BeginsRight
<1>5. Calls(prints')
  BY <1>1, <1>4, OneMore
<1> QED BY <1>1, <1>5, CallsStay DEF CallsInv

\* What a call returns is a text, or NULL, to its caller.
LEMMA PrintReturnsKeeps == CallsInv /\ PrintReturns => CallsInv'
<1> SUFFICES ASSUME CallsInv, PrintReturns PROVE CallsInv'
  OBVIOUS
<1>1. /\ fmt \in BOOLEAN /\ Calls(prints) /\ prints # <<>> /\ stage = "print"
      /\ UNCHANGED fmt /\ UNCHANGED node /\ UNCHANGED stage
  BY DEF CallsInv, PrintReturns, PrintStep, heap
<1>2. /\ Calls(Front(prints)) /\ IsCall(Printing)
      /\ (Len(prints) # 1 =>
             Front(prints) # <<>> /\ Last(Front(prints)) = prints[Len(prints) - 1])
  BY <1>1, OneLess DEF Printing
<1>3. CASE Len(prints) = 1
  <2>1. prints' = <<>>
    BY <1>3 DEF PrintReturns
  <2>2. Calls(prints')
    BY <2>1, NoCalls
  <2> QED BY <1>1, <2>2, CallsStay DEF CallsInv
<1>4. CASE Len(prints) # 1
  <2> DEFINE caller == prints[Len(prints) - 1]
             rest == Front(Front(prints))
  <2>1. Calls(rest) /\ IsCall(caller)
    BY <1>2, <1>4, OneLess
  <2>2. \E value \in {NULL} \cup (IF Printing.fail THEN {} ELSE {Composed(Printing) - 1}) :
          \E name \in NameOf(caller.item) : prints' = Append(rest, Gets(caller, value, name))
    BY <1>4 DEF PrintReturns
  <2> HIDE DEF caller, rest
  <2>3. PICK value \in {NULL} \cup (IF Printing.fail THEN {} ELSE {Composed(Printing) - 1}) :
          \E name \in NameOf(caller.item) : prints' = Append(rest, Gets(caller, value, name))
    BY <2>2
  <2>4. PICK name \in NameOf(caller.item) : prints' = Append(rest, Gets(caller, value, name))
    BY <2>3
  <2>5. value = NULL \/ value \in Nat
    BY <1>1, <1>2, <2>3, FitsRight
  <2>6. name = NULL \/ name \in Nat
    BY <2>4, NamesAre
  <2>7. IsCall(Gets(caller, value, name))
    BY <1>1, <2>1, <2>5, <2>6, GetsRight
  <2>8. Calls(prints')
    BY <2>1, <2>4, <2>7, OneMore
  <2> QED BY <1>1, <2>8, CallsStay DEF CallsInv
<1> QED BY <1>3, <1>4

\* The text is used and freed.
LEMMA PrintEndsKeeps == CallsInv /\ PrintEnds => CallsInv'
<1> SUFFICES ASSUME CallsInv, PrintEnds PROVE CallsInv'
  OBVIOUS
<1>1. /\ fmt \in BOOLEAN /\ Calls(prints) /\ prints = <<>> /\ UNCHANGED prints
      /\ UNCHANGED fmt /\ UNCHANGED node
  BY DEF CallsInv, PrintEnds, PrintStep, heap
<1>2. Calls(prints')
  BY <1>1
<1> QED BY <1>1, <1>2, CallsStay DEF CallsInv

\* Nothing but printing goes on while a document is printed.
LEMMA OnlyPrinterPrints ==
  ASSUME Next
  PROVE  stage # "print"
<1>1. ASSUME Parse PROVE stage # "print"
  BY <1>1 DEF Parse, ParseBegins, ParseValue, ParseOpens, ParseNext, ParseName, ParseCloses,
     ParseEnds, ParseFails
<1>2. ASSUME Use PROVE stage # "print"
  BY <1>2 DEF Use, LoadChildObject, LoadChildArray, LoadChildObjectFromChildArrayByIndex,
     ReleaseChild, PutValueString, DeletesObject, FreeAll, Ready
<1>3. ASSUME Copy PROVE stage # "print"
  BY <1>3 DEF Copy, CopyBegins, CopyCalls, CopyReturns, CopyEnds, CopyFails
<1> QED BY <1>1, <1>2, <1>3 DEF Next

\* So it leaves the calls alone.
LEMMA NextKeeps == CallsInv /\ Next /\ UNCHANGED textVars => CallsInv'
<1>1. (Calls(<<>>))'
  <2>1. Calls(<<>>)
    BY NoCalls
  <2> QED BY <2>1, PTL
<1> SUFFICES ASSUME CallsInv, Next, UNCHANGED textVars PROVE CallsInv'
  OBVIOUS
<1>2. stage # "print"
  BY OnlyPrinterPrints
<1>3. prints' = <<>> /\ UNCHANGED fmt /\ fmt \in BOOLEAN
  BY <1>2 DEF CallsInv, textVars
<1> QED BY <1>1, <1>3 DEF CallsInv, Calls

\* Nor does it change by nothing.
LEMMA StutterKeeps == CallsInv /\ UNCHANGED <<vars, textVars>> => CallsInv'
<1> SUFFICES ASSUME CallsInv, UNCHANGED <<vars, textVars>> PROVE CallsInv'
  OBVIOUS
<1>1. UNCHANGED node /\ UNCHANGED fmt /\ UNCHANGED prints /\ UNCHANGED stage
  BY DEF vars, textVars, heap
<1>2. Calls(prints')
  BY <1>1 DEF CallsInv
<1> QED BY <1>1, <1>2, CallsStay DEF CallsInv

\* Every step keeps the calls.
LEMMA NextInv == CallsInv /\ [TextNext]_<<vars, textVars>> => CallsInv'
  BY PrintBeginsKeeps, PrintValueKeeps, PrintCallsKeeps, PrintReturnsKeeps, PrintEndsKeeps,
     NextKeeps, StutterKeeps DEF TextNext, Printer

-----------------------------------------------------------------------------
(* The buffers                                                             *)

Due(c) == Arrays(c.item) + c.kept
Adds(f, s) ==
  /\ f \in [0 .. Len(s) -> Int] /\ f[0] = 0
  /\ \A k \in 1 .. Len(s) : f[k] = f[k - 1] + Due(s[k])
Total(s, x) == \E f : Adds(f, s) /\ f[Len(s)] = x

BuffersInv ==
  /\ buffers \in Int
  /\ text # NULL => stage = "print" /\ prints = <<>>
  /\ Total(prints, buffers - Buffer(text))

\* A call owes a number of buffers.
LEMMA DueIs ==
  ASSUME NEW c, IsCall(c)
  PROVE  Due(c) \in Nat
<1>1. Arrays(c.item) \in Nat
  BY DEF Arrays
<1>2. c.kept \in Nat
  BY DEF IsCall
<1> QED BY <1>1, <1>2 DEF Due

\* No calls owe none.
LEMMA NoneDue ==
  ASSUME NEW x
  PROVE  Total(<<>>, x) <=> x = 0
<1>1. ASSUME x = 0 PROVE Total(<<>>, x)
  <2> DEFINE f == [k \in 0 .. 0 |-> 0]
  <2>1. Adds(f, <<>>) /\ f[Len(<<>>)] = x
    BY <1>1, EmptySeq DEF Adds
  <2> HIDE DEF f
  <2> QED BY <2>1 DEF Total
<1>2. ASSUME Total(<<>>, x) PROVE x = 0
  BY <1>2, EmptySeq DEF Total, Adds
<1> QED BY <1>1, <1>2

\* A call on top adds what it owes.
LEMMA MoreDue ==
  ASSUME NEW s, Calls(s), NEW x, Total(s, x), NEW c, IsCall(c)
  PROVE  x \in Int /\ Total(Append(s, c), x + Due(c))
<1>1. PICK S : s \in Seq(S) /\ \A d \in S : IsCall(d)
  BY DEF Calls
<1>2. PICK n \in Nat : n = Len(s)
  BY <1>1, LenProperties
<1>3. PICK t : t = Append(s, c)
  OBVIOUS
<1>4. Len(t) = n + 1 /\ t[n + 1] = c /\ \A k \in 1 .. n : t[k] = s[k]
  <2> DEFINE T == S \cup {c}
  <2>1. s \in Seq(T) /\ c \in T
    <3>1. S \subseteq T /\ c \in T
      OBVIOUS
    <3> HIDE DEF T
    <3>2. s \in [1 .. Len(s) -> S] /\ Len(s) \in Nat
      BY <1>1, LenProperties
    <3>3. s \in [1 .. Len(s) -> T]
      BY <3>1, <3>2
    <3> QED BY <3>1, <3>2, <3>3, SeqDef
  <2> HIDE DEF T
  <2> QED BY <1>2, <1>3, <2>1, AppendProperties
<1>5. PICK f : Adds(f, s) /\ f[n] = x
  BY <1>2 DEF Total
<1>6. x \in Int /\ Due(c) \in Nat
  BY <1>2, <1>5, DueIs DEF Adds
<1> DEFINE g == [k \in 0 .. n + 1 |-> IF k = n + 1 THEN x + Due(c) ELSE f[k]]
<1>7. /\ g \in [0 .. n + 1 -> Int] /\ g[0] = 0
      /\ g[n + 1] = x + Due(c) /\ \A k \in 0 .. n : g[k] = f[k]
  BY <1>2, <1>5, <1>6 DEF Adds
<1> HIDE DEF g
<1>8. \A k \in 1 .. n + 1 : g[k] = g[k - 1] + Due(t[k])
  <2> SUFFICES ASSUME NEW k \in 1 .. n + 1 PROVE g[k] = g[k - 1] + Due(t[k])
    OBVIOUS
  <2>1. CASE k = n + 1
    <3>1. k - 1 = n /\ n \in 0 .. n
      BY <2>1
    <3> QED BY <1>4, <1>5, <1>7, <2>1, <3>1
  <2>2. CASE k # n + 1
    <3>1. k \in 1 .. n /\ k \in 0 .. n /\ k - 1 \in 0 .. n
      BY <2>2
    <3> QED BY <1>2, <1>4, <1>5, <1>7, <3>1 DEF Adds
  <2> QED BY <2>1, <2>2
<1>9. Adds(g, t) /\ g[Len(t)] = x + Due(c)
  BY <1>4, <1>7, <1>8 DEF Adds
<1> QED BY <1>3, <1>6, <1>9 DEF Total

\* A call that is gone owes nothing any more.
LEMMA LessDue ==
  ASSUME NEW s, Calls(s), s # <<>>, NEW x, Total(s, x)
  PROVE  x \in Int /\ Total(Front(s), x - Due(Last(s)))
<1>1. PICK S : s \in Seq(S) /\ \A d \in S : IsCall(d)
  BY DEF Calls
<1>2. PICK n \in Nat : Len(s) = n + 1
  <2>1. Len(s) \in Nat /\ Len(s) # 0
    BY <1>1, EmptySeq
  <2>2. Len(s) - 1 \in Nat /\ (Len(s) - 1) + 1 = Len(s)
    BY <2>1
  <2> QED BY <2>2
<1>3. PICK t : t = Front(s)
  OBVIOUS
<1>4. /\ Len(t) = n /\ \A k \in 1 .. n : t[k] = s[k]
      /\ Last(s) = s[n + 1] /\ IsCall(Last(s))
  <2>1. Len(s) - 1 = n
    BY <1>2
  <2>2. /\ Last(s) = s[Len(s)] /\ Last(s) \in S /\ Len(Front(s)) = Len(s) - 1
        /\ \A i \in 1 .. Len(s) - 1 : Front(s)[i] = s[i]
    BY <1>1, FrontIs
  <2> QED BY <1>1, <1>2, <1>3, <2>1, <2>2
<1>5. PICK f : Adds(f, s) /\ f[n + 1] = x
  BY <1>2 DEF Total
<1>6. Due(Last(s)) \in Nat
  BY <1>4, DueIs
<1> DEFINE g == [k \in 0 .. n |-> f[k]]
<1>7. /\ f \in [0 .. n + 1 -> Int] /\ f[0] = 0
      /\ \A k \in 1 .. n + 1 : f[k] = f[k - 1] + Due(s[k])
  BY <1>2, <1>5 DEF Adds
<1>8. g \in [0 .. n -> Int] /\ \A k \in 0 .. n : g[k] = f[k]
  BY <1>7
<1> HIDE DEF g
<1>9. \A k \in 1 .. n : g[k] = g[k - 1] + Due(t[k])
  <2> SUFFICES ASSUME NEW k \in 1 .. n PROVE g[k] = g[k - 1] + Due(t[k])
    OBVIOUS
  <2>1. k \in 0 .. n /\ k - 1 \in 0 .. n /\ k \in 1 .. n + 1
    OBVIOUS
  <2> QED BY <1>4, <1>7, <1>8, <2>1
<1>10. x \in Int /\ f[n] = x - Due(Last(s))
  <2>1. n + 1 \in 1 .. n + 1 /\ n + 1 \in 0 .. n + 1 /\ n \in 0 .. n + 1 /\ (n + 1) - 1 = n
    OBVIOUS
  <2>2. f[n + 1] = f[n] + Due(Last(s)) /\ f[n] \in Int /\ f[n + 1] \in Int
    BY <1>4, <1>7, <2>1
  <2> QED BY <1>5, <1>6, <2>2
<1>11. Adds(g, t) /\ g[Len(t)] = x - Due(Last(s))
  <2>1. 0 \in 0 .. n /\ n \in 0 .. n
    OBVIOUS
  <2> QED BY <1>4, <1>7, <1>8, <1>9, <1>10, <2>1 DEF Adds
<1> QED BY <1>3, <1>10, <1>11 DEF Total

\* The sum of the model.
LEMMA OwedIs ==
  ASSUME Calls(prints), NEW x, Total(prints, x)
  PROVE  Owed(Len(prints)) = x
<1>1. PICK n \in Nat : n = Len(prints)
  BY LenProperties DEF Calls
<1>2. PICK f : Adds(f, prints) /\ f[n] = x
  BY <1>1 DEF Total
<1> DEFINE N == CHOOSE g : g = [i \in 0 .. n |->
                  IF i = 0 THEN 0 ELSE g[i - 1] + Arrays(prints[i].item) + prints[i].kept]
<1>3. Owed(n) = N[n]
  BY DEF Owed
<1>4. f = [i \in 0 .. n |->
             IF i = 0 THEN 0 ELSE f[i - 1] + Arrays(prints[i].item) + prints[i].kept]
  <2>1. ASSUME NEW i \in 0 .. n
        PROVE  f[i] = IF i = 0 THEN 0 ELSE f[i - 1] + Arrays(prints[i].item) + prints[i].kept
    <3>1. CASE i = 0
      BY <1>2, <3>1 DEF Adds
    <3>2. CASE i # 0
      <4>1. i \in 1 .. n /\ i - 1 \in 0 .. n
        BY <3>2
      <4>2. f[i] = f[i - 1] + Due(prints[i]) /\ f[i - 1] \in Int
        BY <1>1, <1>2, <4>1 DEF Adds
      <4>3. IsCall(prints[i])
        <5>1. PICK S : prints \in Seq(S) /\ \A d \in S : IsCall(d)
          BY DEF Calls
        <5> QED BY <1>1, <4>1, <5>1, ElementOfSeq
      <4>4. Arrays(prints[i].item) \in Nat /\ prints[i].kept \in Nat
        BY <4>3 DEF IsCall, Arrays
      <4> QED BY <3>2, <4>2, <4>4 DEF Due
    <3> QED BY <3>1, <3>2
  <2>2. f = [i \in 0 .. n |-> f[i]]
    BY <1>1, <1>2 DEF Adds
  <2> QED BY <2>1, <2>2
<1>5. N = [i \in 0 .. n |->
             IF i = 0 THEN 0 ELSE N[i - 1] + Arrays(prints[i].item) + prints[i].kept]
  BY <1>4
<1> HIDE DEF N
<1> DEFINE T == {i \in Nat : i <= n => N[i] = f[i]}
<1>6. 0 \in T
  <2>1. 0 \in 0 .. n
    OBVIOUS
  <2>2. N[0] = 0 /\ f[0] = 0
    BY <1>4, <1>5, <2>1
  <2> QED BY <2>2
<1>7. ASSUME NEW i \in Nat, i \in T PROVE i + 1 \in T
  <2> SUFFICES ASSUME i + 1 <= n PROVE N[i + 1] = f[i + 1]
    OBVIOUS
  <2>1. i + 1 \in 0 .. n /\ i + 1 # 0 /\ (i + 1) - 1 = i /\ N[i] = f[i]
    BY <1>7
  <2>2. N[i + 1] = N[i] + Arrays(prints[i + 1].item) + prints[i + 1].kept
    BY <1>5, <2>1
  <2>3. f[i + 1] = f[i] + Arrays(prints[i + 1].item) + prints[i + 1].kept
    BY <1>4, <2>1
  <2> QED BY <2>1, <2>2, <2>3
<1>8. Nat \subseteq T
  <2> HIDE DEF T
  <2> QED BY <1>6, <1>7, Induction
<1>9. N[n] = f[n]
  BY <1>8
<1> QED BY <1>1, <1>2, <1>3, <1>9

\* What calls owe does not depend on what printing changes.
LEMMA DueStays ==
  ASSUME UNCHANGED node, NEW x, Total(prints', x), x = buffers' - Buffer(text')
  PROVE  Total(prints, buffers - Buffer(text))'
<1>1. PICK f : Adds(f, prints') /\ f[Len(prints')] = x
  BY DEF Total
<1>2. \A c : Due(c)' = Due(c)
  BY DEF Due, Arrays, IsObject
<1>3. Adds(f, prints)'
  BY <1>1, <1>2, Zenon DEF Adds
<1> QED BY <1>1, <1>3 DEF Total, Buffer

\* A text is a buffer or none.
LEMMA BufferIs == \A value : Buffer(value) \in Nat
  BY DEF Buffer

\* A text and a name are a number of buffers.
LEMMA BuffersOfIs == \A p, value, name : BuffersOf(p, value, name) \in Nat
  BY DEF BuffersOf, Buffer

\* The first call: its arrays.
LEMMA PrintBeginsDue == ASSUME CallsInv, BuffersInv, PrintBegins PROVE BuffersInv'
<1>1. UNCHANGED node /\ stage' = "print" /\ UNCHANGED text /\ stage = "idle"
  BY DEF PrintBegins, heap, Ready
<1>2. \E item : /\ \E f \in BOOLEAN : fmt' = f /\ prints' = <<PrintCall(item, 0, f)>>
                /\ buffers' = buffers + Arrays(item)
  BY DEF PrintBegins
<1>3. PICK item, f : /\ f \in BOOLEAN /\ prints' = <<PrintCall(item, 0, f)>>
                     /\ buffers' = buffers + Arrays(item)
  BY <1>2
<1>4. prints = <<>> /\ text = NULL /\ text' = NULL /\ buffers \in Int
  BY <1>1 DEF CallsInv, BuffersInv
<1>5. buffers = 0
  <2>1. Total(<<>>, buffers - Buffer(text))
    BY <1>4 DEF BuffersInv
  <2>2. buffers - Buffer(text) = 0
    BY <2>1, NoneDue
  <2> QED BY <1>4, <2>2 DEF Buffer
<1> DEFINE c == PrintCall(item, 0, f)
<1>6. Arrays(item) \in Nat
  BY DEF Arrays
<1>7. Due(c) = Arrays(item)
  <2>1. c.item = item /\ c.kept = 0
    BY DEF PrintCall
  <2> HIDE DEF c
  <2> QED BY <1>6, <2>1 DEF Due
<1> HIDE DEF c
<1>8. prints' = <<c>>
  BY <1>3 DEF c
<1>9. Total(prints', Arrays(item))
  <2> DEFINE g == [k \in 0 .. 1 |-> IF k = 0 THEN 0 ELSE Arrays(item)]
  <2>1. Len(prints') = 1 /\ prints'[1] = c
    BY <1>8
  <2>2. g \in [0 .. 1 -> Int] /\ g[0] = 0 /\ g[1] = Arrays(item)
    BY <1>6
  <2> HIDE DEF g
  <2>3. Adds(g, prints')
    <3>1. \A k \in 1 .. 1 : k = 1 /\ k - 1 = 0
      OBVIOUS
    <3> QED BY <1>6, <1>7, <2>1, <2>2, <3>1 DEF Adds
  <2> QED BY <2>1, <2>2, <2>3 DEF Total
<1>10. Arrays(item) = buffers' - Buffer(text') /\ buffers' \in Int
  BY <1>3, <1>4, <1>5, <1>6 DEF Buffer
<1>11. Total(prints, buffers - Buffer(text))'
  BY <1>1, <1>9, <1>10, DueStays
<1> QED BY <1>4, <1>10, <1>11 DEF BuffersInv

\* The innermost call is through with a child.
LEMMA GetsDue ==
  ASSUME fmt \in BOOLEAN, NEW s, Calls(s), NEW x, Total(s, x), NEW c, IsCall(c),
         NEW value, NEW name,
         value = NULL \/ value \in Nat, name = NULL \/ name \in Nat
  PROVE  Total(Append(s, Gets(c, value, name)), x + Due(c) + BuffersOf(c.item, value, name))
<1> DEFINE e == Gets(c, value, name)
           b == BuffersOf(c.item, value, name)
<1>1. IsCall(e) /\ e.item = c.item /\ e.kept = c.kept + b
  BY GetsRight
<1>2. b \in Nat
  BY BuffersOfIs
<1>3. Arrays(c.item) \in Nat /\ c.kept \in Nat
  BY DEF Arrays, IsCall
<1> HIDE DEF e, b
<1>4. Due(e) = Due(c) + b
  BY <1>1, <1>2, <1>3 DEF Due
<1>5. x \in Int /\ Total(Append(s, e), x + Due(e))
  BY <1>1, MoreDue
<1>6. x + Due(e) = x + Due(c) + b
  BY <1>2, <1>3, <1>4, <1>5 DEF Due
<1>7. Total(Append(s, e), x + Due(c) + b)
  BY <1>5, <1>6
<1> QED BY <1>7 DEF e, b

\* The buffers of the text and the name of a child are kept by the call.
LEMMA PrintValueDue == ASSUME CallsInv, BuffersInv, PrintValue PROVE BuffersInv'
<1>1. /\ fmt \in BOOLEAN /\ Calls(prints) /\ prints # <<>>
      /\ UNCHANGED node /\ UNCHANGED text
  BY DEF CallsInv, PrintValue, InLoop, PrintStep, heap
<1>2. text = NULL /\ Buffer(text) = 0 /\ Buffer(text') = 0 /\ buffers \in Int
  BY <1>1 DEF BuffersInv, Buffer
<1>3. PICK value \in {NULL} \cup {Chars(Printing.cptr)}, name \in NameOf(Printing.item) :
        /\ prints' = Append(Front(prints), Gets(Printing, value, name))
        /\ buffers' = buffers + BuffersOf(Printing.item, value, name)
  BY DEF PrintValue
<1>4. (value = NULL \/ value \in Nat) /\ (name = NULL \/ name \in Nat)
  BY <1>3, CharsIs, NamesAre
<1>5. Calls(Front(prints)) /\ IsCall(Printing)
  BY <1>1, OneLess DEF Printing
<1>6. Total(prints, buffers)
  <2>1. buffers - Buffer(text) = buffers
    BY <1>2
  <2> QED BY <2>1 DEF BuffersInv
<1>7. Total(Front(prints), buffers - Due(Printing))
  BY <1>1, <1>6, LessDue DEF Printing
<1> DEFINE b == BuffersOf(Printing.item, value, name)
           e == Gets(Printing, value, name)
           d == Due(Printing)
<1>8. Total(Append(Front(prints), e), buffers - d + d + b)
  BY <1>1, <1>4, <1>5, <1>7, GetsDue
<1>9. b \in Nat /\ d \in Nat
  BY <1>5, BuffersOfIs, DueIs
<1>10. prints' = Append(Front(prints), e) /\ buffers' = buffers + b
  BY <1>3
<1> HIDE DEF b, e, d
<1>11. buffers - d + d + b = buffers' - Buffer(text') /\ buffers' \in Int
  BY <1>2, <1>9, <1>10
<1>12. Total(prints', buffers' - Buffer(text'))
  BY <1>8, <1>10, <1>11
<1>13. Total(prints, buffers - Buffer(text))'
  BY <1>1, <1>12, DueStays
<1> QED BY <1>1, <1>2, <1>11, <1>13 DEF BuffersInv

\* A call within: its arrays.
LEMMA PrintCallsDue == ASSUME CallsInv, BuffersInv, PrintCalls PROVE BuffersInv'
<1>1. /\ fmt \in BOOLEAN /\ Calls(prints) /\ prints # <<>>
      /\ UNCHANGED node /\ UNCHANGED text
      /\ prints' = Append(prints, PrintCall(Printing.cptr, Printing.depth + 1, fmt))
      /\ buffers' = buffers + Arrays(Printing.cptr)
  BY DEF CallsInv, PrintCalls, InLoop, PrintStep, heap
<1>2. text = NULL /\ Buffer(text) = 0 /\ Buffer(text') = 0 /\ buffers \in Int
  BY <1>1 DEF BuffersInv, Buffer
<1>3. IsCall(Printing)
  BY <1>1, OneLess DEF Printing
<1>4. Printing.depth + 1 \in Nat
  BY <1>3 DEF IsCall
<1> DEFINE c == PrintCall(Printing.cptr, Printing.depth + 1, fmt)
           a == Arrays(Printing.cptr)
<1>5. IsCall(c) /\ c.item = Printing.cptr /\ c.kept = 0
  BY <1>1, <1>4, BeginsRight
<1>6. a \in Nat
  BY DEF Arrays
<1>7. prints' = Append(prints, c) /\ buffers' = buffers + a
  BY <1>1
<1> HIDE DEF c
<1>8. Due(c) = a
  BY <1>5, <1>6 DEF Due
<1> HIDE DEF a
<1>9. Total(prints, buffers)
  <2>1. buffers - Buffer(text) = buffers
    BY <1>2
  <2> QED BY <2>1 DEF BuffersInv
<1>10. Total(Append(prints, c), buffers + Due(c))
  BY <1>1, <1>5, <1>9, MoreDue
<1>11. buffers + Due(c) = buffers' - Buffer(text') /\ buffers' \in Int
  BY <1>2, <1>6, <1>7, <1>8
<1>12. Total(prints', buffers' - Buffer(text'))
  BY <1>7, <1>10, <1>11
<1>13. Total(prints, buffers - Buffer(text))'
  BY <1>1, <1>12, DueStays
<1> QED BY <1>1, <1>2, <1>11, <1>13 DEF BuffersInv

\* A call that returns has its own buffers freed; its text is kept by the caller, or
\* returned.
LEMMA PrintReturnsDue == ASSUME CallsInv, BuffersInv, PrintReturns PROVE BuffersInv'
<1>1. /\ fmt \in BOOLEAN /\ Calls(prints) /\ prints # <<>> /\ stage = "print" /\ stage' = "print"
      /\ UNCHANGED node
  BY DEF CallsInv, PrintReturns, PrintStep, heap
<1>2. text = NULL /\ Buffer(text) = 0 /\ buffers \in Int
  BY <1>1 DEF BuffersInv, Buffer
<1>3. /\ Calls(Front(prints)) /\ IsCall(Printing) /\ Printing = Last(prints)
      /\ Len(prints) \in Nat \ {0} /\ Len(Front(prints)) = Len(prints) - 1
      /\ (Len(prints) # 1 =>
             Front(prints) # <<>> /\ Last(Front(prints)) = prints[Len(prints) - 1])
  BY <1>1, OneLess DEF Printing
<1> DEFINE d == Due(Printing)
<1>4. d \in Nat /\ Frees(Printing) = d
  BY <1>3, DueIs DEF Due, Frees
<1>5. Total(Front(prints), buffers - d)
  <2>1. buffers - Buffer(text) = buffers
    BY <1>2
  <2>2. Total(prints, buffers)
    BY <2>1 DEF BuffersInv
  <2> QED BY <1>1, <1>3, <2>2, LessDue
<1> HIDE DEF d
<1>6. CASE Len(prints) = 1
  <2>1. \E value : /\ prints' = <<>> /\ text' = value
                   /\ buffers' = buffers + Buffer(value) - Frees(Printing)
    BY <1>6 DEF PrintReturns
  <2>2. prints' = <<>> /\ buffers' = buffers + Buffer(text') - d
    BY <1>4, <2>1
  <2>3. buffers - d = 0
    <3>1. Len(Front(prints)) = 0
      BY <1>3, <1>6
    <3>2. Total(<<>>, buffers - d)
      BY <1>5, <3>1, EmptySeq DEF Total, Adds
    <3> QED BY <3>2, NoneDue
  <2>4. buffers' \in Int /\ buffers' - Buffer(text') = 0
    <3>1. Buffer(text') \in Nat
      BY BufferIs
    <3> QED BY <1>2, <1>4, <2>2, <2>3, <3>1
  <2>5. Total(prints', buffers' - Buffer(text'))
    BY <2>2, <2>4, NoneDue
  <2>6. Total(prints, buffers - Buffer(text))'
    BY <1>1, <2>5, DueStays
  <2> QED BY <1>1, <2>2, <2>4, <2>6 DEF BuffersInv
<1>7. CASE Len(prints) # 1
  <2> DEFINE caller == prints[Len(prints) - 1]
             rest == Front(Front(prints))
             x == Due(caller)
  <2>1. Calls(rest) /\ IsCall(caller) /\ caller = Last(Front(prints)) /\ Front(prints) # <<>>
    BY <1>3, <1>7, OneLess
  <2>2. \E value \in {NULL} \cup (IF Printing.fail THEN {} ELSE {Composed(Printing) - 1}) :
          \E name \in NameOf(caller.item) :
             /\ prints' = Append(rest, Gets(caller, value, name))
             /\ buffers' = buffers + BuffersOf(caller.item, value, name) - Frees(Printing)
    BY <1>7 DEF PrintReturns
  <2>3. text' = NULL
    BY <1>2, <1>7 DEF PrintReturns
  <2>4. Total(rest, buffers - d - x)
    BY <1>3, <1>5, <2>1, LessDue
  <2>5. x \in Nat
    BY <2>1, DueIs
  <2> HIDE DEF caller, rest
  <2>6. PICK value \in {NULL} \cup (IF Printing.fail THEN {} ELSE {Composed(Printing) - 1}) :
          \E name \in NameOf(caller.item) :
             /\ prints' = Append(rest, Gets(caller, value, name))
             /\ buffers' = buffers + BuffersOf(caller.item, value, name) - Frees(Printing)
    BY <2>2
  <2>7. PICK name \in NameOf(caller.item) :
             /\ prints' = Append(rest, Gets(caller, value, name))
             /\ buffers' = buffers + BuffersOf(caller.item, value, name) - Frees(Printing)
    BY <2>6
  <2>8. value = NULL \/ value \in Nat
    BY <1>1, <1>3, <2>6, FitsRight
  <2>9. name = NULL \/ name \in Nat
    BY <2>7, NamesAre
  <2> DEFINE b == BuffersOf(caller.item, value, name)
             e == Gets(caller, value, name)
             y == buffers - d - x
  <2>10. Total(Append(rest, e), y + x + b)
    <3> HIDE DEF y
    <3>1. Total(rest, y)
      BY <2>4 DEF y
    <3> QED BY <1>1, <2>1, <2>8, <2>9, <3>1, GetsDue
  <2>11. b \in Nat
    BY BuffersOfIs
  <2>12. prints' = Append(rest, e) /\ buffers' = buffers + b - d
    BY <1>4, <2>7
  <2> HIDE DEF b, e, x
  <2>13. y + x + b = buffers' - Buffer(text') /\ buffers' \in Int
    <3>1. Buffer(text') = 0
      BY <2>3 DEF Buffer
    <3> QED BY <1>2, <1>4, <2>5, <2>11, <2>12, <3>1
  <2> HIDE DEF y
  <2>14. Total(prints', buffers' - Buffer(text'))
    BY <2>10, <2>12, <2>13
  <2>15. Total(prints, buffers - Buffer(text))'
    BY <1>1, <2>14, DueStays
  <2> QED BY <2>3, <2>13, <2>15 DEF BuffersInv
<1> QED BY <1>6, <1>7

\* The text is freed.
LEMMA PrintEndsDue == ASSUME CallsInv, BuffersInv, PrintEnds PROVE BuffersInv'
<1>1. /\ prints = <<>> /\ prints' = <<>> /\ UNCHANGED node /\ text' = NULL
      /\ buffers' = buffers - Buffer(text) /\ buffers \in Int
  BY DEF BuffersInv, PrintEnds, PrintStep, heap
<1>2. buffers - Buffer(text) = 0
  <2>1. Total(<<>>, buffers - Buffer(text))
    BY <1>1 DEF BuffersInv
  <2> QED BY <2>1, NoneDue
<1>3. buffers' \in Int /\ buffers' - Buffer(text') = 0
  BY <1>1, <1>2 DEF Buffer
<1>4. Total(prints', buffers' - Buffer(text'))
  BY <1>1, <1>3, NoneDue
<1>5. Total(prints, buffers - Buffer(text))'
  BY <1>1, <1>4, DueStays
<1> QED BY <1>1, <1>3, <1>5 DEF BuffersInv

\* Nothing else has buffers.
LEMMA NextDue ==
  CallsInv /\ BuffersInv /\ ((Next /\ UNCHANGED textVars) \/ UNCHANGED <<vars, textVars>>) =>
    BuffersInv'
<1>1. (\A x : Total(<<>>, x) <=> x = 0)'
  <2>1. \A x : Total(<<>>, x) <=> x = 0
    BY NoneDue
  <2> QED BY <2>1, PTL
<1> SUFFICES ASSUME CallsInv, BuffersInv,
                    (Next /\ UNCHANGED textVars) \/ UNCHANGED <<vars, textVars>>
             PROVE  BuffersInv'
  OBVIOUS
<1>2. CASE Next /\ UNCHANGED textVars
  <2>1. stage # "print"
    BY <1>2, OnlyPrinterPrints
  <2>2. prints = <<>> /\ text = NULL /\ UNCHANGED <<prints, fmt, text, buffers>> /\ buffers \in Int
    BY <1>2, <2>1 DEF CallsInv, BuffersInv, textVars
  <2>3. buffers - Buffer(text) = 0
    BY <2>2, NoneDue DEF BuffersInv
  <2>4. Total(prints, buffers - Buffer(text))'
    BY <1>1, <2>2, <2>3 DEF Buffer
  <2> QED BY <2>2, <2>4 DEF BuffersInv
<1>3. CASE UNCHANGED <<vars, textVars>>
  <2>1. UNCHANGED <<node, stage, prints, text, buffers>>
    BY <1>3 DEF vars, heap, textVars
  <2>2. Total(prints', buffers' - Buffer(text'))
    BY <2>1 DEF BuffersInv
  <2>3. Total(prints, buffers - Buffer(text))'
    BY <2>1, <2>2, DueStays
  <2> QED BY <2>1, <2>3 DEF BuffersInv
<1> QED BY <1>2, <1>3

-----------------------------------------------------------------------------
(* The trees                                                               *)

\* Printing goes on between idle and idle.
LEMMA PrinterIs ==
  ASSUME Printer
  PROVE  /\ stage \in {"idle", "print"} /\ stage' \in {"idle", "print"}
         /\ UNCHANGED <<heap, object, owned, parser, copier, said>>
  BY DEF Printer, PrintBegins, PrintValue, PrintCalls, PrintReturns, PrintEnds, PrintStep, InLoop,
     Ready

\* And so does every step of the printer.
LEMMA TreeTextNext ==
  TreeInv /\ [TextNext]_<<vars, textVars>> => TreeInv' /\ OwnKept
<1> SUFFICES ASSUME TreeInv, [TextNext]_<<vars, textVars>> PROVE TreeInv' /\ OwnKept
  OBVIOUS
<1>1. CASE Printer
  BY <1>1, PrinterIs, PrinterTree
<1>2. CASE Next \/ UNCHANGED vars
  BY <1>2, TreeNext
<1> QED BY <1>1, <1>2 DEF TextNext

-----------------------------------------------------------------------------
(* The theorems                                                            *)

\* Nothing done to the object, not even to delete it, and no copying or printing, changes
\* what the caller holds: it is in nodes that nothing else has (json.cpp:97-107,
\* cJSON.cpp:663-735).
THEOREM OwnCorrect == TextSpec => CopyIsOwn
<1>1. TreeInv /\ [TextNext]_<<vars, textVars>> => TreeInv'
  BY TreeTextNext
<1>2. TreeInv /\ [TextNext]_<<vars, textVars>> =>
        [owned # NULL /\ owned' = owned => \A n \in Tree(owned) : node'[n] = node[n]]_vars
  BY TreeTextNext, OwnIsTree
<1>3. TextInit => TreeInv
  BY TreeInit DEF TextInit
<1> QED BY <1>1, <1>2, <1>3, PTL DEF TextSpec, CopyIsOwn

\* A text fits the buffer that was made for it, for documents of any size and depth and
\* values of any length, with and without line breaks: the sum that print_array and
\* print_object ask of malloc against what they write (cJSON.cpp:466, 601-605 and 484-496,
\* 628-645).
THEOREM TextCorrect == TextSpec => []TextFits
<1>1. CallsInv /\ [TextNext]_<<vars, textVars>> => CallsInv'
  BY NextInv
<1>2. CallsInv => TextFits
  <2> SUFFICES ASSUME CallsInv, prints # <<>>, ~Printing.fail
               PROVE  Composed(Printing) <= Malloced(Printing)
    BY DEF TextFits
  <2>1. IsCall(Printing) /\ fmt \in BOOLEAN
    BY OneLess DEF CallsInv, Printing
  <2> QED BY <2>1, FitsRight
<1> QED BY <1>1, <1>2, InitInv, PTL DEF TextSpec

\* However deep in parsing, copying or printing malloc refuses, all that is allocated is
\* what somebody still has, and no cursor is left to what was freed (cJSON.cpp:330-331,
\* 466-480, 607-625, 714-730, json.cpp:97-107).
THEOREM LeaksCorrect == TextSpec => []NoMemoryLeaks
<1> DEFINE IInv == CallsInv /\ BuffersInv /\ TreeInv
<1>1. TextInit => IInv
  <2> SUFFICES ASSUME TextInit PROVE IInv
    OBVIOUS
  <2>1. CallsInv /\ TreeInv
    BY InitInv, TreeInit DEF TextInit
  <2>2. prints = <<>> /\ text = NULL /\ buffers = 0
    BY DEF TextInit
  <2>3. Total(prints, buffers - Buffer(text))
    BY <2>2, NoneDue DEF Buffer
  <2> QED BY <2>1, <2>2, <2>3 DEF BuffersInv
<1>2. IInv /\ [TextNext]_<<vars, textVars>> => IInv'
  <2> SUFFICES ASSUME CallsInv, BuffersInv, TreeInv, [TextNext]_<<vars, textVars>>
               PROVE  CallsInv' /\ BuffersInv' /\ TreeInv'
    OBVIOUS
  <2>1. TreeInv'
    BY TreeTextNext
  <2>2. CallsInv'
    BY NextInv
  <2>3. BuffersInv'
    BY PrintBeginsDue, PrintValueDue, PrintCallsDue, PrintReturnsDue, PrintEndsDue, NextDue
       DEF TextNext, Printer
  <2> QED BY <2>1, <2>2, <2>3
<1>3. IInv => NoMemoryLeaks
  <2> SUFFICES ASSUME CallsInv, BuffersInv, TreeInv PROVE NoMemoryLeaks
    OBVIOUS
  <2>1. NoNodeLeaks
    BY TreeLeaks
  <2>2. Owed(Len(prints)) = buffers - Buffer(text)
    BY OwedIs DEF CallsInv, BuffersInv
  <2>3. Buffer(text) \in Nat /\ buffers \in Int
    BY BufferIs DEF BuffersInv
  <2> DEFINE o == Owed(Len(prints))
  <2>4. o = buffers - Buffer(text)
    BY <2>2
  <2> HIDE DEF o
  <2>5. buffers = Buffer(text) + o
    BY <2>3, <2>4
  <2> QED BY <2>1, <2>5 DEF NoMemoryLeaks, o
<1> HIDE DEF IInv
<1> QED BY <1>1, <1>2, <1>3, PTL DEF TextSpec

\* Every copy is made of the same values in the same order, however large the document and
\* however far duplication came before it was refused memory for another (cJSON.cpp:714-730).
THEOREM CopyCorrect == TextSpec => []CopyIsFaithful
<1> DEFINE IInv == TreeInv /\ Once /\ CopyInv
<1>1. TextInit => IInv
  BY TreeInit, OnceInit DEF TextInit, Init, CopyInv
<1>2. IInv /\ [TextNext]_<<vars, textVars>> => IInv'
  <2> SUFFICES ASSUME TreeInv, Once, CopyInv, [TextNext]_<<vars, textVars>>
               PROVE  TreeInv' /\ Once' /\ CopyInv'
    OBVIOUS
  <2>1. TreeInv'
    BY TreeTextNext
  <2>2. CASE Printer
    <3>1. /\ stage \in {"idle", "print"}
          /\ UNCHANGED <<heap, object, owned, parser, copier>>
      BY <2>2, PrinterIs
    <3>2. UNCHANGED <<node, live, root, owned, top, copies>>
      BY <3>1 DEF heap, object, parser, copier
    <3>3. Once'
      BY <3>2, OnceLess DEF SamePointers, Held
    <3>4. copies = <<>>
      BY <3>1, WhileIdle
    <3> QED BY <2>1, <3>2, <3>3, <3>4 DEF CopyInv
  <2>3. CASE Next \/ UNCHANGED vars
    BY <2>1, <2>3, OnceNext, CopyInvNext
  <2> QED BY <2>1, <2>2, <2>3 DEF TextNext
<1>3. IInv => CopyIsFaithful
  BY CopyFaithful
<1> HIDE DEF IInv
<1> QED BY <1>1, <1>2, <1>3, PTL DEF TextSpec

\* A member is read as the first of its name in the text, or as it was changed since through
\* the root; no change through a cursor, and none of the copy or its original, shows there
\* (json.cpp:326-342, cJSON.cpp:663).
THEOREM ReadsCorrect == TextSpec => []ReadsFirstMember
<1> DEFINE IInv == TreeInv /\ Once /\ CopyInv /\ ReadInv
<1>1. TextInit => IInv
  BY TreeInit, OnceInit, ReadInit DEF TextInit, Init, CopyInv
<1>2. IInv /\ [TextNext]_<<vars, textVars>> => IInv'
  <2> SUFFICES ASSUME TreeInv, Once, CopyInv, ReadInv, [TextNext]_<<vars, textVars>>
               PROVE  TreeInv' /\ Once' /\ CopyInv' /\ ReadInv'
    OBVIOUS
  <2>1. TreeInv'
    BY TreeTextNext
  <2>2. CASE Printer
    <3>1. /\ stage \in {"idle", "print"} /\ stage' \in {"idle", "print"}
          /\ UNCHANGED <<heap, object, owned, parser, copier, said>>
      BY <2>2, PrinterIs
    <3>2. UNCHANGED <<node, live, root, owned, top, copies, said>>
      BY <3>1 DEF heap, object, parser, copier
    <3>3. Once'
      BY <3>2, OnceLess DEF SamePointers, Held
    <3>4. copies = <<>> /\ top = NULL
      BY <3>1, WhileIdle
    <3>5. ReadInv'
      BY <3>1, <3>2, <3>4, IdleRead
    <3> QED BY <2>1, <3>2, <3>3, <3>4, <3>5 DEF CopyInv
  <2>3. CASE Next \/ UNCHANGED vars
    BY <2>1, <2>3, OnceNext, CopyInvNext, ReadNext
  <2> QED BY <2>1, <2>2, <2>3 DEF TextNext
<1>3. IInv => ReadsFirstMember
  BY ReadsFirst
<1> HIDE DEF IInv
<1> QED BY <1>1, <1>2, <1>3, PTL DEF TextSpec
=============================================================================
