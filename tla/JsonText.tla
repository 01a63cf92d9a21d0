------------------------------ MODULE JsonText ------------------------------
(***************************************************************************)
(* The document of LibJson made into text (cJSON.cpp): print_value with    *)
(* print_array and print_object, which have each child printed, keep what  *)
(* that returns, and compose their own text in a buffer whose size they    *)
(* have added up.  malloc may refuse any buffer, and then all the others   *)
(* have to be given back.                                                  *)
(*                                                                         *)
(* Of a text only the length is kept.  The buffered variants are left out: *)
(* Lib_Json prints without.                                                *)
(***************************************************************************)
EXTENDS LibJson

CONSTANT Long    \* characters of a name, a string or a number

ASSUME TextAssumption == Long \in Nat

VARIABLES
  prints,    \* the calls of print_array and print_object, outermost first
  fmt,       \* with line breaks and tabs
  text,      \* what cJSON_Print has returned: the length of a text, or NULL
  buffers    \* how many buffers are allocated

textVars == <<prints, fmt, text, buffers>>

TextInit == Init /\ prints = <<>> /\ fmt = FALSE /\ text = NULL /\ buffers = 0

-----------------------------------------------------------------------------
\* The line breaks and tabs there are.
Formatted(f, chars) == IF f THEN chars ELSE 0

IsObject(n) == node[n].type = "object"
IsContainer(n) == node[n].type \in {"array", "object"}

\* A call: len is what it will ask of malloc, so far; of the children it is through with, k in
\* number, chars are the characters of their texts and names, and kept the buffers of these.
PrintCall(item, depth, f) ==
  [item |-> item, depth |-> depth, cptr |-> node[item].child,
   len |-> IF IsObject(item) THEN 7 + Formatted(f, depth + 1) ELSE 5,
   k |-> 0, chars |-> 0, kept |-> 0, fail |-> FALSE]
Printing == Last(prints)

\* The text of a value without children, and of the name of a child of p: NULL if there was
\* no memory, and nothing in an array.
Chars(n) ==
  CASE node[n].type \in {"null", "true"} -> 4
    [] node[n].type = "false" -> 5
    [] node[n].type = "number" -> Long
    [] OTHER -> Long + 2
NameOf(p) == IF IsObject(p) THEN {Long + 2, NULL} ELSE {0}

Buffer(value) == IF value = NULL THEN 0 ELSE 1
BuffersOf(p, value, name) == Buffer(value) + IF IsObject(p) THEN Buffer(name) ELSE 0

\* The arrays for entries and names; of no children none are made.
Arrays(n) == IF node[n].child = NULL THEN 0 ELSE IF IsObject(n) THEN 2 ELSE 1

FaultyFrees(c) == Arrays(c.item)
Frees(c) == Arrays(c.item) + c.kept

\* What a child with its text and name adds to the length.
FaultyCounted(c, value, name) ==
  value + name + Formatted(fmt, IF IsObject(c.item) THEN c.depth + 3 ELSE 1)
Counted(c, value, name) ==
  value + name + 2 + Formatted(fmt, IF IsObject(c.item) THEN c.depth + 3 ELSE 1)

Gets(c, value, name) ==
  LET made == NULL \notin {value, name}
  IN [c EXCEPT !.cptr = node[c.cptr].next, !.k = @ + 1,
               !.kept = @ + BuffersOf(c.item, value, name),
               !.len = IF made THEN @ + Counted(c, value, name) ELSE @,
               !.chars = IF made THEN @ + value + name ELSE @,
               !.fail = @ \/ ~made]

\* What is asked of malloc in the end, and what is then written there, the final zero
\* included.
Malloced(c) ==
  IF c.k > 0 THEN c.len ELSE 3 + IF IsObject(c.item) THEN Formatted(fmt, c.depth + 1) ELSE 0

Composed(c) ==
  CASE IsObject(c.item) /\ c.k > 0 ->
         2 + c.chars + 2 * c.k + Formatted(fmt, 1 + c.k * (c.depth + 3) + c.depth)
    [] IsObject(c.item) /\ c.k = 0 -> 3 + Formatted(fmt, IF c.depth > 1 THEN c.depth ELSE 1)
    [] ~IsObject(c.item) /\ c.k > 0 -> 2 + c.chars + c.k + Formatted(fmt, c.k - 1)
    [] ~IsObject(c.item) /\ c.k = 0 -> 3

-----------------------------------------------------------------------------
\* The loop over the children; that of print_array stops when one has failed.
InLoop ==
  /\ stage = "print" /\ prints # <<>> /\ Printing.cptr # NULL
  /\ IsObject(Printing.item) \/ ~Printing.fail

\* dumpObject, dumpArray, saveFile, with memory for the first arrays: nothing comes of
\* it without.  A single value is a single buffer, and a string whose text putValueString
\* has lost is not printed, as a bound.
PrintBegins ==
  /\ Ready
  /\ \A n \in live : node[n].type = "string" => node[n].valuestring # NULL
  /\ \E item \in {root, child, array} \ {NULL} :
       /\ IsContainer(item)
       /\ \E f \in BOOLEAN : fmt' = f /\ prints' = <<PrintCall(item, 0, f)>>
       /\ buffers' = buffers + Arrays(item)
  /\ stage' = "print"
  /\ UNCHANGED <<heap, object, owned, parser, copier, said, text>>

PrintStep == UNCHANGED <<heap, object, owned, parser, copier, said, fmt>>

\* A child that is no array or object, or for whose arrays there is no memory.
PrintValue ==
  /\ InLoop
  /\ \E value \in {NULL} \cup IF IsContainer(Printing.cptr) THEN {} ELSE {Chars(Printing.cptr)},
        name \in NameOf(Printing.item) :
       /\ IsContainer(Printing.cptr) => Arrays(Printing.cptr) > 0
       /\ prints' = Append(Front(prints), Gets(Printing, value, name))
       /\ buffers' = buffers + BuffersOf(Printing.item, value, name)
  /\ UNCHANGED <<stage, text>>
  /\ PrintStep

PrintCalls ==
  /\ InLoop /\ IsContainer(Printing.cptr)
  /\ prints' = Append(prints, PrintCall(Printing.cptr, Printing.depth + 1, fmt))
  /\ buffers' = buffers + Arrays(Printing.cptr)
  /\ UNCHANGED <<stage, text>>
  /\ PrintStep

\* The buffer is made, if nothing has failed, and filled; the rest is freed.
PrintReturns ==
  /\ stage = "print" /\ prints # <<>> /\ ~InLoop
  /\ \E value \in {NULL} \cup IF Printing.fail THEN {} ELSE {Composed(Printing) - 1} :
       IF Len(prints) = 1
       THEN /\ prints' = <<>> /\ text' = value
            /\ buffers' = buffers + Buffer(value) - Frees(Printing)
       ELSE LET caller == prints[Len(prints) - 1]
            IN /\ \E name \in NameOf(caller.item) :
                    /\ prints' = Append(Front(Front(prints)), Gets(caller, value, name))
                    /\ buffers' = buffers + BuffersOf(caller.item, value, name) - Frees(Printing)
               /\ UNCHANGED text
  /\ UNCHANGED stage
  /\ PrintStep

\* printf or fprintf, and free.
PrintEnds ==
  /\ stage = "print" /\ prints = <<>>
  /\ text' = NULL /\ buffers' = buffers - Buffer(text)
  /\ stage' = "idle"
  /\ UNCHANGED prints
  /\ PrintStep

Printer == PrintBegins \/ PrintValue \/ PrintCalls \/ PrintReturns \/ PrintEnds
TextNext == Printer \/ (Next /\ UNCHANGED textVars)
TextSpec == TextInit /\ [][TextNext]_<<vars, textVars>>

-----------------------------------------------------------------------------
\* The buffers of the outermost n calls.
Owed(n) ==
  LET Owes[i \in 0 .. n] ==
        IF i = 0 THEN 0 ELSE Owes[i - 1] + Arrays(prints[i].item) + prints[i].kept
  IN Owes[n]

\* Nodes and buffers are accounted for: what is allocated is what somebody still
\* has, however deep in parsing, copying or printing a malloc was refused
\* (cJSON.cpp:330-331, 466-480, 607-625, 714-730).
NoMemoryLeaks ==
  /\ NoNodeLeaks
  /\ buffers = Buffer(text) + Owed(Len(prints))

\* A text fits the buffer that was made for it, with its brackets, commas, tabs and
\* line breaks at any depth, which are counted in one loop and written in another
\* (cJSON.cpp:466, 601-605 and 484-496, 628-645).
TextFits ==
  stage = "print" /\ prints # <<>> /\ ~InLoop /\ ~Printing.fail =>
    Composed(Printing) <= Malloced(Printing)
=============================================================================
