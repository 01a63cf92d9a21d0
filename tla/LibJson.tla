------------------------------- MODULE LibJson -------------------------------
(***************************************************************************)
(* The tree that a request is parsed into, and the object that reads it.   *)
(*                                                                         *)
(* cJSON.cpp keeps a document as nodes linked by child and next; parse and *)
(* duplication build it node by node, any of which malloc may refuse, and  *)
(* on a failure give back what they have.  Lib_Json (json.cpp) keeps one   *)
(* document and two cursors into it, looks members up, changes texts, and  *)
(* hands out copies, of which the caller holds one at a time.              *)
(*                                                                         *)
(* Characters are left out: the parser finds a name, a value, a bracket or *)
(* a comma, or something it does not want, and what it finds is chosen as  *)
(* it goes.  What follows the first complete value is never looked at.     *)
(***************************************************************************)
EXTENDS Naturals, FiniteSets, Sequences, SequencesExt

CONSTANTS
  Letters,     \* what names are, but for upper and lower case
  Texts,       \* values of strings
  Words,       \* types of the values without content: null, false, true, number
  DocSize,     \* bound of the nodes of a parsed document
  NULL

Nodes == 1 .. 2 * DocSize     \* a document and a copy
Names == Letters \X {"lower", "upper"}
Types == Words \cup {"string", "array", "object"}

ASSUME JsonAssumption ==
  /\ DocSize \in Nat \ {0}
  /\ Words \subseteq {"null", "false", "true", "number"}
  /\ NULL \notin Nodes /\ NULL \notin Names /\ NULL \notin Texts
  /\ NULL \notin (Types \cup {"false", "junk"}) \X (Texts \cup {NULL})

VARIABLES
  node,        \* the heap: each cJSON
  live,        \* those that are allocated
  alive,       \* there is a Lib_Json
  root, child, array,
  owned,       \* the copy the caller holds
  stage,       \* where parser or duplication is, "idle" when neither runs
  top,         \* the first node of what is being parsed
  open,        \* the arrays and objects the parser is in: the item, its last child
  copies,      \* cJSON_Duplicate's calls: item, newitem, cptr, nptr
  target,      \* what the copy is for
  said         \* what the text, or a change since, said of each member of the root

heap == <<node, live>>
cursors == <<child, array>>
object == <<alive, root, cursors>>
parser == <<top, open>>
copier == <<copies, target>>
vars == <<heap, object, owned, stage, parser, copier, said>>

Junk == [type |-> "junk", string |-> NULL, valuestring |-> NULL,
         child |-> NULL, next |-> NULL]
Blank == [Junk EXCEPT !.type = "false"]

Init ==
  /\ node = [n \in Nodes |-> Junk] /\ live = {}
  /\ alive = FALSE /\ root = NULL /\ child = NULL /\ array = NULL /\ owned = NULL
  /\ stage = "idle" /\ top = NULL /\ open = <<>> /\ copies = <<>> /\ target = NULL
  /\ said = [l \in Letters |-> NULL]

-----------------------------------------------------------------------------
(* The heap.  The definitions named Faulty... are slips for the properties  *)
(* to find.                                                                 *)

Linked(S) == {node[n].child : n \in S} \cup {node[n].next : n \in S}
Below(n) ==
  LET Near[k \in Nat] == IF k = 0 THEN {n} \ {NULL}
                         ELSE LET S == Near[k - 1] IN S \cup (Linked(S) \ {NULL})
  IN Near[2 * DocSize]
Tree(n) == {n} \cup Below(node[n].child)

\* The nodes from n along next, in order.
Chain(n) ==
  LET After[k \in Nat] ==
        IF k = 0 THEN n
        ELSE LET m == After[k - 1] IN IF m = NULL THEN NULL ELSE node[m].next
  IN [k \in 1 .. Cardinality({i \in 1 .. 2 * DocSize : After[i - 1] # NULL}) |-> After[k - 1]]
Children(p) == Chain(node[p].child)

\* cJSON_New_Item
Allocates(q) ==
  /\ q \in Nodes \ live /\ \A m \in Nodes \ live : q <= m
  /\ live' = live \cup {q}
Cleared(q) == [node EXCEPT ![q] = Blank]

\* cJSON_Delete of each of them, with what hangs on it.
Deletes(heads) ==
  LET gone == UNION {Below(n) : n \in heads}
  IN /\ live' = live \ gone
     /\ node' = [n \in Nodes |-> IF n \in gone THEN Junk ELSE node[n]]

-----------------------------------------------------------------------------
(* cJSON_Parse: parse_value and, in it, parse_array and parse_object        *)

Within == Last(open)
Current == IF open = <<>> THEN top ELSE Within.child
Descends(q) == open' = [open EXCEPT ![Len(open)].child = q]
Room == Cardinality(Below(top)) < DocSize

\* Each object has a name first, and only the first of a name counts.
Says(value) ==
  LET letter == node[Current].string[1]
  IN said' = IF Len(open) = 1 /\ node[top].type = "object" /\ said[letter] = NULL
             THEN [said EXCEPT ![letter] = value] ELSE said

\* Lib_Json::getObject(buffer, size), or (path).  As a bound, the caller has first
\* freed the copy it held, or made an object of it.
ParseBegins ==
  /\ stage = "idle" /\ ~alive /\ owned = NULL
  /\ \E q \in Nodes : Allocates(q) /\ top' = q /\ node' = Cleared(q)
  /\ alive' = TRUE /\ stage' = "value"
  /\ UNCHANGED <<root, cursors, owned, open, copier, said>>

ParseValue ==
  /\ stage = "value"
  /\ \E type \in Words \cup {"string"}, t \in Texts \cup {NULL} :
       /\ type = "string" <=> t # NULL
       /\ node' = [node EXCEPT ![Current].type = type, ![Current].valuestring = t]
       /\ Says(<<type, t>>)
  /\ stage' = "more"
  /\ UNCHANGED <<live, object, owned, parser, copier>>

ParseOpens ==
  /\ stage = "value"
  /\ \E type \in {"array", "object"} :
       /\ node' = [node EXCEPT ![Current].type = type]
       /\ Says(<<type, NULL>>)
  /\ open' = Append(open, [item |-> Current, child |-> NULL])
  /\ stage' = "open"
  /\ UNCHANGED <<live, object, owned, top, copier>>

\* The first child hangs on its item, the others on the one before.
Links(q) ==
  IF Within.child = NULL
  THEN [Cleared(q) EXCEPT ![Within.item].child = q]
  ELSE [Cleared(q) EXCEPT ![Within.child].next = q]

ParseNext ==
  /\ \/ stage = "open"
     \/ stage = "more" /\ open # <<>>
  /\ Room
  /\ \E q \in Nodes : Allocates(q) /\ node' = Links(q) /\ Descends(q)
  /\ stage' = IF node[Within.item].type = "object" THEN "name" ELSE "value"
  /\ UNCHANGED <<object, owned, top, copier, said>>

\* The text of the name is made by parse_string, and then moved.
ParseName ==
  /\ stage = "name"
  /\ \E name \in Names :
       node' = [node EXCEPT ![Current].type = "string", ![Current].string = name]
  /\ stage' = "value"
  /\ UNCHANGED <<live, object, owned, parser, copier, said>>

ParseCloses ==
  /\ stage \in {"open", "more"} /\ open # <<>>
  /\ open' = Front(open)
  /\ stage' = "more"
  /\ UNCHANGED <<heap, object, owned, top, copier, said>>

ParseEnds ==
  /\ stage = "more" /\ open = <<>>
  /\ root' = top /\ top' = NULL
  /\ stage' = "idle"
  /\ UNCHANGED <<heap, alive, cursors, owned, open, copier, said>>

\* Not what is wanted here, or no memory: all calls return, and the object goes too.
ParseFails ==
  /\ \/ stage \in {"value", "open", "name"}
     \/ stage = "more" /\ open # <<>>
  /\ Deletes({top})
  /\ top' = NULL /\ open' = <<>> /\ alive' = FALSE /\ stage' = "idle"
  /\ said' = [l \in Letters |-> NULL]
  /\ UNCHANGED <<root, cursors, owned, copier>>

-----------------------------------------------------------------------------
(* Looking up                                                               *)

FaultySame(a, b) == a = b
Same(a, b) == a # NULL /\ a[1] = b[1]

\* cJSON_GetObjectItem: the first of that name.
GetObjectItem(p, name) ==
  LET i == SelectInSeq(Children(p), LAMBDA m : Same(node[m].string, name))
  IN IF i = 0 THEN NULL ELSE Children(p)[i]

\* getValueString, getValueArray, getValueObject: of the first one only.
GetItem(p, name, type) ==
  LET m == GetObjectItem(p, name)
  IN IF m # NULL /\ node[m].type = type THEN m ELSE NULL

Read(p, name) ==
  LET m == GetObjectItem(p, name)
  IN IF m = NULL THEN NULL ELSE <<node[m].type, node[m].valuestring>>

\* fromChild: the cursor if it is set, else the root.
From(cursor, fromChild) == IF fromChild /\ cursor # NULL THEN cursor ELSE root

-----------------------------------------------------------------------------
(* Lib_Json.  What finds nothing changes nothing.                           *)

Ready == stage = "idle" /\ alive

LoadChildObject ==
  /\ Ready
  /\ \E name \in Names, fromChild \in BOOLEAN :
       LET p == From(child, fromChild)
       IN /\ node[p].type = "object"
          /\ child' = GetItem(p, name, "object") /\ child' # NULL
  /\ UNCHANGED <<heap, alive, root, array, owned, stage, parser, copier, said>>

LoadChildArray ==
  /\ Ready
  /\ \E name \in Names, fromChild \in BOOLEAN :
       LET p == From(child, fromChild)
       IN /\ node[p].type = "object"
          /\ array' = GetItem(p, name, "array") /\ array' # NULL
  /\ UNCHANGED <<heap, alive, root, child, owned, stage, parser, copier, said>>

\* Whatever the element is.
LoadChildObjectFromChildArrayByIndex ==
  /\ Ready
  /\ \E fromChild \in BOOLEAN :
       LET p == From(array, fromChild)
       IN /\ node[p].type = "array"
          /\ \E i \in DOMAIN Children(p) : child' = Children(p)[i]
  /\ UNCHANGED <<heap, alive, root, array, owned, stage, parser, copier, said>>

ReleaseChild ==
  /\ Ready
  /\ child' = NULL /\ array' = NULL
  /\ UNCHANGED <<heap, alive, root, owned, stage, parser, copier, said>>

\* The old text is freed before strdup, which may fail, makes the new one.
PutValueString ==
  /\ Ready
  /\ \E name \in Names, fromChild \in BOOLEAN, t \in Texts \cup {NULL} :
       LET p == From(child, fromChild)
           m == GetItem(p, name, "string")
       IN /\ m # NULL
          /\ node' = [node EXCEPT ![m].valuestring = t]
          /\ said' = IF p = root THEN [said EXCEPT ![name[1]] = <<"string", t>>] ELSE said
  /\ UNCHANGED <<live, object, owned, stage, parser, copier>>

\* delete
DeletesObject ==
  /\ Ready
  /\ child' = NULL /\ array' = NULL
  /\ Deletes({root}) /\ root' = NULL /\ alive' = FALSE
  /\ said' = [l \in Letters |-> NULL]
  /\ UNCHANGED <<owned, stage, parser, copier>>

FreeAll ==
  /\ stage = "idle" /\ owned # NULL
  /\ Deletes({owned}) /\ owned' = NULL
  /\ UNCHANGED <<object, stage, parser, copier, said>>

-----------------------------------------------------------------------------
(* cJSON_Duplicate                                                          *)

Call(item, new) == [item |-> item, newitem |-> new, cptr |-> node[item].child, nptr |-> NULL]
Copied(item, new) ==
  [node EXCEPT ![new] = [Blank EXCEPT !.type = node[item].type, !.string = node[item].string,
                                      !.valuestring = node[item].valuestring]]
Calling == Last(copies)

\* getValueObject with dup, cSJONDup: a copy for the caller; getObject(cJSON *): for an object.
FaultyCopyBegins ==
  /\ stage = "idle"
  /\ alive /\ owned = NULL
  /\ \E name \in Names, fromChild \in BOOLEAN :
       owned' = GetItem(From(child, fromChild), name, "object")
  /\ UNCHANGED <<heap, object, stage, parser, copier, said>>
CopyBegins ==
  /\ stage = "idle"
  /\ \/ /\ alive /\ owned = NULL /\ target' = "owned"
        /\ \E item, q \in Nodes :
             /\ \/ item = root
                \/ \E name \in Names, fromChild \in BOOLEAN :
                     item = GetItem(From(child, fromChild), name, "object")
             /\ Allocates(q) /\ node' = Copied(item, q) /\ copies' = <<Call(item, q)>>
        /\ UNCHANGED alive
     \/ /\ ~alive /\ owned # NULL /\ target' = "root"
        /\ alive' = TRUE
        /\ \E q \in Nodes :
             Allocates(q) /\ node' = Copied(owned, q) /\ copies' = <<Call(owned, q)>>
  /\ stage' = "copy"
  /\ UNCHANGED <<root, cursors, owned, parser, said>>

CopyCalls ==
  /\ stage = "copy" /\ Calling.cptr # NULL
  /\ \E q \in Nodes :
       /\ Allocates(q) /\ node' = Copied(Calling.cptr, q)
       /\ copies' = Append(copies, Call(Calling.cptr, q))
  /\ UNCHANGED <<object, owned, stage, parser, target, said>>

\* The call returns its newitem, which the caller hangs behind the one before.
FaultyHangs(c, q) ==
  IF c.nptr = NULL THEN [node EXCEPT ![c.newitem].child = q]
  ELSE [node EXCEPT ![c.newitem].child = q, ![q].next = c.nptr]
Hangs(c, q) ==
  IF c.nptr = NULL THEN [node EXCEPT ![c.newitem].child = q]
  ELSE [node EXCEPT ![c.nptr].next = q]

CopyReturns ==
  /\ stage = "copy" /\ Calling.cptr = NULL /\ Len(copies) > 1
  /\ LET caller == copies[Len(copies) - 1]
         q == Calling.newitem
     IN /\ node' = Hangs(caller, q)
        /\ copies' = Append(Front(Front(copies)),
                            [caller EXCEPT !.nptr = q, !.cptr = node[caller.cptr].next])
  /\ UNCHANGED <<live, object, owned, stage, parser, target, said>>

CopyEnds ==
  /\ stage = "copy" /\ Calling.cptr = NULL /\ Len(copies) = 1
  /\ IF target = "owned"
     THEN owned' = Calling.newitem /\ UNCHANGED <<root, said>>
     ELSE /\ root' = Calling.newitem
          /\ said' = [l \in Letters |-> Read(owned, <<l, "lower">>)]
          /\ UNCHANGED owned
  /\ copies' = <<>> /\ target' = NULL /\ stage' = "idle"
  /\ UNCHANGED <<heap, alive, cursors, parser>>

\* No memory: each call deletes its newitem; what is in no tree yet is in one of them.
FaultyCopyFails ==
  /\ stage = "copy" /\ Calling.cptr # NULL
  /\ Deletes({Calling.newitem})
  /\ alive' = (alive /\ target = "owned")
  /\ copies' = <<>> /\ target' = NULL /\ stage' = "idle"
  /\ UNCHANGED <<root, cursors, owned, parser, said>>
CopyFails ==
  /\ stage = "copy" /\ Calling.cptr # NULL
  /\ Deletes({copies[i].newitem : i \in DOMAIN copies})
  /\ alive' = (alive /\ target = "owned")
  /\ copies' = <<>> /\ target' = NULL /\ stage' = "idle"
  /\ UNCHANGED <<root, cursors, owned, parser, said>>

-----------------------------------------------------------------------------
Parse == \/ ParseBegins \/ ParseValue \/ ParseOpens \/ ParseNext \/ ParseName
         \/ ParseCloses \/ ParseEnds \/ ParseFails
Use == \/ LoadChildObject \/ LoadChildArray \/ LoadChildObjectFromChildArrayByIndex
       \/ ReleaseChild \/ PutValueString \/ DeletesObject \/ FreeAll
Copy == CopyBegins \/ CopyCalls \/ CopyReturns \/ CopyEnds \/ CopyFails

Next == Parse \/ Use \/ Copy
Spec == Init /\ [][Next]_vars

-----------------------------------------------------------------------------
Pointers == Nodes \cup {NULL}

\* The types.
TypeOK ==
  /\ live \subseteq Nodes
  /\ node \in [Nodes -> [type : Types \cup {"false", "junk"}, string : Names \cup {NULL},
                         valuestring : Texts \cup {NULL}, child : Pointers, next : Pointers]]
  /\ \A n \in live : node[n].type # "junk"
  /\ alive \in BOOLEAN
  /\ {root, child, array, owned, top} \subseteq Pointers
  /\ stage \in {"idle", "value", "open", "name", "more", "copy", "print"}
  /\ open \in Seq([item : Nodes, child : Pointers])
  /\ copies \in Seq([item : Nodes, newitem : Nodes, cptr : Pointers, nptr : Pointers])
  /\ target \in {NULL, "owned", "root"}
  /\ said \in [Letters -> {NULL} \cup (Types \X (Texts \cup {NULL}))]

\* What is allocated is what object, caller, parser and duplication can still reach,
\* however far parser or duplication came before they were refused memory; and no
\* pointer, a cursor or a link, is left to what was freed (cJSON.cpp:330-331, 714-730,
\* json.cpp:97-107).
Held == ({root, owned, top} \cup {copies[i].newitem : i \in DOMAIN copies}) \ {NULL}
NoNodeLeaks ==
  /\ live = UNION {Below(n) : n \in Held}
  /\ {child, array} \subseteq live \cup {NULL}

\* A member is what the text said first under its name, in whichever case, or what it
\* was changed to since through the root; no change through a cursor, and no copy,
\* shows there (json.cpp:326-342, cJSON.cpp:663).
ReadsFirstMember ==
  Ready => \A name \in Names : Read(root, name) = said[name[1]]

\* A copy has the same values in the same order under the same items.
SameTree(a, b) ==
  LET Image(f, m) == IF m = NULL THEN NULL ELSE f[m]
  IN \E f \in [Tree(a) -> Tree(b)] :
       /\ f[a] = b /\ node[b].next = NULL
       /\ \A n \in Tree(a) :
            /\ node[f[n]] = [node[n] EXCEPT !.child = Image(f, node[n].child),
                                            !.next = node[f[n]].next]
            /\ n # a => node[f[n]].next = Image(f, node[n].next)

\* What cJSON_Duplicate returns, if memory lasts, is such a copy (cJSON.cpp:708-733).
CopyIsFaithful ==
  stage = "copy" /\ Len(copies) = 1 /\ Calling.cptr = NULL =>
    SameTree(Calling.item, Calling.newitem)

\* What the caller holds is the caller's: nothing done to the object, not even to
\* delete it, changes it.
CopyIsOwn ==
  [][owned # NULL /\ owned' = owned => \A n \in Tree(owned) : node'[n] = node[n]]_vars
=============================================================================
