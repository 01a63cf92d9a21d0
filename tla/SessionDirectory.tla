-------------------------- MODULE SessionDirectory --------------------------
(***************************************************************************)
(* What the server promises, without descriptors, tables, buffers or a     *)
(* clock: a directory of sessions.  A session joins without a name, may    *)
(* name itself, and while it is a member orders sent to its name are put   *)
(* in its mailbox, and in no other.  Whoever asks for something is         *)
(* answered in the same step.  When a session leaves, its name and its     *)
(* mail go with it.                                                        *)
(***************************************************************************)
EXTENDS Sequences

CONSTANTS Sessions, Names, NoName

VARIABLES
  members,  \* sessions that have joined and not left
  left,     \* sessions that have left: they do not come back
  name,     \* what each session calls itself, NoName at first
  mailbox   \* what each session has still to read: of an order the name it was
            \* sent to, of an answer NoName

vars == <<members, left, name, mailbox>>

Init ==
  /\ members = {} /\ left = {}
  /\ name = [s \in Sessions |-> NoName]
  /\ mailbox = [s \in Sessions |-> << >>]

Join(s) ==
  /\ s \notin members \cup left
  /\ members' = members \cup {s}
  /\ UNCHANGED <<left, name, mailbox>>

\* What is put into a mailbox may be lost.
Put(box, s, n) == {box, [box EXCEPT ![s] = Append(@, n)]}

Answer(s) ==
  /\ s \in members
  /\ UNCHANGED <<members, left, name>>
  /\ mailbox' \in Put(mailbox, s, NoName)

Rename(s) ==
  /\ s \in members
  /\ UNCHANGED <<members, left>>
  /\ \E n \in Names : name' = [name EXCEPT ![s] = n]
  /\ mailbox' \in Put(mailbox, s, NoName)

\* An order of s to t, which may be s itself.  Two sessions may have the same name;
\* the order goes to one of them.
Deliver(s, t) ==
  /\ {s, t} \subseteq members /\ name[t] # NoName
  /\ UNCHANGED <<members, left, name>>
  /\ \E box \in Put(mailbox, t, name[t]) : mailbox' \in Put(box, s, NoName)

Collect(s) ==
  /\ mailbox[s] # << >>
  /\ mailbox' = [mailbox EXCEPT ![s] = Tail(@)]
  /\ UNCHANGED <<members, left, name>>

\* The way to the session is broken before it has left.
Lose(s) ==
  /\ mailbox[s] # << >>
  /\ mailbox' = [mailbox EXCEPT ![s] = << >>]
  /\ UNCHANGED <<members, left, name>>

\* Several may leave at once, some without having joined.
Leave(S) ==
  /\ left' = left \cup S
  /\ members' = members \ S
  /\ name' = [s \in Sessions |-> IF s \in S THEN NoName ELSE name[s]]
  /\ mailbox' = [s \in Sessions |-> IF s \in S THEN << >> ELSE mailbox[s]]

Next ==
  \/ \E s \in Sessions : Join(s) \/ Answer(s) \/ Rename(s) \/ Collect(s) \/ Lose(s)
  \/ \E s, t \in Sessions : Deliver(s, t)
  \/ \E S \in (SUBSET Sessions) \ {{}} : Leave(S)

Spec == Init /\ [][Next]_vars
=============================================================================
