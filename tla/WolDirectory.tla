---------------------------- MODULE WolDirectory ----------------------------
(***************************************************************************)
(* WolServer implements SessionDirectory.  The names are read from the     *)
(* table of the server, not from what the clients asked for: an entry that *)
(* kept the name of an earlier client of its descriptor would make a       *)
(* session join with a name, which no step of the directory does.          *)
(***************************************************************************)
EXTENDS WolServer

EntryOf(c) == {fd \in Enabled : sock[fd] = c}

NameOf(c) ==
  IF \E fd \in EntryOf(c) : client_list[fd].esp8266
  THEN client_list[CHOOSE fd \in EntryOf(c) : client_list[fd].esp8266].key
  ELSE NoKey

\* Of an order the key it was sent to, of an answer nothing.
Mail(q) == [i \in 1 .. Len(q) |-> IF q[i].type = "order" THEN q[i].key ELSE NoKey]

Members == ConnsOf(Enabled)
Left == {c \in Conns : phase[c] = "gone"}
NameList == [c \in Conns |-> NameOf(c)]
Mailboxes == [c \in Conns |-> Mail(outbox[c])]

Directory == INSTANCE SessionDirectory WITH
  Sessions <- Conns, Names <- Keys, NoName <- NoKey,
  members <- Members, left <- Left, name <- NameList, mailbox <- Mailboxes

\* Every step of the server is a step of the directory or changes nothing in it
\* (the whole of handle_socket and of the sweep, main.cpp:88-454 and 616-644).
ImplementsDirectory == Directory!Spec
=============================================================================
