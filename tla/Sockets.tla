------------------------------- MODULE Sockets -------------------------------
(***************************************************************************)
(* The file server of OS-socket-programming and its clients: the select    *)
(* loop of server.c with its table of sockets, and the connection,         *)
(* uploads and downloads of client.c.                                      *)
(*                                                                         *)
(* A connection is the two queues of messages under way.  TCP keeps no     *)
(* borders between messages: one read of the server takes one or more of   *)
(* those that wait, and what follows the first is taken for its data.  (A  *)
(* message that is longer than a read is left out, as are the contents.)   *)
(* Heartbeats may be lost, may wait in the client's socket from before the *)
(* server died, and the wait for one may be cut short by the client's own  *)
(* alarm: is_server_up may answer either way whether the server is up or   *)
(* not.  The broadcasts to other clients, which change nothing but         *)
(* server_port, are left out.                                              *)
(***************************************************************************)
EXTENDS Integers, Sequences, FiniteSets, FiniteSetsExt

CONSTANTS
  Client,
  MaxClients,  \* entries of client_socket
  Nobody,      \* an entry without a socket
  File,        \* what is downloaded
  Buffer       \* messages that fit in a connection

ASSUME SocketsAssumption ==
  /\ MaxClients \in Nat \ {0} /\ Buffer \in Nat \ {0}
  /\ Nobody \notin Client
  /\ {"upload", "empty", "welcome"} \cap File = {}

VARIABLES
  up,       \* is the server running?
  slot,     \* client_socket
  ready,    \* clients of the round that select has found and the loop has not
  backlog,  \* connections that wait for accept
  at,       \* where each client is
  sock,     \* its connection: none, open, closed by it, dead with the server
  asked,    \* the file it has asked for
  in, out   \* messages to the server, and from it

server == <<up, slot, ready, backlog>>
netVars == <<server, at, sock, asked, in, out>>

Index == 1..MaxClients
NoSlots == [i \in Index |-> Nobody]
Slotted == {slot[i] : i \in Index} \ {Nobody}

InitNet ==
  /\ up = TRUE /\ slot = NoSlots /\ ready = {} /\ backlog = <<>>
  /\ at = [c \in Client |-> "start"] /\ sock = [c \in Client |-> "none"]
  /\ asked = [c \in Client |-> Nobody]
  /\ in = [c \in Client |-> <<>>] /\ out = [c \in Client |-> <<>>]

-----------------------------------------------------------------------------
\* The server's round: select, and accept if a connection waits.  Whoever is
\* accepted is greeted, and forgotten if all entries are taken.
Readable(c) == in[c] # <<>> \/ sock[c] = "closed"
FreeIndex == {i \in Index : slot[i] = Nobody}

Select ==
  /\ up /\ ready = {}
  /\ ready' = {c \in Slotted : Readable(c)}
  /\ \/ /\ backlog = <<>> /\ ready' # {}
        /\ UNCHANGED <<slot, backlog, out>>
     \/ /\ backlog # <<>>
        /\ backlog' = Tail(backlog)
        /\ out' = [out EXCEPT ![Head(backlog)] = Append(@, "welcome")]
        /\ slot' = IF FreeIndex = {} THEN slot
                   ELSE [slot EXCEPT ![Min(FreeIndex)] = Head(backlog)]
  /\ UNCHANGED <<up, at, sock, asked, in>>

\* The loop over the entries goes on with the next that is ready.  A wrong
\* one ends with the first, or answers to the entry that the inner i names.
Turn(c) == \E i \in Index : slot[i] = c /\ \A j \in 1..(i - 1) : slot[j] \notin ready
RestDropped(c) == {}
Rest(c) == ready \ {c}
InnerIndex(c) == IF slot[1] = Nobody THEN c ELSE slot[1]
AnswerTo(c) == c

Keeps(c) == slot
Without(c) == [i \in Index |-> IF slot[i] = c THEN Nobody ELSE slot[i]]

Hangup(c) ==
  /\ c \in ready /\ Turn(c) /\ in[c] = <<>>
  /\ slot' = Without(c)
  /\ sock' = [sock EXCEPT ![c] = "none"]
  /\ ready' = Rest(c)
  /\ UNCHANGED <<up, backlog, at, asked, in, out>>

\* What the exit of the server leaves to the clients.
Stop ==
  /\ up' = FALSE /\ slot' = NoSlots /\ ready' = {} /\ backlog' = <<>>
  /\ sock' = [c \in Client |-> CASE sock[c] = "open" -> "dead"
                                 [] sock[c] = "closed" -> "none"
                                 [] OTHER -> sock[c]]
  /\ in' = [c \in Client |-> <<>>]
  /\ UNCHANGED <<at, asked>>

\* A read takes n messages and obeys the first.  An upload without contents
\* makes the server exit, as it writes m - 1 bytes, unless what follows is
\* taken for its contents.
Obey(c) ==
  /\ c \in ready /\ Turn(c) /\ in[c] # <<>>
  /\ \E n \in 1..Len(in[c]) :
       \/ Head(in[c]) = "empty" /\ n = 1 /\ Stop /\ UNCHANGED out
       \/ /\ ~(Head(in[c]) = "empty" /\ n = 1)
          /\ out' = IF Head(in[c]) \in {"upload", "empty"} THEN out
                    ELSE [out EXCEPT ![AnswerTo(c)] = Append(@, Head(in[c]))]
          /\ in' = [in EXCEPT ![c] = SubSeq(@, n + 1, Len(@))]
          /\ ready' = Rest(c)
          /\ UNCHANGED <<up, slot, backlog, at, sock, asked>>

ServerStep == Select \/ \E c \in Client : Hangup(c) \/ Obey(c)

Crash == up /\ Stop /\ UNCHANGED out
Restart == ~up /\ up' = TRUE /\ UNCHANGED <<slot, ready, backlog, at, sock, asked, in, out>>

-----------------------------------------------------------------------------
\* A client.
Goes(c, there) == at' = [at EXCEPT ![c] = there]
Leave(c) ==
  /\ Goes(c, "gone")
  /\ sock' = [sock EXCEPT ![c] = IF @ = "open" THEN "closed" ELSE "none"]

\* main: without a heartbeat it goes on without a connection, with one that
\* is out of date it exits.
Start(c) ==
  /\ at[c] = "start"
  /\ \/ /\ up
        /\ backlog' = Append(backlog, c)
        /\ sock' = [sock EXCEPT ![c] = "open"]
        /\ Goes(c, "greet")
     \/ ~up /\ Goes(c, "gone") /\ UNCHANGED <<backlog, sock>>
     \/ Goes(c, "command") /\ UNCHANGED <<backlog, sock>>
  /\ UNCHANGED <<up, slot, ready, asked, in, out>>

\* recv of the welcome.  A dead connection ends, which is taken for a
\* welcome, or is reset, and the client exits.
Greet(c) ==
  /\ at[c] = "greet"
  /\ \/ out[c] # <<>> /\ out' = [out EXCEPT ![c] = Tail(@)] /\ Goes(c, "command") /\ UNCHANGED sock
     \/ out[c] = <<>> /\ sock[c] = "dead" /\ Goes(c, "command") /\ UNCHANGED <<out, sock>>
     \/ out[c] = <<>> /\ sock[c] = "dead" /\ Leave(c) /\ UNCHANGED out
  /\ UNCHANGED <<server, asked, in>>

\* A write: to the server, to the terminal if there is no connection, or to
\* a dead one, which may kill the client.
Send(c, message, there) ==
  \/ /\ sock[c] = "open" /\ Len(in[c]) < Buffer
     /\ in' = [in EXCEPT ![c] = Append(@, message)]
     /\ Goes(c, there)
     /\ UNCHANGED sock
  \/ sock[c] \in {"none", "dead"} /\ Goes(c, there) /\ UNCHANGED <<sock, in>>
  \/ sock[c] = "dead" /\ Leave(c) /\ UNCHANGED in

\* The client ends when an upload finds the server not alive.
Upload(c) ==
  /\ at[c] = "command"
  /\ \/ \E m \in {"upload", "empty"} : Send(c, m, "command")
     \/ Leave(c) /\ UNCHANGED in
  /\ UNCHANGED <<server, asked, out>>

Download(c) ==
  /\ at[c] = "command"
  /\ \E f \in File :
       /\ Send(c, f, "read")
       /\ asked' = [asked EXCEPT ![c] = f]
  /\ UNCHANGED <<server, out>>

\* The answer; without a connection, what is typed.
Receive(c) ==
  /\ at[c] = "read"
  /\ \/ out[c] # <<>> /\ out' = [out EXCEPT ![c] = Tail(@)] /\ Goes(c, "command") /\ UNCHANGED sock
     \/ sock[c] = "none" /\ Goes(c, "command") /\ UNCHANGED <<out, sock>>
     \/ out[c] = <<>> /\ sock[c] = "dead" /\ Leave(c) /\ UNCHANGED out
  /\ asked' = [asked EXCEPT ![c] = Nobody]
  /\ UNCHANGED <<server, in>>

\* The client is started again when its last connection has been closed.
Rerun(c) ==
  /\ at[c] = "gone" /\ sock[c] = "none"
  /\ Goes(c, "start")
  /\ asked' = [asked EXCEPT ![c] = Nobody]
  /\ in' = [in EXCEPT ![c] = <<>>] /\ out' = [out EXCEPT ![c] = <<>>]
  /\ UNCHANGED <<server, sock>>

NetNext ==
  \/ ServerStep \/ Crash \/ Restart
  \/ \E c \in Client : Start(c) \/ Greet(c) \/ Upload(c) \/ Download(c) \/ Receive(c) \/ Rerun(c)

NetSpec == InitNet /\ [][NetNext]_netVars

\* The server runs when select has something for it.
NetFairness == WF_netVars(ServerStep)
FairNetSpec == NetSpec /\ NetFairness

-----------------------------------------------------------------------------
\* What waits for a client that reads an answer is the answer to what it has
\* asked for, and nothing waits for one that has not asked: no greeting and
\* no answer to another is taken for it, whatever a read of the server ran
\* together and whichever entry of client_socket was used before (server.c,
\* client.c handle_command).
AnswersOwnRequest ==
  \A c \in Client :
    /\ at[c] = "command" => out[c] = <<>>
    /\ at[c] = "read" => out[c] \in {<<>>, <<asked[c]>>}

\* What a client in the table has sent is read, while the server lives, also
\* if the clients before it in the table never stop sending (the loop over
\* client_socket after one select).
RequestsRead ==
  \A c \in Client, n \in 1..Buffer :
    (c \in Slotted /\ Len(in[c]) = n) ~> (c \notin Slotted \/ Len(in[c]) # n)

\* The entry of a client that has gone is free again (read returning 0).
SlotsFreed ==
  \A c \in Client : (c \in Slotted /\ sock[c] = "closed") ~> c \notin Slotted
=============================================================================
