------------------------------- MODULE Channel -------------------------------
(***************************************************************************)
(* What a pipe promises: the bytes come out in the order they went in,     *)
(* each once, and no more than Capacity of them are under way.             *)
(***************************************************************************)
EXTENDS Naturals, Sequences

CONSTANTS
  Byte,      \* what can be sent
  Reader,    \* who can receive
  Nothing,   \* what a reader has before its first byte
  Capacity   \* how many bytes fit

VARIABLES
  chan,  \* the bytes sent and not yet received
  got    \* the last byte each reader received

Init ==
  /\ chan = <<>>
  /\ got = [r \in Reader |-> Nothing]

Send(b) ==
  /\ Len(chan) < Capacity
  /\ chan' = Append(chan, b)
  /\ UNCHANGED got

Receive(r) ==
  /\ chan # <<>>
  /\ got' = [got EXCEPT ![r] = Head(chan)]
  /\ chan' = Tail(chan)

Next == (\E b \in Byte : Send(b)) \/ (\E r \in Reader : Receive(r))

Spec == Init /\ [][Next]_<<chan, got>>
=============================================================================
