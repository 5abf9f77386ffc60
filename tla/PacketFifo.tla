------------------------------ MODULE PacketFifo ------------------------------
(***************************************************************************)
(* What an AVPacketQueue promises its users, without its mutex and its     *)
(* condition variable: a first-in first-out buffer between threads that    *)
(* put packets and threads that take them (av_packet_queue.h, the comment  *)
(* at its head).  PacketQueue implements this module; FFAudio and Player   *)
(* use the queue the way this module states it.                            *)
(***************************************************************************)
EXTENDS Sequences

CONSTANTS Packets,    \* the packets that can be put
          Consumers   \* the threads that take packets

VARIABLES buffer,     \* the packets put and not yet taken, oldest first
          got         \* got[c]: the packets consumer c took, in its order

vars == <<buffer, got>>

Init == /\ buffer = <<>>
        /\ got = [c \in Consumers |-> <<>>]

\* push(): any thread adds a packet at the back.
Put(p) == /\ buffer' = Append(buffer, p)
          /\ UNCHANGED got

\* pull(): a consumer takes the packet at the front, and only that one.
Take(c) == /\ buffer # <<>>
           /\ got' = [got EXCEPT ![c] = Append(@, Head(buffer))]
           /\ buffer' = Tail(buffer)

Next == \/ \E p \in Packets : Put(p)
        \/ \E c \in Consumers : Take(c)

Spec == Init /\ [][Next]_vars
=============================================================================
