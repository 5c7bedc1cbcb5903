---------------------------- MODULE FifoChannel ----------------------------
(***************************************************************************)
(* What the users of a SharedQueue rely on: a lossless FIFO channel with   *)
(* several senders and one receiver.  An item is the pair of its sender    *)
(* and its number among the sender's items.                                *)
(***************************************************************************)
EXTENDS Naturals, Sequences

CONSTANTS Senders,  (* the threads that push *)
          MaxItems  (* the number of items each of them pushes *)

VARIABLES chan,      (* pushed and not yet received, oldest first *)
          sent,      (* how many items each sender has pushed *)
          received   (* all the items received, in order *)

chanVars == <<chan, sent, received>>

Init == /\ chan = <<>>
        /\ sent = [s \in Senders |-> 0]
        /\ received = <<>>

Send(s) == /\ sent[s] < MaxItems
           /\ sent' = [sent EXCEPT ![s] = @ + 1]
           /\ chan' = Append(chan, <<s, sent[s] + 1>>)
           /\ UNCHANGED received

Receive == /\ chan # <<>>
           /\ received' = Append(received, Head(chan))
           /\ chan' = Tail(chan)
           /\ UNCHANGED sent

Next == Receive \/ \E s \in Senders : Send(s)

Spec == Init /\ [][Next]_chanVars
=============================================================================
