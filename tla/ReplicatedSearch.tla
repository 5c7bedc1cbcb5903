------------------------- MODULE ReplicatedSearch -------------------------
(***************************************************************************)
(* The promise behind the parallel core optimization: replicas of one      *)
(* deterministic search read one log of messages.  A replica applies Step  *)
(* to the messages in the order of the log, at its own pace, and stops     *)
(* when its search has halted.                                             *)
(***************************************************************************)
EXTENDS Naturals, Sequences

CONSTANTS Replicas,
          Messages,
          Starts,      (* the states a search may start in *)
          Step(_, _),  (* the state after a message *)
          Halted(_)    (* the search is over *)

VARIABLES log,    (* the messages in the order the dispatcher relays them *)
          at,     (* how many of them each replica has processed *)
          state   (* the search state of each replica *)

replicaVars == <<log, at, state>>

TypeOK == /\ log \in Seq(Messages)
          /\ at \in [Replicas -> Nat]
          /\ \A r \in Replicas : at[r] <= Len(log)

Init == /\ log = <<>>
        /\ at = [r \in Replicas |-> 0]
        /\ \E start \in Starts : state = [r \in Replicas |-> start]

\* The log grows by some message.
Order == /\ Len(log') = Len(log) + 1
         /\ log'[Len(log')] \in Messages
         /\ log' = Append(log, log'[Len(log')])
         /\ UNCHANGED <<at, state>>

Deliver(r) == /\ at[r] < Len(log)
              /\ ~Halted(state[r])
              /\ at' = [at EXCEPT ![r] = @ + 1]
              /\ state' = [state EXCEPT ![r] = Step(@, log[at[r] + 1])]
              /\ UNCHANGED log

Next == \/ Order
        \/ \E r \in Replicas : Deliver(r)

Spec == Init /\ [][Next]_replicaVars

\* Replicas that have processed the same number of messages are equal.
Agreement == \A r, q \in Replicas : at[r] = at[q] => state[r] = state[q]
=============================================================================
