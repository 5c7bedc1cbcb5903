---------------------------- MODULE SharedQueue ----------------------------
(***************************************************************************)
(* SharedQueue<T> (filo2x/SharedQueue.hpp): a list guarded by a mutex and  *)
(* a condition variable.  Every queue of the program has several pushing   *)
(* threads (the solvers for the dispatcher's queue, the dispatcher for a   *)
(* solver's) and ONE thread that reads it, its owner.  The owner uses it   *)
(* in two ways: Dispatcher::parallel_coreopt calls get and may block;      *)
(* Solver::parallel_coreopt calls size and then get that many times.       *)
(* One step of the model is one access to the mutex, the list or the       *)
(* condition variable.                                                     *)
(***************************************************************************)
EXTENDS Naturals, Sequences

CONSTANTS Producers,  (* the threads that push *)
          Owner,      (* the thread that calls get and size *)
          MaxItems,   (* bound: pushes of each producer *)
          NoThread    (* the value of an unlocked mutex *)

ASSUME ThreadsAssumption == /\ Owner \notin Producers
                            /\ NoThread \notin Producers \cup {Owner}
                            /\ MaxItems \in Nat

VARIABLES queue,     (* SharedQueue::queue *)
          mutex,     (* the thread that holds SharedQueue::mutex *)
          pc,        (* where each producer is in push *)
          getpc,     (* where the owner is in get or size *)
          sent,      (* the number of items each producer has appended *)
          snapshot,  (* current_queue_size: gets left of the last size() *)
          received   (* history: what get has returned *)

vars == <<queue, mutex, pc, getpc, sent, snapshot, received>>

TypeOK ==
    /\ queue \in Seq(Producers \X Nat)
    /\ mutex \in Producers \cup {Owner, NoThread}
    /\ pc \in [Producers -> {"idle", "append", "unlock", "notify"}]
    /\ getpc \in {"idle", "test", "waiting", "relock", "return", "count"}
    /\ sent \in [Producers -> 0..MaxItems]
    /\ snapshot \in Nat
    /\ received \in Seq(Producers \X Nat)

Init ==
    /\ queue = <<>>
    /\ mutex = NoThread
    /\ pc = [p \in Producers |-> "idle"]
    /\ getpc = "idle"
    /\ sent = [p \in Producers |-> 0]
    /\ snapshot = 0
    /\ received = <<>>

-----------------------------------------------------------------------------
(* push *)

PushLock(p) ==
    /\ pc[p] = "idle" /\ sent[p] < MaxItems
    /\ mutex = NoThread
    /\ mutex' = p
    /\ pc' = [pc EXCEPT ![p] = "append"]
    /\ UNCHANGED <<queue, getpc, sent, snapshot, received>>

\* A bug that emplaces the item at the front of the list.
PushFront(p) ==
    /\ pc[p] = "append"
    /\ queue' = <<<<p, sent[p] + 1>>>> \o queue
    /\ sent' = [sent EXCEPT ![p] = @ + 1]
    /\ pc' = [pc EXCEPT ![p] = "unlock"]
    /\ UNCHANGED <<mutex, getpc, snapshot, received>>

PushAppend(p) ==
    /\ pc[p] = "append"
    /\ queue' = Append(queue, <<p, sent[p] + 1>>)
    /\ sent' = [sent EXCEPT ![p] = @ + 1]
    /\ pc' = [pc EXCEPT ![p] = "unlock"]
    /\ UNCHANGED <<mutex, getpc, snapshot, received>>

\* A bug that leaves out the notify_one after the unlock.
UnlockWithoutNotify(p) ==
    /\ pc[p] = "unlock"
    /\ mutex' = NoThread
    /\ pc' = [pc EXCEPT ![p] = "idle"]
    /\ UNCHANGED <<queue, getpc, sent, snapshot, received>>

PushUnlock(p) ==
    /\ pc[p] = "unlock"
    /\ mutex' = NoThread
    /\ pc' = [pc EXCEPT ![p] = "notify"]
    /\ UNCHANGED <<queue, getpc, sent, snapshot, received>>

\* notify_one is called without the mutex; it is lost when nobody waits.
PushNotify(p) ==
    /\ pc[p] = "notify"
    /\ getpc' = IF getpc = "waiting" THEN "relock" ELSE getpc
    /\ pc' = [pc EXCEPT ![p] = "idle"]
    /\ UNCHANGED <<queue, mutex, sent, snapshot, received>>

-----------------------------------------------------------------------------
(* get *)

GetLock ==
    /\ getpc = "idle"
    /\ mutex = NoThread
    /\ mutex' = Owner
    /\ getpc' = "test"
    /\ UNCHANGED <<queue, pc, sent, snapshot, received>>

\* The list is empty: release the mutex and start waiting, atomically.
GetWait ==
    /\ getpc = "test" /\ queue = <<>>
    /\ mutex' = NoThread
    /\ getpc' = "waiting"
    /\ UNCHANGED <<queue, pc, sent, snapshot, received>>

SpuriousWakeup ==
    /\ getpc = "waiting"
    /\ getpc' = "relock"
    /\ UNCHANGED <<queue, mutex, pc, sent, snapshot, received>>

\* cond.wait returns with the mutex held, and the while loop tests again.
Relock ==
    /\ getpc = "relock"
    /\ mutex = NoThread
    /\ mutex' = Owner
    /\ getpc' = "test"
    /\ UNCHANGED <<queue, pc, sent, snapshot, received>>

\* A bug that counts down below zero when get was not preceded by size.
GetPopBelowZero ==
    /\ getpc = "test" /\ queue # <<>>
    /\ received' = Append(received, Head(queue))
    /\ queue' = Tail(queue)
    /\ snapshot' = snapshot - 1
    /\ getpc' = "return"
    /\ UNCHANGED <<mutex, pc, sent>>

GetPop ==
    /\ getpc = "test" /\ queue # <<>>
    /\ received' = Append(received, Head(queue))
    /\ queue' = Tail(queue)
    /\ snapshot' = IF snapshot > 0 THEN snapshot - 1 ELSE 0
    /\ getpc' = "return"
    /\ UNCHANGED <<mutex, pc, sent>>

\* The destructor of the unique_lock, at the end of get and of size.
Return ==
    /\ getpc = "return"
    /\ mutex' = NoThread
    /\ getpc' = "idle"
    /\ UNCHANGED <<queue, pc, sent, snapshot, received>>

-----------------------------------------------------------------------------
(* size *)

\* The owner asks for the size when the gets of the last one are done.
SizeLock ==
    /\ getpc = "idle" /\ snapshot = 0
    /\ mutex = NoThread
    /\ mutex' = Owner
    /\ getpc' = "count"
    /\ UNCHANGED <<queue, pc, sent, snapshot, received>>

\* A bug that counts one message too many.
SizeReadOneMore ==
    /\ getpc = "count"
    /\ snapshot' = Len(queue) + 1
    /\ getpc' = "return"
    /\ UNCHANGED <<queue, mutex, pc, sent, received>>

SizeRead ==
    /\ getpc = "count"
    /\ snapshot' = Len(queue)
    /\ getpc' = "return"
    /\ UNCHANGED <<queue, mutex, pc, sent, received>>

-----------------------------------------------------------------------------

Push(p) == PushLock(p) \/ PushAppend(p) \/ PushUnlock(p) \/ PushNotify(p)

\* The steps of the owner that the scheduler cannot put off for ever.
Read == \/ GetLock \/ GetWait \/ Relock \/ GetPop \/ Return
        \/ SizeLock \/ SizeRead

Next == Read \/ SpuriousWakeup \/ \E p \in Producers : Push(p)

Spec == Init /\ [][Next]_vars

(***************************************************************************)
(* std::mutex is not fair, so only weak fairness is assumed: a thread that *)
(* can run continuously runs.  Nothing is assumed of spurious wakeups, and *)
(* the owner is not obliged to call get rather than size.                  *)
(***************************************************************************)
FairSpec == Spec /\ WF_vars(Read) /\ \A p \in Producers : WF_vars(Push(p))

-----------------------------------------------------------------------------
(***************************************************************************)
(* No lost wakeup: notify_one comes after the unlock, so between the two   *)
(* the owner may lock, see or miss the item and wait.  Whenever it waits   *)
(* with an item in the list, some producer still has its notify to make.   *)
(***************************************************************************)
NoLostWakeup ==
    getpc = "waiting" /\ queue # <<>> =>
        \E p \in Producers : pc[p] \in {"unlock", "notify"}

(***************************************************************************)
(* The solver's use of size: it drains exactly the number of messages it   *)
(* counted, and none of these gets blocks although the mutex was released  *)
(* in between (SolverCoreopt.cpp, "we take a snapshot of the queue size"). *)
(***************************************************************************)
SnapshotNeverBlocks ==
    /\ snapshot <= Len(queue)
    /\ snapshot > 0 => getpc \notin {"waiting", "relock"}

\* The list behaves like a FIFO channel: nothing is lost, duplicated or
\* reordered, whatever the interleaving of push, notify, wait and pop.
Channel == INSTANCE FifoChannel WITH Senders <- Producers, chan <- queue
ImplementsFifoChannel == Channel!Spec

\* A pushed message is eventually received: the owner cannot sleep on it.
EveryItemReceived ==
    \A p \in Producers, k \in 1..MaxItems :
        sent[p] = k ~> \E i \in 1..Len(received) : received[i] = <<p, k>>
=============================================================================
