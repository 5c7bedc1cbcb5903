------------------------- MODULE SharedQueue_proofs -------------------------
(***************************************************************************)
(* SharedQueue for any number of producers and items: its types, that the  *)
(* owner never sleeps on an item that nobody will announce, that the gets  *)
(* after a size never block, and that the list is a FIFO channel.          *)
(***************************************************************************)
EXTENDS SharedQueue, TLAPS

\* A producer locks the mutex only with an item left to push.
ItemsLeft == \A p \in Producers : pc[p] = "append" => sent[p] < MaxItems

\* The types are inductive together with the number of items left.
Typed == TypeOK /\ ItemsLeft

\* The initial state is well typed.
LEMMA InitTyped == Init => Typed
BY ThreadsAssumption DEF Init, Typed, TypeOK, ItemsLeft

\* A producer appends an item of its own, numbered by what it has sent.
LEMMA Appends ==
    ASSUME Typed, NEW p \in Producers, PushAppend(p)
    PROVE  /\ <<p, sent[p] + 1>> \in Producers \X Nat
           /\ queue' \in Seq(Producers \X Nat)
           /\ sent' \in [Producers -> 0..MaxItems]
           /\ pc' \in [Producers -> {"idle", "append", "unlock", "notify"}]
<1>1. sent[p] + 1 \in 0..MaxItems
  BY ThreadsAssumption DEF Typed, TypeOK, ItemsLeft, PushAppend
<1>2. <<p, sent[p] + 1>> \in Producers \X Nat
  BY <1>1
<1>3. queue' \in Seq(Producers \X Nat)
  BY <1>2 DEF Typed, TypeOK, PushAppend
<1> QED
  BY <1>1, <1>2, <1>3 DEF Typed, TypeOK, PushAppend

\* The owner takes an item out of the list.
LEMMA Pops ==
    ASSUME Typed, GetPop
    PROVE  /\ received' \in Seq(Producers \X Nat)
           /\ queue' \in Seq(Producers \X Nat)
           /\ Len(queue') = Len(queue) - 1
           /\ snapshot' \in Nat
<1>1. Head(queue) \in Producers \X Nat
  BY DEF Typed, TypeOK, GetPop
<1> QED
  BY <1>1 DEF Typed, TypeOK, GetPop

\* Every access to the mutex, the list or the condition keeps the types.
LEMMA NextTyped == Typed /\ [Next]_vars => Typed'
<1> SUFFICES ASSUME Typed, [Next]_vars PROVE Typed'
  OBVIOUS
<1> USE ThreadsAssumption
<1>1. ASSUME NEW p \in Producers, PushLock(p) PROVE Typed'
  BY <1>1 DEF Typed, TypeOK, ItemsLeft, PushLock
<1>2. ASSUME NEW p \in Producers, PushAppend(p) PROVE Typed'
  <2>1. TypeOK'
    BY <1>2, Appends DEF Typed, TypeOK, PushAppend
  <2>2. ItemsLeft'
    BY <1>2 DEF Typed, TypeOK, ItemsLeft, PushAppend
  <2> QED
    BY <2>1, <2>2 DEF Typed
<1>3. ASSUME NEW p \in Producers, PushUnlock(p) PROVE Typed'
  BY <1>3 DEF Typed, TypeOK, ItemsLeft, PushUnlock
<1>4. ASSUME NEW p \in Producers, PushNotify(p) PROVE Typed'
  BY <1>4 DEF Typed, TypeOK, ItemsLeft, PushNotify
<1>5. CASE GetPop
  BY <1>5, Pops DEF Typed, TypeOK, ItemsLeft, GetPop
<1>6. CASE Read /\ ~GetPop
  BY <1>6 DEF Typed, TypeOK, ItemsLeft, Read, GetLock, GetWait, Relock, Return,
              SizeLock, SizeRead
<1>7. CASE SpuriousWakeup
  BY <1>7 DEF Typed, TypeOK, ItemsLeft, SpuriousWakeup
<1>8. CASE UNCHANGED vars
  BY <1>8 DEF Typed, TypeOK, ItemsLeft, vars
<1> QED
  BY <1>1, <1>2, <1>3, <1>4, <1>5, <1>6, <1>7, <1>8 DEF Next, Push

\* The types hold in every state.
LEMMA AlwaysTyped == Spec => []Typed
BY InitTyped, NextTyped, PTL DEF Spec

\* The state stays well typed, no producer sends more than its items.
THEOREM TypeCorrect == Spec => []TypeOK
<1>1. Typed => TypeOK
  BY DEF Typed
<1> QED
  BY <1>1, AlwaysTyped, PTL

\* However many threads push: when the owner waits and there is an item, a
\* producer is on its way to notify_one.
THEOREM NoWakeupIsLost == Spec => []NoLostWakeup
<1>1. Init => NoLostWakeup
  BY DEF Init, NoLostWakeup
<1>2. Typed /\ NoLostWakeup /\ [Next]_vars => NoLostWakeup'
  <2> SUFFICES ASSUME Typed, NoLostWakeup, [Next]_vars, getpc' = "waiting", queue' # <<>>
               PROVE  \E p \in Producers : pc'[p] \in {"unlock", "notify"}
    BY DEF NoLostWakeup
  <2> USE DEF Typed, TypeOK, NoLostWakeup
  <2>1. ASSUME NEW p \in Producers, PushLock(p)
        PROVE  \E q \in Producers : pc'[q] \in {"unlock", "notify"}
    BY <2>1 DEF PushLock
  <2>2. ASSUME NEW p \in Producers, PushAppend(p)
        PROVE  \E q \in Producers : pc'[q] \in {"unlock", "notify"}
    BY <2>2 DEF PushAppend
  <2>3. ASSUME NEW p \in Producers, PushUnlock(p)
        PROVE  \E q \in Producers : pc'[q] \in {"unlock", "notify"}
    BY <2>3 DEF PushUnlock
  <2>4. ASSUME NEW p \in Producers, PushNotify(p)
        PROVE  \E q \in Producers : pc'[q] \in {"unlock", "notify"}
    BY <2>4 DEF PushNotify
  <2>5. CASE Read
    BY <2>5 DEF Read, GetLock, GetWait, Relock, GetPop, Return, SizeLock, SizeRead
  <2>6. CASE SpuriousWakeup
    BY <2>6 DEF SpuriousWakeup
  <2>7. CASE UNCHANGED vars
    BY <2>7 DEF vars
  <2> QED
    BY <2>1, <2>2, <2>3, <2>4, <2>5, <2>6, <2>7 DEF Next, Push
<1> QED
  BY <1>1, <1>2, AlwaysTyped, PTL DEF Spec

\* The gets that follow a size find the messages it counted, whatever is
\* pushed between them: none of them waits.
THEOREM SnapshotIsThere == Spec => []SnapshotNeverBlocks
<1>1. Init => SnapshotNeverBlocks
  BY DEF Init, SnapshotNeverBlocks
<1>2. Typed /\ SnapshotNeverBlocks /\ [Next]_vars => SnapshotNeverBlocks'
  <2> SUFFICES ASSUME Typed, SnapshotNeverBlocks, [Next]_vars
               PROVE  SnapshotNeverBlocks'
    OBVIOUS
  <2> USE DEF SnapshotNeverBlocks
  <2>1. ASSUME NEW p \in Producers, PushAppend(p) PROVE SnapshotNeverBlocks'
    <3>1. Len(queue') = Len(queue) + 1
      BY <2>1, Appends DEF Typed, TypeOK, PushAppend
    <3> QED
      BY <2>1, <3>1 DEF Typed, TypeOK, PushAppend
  <2>2. ASSUME NEW p \in Producers, PushLock(p) \/ PushUnlock(p) \/ PushNotify(p)
        PROVE  SnapshotNeverBlocks'
    BY <2>2 DEF PushLock, PushUnlock, PushNotify
  <2>3. CASE GetPop
    BY <2>3, Pops DEF GetPop, Typed, TypeOK
  <2>4. CASE Read /\ ~GetPop
    BY <2>4 DEF Typed, TypeOK, Read, GetLock, GetWait, Relock, Return, SizeLock, SizeRead
  <2>5. CASE SpuriousWakeup
    BY <2>5 DEF SpuriousWakeup
  <2>6. CASE UNCHANGED vars
    BY <2>6 DEF vars
  <2> QED
    BY <2>1, <2>2, <2>3, <2>4, <2>5, <2>6 DEF Next, Push
<1> QED
  BY <1>1, <1>2, AlwaysTyped, PTL DEF Spec

\* A push appends to the channel, a get takes from its front, and every other
\* access to the mutex, the list or the condition variable is a stutter.
THEOREM QueueIsFifo == Spec => ImplementsFifoChannel
<1>1. Init => Channel!Init
  BY DEF Init, Channel!Init
<1>2. Typed /\ [Next]_vars => [Channel!Next]_(Channel!chanVars)
  <2> SUFFICES ASSUME Typed, [Next]_vars
               PROVE  [Channel!Next]_(Channel!chanVars)
    OBVIOUS
  <2>1. ASSUME NEW p \in Producers, PushAppend(p) PROVE Channel!Send(p)
    BY <2>1 DEF Typed, TypeOK, ItemsLeft, PushAppend, Channel!Send
  <2>2. CASE GetPop
    BY <2>2 DEF GetPop, Channel!Next, Channel!Receive
  <2>3. ASSUME NEW p \in Producers, PushLock(p) \/ PushUnlock(p) \/ PushNotify(p)
        PROVE  UNCHANGED Channel!chanVars
    BY <2>3 DEF PushLock, PushUnlock, PushNotify, Channel!chanVars
  <2>4. CASE Read /\ ~GetPop
    BY <2>4 DEF Read, GetLock, GetWait, Relock, Return, SizeLock, SizeRead, Channel!chanVars
  <2>5. CASE SpuriousWakeup \/ UNCHANGED vars
    BY <2>5 DEF SpuriousWakeup, vars, Channel!chanVars
  <2>6. CASE Read
    BY <2>2, <2>4, <2>6 DEF Channel!Next
  <2>7. CASE \E p \in Producers : Push(p)
    BY <2>1, <2>3, <2>7 DEF Push, Channel!Next
  <2> QED
    BY <2>5, <2>6, <2>7 DEF Next
<1> QED
  BY <1>1, <1>2, AlwaysTyped, PTL DEF Spec, ImplementsFifoChannel, Channel!Spec
=============================================================================
