------------------------ MODULE ThreadSafeQueueProofs ------------------------
(***************************************************************************)
(* What holds of ThreadSafeQueue for every set of threads, every max_size_ *)
(* and every number of items: its types and its bound, that nobody waits   *)
(* after a shutdown, that no wakeup is lost, and that it implements        *)
(* BoundedChannel.                                                         *)
(***************************************************************************)
EXTENDS ThreadSafeQueue, SequenceTheorems, FiniteSetTheorems, TLAPS

USE DEF PushCalls, PopCalls

\* A thread is in a member function exactly when it is not outside, what it
\* pushes has been offered, and only popWithTimeout has a deadline.
CallInv ==
    \A t \in Threads : /\ pc[t] = "outside" <=> op[t] = "none"
                       /\ op[t] \in {"push", "tryPush"} => item[t] \in 1 .. offered
                       /\ t \in expired => op[t] = "popWithTimeout"

QueueInv == TypeOK /\ CallInv /\ NoWaitAfterShutdown

\* A sequence of offered items stays one when an item is offered.
LEMMA SeqGrows == ASSUME NEW n \in Nat, NEW s \in Seq(1 .. n)
                  PROVE  s \in Seq(1 .. (n + 1))
<1>1. 1 .. n \subseteq 1 .. (n + 1)
  BY SMT
<1>2. s \in [1 .. Len(s) -> 1 .. n] /\ Len(s) \in Nat
  BY LenProperties
<1>3. s \in [1 .. Len(s) -> 1 .. (n + 1)]
  BY <1>1, <1>2
<1> QED
  BY <1>2, <1>3, SeqDef

\* How a call that returns changes what the threads are doing: it leaves t
\* outside, wakes at most one waiting thread, and makes nobody wait.
LEMMA ReturnFacts ==
    ASSUME QueueInv, NEW t \in Threads, op[t] # "none",
           NEW r \in Seq(1 .. offered), NEW waiters, waiters \subseteq Threads,
           \A w \in waiters : pc[w] = "waiting",
           pc[t] # "waiting", ReturnNotifying(t, r, waiters)
    PROVE  /\ pc' \in [Threads -> {"outside", "mutex", "waiting", "woken"}]
           /\ op' = [op EXCEPT ![t] = "none"]
           /\ result' = [result EXCEPT ![t] = r]
           /\ op' \in [Threads -> {"none", "push", "tryPush", "pop",
                                   "popWithTimeout"}]
           /\ result' \in [Threads -> Seq(1 .. offered)]
           /\ expired' \subseteq Threads
           /\ UNCHANGED <<shutdown, item, offered>>
           /\ CallInv' /\ NoWaitAfterShutdown'
<1> USE DEF QueueInv, TypeOK
<1>1. /\ op' = [op EXCEPT ![t] = "none"]
      /\ result' = [result EXCEPT ![t] = r]
      /\ expired' = expired \ {t}
      /\ UNCHANGED <<shutdown, item, offered>>
  BY DEF ReturnNotifying
<1>2. PICK w \in Threads :
        /\ \/ w = t
           \/ pc[w] = "waiting"
        /\ pc' = IF w = t THEN [pc EXCEPT ![t] = "outside"]
                          ELSE [pc EXCEPT ![t] = "outside", ![w] = "woken"]
  <2>1. CASE waiters = {} /\ pc' = [pc EXCEPT ![t] = "outside"]
    BY <2>1
  <2>2. CASE \E w \in waiters : pc' = [pc EXCEPT ![t] = "outside", ![w] = "woken"]
    <3>1. PICK w \in waiters : pc' = [pc EXCEPT ![t] = "outside", ![w] = "woken"]
      BY <2>2
    <3> QED
      BY <3>1
  <2> QED
    BY <2>1, <2>2 DEF ReturnNotifying
<1>3. pc' \in [Threads -> {"outside", "mutex", "waiting", "woken"}]
  BY <1>2
<1>4. CallInv'
  <2> SUFFICES ASSUME NEW u \in Threads
               PROVE  /\ pc'[u] = "outside" <=> op'[u] = "none"
                      /\ op'[u] \in {"push", "tryPush"} => item'[u] \in 1 .. offered'
                      /\ u \in expired' => op'[u] = "popWithTimeout"
    BY DEF CallInv
  <2> QED
    BY <1>1, <1>2 DEF CallInv
<1>5. NoWaitAfterShutdown'
  BY <1>1, <1>2 DEF NoWaitAfterShutdown
<1> QED
  BY <1>1, <1>3, <1>4, <1>5

LEMMA QueueInvInit == Init => QueueInv
<1> SUFFICES ASSUME Init PROVE QueueInv
  OBVIOUS
<1>1. <<>> \in Seq(1 .. 0) /\ Len(<<>>) = 0
  OBVIOUS
<1>2. TypeOK
  <2>1. queue \in Seq(1 .. offered) /\ Len(queue) <= MaxSize
    BY <1>1, SizeAssumption DEF Init
  <2>2. result \in [Threads -> Seq(1 .. offered)]
    BY <1>1 DEF Init
  <2>3. item \in [Threads -> 0 .. offered] /\ offered \in 0 .. MaxItems
    BY SizeAssumption DEF Init
  <2> QED
    BY <2>1, <2>2, <2>3 DEF Init, TypeOK
<1> QED
  BY <1>2 DEF Init, QueueInv, CallInv, NoWaitAfterShutdown

\* Putting an item.
LEMMA EnqueueStep ==
    ASSUME QueueInv, NEW t \in Threads, op[t] \in {"push", "tryPush"}, Locks(t),
           Len(queue) < MaxSize, Enqueue(t)
    PROVE  /\ QueueInv'
           /\ op' = [op EXCEPT ![t] = "none"]
           /\ result' = [result EXCEPT ![t] = <<item[t]>>]
           /\ queue' = Append(queue, item[t])
           /\ UNCHANGED <<shutdown, item>>
<1> USE SizeAssumption
<1> DEFINE S == 1 .. offered
<1>1. item[t] \in S /\ queue \in Seq(S) /\ offered \in Nat
  BY DEF QueueInv, TypeOK, CallInv
<1>2. /\ queue' = Append(queue, item[t])
      /\ ReturnNotifying(t, <<item[t]>>, NotEmptyWaiters)
  BY DEF Enqueue
<1>3. NotEmptyWaiters \subseteq Threads /\ \A w \in NotEmptyWaiters : pc[w] = "waiting"
  BY DEF NotEmptyWaiters
<1>4. op[t] # "none" /\ pc[t] # "waiting"
  BY DEF Locks
<1> HIDE DEF S
<1>5. <<item[t]>> \in Seq(S)
  BY <1>1
<1>6. queue' \in Seq(S) /\ Len(queue') = Len(queue) + 1
  BY <1>1, <1>2, AppendProperties
<1> USE DEF S
<1>7. /\ pc' \in [Threads -> {"outside", "mutex", "waiting", "woken"}]
      /\ op' = [op EXCEPT ![t] = "none"]
      /\ result' = [result EXCEPT ![t] = <<item[t]>>]
      /\ op' \in [Threads -> {"none", "push", "tryPush", "pop", "popWithTimeout"}]
      /\ result' \in [Threads -> Seq(1 .. offered)]
      /\ expired' \subseteq Threads
      /\ UNCHANGED <<shutdown, item, offered>>
      /\ CallInv' /\ NoWaitAfterShutdown'
  BY ONLY QueueInv, t \in Threads, <1>2, <1>3, <1>4, <1>5, ReturnFacts DEF S
<1>8. Len(queue') <= MaxSize
  BY <1>6, <1>1, LenProperties
<1>9. TypeOK'
  BY <1>6, <1>7, <1>8 DEF TypeOK, QueueInv
<1> QED
  BY <1>2, <1>7, <1>9 DEF QueueInv

\* Taking the oldest item.
LEMMA DequeueStep ==
    ASSUME QueueInv, NEW t \in Threads, op[t] # "none", Locks(t), Dequeue(t)
    PROVE  /\ QueueInv'
           /\ op' = [op EXCEPT ![t] = "none"]
           /\ result' = [result EXCEPT ![t] = <<Head(queue)>>]
           /\ queue' = Tail(queue)
           /\ UNCHANGED <<shutdown, item>>
<1> USE SizeAssumption
<1> DEFINE S == 1 .. offered
<1>1. queue \in Seq(S) /\ offered \in Nat /\ Len(queue) <= MaxSize
  BY DEF QueueInv, TypeOK
<1>2. /\ queue # <<>> /\ queue' = Tail(queue)
      /\ ReturnNotifying(t, <<Head(queue)>>, NotFullWaiters)
  BY DEF Dequeue
<1>3. NotFullWaiters \subseteq Threads /\ \A w \in NotFullWaiters : pc[w] = "waiting"
  BY DEF NotFullWaiters
<1>4. pc[t] # "waiting"
  BY DEF Locks
<1> HIDE DEF S
<1>5. Head(queue) \in S /\ queue' \in Seq(S) /\ Len(queue') = Len(queue) - 1
  BY <1>1, <1>2, HeadTailProperties
<1>6. <<Head(queue)>> \in Seq(S)
  BY <1>5
<1> USE DEF S
<1>7. /\ pc' \in [Threads -> {"outside", "mutex", "waiting", "woken"}]
      /\ op' = [op EXCEPT ![t] = "none"]
      /\ result' = [result EXCEPT ![t] = <<Head(queue)>>]
      /\ op' \in [Threads -> {"none", "push", "tryPush", "pop", "popWithTimeout"}]
      /\ result' \in [Threads -> Seq(1 .. offered)]
      /\ expired' \subseteq Threads
      /\ UNCHANGED <<shutdown, item, offered>>
      /\ CallInv' /\ NoWaitAfterShutdown'
  BY ONLY QueueInv, t \in Threads, op[t] # "none", <1>2, <1>3, <1>4, <1>6,
          ReturnFacts DEF S
<1>8. Len(queue') <= MaxSize
  BY <1>5, <1>1, LenProperties
<1>9. TypeOK'
  BY <1>5, <1>7, <1>8 DEF TypeOK, QueueInv
<1> QED
  BY <1>2, <1>7, <1>9 DEF QueueInv

\* Putting or taking nothing.
LEMMA EmptyStep ==
    ASSUME QueueInv, NEW t \in Threads, op[t] # "none", Locks(t), ReturnEmpty(t)
    PROVE  /\ QueueInv'
           /\ op' = [op EXCEPT ![t] = "none"]
           /\ result' = [result EXCEPT ![t] = <<>>]
           /\ UNCHANGED <<queue, shutdown, item>>
<1>1. ReturnNotifying(t, <<>>, {}) /\ queue' = queue
  BY DEF ReturnEmpty
<1>2. <<>> \in Seq(1 .. offered)
  OBVIOUS
<1>3. pc[t] # "waiting"
  BY DEF Locks
<1>3a. {} \subseteq Threads /\ \A w \in {} : pc[w] = "waiting"
  OBVIOUS
<1>4. /\ pc' \in [Threads -> {"outside", "mutex", "waiting", "woken"}]
      /\ op' = [op EXCEPT ![t] = "none"]
      /\ result' = [result EXCEPT ![t] = <<>>]
      /\ op' \in [Threads -> {"none", "push", "tryPush", "pop", "popWithTimeout"}]
      /\ result' \in [Threads -> Seq(1 .. offered)]
      /\ expired' \subseteq Threads
      /\ UNCHANGED <<shutdown, item, offered>>
      /\ CallInv' /\ NoWaitAfterShutdown'
  <2> DEFINE W == {}
  <2>1. W \subseteq Threads /\ \A w \in W : pc[w] = "waiting"
    BY <1>3a
  <2>2. ReturnNotifying(t, <<>>, W)
    BY <1>1
  <2> HIDE DEF W
  <2> QED
    BY ONLY QueueInv, t \in Threads, op[t] # "none", <1>2, <1>3, <2>1, <2>2,
            ReturnFacts
<1>5. TypeOK'
  BY <1>1, <1>4 DEF TypeOK, QueueInv
<1> QED
  BY <1>1, <1>4, <1>5 DEF QueueInv

\* Waiting, which no thread does on a queue that is shut down.
LEMMA WaitStep ==
    ASSUME QueueInv, NEW t \in Threads, Locks(t), ~shutdown, Wait(t)
    PROVE  QueueInv' /\ UNCHANGED <<queue, shutdown, op, item, result>>
<1>1. TypeOK' /\ NoWaitAfterShutdown'
  BY DEF QueueInv, TypeOK, NoWaitAfterShutdown, Wait
<1>2. CallInv'
  BY DEF QueueInv, TypeOK, CallInv, Wait, Locks
<1> QED
  BY <1>1, <1>2 DEF QueueInv, Wait

\* What every step of a thread in a member function, every call and every
\* wakeup looks like from the channel.
LEMMA StepRefines ==
    ASSUME QueueInv, NEW t \in Threads, Step(t)
    PROVE  QueueInv' /\ [Channel!Next]_(Channel!vars)
<1> DEFINE Seen == [Channel!Next]_(Channel!vars)
<1> USE DEF Channel!Return
<1>1. op[t] # "none" /\ Locks(t)
  BY DEF Step, Push, TryPush, Pop
<1>2. ASSUME Wait(t), ~shutdown PROVE QueueInv' /\ Seen
  BY <1>1, <1>2, WaitStep DEF Channel!vars
<1>3. ASSUME ReturnEmpty(t), Channel!Lose(t) \/ Channel!Miss(t)
      PROVE  QueueInv' /\ Seen
  BY <1>1, <1>3, EmptyStep DEF Channel!Next
<1>4. CASE Push(t)
  <2>1. CASE Len(queue) >= MaxSize /\ ~shutdown /\ Wait(t)
    BY <1>2, <2>1
  <2>2. CASE shutdown /\ ReturnEmpty(t)
    BY <1>1, <1>3, <1>4, <2>2, EmptyStep DEF Push, Channel!Lose
  <2>3. CASE Len(queue) < MaxSize /\ ~shutdown /\ Enqueue(t)
    <3>1. /\ QueueInv'
          /\ op' = [op EXCEPT ![t] = "none"]
          /\ result' = [result EXCEPT ![t] = <<item[t]>>]
          /\ queue' = Append(queue, item[t])
          /\ UNCHANGED <<shutdown, item>>
      BY <1>1, <1>4, <2>3, EnqueueStep DEF Push
    <3>2. Channel!Put(t)
      BY <1>4, <2>3, <3>1 DEF Push, Channel!Put
    <3> QED
      BY <3>1, <3>2 DEF Channel!Next
  <2> QED
    BY <1>4, <2>1, <2>2, <2>3 DEF Push
<1>5. CASE TryPush(t)
  <2>1. CASE (Len(queue) >= MaxSize \/ shutdown) /\ ReturnEmpty(t)
    BY <1>1, <1>3, <1>5, <2>1, EmptyStep DEF TryPush, Channel!Lose
  <2>2. CASE Len(queue) < MaxSize /\ ~shutdown /\ Enqueue(t)
    <3>1. /\ QueueInv'
          /\ op' = [op EXCEPT ![t] = "none"]
          /\ result' = [result EXCEPT ![t] = <<item[t]>>]
          /\ queue' = Append(queue, item[t])
          /\ UNCHANGED <<shutdown, item>>
      BY <1>1, <1>5, <2>2, EnqueueStep DEF TryPush
    <3>2. Channel!Put(t)
      BY <1>5, <2>2, <3>1 DEF TryPush, Channel!Put
    <3> QED
      BY <3>1, <3>2 DEF Channel!Next
  <2> QED
    BY <1>5, <2>1, <2>2 DEF TryPush
<1>6. CASE Pop(t)
  <2>1. CASE queue = <<>> /\ ~shutdown /\ t \notin expired /\ Wait(t)
    BY <1>2, <2>1
  <2>2. CASE queue = <<>> /\ (shutdown \/ t \in expired) /\ ReturnEmpty(t)
    <3>1. op[t] = "popWithTimeout" \/ (op[t] = "pop" /\ shutdown)
      BY <1>6, <2>2 DEF Pop, QueueInv, CallInv
    <3> QED
      BY <1>1, <1>3, <2>2, <3>1, EmptyStep DEF Channel!Miss
  <2>3. CASE Dequeue(t)
    <3>1. /\ QueueInv'
          /\ op' = [op EXCEPT ![t] = "none"]
          /\ result' = [result EXCEPT ![t] = <<Head(queue)>>]
          /\ queue' = Tail(queue)
          /\ UNCHANGED <<shutdown, item>>
      BY <1>1, <2>3, DequeueStep
    <3>2. Channel!Take(t)
      BY <1>6, <2>3, <3>1 DEF Pop, Dequeue, Channel!Take
    <3> QED
      BY <3>1, <3>2 DEF Channel!Next
  <2> QED
    BY <1>6, <2>1, <2>2, <2>3 DEF Pop
<1> QED
  BY <1>4, <1>5, <1>6 DEF Step

LEMMA NextRefines ==
    ASSUME QueueInv, [Next]_vars
    PROVE  QueueInv' /\ [Channel!Next]_(Channel!vars)
<1> USE SizeAssumption
<1>1. ASSUME NEW p \in Producers, Offer(p)
      PROVE  QueueInv' /\ [Channel!Next]_(Channel!vars)
  <2>1. p \in Threads /\ offered \in Nat
    BY DEF Threads, QueueInv, TypeOK
  <2>2. /\ pc[p] = "outside" /\ offered < MaxItems
        /\ pc' = [pc EXCEPT ![p] = "mutex"]
        /\ item' = [item EXCEPT ![p] = offered + 1]
        /\ offered' = offered + 1
        /\ UNCHANGED <<queue, shutdown, result, expired>>
    BY <1>1 DEF Offer, Call
  <2>3. PICK c \in {"push", "tryPush"} : op' = [op EXCEPT ![p] = c]
    BY <1>1 DEF Offer, Call
  <2>4. queue' \in Seq(1 .. offered') /\ Len(queue') <= MaxSize
    BY <2>1, <2>2, SeqGrows DEF QueueInv, TypeOK
  <2>5. result' \in [Threads -> Seq(1 .. offered')]
    <3>1. \A t \in Threads : result[t] \in Seq(1 .. (offered + 1))
      BY <2>1, SeqGrows DEF QueueInv, TypeOK
    <3> QED
      BY <2>2, <3>1 DEF QueueInv, TypeOK
  <2>6. TypeOK'
    <3>1. item' \in [Threads -> 0 .. offered'] /\ offered' \in 0 .. MaxItems
      BY <2>1, <2>2 DEF QueueInv, TypeOK
    <3> QED
      BY <2>2, <2>3, <2>4, <2>5, <3>1 DEF QueueInv, TypeOK
  <2>7. CallInv' /\ NoWaitAfterShutdown'
    BY <2>1, <2>2, <2>3 DEF QueueInv, TypeOK, CallInv, NoWaitAfterShutdown
  <2>8. Channel!Start(p)
    <3>1. op[p] = "none" /\ offered + 1 \in 0 .. MaxItems
      BY <2>1, <2>2 DEF QueueInv, CallInv
    <3> QED
      BY <2>1, <2>2, <2>3, <3>1 DEF Channel!Start
  <2> QED
    BY <2>1, <2>6, <2>7, <2>8 DEF QueueInv, Channel!Next
<1>2. ASSUME NEW c \in Consumers, Ask(c)
      PROVE  QueueInv' /\ [Channel!Next]_(Channel!vars)
  <2>1. c \in Threads /\ op[c] = "none" /\ item[c] \in 0 .. MaxItems
    BY <1>2 DEF Threads, QueueInv, TypeOK, CallInv, Ask, Call
  <2>2. /\ pc[c] = "outside"
        /\ pc' = [pc EXCEPT ![c] = "mutex"]
        /\ UNCHANGED <<queue, shutdown, item, result, expired, offered>>
    BY <1>2 DEF Ask, Call
  <2>3. PICK f \in {"pop", "popWithTimeout"} : op' = [op EXCEPT ![c] = f]
    BY <1>2 DEF Ask, Call
  <2>4. TypeOK' /\ CallInv' /\ NoWaitAfterShutdown'
    BY <2>1, <2>2, <2>3 DEF QueueInv, TypeOK, CallInv, NoWaitAfterShutdown
  <2>5. item' = [item EXCEPT ![c] = item[c]]
    BY <2>2 DEF QueueInv, TypeOK
  <2>6. Channel!Start(c)
    BY <2>1, <2>2, <2>3, <2>5 DEF Channel!Start
  <2> QED
    BY <2>1, <2>4, <2>6 DEF QueueInv, Channel!Next
<1>3. ASSUME NEW t \in Threads, Expire(t) \/ SpuriousWakeup(t)
      PROVE  QueueInv' /\ [Channel!Next]_(Channel!vars)
  <2>1. /\ pc[t] \in {"waiting", "woken"}
        /\ pc' = [pc EXCEPT ![t] = "woken"]
        /\ expired' = expired \/ (expired' = expired \cup {t} /\ op[t] = "popWithTimeout")
        /\ UNCHANGED <<queue, shutdown, op, item, result, offered>>
    BY <1>3 DEF Expire, SpuriousWakeup
  <2>2. TypeOK' /\ NoWaitAfterShutdown'
    BY <2>1 DEF QueueInv, TypeOK, NoWaitAfterShutdown
  <2>3. CallInv'
    BY <2>1 DEF QueueInv, TypeOK, CallInv
  <2> QED
    BY <2>1, <2>2, <2>3 DEF QueueInv, Channel!vars
<1>4. CASE Shutdown
  <2>1. QueueInv'
    BY <1>4 DEF QueueInv, TypeOK, CallInv, NoWaitAfterShutdown, Shutdown
  <2>2. Channel!Close
    BY <1>4 DEF Shutdown, Channel!Close
  <2> QED
    BY <2>1, <2>2 DEF Channel!Next
<1>5. CASE UNCHANGED vars
  BY <1>5 DEF vars, QueueInv, TypeOK, CallInv, NoWaitAfterShutdown, Channel!vars
<1> QED
  BY <1>1, <1>2, <1>3, <1>4, <1>5, StepRefines DEF Next

\* The invariant that the theorems below rest on.
LEMMA QueueInvHolds == Spec => []QueueInv
<1> QED
  BY QueueInvInit, NextRefines, PTL DEF Spec

\* The types, and the bound of thread_safe_queue.h: queue_ never has more than
\* max_size_ items.
THEOREM TypeCorrect == Spec => []TypeOK
<1>1. QueueInv => TypeOK
  BY DEF QueueInv
<1> QED
  BY <1>1, QueueInvHolds, PTL

\* shutdown() wakes everybody and nobody waits afterwards.
THEOREM NoWaitAfterShutdownCorrect == Spec => []NoWaitAfterShutdown
<1>1. QueueInv => NoWaitAfterShutdown
  BY DEF QueueInv
<1> QED
  BY <1>1, QueueInvHolds, PTL

\* Every interleaving of the critical sections, wakeups and timeouts is a
\* behaviour of a bounded channel whose calls are atomic.
THEOREM QueueImplementsChannel == Spec => ImplementsChannel
<1>1. Init => Channel!Init
  BY DEF Init, Channel!Init
<1> QED
  BY <1>1, QueueInvHolds, NextRefines, PTL DEF Spec, ImplementsChannel, Channel!Spec

-----------------------------------------------------------------------------
(* No wakeup is lost                                                       *)

LEMMA WokenFinite == \A calls : /\ IsFiniteSet(Woken(calls))
                                /\ Cardinality(Woken(calls)) \in Nat
<1> SUFFICES ASSUME NEW calls PROVE IsFiniteSet(Woken(calls))
  BY FS_CardinalityType
<1>1. IsFiniteSet(Threads)
  BY ThreadsAssumption, FS_Union DEF Threads
<1> QED
  BY <1>1, FS_Subset DEF Woken

LEMMA WokenFiniteNext == \A calls : /\ IsFiniteSet(Woken(calls)')
                                    /\ Cardinality(Woken(calls)') \in Nat
<1> SUFFICES ASSUME NEW calls PROVE IsFiniteSet(Woken(calls)')
  BY FS_CardinalityType
<1>1. IsFiniteSet(Threads)
  BY ThreadsAssumption, FS_Union DEF Threads
<1> QED
  BY <1>1, FS_Subset DEF Woken

\* The two halves of NoLostWakeup.
ItemsAnnounced == NotEmptyWaiters # {} => Cardinality(Woken(PopCalls)) >= Len(queue)
RoomAnnounced == NotFullWaiters # {} =>
                   Cardinality(Woken({"push"})) >= MaxSize - Len(queue)

\* Steps that wake threads or leave them alone lose nothing while the queue
\* keeps its length.
LEMMA MoreWoken ==
    ASSUME QueueInv, ItemsAnnounced, RoomAnnounced, queue' = queue,
           NotEmptyWaiters' \subseteq NotEmptyWaiters,
           NotFullWaiters' \subseteq NotFullWaiters,
           Woken(PopCalls) \subseteq Woken(PopCalls)',
           Woken({"push"}) \subseteq Woken({"push"})'
    PROVE  ItemsAnnounced' /\ RoomAnnounced'
<1> DEFINE W == Woken(PopCalls)  V == Woken({"push"})
<1>1. /\ Cardinality(W) <= Cardinality(W') /\ Cardinality(W) \in Nat
      /\ Cardinality(V) <= Cardinality(V') /\ Cardinality(V) \in Nat
      /\ Cardinality(W') \in Nat /\ Cardinality(V') \in Nat
  BY WokenFinite, WokenFiniteNext, FS_Subset
<1>2. Len(queue) \in Nat /\ MaxSize \in Nat
  BY SizeAssumption, LenProperties DEF QueueInv, TypeOK
<1> HIDE DEF W, V
<1>3. ItemsAnnounced'
  BY <1>1, <1>2 DEF ItemsAnnounced, W
<1>4. RoomAnnounced'
  BY <1>1, <1>2 DEF RoomAnnounced, V
<1> QED
  BY <1>3, <1>4

\* After a shutdown there is nobody to be woken.
LEMMA NobodyWaits ==
    ASSUME QueueInv, shutdown PROVE NotEmptyWaiters = {} /\ NotFullWaiters = {}
  BY DEF QueueInv, NoWaitAfterShutdown, NotEmptyWaiters, NotFullWaiters

\* What a return that notifies one of `waiters' does to who waits and who has
\* been woken.
LEMMA Notified ==
    ASSUME QueueInv, NEW t \in Threads, Locks(t), NEW r,
           NEW waiters \in SUBSET Threads,
           \A w \in waiters : pc[w] = "waiting",
           ReturnNotifying(t, r, waiters)
    PROVE  /\ NotEmptyWaiters' \subseteq NotEmptyWaiters
           /\ NotFullWaiters' \subseteq NotFullWaiters
           /\ \A calls : Woken(calls) \ {t} \subseteq Woken(calls)'
           /\ waiters # {} =>
                \E w \in waiters : \A calls : op[w] \in calls => w \in Woken(calls)'
<1> USE DEF QueueInv, TypeOK
<1>1. op' = [op EXCEPT ![t] = "none"] /\ pc[t] # "waiting"
  BY DEF ReturnNotifying, Locks
<1>2. PICK w \in Threads :
        /\ \/ w = t /\ waiters = {}
           \/ w \in waiters /\ pc[w] = "waiting"
        /\ pc' = IF w = t THEN [pc EXCEPT ![t] = "outside"]
                          ELSE [pc EXCEPT ![t] = "outside", ![w] = "woken"]
  <2>1. CASE waiters = {} /\ pc' = [pc EXCEPT ![t] = "outside"]
    BY <2>1
  <2>2. CASE \E w \in waiters : pc' = [pc EXCEPT ![t] = "outside", ![w] = "woken"]
    <3>1. PICK w \in waiters : pc' = [pc EXCEPT ![t] = "outside", ![w] = "woken"]
      BY <2>2
    <3> QED
      BY <1>1, <3>1
  <2> QED
    BY <2>1, <2>2 DEF ReturnNotifying
<1>3. \A u \in Threads : /\ u # t => op'[u] = op[u]
                         /\ u # t /\ u # w => pc'[u] = pc[u]
                         /\ w # t => pc'[w] = "woken"
                         /\ pc'[t] = "outside"
  BY <1>1, <1>2
<1>4. /\ NotEmptyWaiters' \subseteq NotEmptyWaiters
      /\ NotFullWaiters' \subseteq NotFullWaiters
  BY <1>1, <1>2, <1>3 DEF NotEmptyWaiters, NotFullWaiters
<1>5. \A calls : Woken(calls) \ {t} \subseteq Woken(calls)'
  BY <1>1, <1>2, <1>3 DEF Woken
<1>6. ASSUME waiters # {}
      PROVE  \E x \in waiters : \A calls : op[x] \in calls => x \in Woken(calls)'
  <2>1. w \in waiters /\ w # t
    BY <1>1, <1>2, <1>6
  <2>2. \A calls : op[w] \in calls => w \in Woken(calls)'
    BY <1>3, <2>1 DEF Woken
  <2> QED
    BY <2>1, <2>2
<1> QED
  BY <1>4, <1>5, <1>6

\* Taking part in a return, t itself is no longer woken; the others still are.
LEMMA WokenCount ==
    ASSUME NEW t, NEW S, NEW T, IsFiniteSet(S), IsFiniteSet(T), S \ {t} \subseteq T
    PROVE  /\ Cardinality(T) >= Cardinality(S) - 1
           /\ t \notin S => Cardinality(T) >= Cardinality(S)
           /\ \A w \in T : w \notin S /\ t \notin S => Cardinality(T) >= Cardinality(S) + 1
           /\ Cardinality(S) \in Nat /\ Cardinality(T) \in Nat
<1>1. /\ IsFiniteSet(S \ {t})
      /\ Cardinality(S \ {t}) = IF t \in S THEN Cardinality(S) - 1 ELSE Cardinality(S)
  BY FS_RemoveElement
<1>2. Cardinality(S \ {t}) <= Cardinality(T)
  BY FS_Subset
<1>3. Cardinality(S) \in Nat /\ Cardinality(T) \in Nat /\ Cardinality(S \ {t}) \in Nat
  BY <1>1, FS_CardinalityType
<1>4. ASSUME NEW w \in T, w \notin S, t \notin S
      PROVE  Cardinality(T) >= Cardinality(S) + 1
  <2>1. S \cup {w} \subseteq T
    BY <1>4
  <2>2. IsFiniteSet(S \cup {w}) /\ Cardinality(S \cup {w}) = Cardinality(S) + 1
    BY <1>4, FS_AddElement
  <2>3. Cardinality(S \cup {w}) <= Cardinality(T)
    BY <2>1, FS_Subset
  <2> QED
    BY <1>3, <2>2, <2>3
<1> QED
  BY <1>1, <1>2, <1>3, <1>4

\* An item more: if a consumer waits, one more consumer is woken.
LEMMA EnqueueWakes ==
    ASSUME QueueInv, ItemsAnnounced, RoomAnnounced, NEW t \in Threads,
           op[t] \in PushCalls, Locks(t), Enqueue(t)
    PROVE  ItemsAnnounced' /\ RoomAnnounced'
<1> DEFINE W == Woken(PopCalls)  V == Woken({"push"})
<1>1. /\ NotEmptyWaiters' \subseteq NotEmptyWaiters
      /\ NotFullWaiters' \subseteq NotFullWaiters
      /\ W \ {t} \subseteq W' /\ V \ {t} \subseteq V'
      /\ NotEmptyWaiters # {} =>
           \E w \in NotEmptyWaiters : op[w] \in PopCalls => w \in W'
  <2>1. /\ NotEmptyWaiters \in SUBSET Threads
        /\ \A w \in NotEmptyWaiters : pc[w] = "waiting"
    BY DEF NotEmptyWaiters
  <2>2. ReturnNotifying(t, <<item[t]>>, NotEmptyWaiters)
    BY DEF Enqueue
  <2> HIDE DEF PushCalls, PopCalls
  <2> QED
    BY <2>1, <2>2, Notified
<1>2. t \notin W /\ \A w \in NotEmptyWaiters : w \notin W /\ op[w] \in PopCalls
  BY DEF Woken, NotEmptyWaiters
<1>3. IsFiniteSet(W) /\ IsFiniteSet(W') /\ IsFiniteSet(V) /\ IsFiniteSet(V')
  BY WokenFinite, WokenFiniteNext
<1>4. Len(queue') = Len(queue) + 1 /\ Len(queue) \in Nat /\ MaxSize \in Nat
  <2>1. queue \in Seq(1 .. offered) /\ item[t] \in 1 .. offered
    BY DEF QueueInv, TypeOK, CallInv
  <2>2. queue' = Append(queue, item[t])
    BY DEF Enqueue
  <2> QED
    BY <2>1, <2>2, AppendProperties, LenProperties, SizeAssumption
<1> HIDE DEF W, V
<1>5. /\ Cardinality(V') >= Cardinality(V) - 1
      /\ Cardinality(V) \in Nat /\ Cardinality(V') \in Nat
  BY <1>1, <1>3, WokenCount
<1>6. NotEmptyWaiters # {} => Cardinality(W') >= Cardinality(W) + 1
  BY <1>1, <1>2, <1>3, WokenCount
<1>7. Cardinality(W) \in Nat /\ Cardinality(W') \in Nat
  BY <1>3, FS_CardinalityType
<1>8. ItemsAnnounced'
  BY <1>1, <1>4, <1>6, <1>7 DEF ItemsAnnounced, W
<1>9. RoomAnnounced'
  BY <1>1, <1>4, <1>5 DEF RoomAnnounced, V
<1> QED
  BY <1>8, <1>9

\* More room: if a producer waits, one more producer is woken.
LEMMA DequeueWakes ==
    ASSUME QueueInv, ItemsAnnounced, RoomAnnounced, NEW t \in Threads,
           op[t] \in PopCalls, Locks(t), Dequeue(t)
    PROVE  ItemsAnnounced' /\ RoomAnnounced'
<1> DEFINE W == Woken(PopCalls)  V == Woken({"push"})
<1>1. /\ NotEmptyWaiters' \subseteq NotEmptyWaiters
      /\ NotFullWaiters' \subseteq NotFullWaiters
      /\ W \ {t} \subseteq W' /\ V \ {t} \subseteq V'
      /\ NotFullWaiters # {} =>
           \E w \in NotFullWaiters : op[w] \in {"push"} => w \in V'
  <2>1. /\ NotFullWaiters \in SUBSET Threads
        /\ \A w \in NotFullWaiters : pc[w] = "waiting"
    BY DEF NotFullWaiters
  <2>2. ReturnNotifying(t, <<Head(queue)>>, NotFullWaiters)
    BY DEF Dequeue
  <2> HIDE DEF PushCalls, PopCalls
  <2> QED
    BY <2>1, <2>2, Notified
<1>2. t \notin V /\ \A w \in NotFullWaiters : w \notin V /\ op[w] \in {"push"}
  BY DEF Woken, NotFullWaiters
<1>3. IsFiniteSet(W) /\ IsFiniteSet(W') /\ IsFiniteSet(V) /\ IsFiniteSet(V')
  BY WokenFinite, WokenFiniteNext
<1>4. Len(queue') = Len(queue) - 1 /\ Len(queue) \in Nat /\ MaxSize \in Nat
  <2>1. queue \in Seq(1 .. offered)
    BY DEF QueueInv, TypeOK
  <2>2. queue # <<>> /\ queue' = Tail(queue)
    BY DEF Dequeue
  <2> QED
    BY <2>1, <2>2, HeadTailProperties, LenProperties, SizeAssumption
<1> HIDE DEF W, V
<1>5. /\ Cardinality(W') >= Cardinality(W) - 1
      /\ Cardinality(W) \in Nat /\ Cardinality(W') \in Nat
  BY <1>1, <1>3, WokenCount
<1>6. NotFullWaiters # {} => Cardinality(V') >= Cardinality(V) + 1
  BY <1>1, <1>2, <1>3, WokenCount
<1>7. Cardinality(V) \in Nat /\ Cardinality(V') \in Nat
  BY <1>3, FS_CardinalityType
<1>8. ItemsAnnounced'
  BY <1>1, <1>4, <1>5 DEF ItemsAnnounced, W
<1>9. RoomAnnounced'
  BY <1>1, <1>4, <1>6, <1>7 DEF RoomAnnounced, V
<1> QED
  BY <1>8, <1>9

\* Every other step: it wakes, it keeps the queue as it is, or the side of the
\* queue that it concerns has nothing to announce.
LEMMA WakeStep ==
    ASSUME QueueInv, QueueInv', NoLostWakeup, [Next]_vars
    PROVE  NoLostWakeup'
<1> USE DEF QueueInv, TypeOK
<1>1. ItemsAnnounced /\ RoomAnnounced
  BY DEF NoLostWakeup, ItemsAnnounced, RoomAnnounced
<1>2. SUFFICES ItemsAnnounced' /\ RoomAnnounced'
  BY DEF NoLostWakeup, ItemsAnnounced, RoomAnnounced
<1>3. Len(queue) \in Nat /\ MaxSize \in Nat
  BY SizeAssumption, LenProperties
<1>4. ASSUME shutdown' PROVE ItemsAnnounced' /\ RoomAnnounced'
  BY <1>4 DEF NoWaitAfterShutdown, NotEmptyWaiters, NotFullWaiters,
              ItemsAnnounced, RoomAnnounced
<1>5. ASSUME NEW t \in Threads, pc[t] = "outside", queue' = queue,
             pc' = [pc EXCEPT ![t] = "mutex"],
             \E c \in PushCalls \cup PopCalls : op' = [op EXCEPT ![t] = c]
      PROVE  ItemsAnnounced' /\ RoomAnnounced'
  <2>1. \A u \in Threads : u # t => pc'[u] = pc[u] /\ op'[u] = op[u]
    BY <1>5
  <2>2. pc'[t] = "mutex"
    BY <1>5
  <2>3. /\ NotEmptyWaiters' \subseteq NotEmptyWaiters
        /\ NotFullWaiters' \subseteq NotFullWaiters
    BY <2>1, <2>2 DEF NotEmptyWaiters, NotFullWaiters
  <2>4. /\ Woken(PopCalls) \subseteq Woken(PopCalls)'
        /\ Woken({"push"}) \subseteq Woken({"push"})'
    BY <1>5, <2>1 DEF Woken
  <2> QED
    BY <1>1, <1>5, <2>3, <2>4, MoreWoken
<1>6. ASSUME NEW t \in Threads, Expire(t) \/ SpuriousWakeup(t)
      PROVE  ItemsAnnounced' /\ RoomAnnounced'
  <2>1. pc' = [pc EXCEPT ![t] = "woken"] /\ op' = op /\ queue' = queue
    BY <1>6 DEF Expire, SpuriousWakeup
  <2>2. /\ NotEmptyWaiters' \subseteq NotEmptyWaiters
        /\ NotFullWaiters' \subseteq NotFullWaiters
    BY <2>1 DEF NotEmptyWaiters, NotFullWaiters
  <2>3. /\ Woken(PopCalls) \subseteq Woken(PopCalls)'
        /\ Woken({"push"}) \subseteq Woken({"push"})'
    BY <2>1 DEF Woken
  <2> QED
    BY <1>1, <2>1, <2>2, <2>3, MoreWoken
<1>7. ASSUME NEW t \in Threads, Locks(t),
             \/ Wait(t) /\ ~shutdown
             \/ ReturnEmpty(t),
             op[t] \in PopCalls, queue = <<>>
      PROVE  ItemsAnnounced' /\ RoomAnnounced'
  <2>1. queue' = queue /\ Len(queue) = 0
    BY <1>7 DEF Wait, ReturnEmpty
  <2>2. ItemsAnnounced'
    BY <2>1, WokenFiniteNext DEF ItemsAnnounced
  <2>3. NotFullWaiters' \subseteq NotFullWaiters
    BY <1>7 DEF Wait, ReturnEmpty, ReturnNotifying, NotFullWaiters
  <2>4. Woken({"push"}) \subseteq Woken({"push"})'
    BY <1>7 DEF Wait, ReturnEmpty, ReturnNotifying, Woken
  <2>5. RoomAnnounced'
    <3>1. /\ Cardinality(Woken({"push"})) <= Cardinality(Woken({"push"})')
          /\ Cardinality(Woken({"push"})) \in Nat
          /\ Cardinality(Woken({"push"})') \in Nat
      BY <2>4, WokenFinite, WokenFiniteNext, FS_Subset
    <3> QED
      BY <1>1, <1>3, <2>1, <2>3, <3>1 DEF RoomAnnounced
  <2> QED
    BY <2>2, <2>5
<1>8. ASSUME NEW t \in Threads, Locks(t),
             \/ Wait(t) /\ ~shutdown
             \/ ReturnEmpty(t),
             op[t] \in PushCalls, Len(queue) >= MaxSize
      PROVE  ItemsAnnounced' /\ RoomAnnounced'
  <2>1. queue' = queue
    BY <1>8 DEF Wait, ReturnEmpty
  <2>2. RoomAnnounced'
    BY <1>3, <1>8, <2>1, WokenFiniteNext DEF RoomAnnounced
  <2>3. NotEmptyWaiters' \subseteq NotEmptyWaiters
    BY <1>8 DEF Wait, ReturnEmpty, ReturnNotifying, NotEmptyWaiters
  <2>4. Woken(PopCalls) \subseteq Woken(PopCalls)'
    BY <1>8 DEF Wait, ReturnEmpty, ReturnNotifying, Woken
  <2>5. ItemsAnnounced'
    <3>1. /\ Cardinality(Woken(PopCalls)) <= Cardinality(Woken(PopCalls)')
          /\ Cardinality(Woken(PopCalls)) \in Nat
          /\ Cardinality(Woken(PopCalls)') \in Nat
      BY <2>4, WokenFinite, WokenFiniteNext, FS_Subset
    <3> QED
      BY <1>1, <1>3, <2>1, <2>3, <3>1 DEF ItemsAnnounced
  <2> QED
    BY <2>2, <2>5
<1>9. ASSUME NEW t \in Threads, Step(t)
      PROVE  ItemsAnnounced' /\ RoomAnnounced'
  <2>1. Locks(t)
    BY <1>9 DEF Step, Push, TryPush, Pop
  <2>2. CASE shutdown
    BY <1>4, <1>9, <2>2 DEF Step, Push, TryPush, Pop, Enqueue, Dequeue,
       ReturnEmpty, ReturnNotifying, Wait
  <2>3. CASE ~shutdown /\ Push(t)
    <3>1. op[t] \in PushCalls
      BY <2>3 DEF Push
    <3> QED
      BY <1>1, <1>8, <2>1, <2>3, <3>1, EnqueueWakes DEF Push
  <2>4. CASE ~shutdown /\ TryPush(t)
    <3>1. op[t] \in PushCalls
      BY <2>4 DEF TryPush
    <3> QED
      BY <1>1, <1>8, <2>1, <2>4, <3>1, EnqueueWakes DEF TryPush
  <2>5. CASE ~shutdown /\ Pop(t)
    <3>1. op[t] \in PopCalls
      BY <2>5 DEF Pop
    <3> QED
      BY <1>1, <1>7, <2>1, <2>5, <3>1, DequeueWakes DEF Pop
  <2> QED
    BY <1>9, <2>2, <2>3, <2>4, <2>5 DEF Step
<1>10. ASSUME NEW p \in Producers, Offer(p) PROVE ItemsAnnounced' /\ RoomAnnounced'
  <2>1. p \in Threads
    BY DEF Threads
  <2> QED
    BY <1>5, <1>10, <2>1 DEF Offer, Call
<1>11. ASSUME NEW c \in Consumers, Ask(c) PROVE ItemsAnnounced' /\ RoomAnnounced'
  <2>1. c \in Threads
    BY DEF Threads
  <2> QED
    BY <1>5, <1>11, <2>1 DEF Ask, Call
<1>12. CASE Shutdown
  BY <1>4, <1>12 DEF Shutdown
<1>13. CASE UNCHANGED vars
  <2>1. pc' = pc /\ op' = op /\ queue' = queue
    BY <1>13 DEF vars
  <2> QED
    BY <1>1, <2>1, MoreWoken DEF NotEmptyWaiters, NotFullWaiters, Woken
<1> QED
  BY <1>6, <1>9, <1>10, <1>11, <1>12, <1>13 DEF Next

\* One notify_one for each push and each pop is enough, however many threads
\* wait and whoever gets the mutex first.
THEOREM NoLostWakeupCorrect == Spec => []NoLostWakeup
<1>1. Init => NoLostWakeup
  BY DEF Init, NoLostWakeup, NotEmptyWaiters, NotFullWaiters
<1> QED
  BY <1>1, QueueInvHolds, WakeStep, PTL DEF Spec
=============================================================================
