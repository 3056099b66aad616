--------------------------- MODULE ThreadSafeQueue ---------------------------
(***************************************************************************)
(* ThreadSafeQueue<T>: one mutex, the condition variables not_empty_ and   *)
(* not_full_, and the flag shutdown_.  A step is what a thread does between *)
(* taking the mutex and giving it up, by returning or by waiting.  A       *)
(* waiting thread gets the mutex and tests its predicate again when it is  *)
(* notified, when the deadline of its wait_for has passed, or for no       *)
(* reason at all.  The items are numbered in the order in which they are   *)
(* offered; an optional item is a sequence of at most one.                 *)
(*                                                                         *)
(* A definition that precedes another and is used nowhere is a wrong       *)
(* version of it: with it, a run must find a property violated.            *)
(***************************************************************************)
EXTENDS Naturals, Sequences, FiniteSets

CONSTANTS Producers, Consumers,   \* the threads that push, that pop
          MaxSize,                \* max_size_ (10000 in the code)
          MaxItems                \* bound: how many items are offered

Threads == Producers \cup Consumers

ASSUME ThreadsAssumption == IsFiniteSet(Producers) /\ IsFiniteSet(Consumers)
ASSUME SizeAssumption == MaxSize \in Nat \ {0} /\ MaxItems \in Nat

VARIABLES queue,      \* queue_
          shutdown,   \* shutdown_
          pc,         \* each thread: outside, at the mutex, waiting, woken
          op,         \* the member function it is in, or "none"
          item,       \* the item it pushes
          result,     \* the item its last call put or took
          expired,    \* the threads whose deadline has passed
          offered     \* items offered so far

vars == <<queue, shutdown, pc, op, item, result, expired, offered>>

Init == /\ queue = <<>>
        /\ shutdown = FALSE
        /\ pc = [t \in Threads |-> "outside"]
        /\ op = [t \in Threads |-> "none"]
        /\ item = [t \in Threads |-> 0]
        /\ result = [t \in Threads |-> <<>>]
        /\ expired = {}
        /\ offered = 0

PushCalls == {"push", "tryPush"}
PopCalls == {"pop", "popWithTimeout"}
NotFullWaitersAnyone == {t \in Threads : pc[t] = "waiting"}
\* The threads that wait on each condition variable.
NotFullWaiters == {t \in Threads : pc[t] = "waiting" /\ op[t] = "push"}
NotEmptyWaiters == {t \in Threads : pc[t] = "waiting" /\ op[t] \in PopCalls}

\* t returns r, and one waiting thread of `waiters', if any, is notified.
ReturnNotifying(t, r, waiters) ==
    /\ op' = [op EXCEPT ![t] = "none"]
    /\ result' = [result EXCEPT ![t] = r]
    /\ expired' = expired \ {t}
    /\ \/ waiters = {} /\ pc' = [pc EXCEPT ![t] = "outside"]
       \/ \E w \in waiters :
            pc' = [pc EXCEPT ![t] = "outside", ![w] = "woken"]
    /\ UNCHANGED <<shutdown, item, offered>>

\* t puts nothing and takes nothing.
ReturnEmpty(t) == ReturnNotifying(t, <<>>, {}) /\ UNCHANGED queue

Wait(t) == /\ pc' = [pc EXCEPT ![t] = "waiting"]
           /\ UNCHANGED <<queue, shutdown, op, item, result, expired, offered>>

\* t gets the mutex, at the start of its call or in a wait.
Locks(t) == pc[t] \in {"mutex", "woken"}

\* A thread calls a member function.
Call(t, calls) ==
    /\ pc[t] = "outside"
    /\ pc' = [pc EXCEPT ![t] = "mutex"]
    /\ \E c \in calls : op' = [op EXCEPT ![t] = c]
    /\ UNCHANGED <<queue, shutdown, result, expired>>
Offer(t) == /\ offered < MaxItems
            /\ Call(t, PushCalls)
            /\ offered' = offered + 1
            /\ item' = [item EXCEPT ![t] = offered + 1]
Ask(t) == Call(t, PopCalls) /\ UNCHANGED <<item, offered>>

\* queue_.push and not_empty_.notify_one.
Enqueue(t) == /\ queue' = Append(queue, item[t])
              /\ ReturnNotifying(t, <<item[t]>>, NotEmptyWaiters)

PushOffByOne(t) ==
    /\ op[t] = "push" /\ Locks(t)
    /\ \/ Len(queue) > MaxSize /\ ~shutdown /\ Wait(t)
       \/ shutdown /\ ReturnEmpty(t)
       \/ Len(queue) <= MaxSize /\ ~shutdown /\ Enqueue(t)
PushWaitsForRoomOnly(t) ==
    /\ op[t] = "push" /\ Locks(t)
    /\ \/ Len(queue) >= MaxSize /\ Wait(t)
       \/ Len(queue) < MaxSize /\ shutdown /\ ReturnEmpty(t)
       \/ Len(queue) < MaxSize /\ ~shutdown /\ Enqueue(t)
\* push waits while the queue is full, and drops the item after a shutdown.
Push(t) ==
    /\ op[t] = "push" /\ Locks(t)
    /\ \/ Len(queue) >= MaxSize /\ ~shutdown /\ Wait(t)
       \/ shutdown /\ ReturnEmpty(t)
       \/ Len(queue) < MaxSize /\ ~shutdown /\ Enqueue(t)

TryPush(t) ==
    /\ op[t] = "tryPush" /\ Locks(t)
    /\ \/ (Len(queue) >= MaxSize \/ shutdown) /\ ReturnEmpty(t)
       \/ Len(queue) < MaxSize /\ ~shutdown /\ Enqueue(t)

\* queue_.front, queue_.pop and not_full_.notify_one.
Dequeue(t) == /\ queue # <<>>
              /\ queue' = Tail(queue)
              /\ ReturnNotifying(t, <<Head(queue)>>, NotFullWaiters)

PopRestartsTimeout(t) ==
    /\ op[t] \in PopCalls /\ Locks(t)
    /\ \/ queue = <<>> /\ ~shutdown /\ Wait(t)
       \/ queue = <<>> /\ shutdown /\ ReturnEmpty(t)
       \/ Dequeue(t)
PopTrustsTimeout(t) ==
    /\ op[t] \in PopCalls /\ Locks(t)
    /\ \/ queue = <<>> /\ ~shutdown /\ t \notin expired /\ Wait(t)
       \/ (t \in expired \/ (queue = <<>> /\ shutdown)) /\ ReturnEmpty(t)
       \/ t \notin expired /\ Dequeue(t)
\* pop and popWithTimeout differ in that the latter has a deadline, after which
\* the predicate is tested a last time.
Pop(t) ==
    /\ op[t] \in PopCalls /\ Locks(t)
    /\ \/ queue = <<>> /\ ~shutdown /\ t \notin expired /\ Wait(t)
       \/ queue = <<>> /\ (shutdown \/ t \in expired) /\ ReturnEmpty(t)
       \/ Dequeue(t)

\* The deadline of a wait_for is fixed when it is called: it passes whether
\* the thread waits or has been woken and does not have the mutex yet.
Expire(t) ==
    /\ op[t] = "popWithTimeout" /\ pc[t] \in {"waiting", "woken"}
    /\ t \notin expired
    /\ expired' = expired \cup {t}
    /\ pc' = [pc EXCEPT ![t] = "woken"]
    /\ UNCHANGED <<queue, shutdown, op, item, result, offered>>

SpuriousWakeup(t) ==
    /\ pc[t] = "waiting"
    /\ pc' = [pc EXCEPT ![t] = "woken"]
    /\ UNCHANGED <<queue, shutdown, op, item, result, expired, offered>>

ShutdownWakesConsumers ==
    /\ shutdown' = TRUE
    /\ pc' = [t \in Threads |-> IF t \in NotEmptyWaiters THEN "woken" ELSE pc[t]]
    /\ UNCHANGED <<queue, op, item, result, expired, offered>>
Shutdown ==
    /\ shutdown' = TRUE
    /\ pc' = [t \in Threads |-> IF pc[t] = "waiting" THEN "woken" ELSE pc[t]]
    /\ UNCHANGED <<queue, op, item, result, expired, offered>>

Step(t) == Push(t) \/ TryPush(t) \/ Pop(t)
Next == \/ \E p \in Producers : Offer(p)
        \/ \E c \in Consumers : Ask(c)
        \/ \E t \in Threads : Step(t) \/ Expire(t) \/ SpuriousWakeup(t)
        \/ Shutdown

Spec == Init /\ [][Next]_vars

\* A thread that wants the mutex gets it in the end, and time passes.  Nothing
\* makes a thread call, shut the queue down, or wake up for no reason.
Fairness == \A t \in Threads : WF_vars(Step(t)) /\ WF_vars(Expire(t))
FairSpec == Spec /\ Fairness

-----------------------------------------------------------------------------
(* Properties                                                              *)

\* The type invariant: what each variable may hold, the queue never beyond
\* max_size_.
TypeOK ==
    /\ queue \in Seq(1 .. offered) /\ Len(queue) <= MaxSize
    /\ shutdown \in BOOLEAN
    /\ pc \in [Threads -> {"outside", "mutex", "waiting", "woken"}]
    /\ op \in [Threads -> PushCalls \cup PopCalls \cup {"none"}]
    /\ item \in [Threads -> 0 .. offered]
    /\ result \in [Threads -> Seq(1 .. offered)]
    /\ expired \subseteq Threads
    /\ offered \in 0 .. MaxItems

Woken(calls) == {t \in Threads : pc[t] = "woken" /\ op[t] \in calls}

\* While a consumer waits, at least as many consumers have been woken and have
\* yet to run as there are items; while a producer waits, at least as many
\* producers as there is room.  So one notify_one for each push and each pop
\* loses no wakeup, whoever takes the item or the room first.
NoLostWakeup ==
    /\ NotEmptyWaiters # {} =>
         Cardinality(Woken(PopCalls)) >= Len(queue)
    /\ NotFullWaiters # {} =>
         Cardinality(Woken({"push"})) >= MaxSize - Len(queue)

\* Nobody waits on a queue that was shut down: notify_all of both condition
\* variables reaches every waiter, and no later call waits.
NoWaitAfterShutdown == shutdown => \A t \in Threads : pc[t] # "waiting"

\* Every popWithTimeout returns, woken in vain however often, so a worker
\* comes back to test running_.
PopReturns == \A t \in Threads : op[t] = "popWithTimeout" ~> op[t] = "none"

\* After a shutdown every call that is under way returns, a push that was
\* blocked on a full queue included.
ShutdownReleases == \A t \in Threads : shutdown ~> op[t] = "none"

\* Waiting apart, every call behaves as one step on a bounded channel.
Channel == INSTANCE BoundedChannel
             WITH Items <- 0 .. MaxItems,
                  buffer <- queue, closed <- shutdown, call <- op
ImplementsChannel == Channel!Spec
=============================================================================
