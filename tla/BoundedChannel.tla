--------------------------- MODULE BoundedChannel ---------------------------
(***************************************************************************)
(* What a ThreadSafeQueue promises: a bounded first-in first-out channel   *)
(* on which every call takes effect in one step, when it returns.  A call  *)
(* that put or took an item leaves it in `result', one that did not leaves *)
(* nothing there: an optional item is a sequence of at most one.           *)
(***************************************************************************)
EXTENDS Naturals, Sequences

CONSTANTS Threads, MaxSize, Items

VARIABLES buffer,   \* the items, oldest first
          closed,   \* the channel is closed
          call,     \* the call each thread is in, or "none"
          item,     \* the item each thread puts
          result    \* what each thread's last call put or took

vars == <<buffer, closed, call, item, result>>

Start(t) == /\ call[t] = "none"
            /\ \E c \in {"push", "tryPush", "pop", "popWithTimeout"} :
                  call' = [call EXCEPT ![t] = c]
            /\ \E i \in Items : item' = [item EXCEPT ![t] = i]
            /\ UNCHANGED <<buffer, closed, result>>

Return(t, r) == /\ call' = [call EXCEPT ![t] = "none"]
                /\ result' = [result EXCEPT ![t] = r]
                /\ UNCHANGED item

\* An item goes in only while there is room and the channel is open.
Put(t) == /\ call[t] \in {"push", "tryPush"}
          /\ ~closed /\ Len(buffer) < MaxSize
          /\ buffer' = Append(buffer, item[t])
          /\ Return(t, <<item[t]>>)
          /\ UNCHANGED closed

\* push gives up on a closed channel, tryPush on a full one as well.
Lose(t) == /\ \/ call[t] = "push" /\ closed
              \/ call[t] = "tryPush" /\ (closed \/ Len(buffer) >= MaxSize)
           /\ Return(t, <<>>)
           /\ UNCHANGED <<buffer, closed>>

\* The oldest item goes out, from a closed channel too.
Take(t) == /\ call[t] \in {"pop", "popWithTimeout"}
           /\ buffer # <<>>
           /\ buffer' = Tail(buffer)
           /\ Return(t, <<Head(buffer)>>)
           /\ UNCHANGED closed

\* Nothing comes out only of an empty channel; pop waits until it is closed.
Miss(t) == /\ buffer = <<>>
           /\ call[t] = "popWithTimeout" \/ (call[t] = "pop" /\ closed)
           /\ Return(t, <<>>)
           /\ UNCHANGED <<buffer, closed>>

Close == closed' = TRUE /\ UNCHANGED <<buffer, call, item, result>>

Init == /\ buffer = <<>>
        /\ closed = FALSE
        /\ call = [t \in Threads |-> "none"]
        /\ item = [t \in Threads |-> 0]
        /\ result = [t \in Threads |-> <<>>]

Next == \/ Close
        \/ \E t \in Threads : Start(t) \/ Put(t) \/ Lose(t) \/ Take(t) \/ Miss(t)

Spec == Init /\ [][Next]_vars
=============================================================================
