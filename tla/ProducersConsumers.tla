------------------------- MODULE ProducersConsumers -------------------------
(***************************************************************************)
(* Producers_consumers.cpp: a producer and a consumer of ITEMS numbers with *)
(* a buffer between them, its mutex, and a condition variable for each.    *)
(* A wait may end without a notification.  What a thread does between the  *)
(* end of its loop and the release of the mutex is one step.               *)
(***************************************************************************)
EXTENDS Naturals, Sequences

CONSTANTS
    BUFFER_SIZE,
    ITEMS          \* the number of items that each thread handles

\* What is assumed of the constants.
BufferAssumption == BUFFER_SIZE \in Nat \ {0} /\ ITEMS \in Nat

VARIABLES
    buffer,
    mtx,           \* who has locked the mutex
    thread,        \* where each thread is
    produced,      \* the last item produced
    consumed       \* the items consumed, in order

vars == << buffer, mtx, thread, produced, consumed >>

Threads == {"producer", "consumer"}
Free == "free"

Init ==
    /\ buffer = << >>
    /\ mtx = Free
    /\ thread = [t \in Threads |-> IF ITEMS = 0 THEN "done" ELSE "lock"]
    /\ produced = 0
    /\ consumed = << >>

\* The condition of the loop around the wait.
MustWait(t) ==
    \/ t = "producer" /\ Len(buffer) = BUFFER_SIZE
    \/ t = "consumer" /\ buffer = << >>

\* Fault: if instead of while.
LockIf(t) ==
    /\ thread[t] \in {"lock", "woken"}
    /\ mtx = Free
    /\ mtx' = t
    /\ thread' = [thread EXCEPT ![t] = IF @ = "woken" /\ t = "producer" THEN "go" ELSE "test"]
    /\ UNCHANGED << buffer, produced, consumed >>

\* The iteration locks the mutex, or a wait locks it again.
Lock(t) ==
    /\ thread[t] \in {"lock", "woken"}
    /\ mtx = Free
    /\ mtx' = t
    /\ thread' = [thread EXCEPT ![t] = "test"]
    /\ UNCHANGED << buffer, produced, consumed >>

Pass(t) ==
    /\ thread[t] = "test"
    /\ ~MustWait(t)
    /\ thread' = [thread EXCEPT ![t] = "go"]
    /\ UNCHANGED << buffer, mtx, produced, consumed >>

Wait(t) ==
    /\ thread[t] = "test"
    /\ MustWait(t)
    /\ thread' = [thread EXCEPT ![t] = "wait"]
    /\ mtx' = Free
    /\ UNCHANGED << buffer, produced, consumed >>

\* A wait ends without a notification.
Wake(t) ==
    /\ thread[t] = "wait"
    /\ thread' = [thread EXCEPT ![t] = "woken"]
    /\ UNCHANGED << buffer, mtx, produced, consumed >>

\* The thread t has handled its item number n and notifies the other one.
Handled(t, n, other) ==
    /\ mtx' = Free
    /\ thread' = [thread EXCEPT
                    ![t] = IF n = ITEMS THEN "done" ELSE "lock",
                    ![other] = IF @ = "wait" THEN "woken" ELSE @]

Produce ==
    /\ thread["producer"] = "go"
    /\ buffer' = Append(buffer, produced + 1)
    /\ produced' = produced + 1
    /\ Handled("producer", produced + 1, "consumer")
    /\ UNCHANGED consumed

\* Fault: the notification is forgotten.
ConsumeSilent ==
    /\ thread["consumer"] = "go"
    /\ buffer' = Tail(buffer)
    /\ consumed' = Append(consumed, Head(buffer))
    /\ mtx' = Free
    /\ thread' = [thread EXCEPT !["consumer"] =
                    IF Len(consumed) + 1 = ITEMS THEN "done" ELSE "lock"]
    /\ UNCHANGED produced

Consume ==
    /\ thread["consumer"] = "go"
    /\ buffer' = Tail(buffer)
    /\ consumed' = Append(consumed, Head(buffer))
    /\ Handled("consumer", Len(consumed) + 1, "producer")
    /\ UNCHANGED produced

Step(t) ==
    \/ Lock(t)
    \/ Pass(t)
    \/ Wait(t)
    \/ t = "producer" /\ Produce
    \/ t = "consumer" /\ Consume

Next == \E t \in Threads : Step(t) \/ Wake(t)

Spec == Init /\ [][Next]_vars

\* producer_consumer joins both threads.
Joined == \A t \in Threads : thread[t] = "done"

-----------------------------------------------------------------------------
(* Properties *)

\* Nothing is lost, doubled or reordered between the threads, and the buffer
\* never holds more than BUFFER_SIZE items, whichever waits end by themselves.
BufferInOrder ==
    /\ consumed \o buffer = [i \in 1 .. produced |-> i]
    /\ Len(buffer) <= BUFFER_SIZE
=============================================================================
