------------------------------- MODULE Task2 --------------------------------
(***************************************************************************)
(* The programs of tasks/Task-2: the four of Synchronization Problems, each *)
(* a function that some main program calls, and the threads of ChatService. *)
(* They share nothing; exercise says which one runs.                       *)
(***************************************************************************)
EXTENDS Naturals, Sequences, FiniteSets

CONSTANTS N, BUFFER_SIZE, ITEMS, Readers, Writers, Nobody, Customers, CHAIRS,
          Callers, CALLS, FIRST_USERS, UNKNOWN, NoCaller

VARIABLES
    exercise,
    forkMutex, philosopher,
    buffer, mtx, thread, produced, consumed,
    readCount, sharedNum, rdCnt, wrt, at, seen,
    waiting, customers, barber, barberAt, customer, overflown,
    users_, chats_, next_user_id, next_chat_id, service, caller, calls, created, sent

Dining  == INSTANCE DiningPhilosophers
Buffer  == INSTANCE ProducersConsumers
Library == INSTANCE ReadersWriters
Shop    == INSTANCE SleepingBarber
Chat    == INSTANCE ChatService

ASSUME Task2Assumption ==
    /\ Dining!NAssumption
    /\ Buffer!BufferAssumption
    /\ Library!ReadersWritersAssumption
    /\ Shop!BarberAssumption
    /\ Chat!ChatAssumption

diningVars  == << forkMutex, philosopher >>
bufferVars  == << buffer, mtx, thread, produced, consumed >>
libraryVars == << readCount, sharedNum, rdCnt, wrt, at, seen >>
shopVars    == << waiting, customers, barber, barberAt, customer, overflown >>
chatVars    == << users_, chats_, next_user_id, next_chat_id, service, caller, calls,
                  created, sent >>
vars == << exercise, diningVars, bufferVars, libraryVars, shopVars, chatVars >>

Init ==
    /\ exercise \in {"dining_philosophers", "producer_consumer", "readers_writers",
                     "sleeping_barbers", "chat_service"}
    /\ Dining!Init /\ Buffer!Init /\ Library!Init /\ Shop!Init /\ Chat!Init

-----------------------------------------------------------------------------
(* The steps of the threads *)

Philosopher(id) ==
    /\ exercise = "dining_philosophers"
    /\ Dining!Step(id)
    /\ UNCHANGED << exercise, bufferVars, libraryVars, shopVars, chatVars >>

Worker(t) ==
    /\ exercise = "producer_consumer"
    /\ Buffer!Step(t)
    /\ UNCHANGED << exercise, diningVars, libraryVars, shopVars, chatVars >>

Spurious(t) ==
    /\ exercise = "producer_consumer"
    /\ Buffer!Wake(t)
    /\ UNCHANGED << exercise, diningVars, libraryVars, shopVars, chatVars >>

Reader(r) ==
    /\ exercise = "readers_writers"
    /\ Library!ReaderStep(r)
    /\ UNCHANGED << exercise, diningVars, bufferVars, shopVars, chatVars >>

Writer(w) ==
    /\ exercise = "readers_writers"
    /\ Library!WriterStep(w)
    /\ UNCHANGED << exercise, diningVars, bufferVars, shopVars, chatVars >>

Barber ==
    /\ exercise = "sleeping_barbers"
    /\ Shop!BarberStep
    /\ UNCHANGED << exercise, diningVars, bufferVars, libraryVars, chatVars >>

Customer(c) ==
    /\ exercise = "sleeping_barbers"
    /\ Shop!CustomerStep(c)
    /\ UNCHANGED << exercise, diningVars, bufferVars, libraryVars, chatVars >>

Caller(t) ==
    /\ exercise = "chat_service"
    /\ Chat!Step(t)
    /\ UNCHANGED << exercise, diningVars, bufferVars, libraryVars, shopVars >>

Joined ==
    CASE exercise = "dining_philosophers" -> Dining!Joined
      [] exercise = "producer_consumer"   -> Buffer!Joined
      [] exercise = "readers_writers"     -> Library!Joined
      [] exercise = "sleeping_barbers"    -> Shop!Joined
      [] exercise = "chat_service"        -> Chat!Joined

\* The function has returned, or never will.
Over == Joined \/ (exercise = "sleeping_barbers" /\ Shop!Hung)
Ended == Over /\ UNCHANGED vars

Next ==
    \/ \E id \in Dining!Ids : Philosopher(id)
    \/ \E t \in Buffer!Threads : Worker(t) \/ Spurious(t)
    \/ \E r \in Readers : Reader(r)
    \/ \E w \in Writers : Writer(w)
    \/ Barber
    \/ \E c \in Customers : Customer(c)
    \/ \E t \in Callers : Caller(t)
    \/ Ended

\* A thread that can go on does; a wait need not end by itself, and which of
\* the threads that want a mutex or a semaphore gets it is left open: every
\* thread takes them a bounded number of times.  Only the waits of a worker that
\* end by themselves take the mutex again without any bound; strong fairness
\* says that they do not keep the other worker from it forever.
Fairness ==
    /\ \A id \in Dining!Ids : WF_vars(Philosopher(id))
    /\ \A t \in Buffer!Threads : SF_vars(Worker(t))
    /\ \A r \in Readers : WF_vars(Reader(r))
    /\ \A w \in Writers : WF_vars(Writer(w))
    /\ WF_vars(Barber)
    /\ \A c \in Customers : WF_vars(Customer(c))
    /\ \A t \in Callers : WF_vars(Caller(t))

Spec == Init /\ [][Next]_vars /\ Fairness

-----------------------------------------------------------------------------
(* Properties *)

\* Two neighbours never eat at the same time.
NeighboursNeverEat == Dining!NeighboursNeverEat

\* What is consumed and what is in the buffer is what was produced, in order,
\* and the buffer is never too full, also when waits end by themselves.
BufferInOrder == Buffer!BufferInOrder

\* A writer is alone, and every write counts.
WritersExclude == Library!WritersExclude

\* The chairs, the two semaphores and the waiting customers agree.
ChairsBalance == Shop!ChairsBalance

\* What the callers of the chat service were told is so.
AnswersHold == Chat!AnswersHold

\* The calls of the chat service take effect one after the other, as those of
\* BitChat do.
CallsAreSequential == Chat!CallsAreSequential

\* Every function joins its threads: nobody starves and nobody waits for a
\* thread that waits for him; but for a barber whose signal was lost.
ThreadsEnd == <>(Joined \/ overflown)
=============================================================================
