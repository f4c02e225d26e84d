---------------------------- MODULE Task2Proofs -----------------------------
(***************************************************************************)
(* Proofs about the programs of tasks/Task-2, and that what is proved of   *)
(* each of them by itself holds of Task2, where they stand side by side:   *)
(* its steps are steps of one program, or change nothing of it.            *)
(*                                                                         *)
(* None of the properties is inductive.                                    *)
(*   - The philosophers' places say nothing about the forks; HasForks says *)
(*     which forks each of them has.                                       *)
(*   - Whether the buffer keeps its size depends on what a thread found    *)
(*     before it goes on; Tested says that it is still so, as the thread   *)
(*     has locked the mutex since it looked (BufferLocked), and the other  *)
(*     one is not at the buffer.                                           *)
(*   - The sums of ChairsBalance need the type of their terms: every step  *)
(*     moves one customer, one signal or the barber from one to another.   *)
(*   - WritersExclude says nothing about who has the semaphore, which the  *)
(*     first reader acquires and another one may release.  Semaphore says  *)
(*     that there is one owner: nobody, the readers together, or one       *)
(*     writer.  For a step of a reader it takes Counted, by which          *)
(*     readCount is the number of readers inside, and CountLocked, by      *)
(*     which only one of them is at it.                                    *)
(*   - What is promised of ChatService does not follow from its state      *)
(*     alone, as a call changes the service in a later step than the one   *)
(*     that read it.  Current says that what a call has read is still so,  *)
(*     since only the thread that has locked the mutex is in a call.       *)
(***************************************************************************)
EXTENDS Task2, Integers, FiniteSetTheorems, TLAPS

-----------------------------------------------------------------------------
(* Dining philosophers *)

\* The forks that a philosopher must have at each place of his program.
HasForks(id) ==
    /\ philosopher[id] = "second" => forkMutex[Dining!FirstFork(id)] = id
    /\ philosopher[id] = "eat" =>
          forkMutex[Dining!left(id)] = id /\ forkMutex[Dining!right(id)] = id
    /\ philosopher[id] = "left" => forkMutex[Dining!right(id)] = id

DiningIInv ==
    /\ Dining!TypeOK
    /\ \A id \in Dining!Ids : HasForks(id)

\* The two forks of a philosopher are two forks of the table, and no other
\* one's left or right fork is his.
LEMMA Forks ==
    ASSUME Dining!NAssumption
    PROVE
    /\ \A id \in Dining!Ids :
          /\ Dining!left(id) \in Dining!Ids /\ Dining!right(id) \in Dining!Ids
          /\ Dining!FirstFork(id) \in Dining!Ids /\ Dining!SecondFork(id) \in Dining!Ids
          /\ {Dining!FirstFork(id), Dining!SecondFork(id)}
                   = {Dining!left(id), Dining!right(id)}
          /\ Dining!left(id) # Dining!right(id)
          /\ Dining!right(id) # id
    /\ Dining!NoPhilosopher \notin Dining!Ids
  <1>1. N \in Nat /\ N >= 2
    BY DEF Dining!NAssumption
  <1>2. ASSUME NEW id \in Dining!Ids
        PROVE  Dining!right(id) \in Dining!Ids /\ Dining!right(id) # id
    <2>1. CASE id = N - 1
      <3>1. (id + 1) % N = 0
        BY <1>1, <2>1
      <3> QED
        BY <1>1, <2>1, <3>1 DEF Dining!right, Dining!Ids
    <2>2. CASE id # N - 1
      <3>1. id + 1 \in 0 .. N - 1
        BY <1>1, <2>2 DEF Dining!Ids
      <3>2. (id + 1) % N = id + 1
        BY <1>1, <3>1
      <3> QED
        BY <1>1, <3>1, <3>2 DEF Dining!right, Dining!Ids
    <2> QED
      BY <2>1, <2>2
  <1>3. \A id \in Dining!Ids :
           /\ Dining!left(id) \in Dining!Ids /\ Dining!left(id) # Dining!right(id)
           /\ Dining!FirstFork(id) \in Dining!Ids /\ Dining!SecondFork(id) \in Dining!Ids
           /\ {Dining!FirstFork(id), Dining!SecondFork(id)}
                   = {Dining!left(id), Dining!right(id)}
    BY <1>2 DEF Dining!left, Dining!FirstFork, Dining!SecondFork
  <1>4. Dining!NoPhilosopher \notin Dining!Ids
    BY <1>1 DEF Dining!NoPhilosopher, Dining!Ids
  <1> QED
    BY <1>2, <1>3, <1>4

LEMMA DiningInitIInv ==
    ASSUME Dining!NAssumption
    PROVE  Dining!Init => DiningIInv
  BY Forks DEF Dining!Init, DiningIInv, Dining!TypeOK, HasForks

\* Taking a fork that nobody has takes none from another philosopher.
LEMMA LockStep ==
    ASSUME Dining!NAssumption, DiningIInv, NEW id \in Dining!Ids,
           Dining!LockFirst(id) \/ Dining!LockSecond(id)
    PROVE  DiningIInv'
  <1>1. Dining!TypeOK'
    BY Forks DEF DiningIInv, Dining!TypeOK, Dining!LockFirst, Dining!LockSecond,
       Dining!Lock
  <1>2. ASSUME NEW other \in Dining!Ids, other # id
        PROVE  HasForks(other)'
    BY <1>2, Forks DEF DiningIInv, Dining!TypeOK, HasForks, Dining!LockFirst,
       Dining!LockSecond, Dining!Lock
  <1>3. HasForks(id)'
    <2>1. CASE Dining!LockFirst(id)
      BY <2>1, Forks DEF DiningIInv, Dining!TypeOK, HasForks, Dining!LockFirst,
         Dining!Lock
    <2>2. CASE Dining!LockSecond(id)
      <3>1. /\ philosopher'[id] = "eat"
            /\ forkMutex'[Dining!SecondFork(id)] = id
            /\ forkMutex'[Dining!FirstFork(id)] = id
        BY <2>2, Forks DEF DiningIInv, Dining!TypeOK, HasForks, Dining!LockSecond,
           Dining!Lock
      <3>2. forkMutex'[Dining!left(id)] = id /\ forkMutex'[Dining!right(id)] = id
        BY <3>1, Forks
      <3> QED
        BY <3>1, <3>2 DEF HasForks
    <2> QED
      BY <2>1, <2>2
  <1> QED
    BY <1>1, <1>2, <1>3 DEF DiningIInv

\* A philosopher who puts a fork back has it, so that nobody else loses it.
LEMMA UnlockStep ==
    ASSUME Dining!NAssumption, DiningIInv, NEW id \in Dining!Ids,
           Dining!UnlockLeft(id) \/ Dining!UnlockRight(id)
    PROVE  DiningIInv'
  <1>1. Dining!TypeOK'
    BY Forks DEF DiningIInv, Dining!TypeOK, Dining!UnlockLeft, Dining!UnlockRight,
       Dining!Unlock
  <1>2. ASSUME NEW other \in Dining!Ids, other # id
        PROVE  HasForks(other)'
    BY <1>2, Forks DEF DiningIInv, Dining!TypeOK, HasForks, Dining!UnlockLeft,
       Dining!UnlockRight, Dining!Unlock
  <1>3. HasForks(id)'
    BY Forks DEF DiningIInv, Dining!TypeOK, HasForks, Dining!UnlockLeft,
       Dining!UnlockRight, Dining!Unlock
  <1> QED
    BY <1>1, <1>2, <1>3 DEF DiningIInv

LEMMA DiningInvariance ==
    ASSUME Dining!NAssumption
    PROVE  Dining!Spec => []DiningIInv
  <1>1. DiningIInv /\ [Dining!Next]_Dining!vars => DiningIInv'
    <2> SUFFICES ASSUME DiningIInv, [Dining!Next]_Dining!vars PROVE DiningIInv'
      OBVIOUS
    <2>1. CASE Dining!Next
      BY <2>1, LockStep, UnlockStep DEF Dining!Next, Dining!Step
    <2>2. CASE UNCHANGED Dining!vars
      BY <2>2 DEF Dining!vars, DiningIInv, Dining!TypeOK, HasForks
    <2> QED
      BY <2>1, <2>2
  <1> QED
    BY DiningInitIInv, <1>1, PTL DEF Dining!Spec

\* However many philosophers there are, no two neighbours of
\* Dining_philosophers.cpp hold the fork between them at the same time.
LEMMA DiningExcludes ==
    ASSUME Dining!NAssumption
    PROVE  Dining!Spec => []Dining!NeighboursNeverEat
  <1>1. DiningIInv => Dining!NeighboursNeverEat
    <2> SUFFICES ASSUME DiningIInv, NEW id \in Dining!Ids,
                        philosopher[id] = "eat", philosopher[Dining!right(id)] = "eat"
                 PROVE  FALSE
      BY DEF Dining!NeighboursNeverEat
    <2>1. forkMutex[Dining!right(id)] = id
      BY DEF DiningIInv, HasForks
    <2>2. forkMutex[Dining!left(Dining!right(id))] = Dining!right(id)
      BY Forks DEF DiningIInv, HasForks
    <2> QED
      BY <2>1, <2>2, Forks DEF Dining!left
  <1> QED
    BY DiningInvariance, <1>1, PTL

\* Two neighbours never eat at the same time (philosopher).
THEOREM NeighboursExclude == Spec => []NeighboursNeverEat
  <1>1. Init => Dining!Init
    BY DEF Init
  <1>2. [Next]_vars => [Dining!Next]_Dining!vars
    BY DEF Next, vars, diningVars, Dining!vars, Dining!Next, Philosopher, Worker,
           Spurious, Reader, Writer, Barber, Customer, Caller, Ended
  <1>3. Dining!Spec => []Dining!NeighboursNeverEat
    BY Task2Assumption, DiningExcludes
  <1> QED
    BY <1>1, <1>2, <1>3, PTL DEF Spec, Dining!Spec, NeighboursNeverEat

-----------------------------------------------------------------------------
(* Producer and consumer *)

BufferTypes ==
    /\ buffer \in Seq(Nat) /\ consumed \in Seq(Nat) /\ produced \in Nat
    /\ DOMAIN thread = Buffer!Threads

\* The thread that tests, or has tested, has locked the mutex.
BufferLocked == \A t \in Buffer!Threads : thread[t] \in {"test", "go"} => mtx = t

\* A thread that goes on need not wait.
Tested == \A t \in Buffer!Threads : thread[t] = "go" => ~Buffer!MustWait(t)

BufferIInv == BufferTypes /\ BufferLocked /\ Tested /\ Buffer!BufferInOrder


LEMMA BufferInitIInv ==
    ASSUME Buffer!BufferAssumption
    PROVE  Buffer!Init => BufferIInv
  <1> SUFFICES ASSUME Buffer!Init PROVE BufferIInv
    OBVIOUS
  <1>1. BufferTypes /\ BufferLocked /\ Tested
    BY DEF Buffer!Init, BufferTypes, BufferLocked, Tested
  <1>2. consumed \o buffer = << >> /\ [i \in 1 .. produced |-> i] = << >>
    BY DEF Buffer!Init
  <1>3. Buffer!BufferInOrder
    BY <1>2 DEF Buffer!Init, Buffer!BufferInOrder, Buffer!BufferAssumption
  <1> QED
    BY <1>1, <1>3 DEF BufferIInv

\* While a thread locks, tests and waits, the buffer stays as it is.
LEMMA WaitingKeeps ==
    ASSUME BufferIInv, NEW t \in Buffer!Threads,
           Buffer!Lock(t) \/ Buffer!Pass(t) \/ Buffer!Wait(t) \/ Buffer!Wake(t)
    PROVE  BufferIInv'
  <1> USE DEF BufferIInv
  <1>1. /\ buffer' = buffer /\ consumed' = consumed /\ produced' = produced
        /\ DOMAIN thread' = Buffer!Threads
        /\ \A u \in Buffer!Threads \ {t} : thread'[u] = thread[u]
    BY DEF Buffer!Lock, Buffer!Pass, Buffer!Wait, Buffer!Wake, BufferTypes
  <1>2. BufferTypes' /\ Buffer!BufferInOrder'
    BY <1>1 DEF BufferTypes, Buffer!BufferInOrder
  <1>3. Buffer!Free \notin Buffer!Threads
    BY DEF Buffer!Free, Buffer!Threads
  <1>4. CASE Buffer!Lock(t)
    BY <1>1, <1>2, <1>3, <1>4 DEF Buffer!Lock, BufferLocked, Tested, Buffer!MustWait,
       BufferTypes
  <1>5. CASE Buffer!Pass(t)
    BY <1>1, <1>2, <1>5 DEF Buffer!Pass, BufferLocked, Tested, Buffer!MustWait,
       BufferTypes
  <1>6. CASE Buffer!Wait(t)
    BY <1>1, <1>2, <1>6 DEF Buffer!Wait, BufferLocked, Tested, Buffer!MustWait,
       BufferTypes
  <1>7. CASE Buffer!Wake(t)
    BY <1>1, <1>2, <1>7 DEF Buffer!Wake, BufferLocked, Tested, Buffer!MustWait,
       BufferTypes
  <1> QED
    BY <1>4, <1>5, <1>6, <1>7

\* A thread that has handled its item leaves nobody at the buffer.
LEMMA HandledLeaves ==
    ASSUME BufferTypes, BufferLocked, NEW t \in Buffer!Threads, NEW n,
           NEW other \in Buffer!Threads \ {t},
           thread[t] = "go", Buffer!Handled(t, n, other)
    PROVE  /\ DOMAIN thread' = Buffer!Threads
           /\ \A u \in Buffer!Threads : thread'[u] \notin {"test", "go"}
  <1>1. Buffer!Threads = {t, other} /\ mtx = t /\ t # other
    BY DEF Buffer!Threads, BufferLocked
  <1>2. thread[other] \notin {"test", "go"}
    BY <1>1 DEF BufferLocked
  <1> QED
    BY <1>1, <1>2 DEF Buffer!Handled, BufferTypes

LEMMA ProduceKeeps ==
    ASSUME Buffer!BufferAssumption, BufferIInv, Buffer!Produce
    PROVE  BufferIInv'
  <1> USE DEF BufferIInv
  <1>1. /\ DOMAIN thread' = Buffer!Threads
        /\ \A u \in Buffer!Threads : thread'[u] \notin {"test", "go"}
    BY HandledLeaves DEF Buffer!Produce, Buffer!Threads
  <1>2. BufferLocked' /\ Tested'
    BY <1>1 DEF BufferLocked, Tested
  <1>3. /\ buffer' = Append(buffer, produced + 1) /\ produced' = produced + 1
        /\ consumed' = consumed
        /\ buffer \in Seq(Nat) /\ consumed \in Seq(Nat) /\ produced \in Nat
    BY DEF Buffer!Produce, BufferTypes
  <1>4. BufferTypes'
    BY <1>1, <1>3 DEF BufferTypes
  <1>5. Len(buffer') <= BUFFER_SIZE
    BY <1>3 DEF Buffer!Produce, Tested, Buffer!MustWait, Buffer!Threads,
       Buffer!BufferInOrder, Buffer!BufferAssumption
  <1>6. consumed' \o buffer' = [i \in 1 .. produced' |-> i]
    <2>1. consumed' \o buffer' = Append(consumed \o buffer, produced + 1)
      BY <1>3
    <2>2. Append([i \in 1 .. produced |-> i],
    produced + 1) = [i \in 1 .. produced + 1 |-> i]
      BY <1>3
    <2> QED
      BY <1>3, <2>1, <2>2 DEF Buffer!BufferInOrder
  <1> QED
    BY <1>2, <1>4, <1>5, <1>6 DEF Buffer!BufferInOrder

LEMMA ConsumeKeeps ==
    ASSUME Buffer!BufferAssumption, BufferIInv, Buffer!Consume
    PROVE  BufferIInv'
  <1> USE DEF BufferIInv
  <1>1. /\ DOMAIN thread' = Buffer!Threads
        /\ \A u \in Buffer!Threads : thread'[u] \notin {"test", "go"}
    BY HandledLeaves DEF Buffer!Consume, Buffer!Threads
  <1>2. BufferLocked' /\ Tested'
    BY <1>1 DEF BufferLocked, Tested
  <1>3. /\ buffer' = Tail(buffer) /\ consumed' = Append(consumed, Head(buffer))
        /\ produced' = produced
        /\ buffer \in Seq(Nat) /\ consumed \in Seq(Nat) /\ produced \in Nat
    BY DEF Buffer!Consume, BufferTypes
  <1>4. buffer # << >>
    BY DEF Buffer!Consume, Tested, Buffer!MustWait, Buffer!Threads
  <1>5. BufferTypes'
    BY <1>1, <1>3, <1>4 DEF BufferTypes
  <1>6. Len(buffer') <= BUFFER_SIZE
    BY <1>3, <1>4 DEF Buffer!BufferInOrder, Buffer!BufferAssumption
  <1>7. consumed' \o buffer' = consumed \o buffer
    BY <1>3, <1>4, SMTT(20)
  <1> QED
    BY <1>2, <1>3, <1>5, <1>6, <1>7 DEF Buffer!BufferInOrder

\* What is consumed, and then what is in the buffer, is what was produced, in
\* order (producer, consumer).
LEMMA BufferKeepsOrder ==
    ASSUME Buffer!BufferAssumption
    PROVE  Buffer!Spec => []Buffer!BufferInOrder
  <1>1. BufferIInv /\ UNCHANGED Buffer!vars => BufferIInv'
    BY DEF BufferIInv, Buffer!vars, BufferTypes, BufferLocked, Tested,
       Buffer!MustWait, Buffer!BufferInOrder
  <1>2. BufferIInv /\ [Buffer!Next]_Buffer!vars => BufferIInv'
    BY <1>1, WaitingKeeps, ProduceKeeps, ConsumeKeeps DEF Buffer!Next, Buffer!Step
  <1>3. BufferIInv => Buffer!BufferInOrder
    BY DEF BufferIInv
  <1> QED
    BY BufferInitIInv, <1>2, <1>3, PTL DEF Buffer!Spec

\* What is consumed and buffered is what was produced, in order (producer,
\* consumer).
THEOREM ItemsInOrder == Spec => []BufferInOrder
  <1>1. Init => Buffer!Init
    BY DEF Init
  <1>2. [Next]_vars => [Buffer!Next]_Buffer!vars
    BY DEF Next, vars, bufferVars, Buffer!vars, Buffer!Next, Philosopher, Worker,
           Spurious, Reader, Writer, Barber, Customer, Caller, Ended
  <1>3. Buffer!Spec => []Buffer!BufferInOrder
    BY Task2Assumption, BufferKeepsOrder
  <1> QED
    BY <1>1, <1>2, <1>3, PTL DEF Spec, Buffer!Spec, BufferInOrder

-----------------------------------------------------------------------------
(* Readers and writers *)

\* The threads are in their own programs, and the numbers are numbers.
LibraryTypes ==
    /\ DOMAIN at = Readers \cup Writers
    /\ \A r \in Readers : at[r] \in {"arrive", "enter", "read", "leave", "done"}
    /\ \A w \in Writers : at[w] \in {"acquire", "load", "store", "release", "done"}
    /\ DOMAIN seen = Writers
    /\ sharedNum \in Nat

\* The readers that readCount counts, and those who have the semaphore.
Inside == {r \in Readers : at[r] \in {"enter", "read"}}
Sharing == {r \in Readers : at[r] \in {"read", "leave"}}

CountLocked == \A r \in Readers : at[r] \in {"enter", "leave"} <=> rdCnt = r

Counted == readCount = Cardinality(Inside)

Semaphore ==
    \/ wrt = 1 /\ Sharing = {} /\ Library!Writing = {}
    \/ wrt = 0 /\ Sharing # {} /\ Library!Writing = {}
    \/ wrt = 0 /\ Sharing = {} /\ \E w \in Writers : Library!Writing = {w}

\* Each writer that is through has counted, and what one has read is still so.
WritesCount ==
    /\ sharedNum = 1 + Cardinality(Library!Written)
    /\ \A w \in Writers : at[w] = "store" => seen[w] = sharedNum

LibraryIInv == LibraryTypes /\ CountLocked /\ Counted /\ Semaphore /\ WritesCount


LEMMA LibrarySets ==
    ASSUME Library!ReadersWritersAssumption
    PROVE  IsFiniteSet(Inside) /\ IsFiniteSet(Library!Written)
  <1>1. IsFiniteSet(Readers) /\ IsFiniteSet(Writers)
    BY DEF Library!ReadersWritersAssumption, Library!IsFiniteSet, IsFiniteSet
  <1>2. Inside \subseteq Readers /\ Library!Written \subseteq Writers
    BY DEF Inside, Library!Written
  <1> QED
    BY <1>1, <1>2, FS_Subset

LEMMA LibraryInitIInv ==
    ASSUME Library!ReadersWritersAssumption
    PROVE  Library!Init => LibraryIInv
  <1> SUFFICES ASSUME Library!Init PROVE LibraryIInv
    OBVIOUS
  <1> USE DEF Library!Init, Library!ReadersWritersAssumption
  <1>1. LibraryTypes /\ CountLocked
    BY DEF LibraryTypes, CountLocked
  <1>2. Inside = {} /\ Sharing = {} /\ Library!Writing = {} /\ Library!Written = {}
    BY DEF Inside, Sharing, Library!Writing, Library!Written
  <1>3. Counted /\ Semaphore /\ WritesCount
    BY <1>2, FS_EmptySet DEF Counted, Semaphore, WritesCount
  <1> QED
    BY <1>1, <1>3 DEF LibraryIInv


\* A step of a reader changes nothing for the writers.
LEMMA ReaderApart ==
    ASSUME Library!ReadersWritersAssumption, LibraryTypes, NEW r \in Readers,
           Library!ReaderStep(r)
    PROVE  /\ LibraryTypes'
           /\ \A t \in (Readers \cup Writers) \ {r} : at'[t] = at[t]
           /\ Library!Writing' = Library!Writing /\ Library!Written' = Library!Written
           /\ WritesCount => WritesCount'
  <1> USE DEF Library!ReadersWritersAssumption, LibraryTypes
  <1>1. /\ DOMAIN at' = Readers \cup Writers
        /\ \A t \in (Readers \cup Writers) \ {r} : at'[t] = at[t]
        /\ at'[r] \in {"arrive", "enter", "read", "leave", "done"}
        /\ sharedNum' = sharedNum /\ seen' = seen
    BY
       DEF Library!ReaderStep, Library!Arrive, Library!Enter, Library!Leave,
       Library!Left, Library!Goes
  <1>2. \A w \in Writers : at'[w] = at[w]
    BY <1>1
  <1>3. LibraryTypes'
    BY <1>1, <1>2
  <1>4. Library!Writing' = Library!Writing /\ Library!Written' = Library!Written
    BY <1>2 DEF Library!Writing, Library!Written
  <1> QED
    BY <1>1, <1>2, <1>3, <1>4 DEF WritesCount

LEMMA ReaderKeeps ==
    ASSUME Library!ReadersWritersAssumption, LibraryIInv, NEW r \in Readers,
           Library!ReaderStep(r)
    PROVE  LibraryIInv'
  <1> USE DEF LibraryIInv
  <1>1. /\ LibraryTypes' /\ WritesCount'
        /\ \A q \in Readers \ {r} : at'[q] = at[q]
        /\ Library!Writing' = Library!Writing
    BY ReaderApart
  <1>2. r # Nobody /\ DOMAIN at = Readers \cup Writers
    BY DEF Library!ReadersWritersAssumption, LibraryTypes
  <1>3. IsFiniteSet(Inside)
    BY LibrarySets
  <1>4. CASE Library!Arrive(r)
    <2>1. at[r] = "arrive" /\ at'[r] = "enter"
      BY <1>2, <1>4 DEF Library!Arrive, Library!Goes
    <2>2. CountLocked'
      BY <1>1, <1>2, <1>4, <2>1
         DEF Library!Arrive, CountLocked, Library!ReadersWritersAssumption
    <2>3. Inside' = Inside \cup {r} /\ r \notin Inside /\ Sharing' = Sharing
      BY <1>1, <2>1 DEF Inside, Sharing
    <2>4. Counted'
      BY <1>3, <1>4, <2>3, FS_AddElement DEF Library!Arrive, Counted
    <2>5. Semaphore'
      BY <1>1, <1>4, <2>3 DEF Library!Arrive, Semaphore
    <2> QED
      BY <1>1, <2>2, <2>4, <2>5
  <1>5. CASE Library!Enter(r)
    <2>1. at[r] = "enter" /\ at'[r] = "read"
      BY <1>2, <1>5 DEF Library!Enter, Library!Goes
    <2>2. rdCnt = r /\ \A q \in Readers \ {r} : at[q] \notin {"enter", "leave"}
      BY <2>1 DEF CountLocked
    <2>3. CountLocked'
      BY <1>1, <1>2, <1>5, <2>1, <2>2
         DEF Library!Enter, CountLocked, Library!ReadersWritersAssumption
    <2>4. /\ Inside' = Inside /\ Inside = Sharing \cup {r}
          /\ Sharing' = Sharing \cup {r} /\ r \notin Sharing
      BY <1>1, <2>1, <2>2 DEF Inside, Sharing
    <2>5. Counted'
      BY <1>5, <2>4 DEF Library!Enter, Counted
    <2>6. readCount = 1 <=> Sharing = {}
      <3>1. IsFiniteSet(Sharing)
        BY <1>3, <2>4, FS_Subset
      <3>2. Cardinality(Inside) = Cardinality(Sharing) + 1 /\ Cardinality(Sharing) \in Nat
        BY <2>4, <3>1, FS_AddElement, FS_CardinalityType
      <3>3. Cardinality(Sharing) = 0 <=> Sharing = {}
        BY <3>1, FS_EmptySet
      <3> QED
        BY <3>2, <3>3 DEF Counted
    <2>7. Semaphore'
      BY <1>1, <1>5, <2>4, <2>6 DEF Library!Enter, Library!acquire, Semaphore
    <2> QED
      BY <1>1, <2>3, <2>5, <2>7
  <1>6. CASE Library!Leave(r)
    <2>1. at[r] = "read" /\ at'[r] = "leave"
      BY <1>2, <1>6 DEF Library!Leave, Library!Goes
    <2>2. CountLocked'
      BY <1>1, <1>2, <1>6, <2>1
         DEF Library!Leave, CountLocked, Library!ReadersWritersAssumption
    <2>3. Inside' = Inside \ {r} /\ r \in Inside /\ Sharing' = Sharing
      BY <1>1, <2>1 DEF Inside, Sharing
    <2>4. Counted'
      BY <1>3, <1>6, <2>3, FS_RemoveElement DEF Library!Leave, Counted
    <2>5. Semaphore'
      BY <1>1, <1>6, <2>3 DEF Library!Leave, Semaphore
    <2> QED
      BY <1>1, <2>2, <2>4, <2>5
  <1>7. CASE Library!Left(r)
    <2>1. at[r] = "leave" /\ at'[r] = "done"
      BY <1>2, <1>7 DEF Library!Left, Library!Goes
    <2>2. rdCnt = r /\ \A q \in Readers \ {r} : at[q] \notin {"enter", "leave"}
      BY <2>1 DEF CountLocked
    <2>3. CountLocked'
      BY <1>1, <1>2, <1>7, <2>1, <2>2
         DEF Library!Left, CountLocked, Library!ReadersWritersAssumption
    <2>4. Inside' = Inside /\ Sharing' = Inside /\ r \in Sharing
      BY <1>1, <2>1, <2>2 DEF Inside, Sharing
    <2>5. Counted'
      BY <1>7, <2>4 DEF Library!Left, Counted
    <2>6. readCount = 0 <=> Inside = {}
      BY <1>3, FS_EmptySet DEF Counted
    <2>7. Semaphore'
      BY <1>1, <1>7, <2>4, <2>6 DEF Library!Left, Library!release, Semaphore
    <2> QED
      BY <1>1, <2>3, <2>5, <2>7
  <1> QED
    BY <1>4, <1>5, <1>6, <1>7 DEF Library!ReaderStep


\* A step of a writer changes nothing for the readers.
LEMMA WriterApart ==
    ASSUME Library!ReadersWritersAssumption, LibraryTypes, CountLocked, Counted,
           NEW w \in Writers, Library!WriterStep(w)
    PROVE  /\ DOMAIN at' = Readers \cup Writers /\ DOMAIN seen' = Writers
           /\ \A t \in (Readers \cup Writers) \ {w} : at'[t] = at[t]
           /\ \A v \in Writers \ {w} : seen'[v] = seen[v]
           /\ CountLocked' /\ Counted' /\ Sharing' = Sharing
  <1> USE DEF Library!ReadersWritersAssumption, LibraryTypes
  <1>1. /\ DOMAIN at' = Readers \cup Writers /\ DOMAIN seen' = Writers
        /\ \A t \in (Readers \cup Writers) \ {w} : at'[t] = at[t]
        /\ \A v \in Writers \ {w} : seen'[v] = seen[v]
        /\ rdCnt' = rdCnt /\ readCount' = readCount
    BY
       DEF Library!WriterStep, Library!Acquire, Library!Load, Library!Store,
       Library!Release, Library!Goes
  <1>2. \A r \in Readers : at'[r] = at[r]
    BY <1>1
  <1>3. Inside' = Inside /\ Sharing' = Sharing
    BY <1>2 DEF Inside, Sharing
  <1> QED
    BY <1>1, <1>2, <1>3 DEF CountLocked, Counted

LEMMA WriterKeeps ==
    ASSUME Library!ReadersWritersAssumption, LibraryIInv, NEW w \in Writers,
           Library!WriterStep(w)
    PROVE  LibraryIInv'
  <1> USE DEF LibraryIInv
  <1>1. /\ DOMAIN at' = Readers \cup Writers /\ DOMAIN seen' = Writers
        /\ \A r \in Readers : at'[r] = at[r]
        /\ \A v \in Writers \ {w} : at'[v] = at[v] /\ seen'[v] = seen[v]
        /\ CountLocked' /\ Counted' /\ Sharing' = Sharing
    BY WriterApart DEF Library!ReadersWritersAssumption
  <1>2. DOMAIN at = Readers \cup Writers /\ DOMAIN seen = Writers /\ sharedNum \in Nat
    BY DEF LibraryTypes
  <1>3. IsFiniteSet(Library!Written) /\ Cardinality(Library!Written) \in Nat
    BY LibrarySets, FS_CardinalityType
  <1>4. ASSUME at'[w] \in {"acquire", "load", "store", "release", "done"},
  sharedNum' \in Nat
        PROVE  LibraryTypes'
    BY <1>1, <1>4 DEF LibraryTypes
  <1>5. CASE Library!Acquire(w)
    <2>1. at[w] = "acquire" /\ at'[w] = "load"
      BY <1>2, <1>5 DEF Library!Acquire, Library!Goes
    <2>2. LibraryTypes'
      BY <1>2, <1>4, <1>5, <2>1 DEF Library!Acquire
    <2>3. Library!Writing' = Library!Writing \cup {w} /\ Library!Written' = Library!Written
      BY <1>1, <2>1 DEF Library!Writing, Library!Written
    <2>4. Semaphore'
      BY <1>1, <1>5, <2>3 DEF Library!Acquire, Library!acquire, Semaphore
    <2>5. WritesCount'
      BY <1>1, <1>5, <2>1, <2>3 DEF Library!Acquire, WritesCount
    <2> QED
      BY <1>1, <2>2, <2>4, <2>5
  <1>6. CASE Library!Load(w)
    <2>1. at[w] = "load" /\ at'[w] = "store" /\ seen'[w] = sharedNum
      BY <1>2, <1>6 DEF Library!Load, Library!Goes
    <2>2. LibraryTypes'
      BY <1>2, <1>4, <1>6, <2>1 DEF Library!Load
    <2>3. Library!Writing' = Library!Writing /\ Library!Written' = Library!Written
      BY <1>1, <2>1 DEF Library!Writing, Library!Written
    <2>4. Semaphore'
      BY <1>1, <1>6, <2>3 DEF Library!Load, Semaphore
    <2>5. WritesCount'
      BY <1>1, <1>6, <2>1, <2>3 DEF Library!Load, WritesCount
    <2> QED
      BY <1>1, <2>2, <2>4, <2>5
  <1>7. CASE Library!Store(w)
    <2>1. /\ at[w] = "store" /\ at'[w] = "release"
          /\ seen[w] = sharedNum /\ sharedNum' = sharedNum + 1
      BY <1>2, <1>7 DEF Library!Store, Library!Goes, WritesCount
    <2>2. LibraryTypes'
      BY <1>2, <1>4, <2>1
    <2>3. Library!Writing' = Library!Writing /\ w \in Library!Writing
      BY <1>1, <2>1 DEF Library!Writing
    <2>4. Library!Written' = Library!Written \cup {w} /\ w \notin Library!Written
      BY <1>1, <2>1 DEF Library!Written
    <2>5. Semaphore'
      BY <1>1, <1>7, <2>3 DEF Library!Store, Semaphore
    <2>6. \A v \in Writers \ {w} : at[v] # "store"
      BY <2>3 DEF Semaphore, Library!Writing
    <2>7. Cardinality(Library!Written') = Cardinality(Library!Written) + 1
      BY <1>3, <2>4, FS_AddElement
    <2>8. WritesCount'
      BY <1>1, <1>3, <2>1, <2>6, <2>7 DEF WritesCount
    <2> QED
      BY <1>1, <2>2, <2>5, <2>8
  <1>8. CASE Library!Release(w)
    <2>1. at[w] = "release" /\ at'[w] = "done"
      BY <1>2, <1>8 DEF Library!Release, Library!Goes
    <2>2. LibraryTypes'
      BY <1>2, <1>4, <1>8, <2>1 DEF Library!Release
    <2>3. /\ Library!Writing' = Library!Writing \ {w} /\ w \in Library!Writing
          /\ Library!Written' = Library!Written
      BY <1>1, <2>1 DEF Library!Writing, Library!Written
    <2>4. Semaphore'
      BY <1>1, <1>8, <2>3 DEF Library!Release, Library!release, Semaphore
    <2>5. WritesCount'
      BY <1>1, <1>8, <2>1, <2>3 DEF Library!Release, WritesCount
    <2> QED
      BY <1>1, <2>2, <2>4, <2>5
  <1> QED
    BY <1>5, <1>6, <1>7, <1>8 DEF Library!WriterStep


\* A writer is alone, and sharedNum counts the writers (reader, writer).
LEMMA LibraryExcludes ==
    ASSUME Library!ReadersWritersAssumption
    PROVE  Library!Spec => []Library!WritersExclude
  <1>1. LibraryIInv /\ UNCHANGED Library!vars => LibraryIInv'
    BY
       DEF LibraryIInv, Library!vars, LibraryTypes, CountLocked, Counted, Semaphore,
       WritesCount,
           Inside, Sharing, Library!Writing, Library!Written
  <1>2. LibraryIInv /\ [Library!Next]_Library!vars => LibraryIInv'
    BY <1>1, ReaderKeeps, WriterKeeps DEF Library!Next
  <1>3. LibraryIInv => Library!WritersExclude
    <2> SUFFICES ASSUME LibraryIInv PROVE Library!WritersExclude
      OBVIOUS
    <2>1. Library!Reading \subseteq Sharing
      BY DEF Library!Reading, Sharing
    <2>2. Library!Writing # {} => Library!Reading = {} /\ Cardinality(Library!Writing) = 1
      BY <2>1, FS_Singleton DEF LibraryIInv, Semaphore
    <2> QED
      BY <2>2 DEF LibraryIInv, Semaphore, WritesCount, Library!WritersExclude,
         Library!Cardinality, Cardinality
  <1> QED
    BY LibraryInitIInv, <1>2, <1>3, PTL DEF Library!Spec

\* A writer is alone, and sharedNum counts the writers (reader, writer).
THEOREM WritersAlone == Spec => []WritersExclude
  <1>1. Init => Library!Init
    BY DEF Init
  <1>2. [Next]_vars => [Library!Next]_Library!vars
    BY DEF Next, vars, libraryVars, Library!vars, Library!Next, Philosopher, Worker,
           Spurious, Reader, Writer, Barber, Customer, Caller, Ended
  <1>3. Library!Spec => []Library!WritersExclude
    BY Task2Assumption, LibraryExcludes
  <1> QED
    BY <1>1, <1>2, <1>3, PTL DEF Spec, Library!Spec, WritersExclude

-----------------------------------------------------------------------------
(* The sleeping barber *)

\* The sizes of sets that SleepingBarber speaks of.
LEMMA ShopSizes ==
    \A S : /\ Shop!Cardinality(S) = Cardinality(S)
           /\ Shop!IsFiniteSet(S) <=> IsFiniteSet(S)
  BY DEF Shop!Cardinality, Cardinality, Shop!IsFiniteSet, IsFiniteSet

ShopIInv ==
    /\ waiting \in Int /\ customers \in Nat /\ barber \in Nat
    /\ barberAt \in {"asleep", "call", "cut"}
    /\ DOMAIN customer = Customers
    /\ Shop!ChairsBalance


LEMMA AtType ==
    ASSUME Shop!BarberAssumption, NEW where
    PROVE  Shop!At(where) \in Nat
  BY FS_Subset, FS_CardinalityType, ShopSizes DEF Shop!BarberAssumption, Shop!At

\* A customer who goes on is one less where he was and one more where he is.
LEMMA CustomerMoves ==
    ASSUME Shop!BarberAssumption, DOMAIN customer = Customers,
           NEW c \in Customers, NEW from, NEW to, from # to, Shop!Goes(c, from, to)
    PROVE  /\ DOMAIN customer' = Customers
           /\ Shop!At(from)' = Shop!At(from) - 1
           /\ Shop!At(to)' = Shop!At(to) + 1
           /\ \A other : other \notin {from, to} => Shop!At(other)' = Shop!At(other)
  <1> DEFINE Those(where) == {d \in Customers : customer[d] = where}
  <1>1. /\ DOMAIN customer' = Customers
        /\ customer[c] = from /\ customer'[c] = to
        /\ \A d \in Customers \ {c} : customer'[d] = customer[d]
    BY DEF Shop!Goes
  <1>2. \A where : IsFiniteSet(Those(where))
    BY FS_Subset, ShopSizes DEF Shop!BarberAssumption
  <1>3. Those(from)' = Those(from) \ {c} /\ c \in Those(from)
    BY <1>1
  <1>4. Those(to)' = Those(to) \cup {c} /\ c \notin Those(to)
    BY <1>1
  <1>5. \A other : other \notin {from, to} => Those(other)' = Those(other)
    BY <1>1
  <1>6. Shop!At(from)' = Shop!At(from) - 1
    <2>1. IsFiniteSet(Those(from))
      BY <1>2
    <2>2. Cardinality(Those(from)') = Cardinality(Those(from)) - 1
      BY <1>3, <2>1, FS_RemoveElement
    <2> QED
      BY <2>2, ShopSizes DEF Shop!At
  <1>7. Shop!At(to)' = Shop!At(to) + 1
    <2>1. IsFiniteSet(Those(to))
      BY <1>2
    <2>2. Cardinality(Those(to)') = Cardinality(Those(to)) + 1
      BY <1>4, <2>1, FS_AddElement
    <2> QED
      BY <2>2, ShopSizes DEF Shop!At
  <1> QED
    BY <1>1, <1>5, <1>6, <1>7 DEF Shop!At

LEMMA ShopInitIInv ==
    ASSUME Shop!BarberAssumption
    PROVE  Shop!Init => ShopIInv
  <1> SUFFICES ASSUME Shop!Init PROVE ShopIInv
    OBVIOUS
  <1>1. /\ {c \in Customers : customer[c] = "signal"} = {}
        /\ {c \in Customers : customer[c] = "wait"} = {}
    BY DEF Shop!Init
  <1>2. Shop!At("signal") = 0 /\ Shop!At("wait") = 0
    BY <1>1, FS_EmptySet, ShopSizes DEF Shop!At
  <1> QED
    BY <1>2 DEF Shop!Init, ShopIInv, Shop!ChairsBalance, Shop!BarberAssumption

LEMMA BarberKeeps ==
    ASSUME Shop!BarberAssumption, ShopIInv, Shop!BarberStep
    PROVE  ShopIInv'
  <1> USE DEF ShopIInv, Shop!ChairsBalance
  <1>1. customer' = customer
    BY DEF Shop!BarberStep, Shop!WakeUp, Shop!Call, Shop!Release
  <1>2. \A where : Shop!At(where)' = Shop!At(where)
    BY <1>1 DEF Shop!At
  <1>3. Shop!At("signal") \in Nat /\ Shop!At("wait") \in Nat /\ CHAIRS \in Nat
    BY AtType DEF Shop!BarberAssumption
  <1>4. CASE Shop!WakeUp
    BY <1>1, <1>2, <1>3, <1>4 DEF Shop!WakeUp
  <1>5. CASE Shop!Call
    BY <1>1, <1>2, <1>3, <1>5 DEF Shop!Call
  <1>6. CASE Shop!Release
    BY <1>1, <1>2, <1>3, <1>6 DEF Shop!Release
  <1> QED
    BY <1>4, <1>5, <1>6 DEF Shop!BarberStep

LEMMA CustomerKeeps ==
    ASSUME Shop!BarberAssumption, ShopIInv, NEW c \in Customers, Shop!CustomerStep(c)
    PROVE  ShopIInv'
  <1> USE DEF ShopIInv, Shop!ChairsBalance
  <1>1. Shop!At("signal") \in Nat /\ Shop!At("wait") \in Nat /\ CHAIRS \in Nat
    BY AtType DEF Shop!BarberAssumption
  <1>2. CASE Shop!Sit(c)
    <2>1. /\ DOMAIN customer' = Customers
          /\ Shop!At("signal")' = Shop!At("signal") + 1
          /\ Shop!At("wait")' = Shop!At("wait")
      BY <1>2, CustomerMoves DEF Shop!Sit
    <2> QED
      BY <1>1, <1>2, <2>1 DEF Shop!Sit
  <1>3. CASE Shop!TurnAway(c)
    <2>1. /\ DOMAIN customer' = Customers
          /\ Shop!At("signal")' = Shop!At("signal")
          /\ Shop!At("wait")' = Shop!At("wait")
      BY <1>3, CustomerMoves DEF Shop!TurnAway
    <2> QED
      BY <1>1, <1>3, <2>1 DEF Shop!TurnAway
  <1>4. CASE Shop!Signal(c)
    <2>1. /\ DOMAIN customer' = Customers
          /\ Shop!At("signal")' = Shop!At("signal") - 1
          /\ Shop!At("wait")' = Shop!At("wait") + 1
      BY <1>4, CustomerMoves DEF Shop!Signal
    <2> QED
      BY <1>1, <1>4, <2>1 DEF Shop!Signal
  <1>5. CASE Shop!LeaveCut(c)
    <2>1. /\ DOMAIN customer' = Customers
          /\ Shop!At("signal")' = Shop!At("signal")
          /\ Shop!At("wait")' = Shop!At("wait") - 1
      BY <1>5, CustomerMoves DEF Shop!LeaveCut
    <2> QED
      BY <1>1, <1>5, <2>1 DEF Shop!LeaveCut
  <1> QED
    BY <1>2, <1>3, <1>4, <1>5 DEF Shop!CustomerStep

\* Chairs, signals and customers agree at every moment (barberFunc,
\* customerFunc).
LEMMA ShopBalances ==
    ASSUME Shop!BarberAssumption
    PROVE  Shop!Spec => []Shop!ChairsBalance
  <1>1. ShopIInv /\ UNCHANGED Shop!vars => ShopIInv'
    BY DEF ShopIInv, Shop!vars, Shop!ChairsBalance, Shop!At
  <1>2. ShopIInv /\ [Shop!Next]_Shop!vars => ShopIInv'
    BY <1>1, BarberKeeps, CustomerKeeps DEF Shop!Next
  <1>3. ShopIInv => Shop!ChairsBalance
    BY DEF ShopIInv
  <1> QED
    BY ShopInitIInv, <1>2, <1>3, PTL DEF Shop!Spec

\* Chairs, signals and customers agree (barberFunc, customerFunc).
THEOREM ChairsAgree == Spec => []ChairsBalance
  <1>1. Init => Shop!Init
    BY DEF Init
  <1>2. [Next]_vars => [Shop!Next]_Shop!vars
    BY DEF Next, vars, shopVars, Shop!vars, Shop!Next, Philosopher, Worker,
           Spurious, Reader, Writer, Barber, Customer, Caller, Ended
  <1>3. Shop!Spec => []Shop!ChairsBalance
    BY Task2Assumption, ShopBalances
  <1> QED
    BY <1>1, <1>2, <1>3, PTL DEF Spec, Shop!Spec, ChairsBalance

-----------------------------------------------------------------------------
(* ChatService *)

\* Only the thread that has locked the mutex is in a call.
CallLocked == \A t \in Callers : caller[t] # Chat!Idle => service = t

\* What a call has read is what it would read now.
Current(call) ==
    /\ call.is = "storeUser" => call.id = next_user_id
    /\ call.is = "storeChat" =>
          /\ call.id = next_chat_id
          /\ call.members # {} /\ call.members \subseteq users_
    /\ call.is = "storeMessage" =>
          /\ Chat!isChatValid(call.chat)
          /\ call.user \in users_ \cap chats_[call.chat].members
          /\ call.messages = chats_[call.chat].messages

\* The ids that were given are below the next one, each given once.
IdsGiven ==
    /\ next_user_id \in Nat
    /\ created \in Seq(Nat)
    /\ \A i \in DOMAIN created : created[i] < next_user_id
    /\ \A i, j \in DOMAIN created : created[i] = created[j] => i = j

\* The messages of a chat are those that were answered as sent, by members.
MessagesHeld ==
    /\ DOMAIN sent = DOMAIN chats_
    /\ \A c \in DOMAIN chats_ :
          /\ DOMAIN chats_[c] = {"members", "messages"}
          /\ chats_[c].messages = sent[c]
          /\ sent[c] \in Seq(chats_[c].members)

ChatIInv ==
    /\ DOMAIN caller = Callers
    /\ CallLocked
    /\ \A t \in Callers : Current(caller[t])
    /\ IdsGiven
    /\ MessagesHeld


LEMMA ChatInitIInv ==
    ASSUME Chat!ChatAssumption
    PROVE  Chat!Init => ChatIInv
  <1> SUFFICES ASSUME Chat!Init PROVE ChatIInv
    OBVIOUS
  <1> USE DEF Chat!Init
  <1>1. DOMAIN caller = Callers /\ CallLocked
    BY DEF CallLocked
  <1>2. \A t \in Callers : Current(caller[t])
    BY DEF Current, Chat!Idle
  <1>3. IdsGiven
    <2>1. FIRST_USERS \in Nat
      BY DEF Chat!ChatAssumption
    <2>2. created \in [1 .. FIRST_USERS -> Nat]
      BY <2>1
    <2>3. created \in Seq(Nat) /\ DOMAIN created = 1 .. FIRST_USERS
      BY <2>1, <2>2
    <2> QED
      BY <2>1, <2>3 DEF IdsGiven
  <1>4. MessagesHeld
    BY DEF MessagesHeld
  <1> QED
    BY <1>1, <1>2, <1>3, <1>4 DEF ChatIInv

\* A thread in a call has locked the mutex, and the others are in none.
LEMMA Alone ==
    ASSUME ChatIInv, NEW t \in Callers, caller[t] # Chat!Idle
    PROVE  /\ service = t
           /\ \A s \in Callers \ {t} : caller[s] = Chat!Idle
  BY DEF ChatIInv, CallLocked

\* A step of t that ends its call leaves all threads outside of calls.
LEMMA ReturnIdle ==
    ASSUME ChatIInv, NEW t \in Callers, caller[t] # Chat!Idle, Chat!Return(t)
    PROVE  /\ DOMAIN caller' = Callers
           /\ CallLocked'
           /\ \A s \in Callers : Current(caller[s])'
  <1>1. DOMAIN caller = Callers
    BY DEF ChatIInv
  <1>2. \A s \in Callers : caller'[s] = Chat!Idle
    BY <1>1, Alone DEF Chat!Return
  <1>3. DOMAIN caller' = Callers
    BY <1>1 DEF Chat!Return
  <1>4. \A s \in Callers : Current(caller[s])'
    BY <1>2 DEF Current, Chat!Idle
  <1> QED
    BY <1>2, <1>3, <1>4 DEF CallLocked

\* A step that leaves users, chats and ids alone leaves what is known of them.
LEMMA ServiceUnchanged ==
    ASSUME ChatIInv,
           UNCHANGED << users_, chats_, next_user_id, next_chat_id, created, sent >>
    PROVE  IdsGiven' /\ MessagesHeld'
  BY DEF ChatIInv, IdsGiven, MessagesHeld

LEMMA EnterIInv ==
    ASSUME Chat!ChatAssumption, ChatIInv, NEW t \in Callers, Chat!Enter(t)
    PROVE  ChatIInv'
  <1> USE DEF Chat!Enter
  <1>1. PICK call \in Chat!CallsPossible : caller' = [caller EXCEPT ![t] = call]
    OBVIOUS
  <1>2. /\ DOMAIN caller' = Callers
        /\ caller'[t] = call
        /\ \A s \in Callers \ {t} : caller'[s] = caller[s]
    BY <1>1 DEF ChatIInv
  <1>3. \A s \in Callers : caller[s] = Chat!Idle
    BY DEF ChatIInv, CallLocked, Chat!ChatAssumption
  <1>4. CallLocked'
    BY <1>2, <1>3 DEF CallLocked
  <1>5. \A s \in Callers \ {t} : Current(caller[s])'
    BY <1>2, <1>3 DEF Current, Chat!Idle
  <1>6. Current(caller[t])'
    <2>1. call.is \notin {"storeUser", "storeChat", "storeMessage"}
      BY DEF Chat!CallsPossible
    <2> QED
      BY <1>2, <2>1 DEF Current
  <1> QED
    BY <1>2, <1>4, <1>5, <1>6, ServiceUnchanged DEF ChatIInv

LEMMA ReadIInv ==
    ASSUME ChatIInv, NEW t \in Callers, Chat!Read(t)
    PROVE  ChatIInv'
  <1> USE DEF Chat!Read
  <1>1. caller[t] # Chat!Idle
    BY DEF Chat!Idle
  <1>2. /\ DOMAIN caller' = Callers
        /\ \A s \in Callers \ {t} : caller'[s] = caller[s]
    BY DEF ChatIInv
  <1>3. CallLocked'
    BY <1>1, <1>2, Alone DEF CallLocked
  <1>4. \A s \in Callers \ {t} : Current(caller[s])'
    BY <1>1, <1>2, Alone DEF Current, Chat!Idle
  <1>5. Current(caller[t])'
    <2>1. CASE caller[t].is = "createUser"
      <3>1. caller'[t] = [is |-> "storeUser", id |-> next_user_id]
        BY <2>1 DEF ChatIInv
      <3> QED
        BY <3>1 DEF Current
    <2>2. CASE caller[t].is = "createDirectChat"
      <3>1. caller'[t] = [is |-> "storeChat", id |-> next_chat_id,
                          members |-> {caller[t].user1, caller[t].user2}]
        BY <2>2 DEF ChatIInv
      <3>2. caller[t].user1 \in users_ /\ caller[t].user2 \in users_
        BY <2>2 DEF Chat!Refused, Chat!isUserValid
      <3> QED
        BY <3>1, <3>2 DEF Current
    <2>3. CASE caller[t].is = "createGroupChat"
      <3>1. caller'[t] = [is |-> "storeChat", id |-> next_chat_id,
                          members |-> caller[t].members]
        BY <2>3 DEF ChatIInv
      <3>2. caller[t].members # {} /\ caller[t].members \subseteq users_
        BY <2>3 DEF Chat!Refused, Chat!isUserValid
      <3> QED
        BY <3>1, <3>2 DEF Current
    <2>4. CASE caller[t].is = "sendMessage"
      <3>1. caller'[t] = [is |-> "storeMessage", chat |-> caller[t].chat,
                          user |-> caller[t].user,
                          messages |-> chats_[caller[t].chat].messages]
        BY <2>4 DEF ChatIInv
      <3>2. /\ Chat!isChatValid(caller[t].chat)
            /\ caller[t].user \in users_ \cap chats_[caller[t].chat].members
        BY <2>4 DEF Chat!Refused, Chat!isUserValid
      <3> QED
        BY <3>1, <3>2 DEF Current, Chat!isChatValid
    <2> QED
      BY <2>1, <2>2, <2>3, <2>4
  <1> QED
    BY <1>2, <1>3, <1>4, <1>5, ServiceUnchanged DEF ChatIInv

LEMMA StoreUserIInv ==
    ASSUME ChatIInv, NEW t \in Callers, Chat!StoreUser(t)
    PROVE  ChatIInv'
  <1> USE DEF Chat!StoreUser
  <1>1. caller[t] # Chat!Idle
    BY DEF Chat!Idle
  <1>2. caller[t].id = next_user_id
    BY DEF ChatIInv, Current
  <1>3. IdsGiven'
    <2>1. /\ next_user_id \in Nat /\ created \in Seq(Nat)
          /\ next_user_id' = next_user_id + 1
          /\ created' = Append(created, next_user_id)
      BY <1>2 DEF ChatIInv, IdsGiven
    <2>2. /\ created' \in Seq(Nat)
          /\ DOMAIN created' = 1 .. Len(created) + 1
          /\ DOMAIN created = 1 .. Len(created)
          /\ created'[Len(created) + 1] = next_user_id
          /\ \A i \in 1 .. Len(created) : created'[i] = created[i]
      BY <2>1
    <2>3. \A i \in DOMAIN created : created[i] < next_user_id /\ created[i] \in Nat
      BY <2>1 DEF ChatIInv, IdsGiven
    <2>4. \A i \in DOMAIN created' : i = Len(created) + 1 \/ i \in DOMAIN created
      BY <2>1, <2>2
    <2>5. \A i \in DOMAIN created' : created'[i] < next_user_id'
      BY <2>1, <2>2, <2>3, <2>4
    <2>6. \A i, j \in DOMAIN created' : created'[i] = created'[j] => i = j
      BY <2>1, <2>2, <2>3, <2>4 DEF ChatIInv, IdsGiven
    <2> QED
      BY <2>1, <2>2, <2>5, <2>6 DEF IdsGiven
  <1>4. MessagesHeld'
    BY DEF ChatIInv, MessagesHeld
  <1> QED
    BY <1>1, <1>3, <1>4, ReturnIdle DEF ChatIInv

LEMMA StoreChatIInv ==
    ASSUME ChatIInv, NEW t \in Callers, Chat!StoreChat(t)
    PROVE  ChatIInv'
  <1> USE DEF Chat!StoreChat
  <1>1. caller[t] # Chat!Idle
    BY DEF Chat!Idle
  <1>2. IdsGiven'
    BY DEF ChatIInv, IdsGiven
  <1>3. MessagesHeld'
    <2> DEFINE new == caller[t].id
    <2>1. /\ DOMAIN sent' = DOMAIN chats_ \cup {new}
          /\ DOMAIN chats_' = DOMAIN chats_ \cup {new}
      OBVIOUS
    <2>2. /\ chats_'[new] = [members |-> caller[t].members, messages |-> << >>]
          /\ sent'[new] = << >>
      OBVIOUS
    <2>3. \A c \in DOMAIN chats_ \ {new} : chats_'[c] = chats_[c] /\ sent'[c] = sent[c]
      OBVIOUS
    <2>4. MessagesHeld
      BY DEF ChatIInv
    <2> HIDE DEF new, Chat!StoreChat
    <2>5. DOMAIN sent' = DOMAIN chats_'
      BY <2>1
    <2>6. /\ DOMAIN chats_'[new] = {"members", "messages"}
          /\ chats_'[new].messages = sent'[new]
          /\ sent'[new] \in Seq(chats_'[new].members)
      BY <2>2
    <2>7. ASSUME NEW c \in DOMAIN chats_ \ {new}
          PROVE  /\ DOMAIN chats_'[c] = {"members", "messages"}
                 /\ chats_'[c].messages = sent'[c]
                 /\ sent'[c] \in Seq(chats_'[c].members)
      BY <2>3, <2>4 DEF MessagesHeld
    <2> QED
      BY <2>1, <2>5, <2>6, <2>7 DEF MessagesHeld
  <1> QED
    BY <1>1, <1>2, <1>3, ReturnIdle DEF ChatIInv

LEMMA StoreMessageIInv ==
    ASSUME ChatIInv, NEW t \in Callers, Chat!StoreMessage(t)
    PROVE  ChatIInv'
  <1> USE DEF Chat!StoreMessage
  <1> DEFINE chat == caller[t].chat
             user == caller[t].user
  <1>1. caller[t] # Chat!Idle
    BY DEF Chat!Idle
  <1>2. IdsGiven'
    BY DEF ChatIInv, IdsGiven
  <1>3. /\ chat \in DOMAIN chats_
        /\ user \in chats_[chat].members
        /\ caller[t].messages = sent[chat]
    BY DEF ChatIInv, Current, MessagesHeld, Chat!isChatValid
  <1>4. MessagesHeld'
    <2>1. DOMAIN chats_' = DOMAIN chats_ /\ DOMAIN sent' = DOMAIN sent
      OBVIOUS
    <2>2. \A c \in DOMAIN chats_ :
              /\ DOMAIN chats_'[c] = DOMAIN chats_[c]
              /\ chats_'[c].members = chats_[c].members
      OBVIOUS
    <2>3. \A c \in DOMAIN chats_ \ {chat} :
              chats_'[c] = chats_[c] /\ sent'[c] = sent[c]
      BY DEF ChatIInv, MessagesHeld
    <2>4. /\ chats_'[chat].messages = Append(sent[chat], user)
          /\ sent'[chat] = Append(sent[chat], user)
      BY <1>3 DEF ChatIInv, MessagesHeld
    <2>5. Append(sent[chat], user) \in Seq(chats_[chat].members)
      <3>1. ASSUME NEW S, NEW q \in Seq(S), NEW x \in S
            PROVE  Append(q, x) \in Seq(S)
        OBVIOUS
      <3>2. sent[chat] \in Seq(chats_[chat].members)
        BY <1>3 DEF ChatIInv, MessagesHeld
      <3>3. user \in chats_[chat].members
        BY <1>3
      <3> HIDE DEF chat, user, Chat!StoreMessage
      <3> QED
        BY <3>1, <3>2, <3>3
    <2>6. MessagesHeld
      BY DEF ChatIInv
    <2> HIDE DEF chat, user, Chat!StoreMessage
    <2>7. /\ DOMAIN chats_'[chat] = {"members", "messages"}
          /\ chats_'[chat].messages = sent'[chat]
          /\ sent'[chat] \in Seq(chats_'[chat].members)
      BY <1>3, <2>2, <2>4, <2>5, <2>6 DEF MessagesHeld
    <2>8. ASSUME NEW c \in DOMAIN chats_ \ {chat}
          PROVE  /\ DOMAIN chats_'[c] = {"members", "messages"}
                 /\ chats_'[c].messages = sent'[c]
                 /\ sent'[c] \in Seq(chats_'[c].members)
      BY <2>3, <2>6, <2>8 DEF MessagesHeld
    <2> QED
      BY <2>1, <2>6, <2>7, <2>8 DEF MessagesHeld
  <1> QED
    BY <1>1, <1>2, <1>4, ReturnIdle DEF ChatIInv

LEMMA NextIInv ==
    ASSUME Chat!ChatAssumption, ChatIInv, [Chat!Next]_Chat!vars
    PROVE  ChatIInv'
  <1>1. ASSUME NEW t \in Callers, Chat!Leave(t)
        PROVE  ChatIInv'
    <2>1. caller[t] # Chat!Idle
      BY <1>1 DEF Chat!Leave, Chat!Refused, Chat!Idle
    <2> QED
      BY <1>1, <2>1, ReturnIdle, ServiceUnchanged DEF ChatIInv, Chat!Leave
  <1>2. CASE UNCHANGED Chat!vars
    <2>1. CallLocked' /\ \A t \in Callers : Current(caller[t])'
      BY <1>2 DEF ChatIInv, CallLocked, Current, Chat!isChatValid, Chat!vars
    <2> QED
      BY <1>2, <2>1, ServiceUnchanged DEF ChatIInv, Chat!vars
  <1> QED
    BY <1>1, <1>2, EnterIInv, ReadIInv, StoreUserIInv, StoreChatIInv, StoreMessageIInv
       DEF Chat!Next, Chat!Step


\* The threads never leave the inductive invariant.
LEMMA ChatInvariance ==
    ASSUME Chat!ChatAssumption
    PROVE  Chat!Spec => []ChatIInv
  <1>1. Chat!Init => ChatIInv
    BY ChatInitIInv
  <1>2. ChatIInv /\ [Chat!Next]_Chat!vars => ChatIInv'
    BY NextIInv
  <1> QED
    BY <1>1, <1>2, PTL DEF Chat!Spec

\* However many threads make however many calls, no two users get one id, and
\* every message that was answered as sent is in its chat, in order, from a
\* member of it (ChatService.cpp, the mutex service).
LEMMA ChatAnswersHold ==
    ASSUME Chat!ChatAssumption
    PROVE  Chat!Spec => []Chat!AnswersHold
  <1>1. ChatIInv => Chat!AnswersHold
    BY DEF ChatIInv, IdsGiven, MessagesHeld, Chat!AnswersHold
  <1> QED
    BY <1>1, ChatInvariance, PTL


\* A step is a whole call of BitChat, when it stores, or changes nothing.
LEMMA StepIsCall ==
    ASSUME ChatIInv, [Chat!Next]_Chat!vars
    PROVE  [Chat!Bit!Next]_(Chat!Bit!vars)
  <1>1. ASSUME NEW t \in Callers, Chat!Enter(t) \/ Chat!Leave(t) \/ Chat!Read(t)
        PROVE  UNCHANGED Chat!Bit!vars
    BY <1>1 DEF Chat!Enter, Chat!Leave, Chat!Read, Chat!Bit!vars
  <1>2. ASSUME NEW t \in Callers, Chat!StoreUser(t)
        PROVE  Chat!Bit!createUser
    BY <1>2 DEF Chat!StoreUser, ChatIInv, Current, Chat!Bit!createUser
  <1>3. ASSUME NEW t \in Callers, Chat!StoreChat(t)
        PROVE  \E members \in SUBSET users_ : Chat!Bit!createGroupChat(members)
    <2>1. /\ caller[t].id = next_chat_id
          /\ caller[t].members # {} /\ caller[t].members \subseteq users_
      BY <1>3 DEF Chat!StoreChat, ChatIInv, Current
    <2>2. Chat!Bit!NewChat(caller[t].members)
      BY <1>3, <2>1 DEF Chat!StoreChat, Chat!Bit!NewChat
    <2> QED
      BY <2>1, <2>2 DEF Chat!Bit!createGroupChat, Chat!Bit!isUserValid
  <1>4. ASSUME NEW t \in Callers, Chat!StoreMessage(t)
        PROVE  \E c \in DOMAIN chats_, u \in users_ : Chat!Bit!sendMessage(c, u)
    <2>1. /\ caller[t].chat \in DOMAIN chats_
          /\ caller[t].user \in users_ \cap chats_[caller[t].chat].members
          /\ caller[t].messages = chats_[caller[t].chat].messages
      BY <1>4 DEF Chat!StoreMessage, ChatIInv, Current, Chat!isChatValid
    <2> QED
      BY <1>4, <2>1
        
            DEF Chat!StoreMessage, Chat!Bit!sendMessage, Chat!Bit!isChatValid,
            Chat!Bit!isUserValid,
             Chat!Bit!isUserInChat
  <1>5. CASE UNCHANGED Chat!vars
    BY <1>5 DEF Chat!vars, Chat!Bit!vars
  <1> QED
    BY <1>1, <1>2, <1>3, <1>4, <1>5 DEF Chat!Next, Chat!Step, Chat!Bit!Next

\* Behind its mutex, the service of any number of threads is the one that
\* BitChat is for a single caller: the calls take effect one after the other.
LEMMA ChatIsBitChat ==
    ASSUME Chat!ChatAssumption
    PROVE  Chat!Spec => Chat!CallsAreSequential
  <1>1. Chat!Init => Chat!Bit!Init
    BY DEF Chat!Init, Chat!Bit!Init
  <1>2. ChatIInv /\ [Chat!Next]_Chat!vars => [Chat!Bit!Next]_(Chat!Bit!vars)
    BY StepIsCall
  <1> QED
    BY <1>1, <1>2, ChatInvariance, PTL DEF Chat!Spec, Chat!CallsAreSequential, Chat!Bit!Spec

LEMMA ChatImplements == Spec => Chat!Spec
  <1>1. Init => Chat!Init
    BY DEF Init
  <1>2. [Next]_vars => [Chat!Next]_Chat!vars
    BY DEF Next, vars, chatVars, Chat!vars, Chat!Next, Philosopher, Worker, Spurious,
           Reader, Writer, Barber, Customer, Caller, Ended
  <1> QED
    BY <1>1, <1>2, PTL DEF Spec, Chat!Spec

\* What the callers of the service were told is so (ChatService).
THEOREM CallersWereToldRight == Spec => []AnswersHold
  <1>1. Chat!Spec => []Chat!AnswersHold
    BY Task2Assumption, ChatAnswersHold
  <1> QED
    BY ChatImplements, <1>1, PTL DEF AnswersHold

\* The service with its mutex is BitChat to its callers (ChatService).
THEOREM ServiceIsBitChat == Spec => CallsAreSequential
  <1>1. Chat!Spec => Chat!CallsAreSequential
    BY Task2Assumption, ChatIsBitChat
  <1> QED
    BY ChatImplements, <1>1, PTL DEF CallsAreSequential
=============================================================================
