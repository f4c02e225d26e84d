------------------------- MODULE DiningPhilosophers -------------------------
(***************************************************************************)
(* Dining_philosophers.cpp: N threads, each of which takes two neighbouring *)
(* fork mutexes, eats once and puts them back.  The threads with an odd id *)
(* take the left fork first, the others the right one.                     *)
(* The mutex iod is held for a print only, and is left out.                *)
(***************************************************************************)
EXTENDS Naturals, FiniteSets

CONSTANT N     \* the number of philosophers, and of forks

\* What is assumed of the constants.
NAssumption == N \in Nat /\ N >= 2

VARIABLES
    forkMutex,      \* who has locked each fork
    philosopher     \* where each thread is

vars == << forkMutex, philosopher >>

Ids == 0 .. N - 1
NoPhilosopher == N

left(id) == id
right(id) == (id + 1) % N

FirstFork(id)  == IF id % 2 = 1 THEN left(id) ELSE right(id)
SecondFork(id) == IF id % 2 = 1 THEN right(id) ELSE left(id)

Init ==
    /\ forkMutex = [f \in Ids |-> NoPhilosopher]
    /\ philosopher = [id \in Ids |-> "first"]

Lock(id, f, from, to) ==
    /\ philosopher[id] = from
    /\ forkMutex[f] = NoPhilosopher
    /\ forkMutex' = [forkMutex EXCEPT ![f] = id]
    /\ philosopher' = [philosopher EXCEPT ![id] = to]

Unlock(id, f, from, to) ==
    /\ philosopher[id] = from
    /\ forkMutex' = [forkMutex EXCEPT ![f] = NoPhilosopher]
    /\ philosopher' = [philosopher EXCEPT ![id] = to]

LockFirst(id)  == Lock(id, FirstFork(id), "first", "second")

\* Fault: the philosopher eats whether he gets the second fork or not.
LockSecondTry(id) ==
    /\ philosopher[id] = "second"
    /\ forkMutex' = [forkMutex EXCEPT ![SecondFork(id)] = IF @ = NoPhilosopher THEN id ELSE @]
    /\ philosopher' = [philosopher EXCEPT ![id] = "eat"]

LockSecond(id) == Lock(id, SecondFork(id), "second", "eat")

UnlockLeft(id)  == Unlock(id, left(id), "eat", "left")
UnlockRight(id) == Unlock(id, right(id), "left", "done")

Step(id) == LockFirst(id) \/ LockSecond(id) \/ UnlockLeft(id) \/ UnlockRight(id)

Next == \E id \in Ids : Step(id)

Spec == Init /\ [][Next]_vars

\* dining_philosophers joins all threads.
Joined == \A id \in Ids : philosopher[id] = "done"

-----------------------------------------------------------------------------
(* Properties *)

TypeOK ==
    /\ forkMutex \in [Ids -> Ids \cup {NoPhilosopher}]
    /\ philosopher \in [Ids -> {"first", "second", "eat", "left", "done"}]

\* Two neighbours never eat at the same time: the fork between them is locked
\* by one of the two.
NeighboursNeverEat ==
    \A id \in Ids :
        ~(philosopher[id] = "eat" /\ philosopher[right(id)] = "eat")
=============================================================================
