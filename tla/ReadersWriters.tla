--------------------------- MODULE ReadersWriters ---------------------------
(***************************************************************************)
(* Readers_writers.cpp: readers share a binary semaphore wrt that the first *)
(* of them acquires and the last one releases; a writer acquires it alone. *)
(* The counter of the readers has a mutex, which the first reader holds    *)
(* while it waits for the semaphore.                                       *)
(* The increment of sharedNum is a read and a write; the mutex io is held  *)
(* for a print only, and is left out.                                      *)
(***************************************************************************)
EXTENDS Naturals, FiniteSets

CONSTANTS Readers, Writers, Nobody

\* What is assumed of the constants.
ReadersWritersAssumption ==
    /\ IsFiniteSet(Readers) /\ IsFiniteSet(Writers)
    /\ Readers \cap Writers = {}
    /\ Nobody \notin Readers

VARIABLES
    readCount,
    sharedNum,
    rdCnt,         \* who has locked the mutex of readCount
    wrt,           \* the count of the semaphore
    at,            \* where each thread is
    seen           \* what each writer read of sharedNum

vars == << readCount, sharedNum, rdCnt, wrt, at, seen >>

Init ==
    /\ readCount = 0
    /\ sharedNum = 1
    /\ rdCnt = Nobody
    /\ wrt = 1
    /\ at = [t \in Readers \cup Writers |-> IF t \in Readers THEN "arrive" ELSE "acquire"]
    /\ seen = [w \in Writers |-> 0]

Goes(t, from, to) == at[t] = from /\ at' = [at EXCEPT ![t] = to]

acquire == wrt > 0 /\ wrt' = wrt - 1
release == wrt' = wrt + 1

-----------------------------------------------------------------------------
(* reader *)

\* rdCnt is locked, and readCount increased.
Arrive(r) ==
    /\ rdCnt = Nobody
    /\ rdCnt' = r
    /\ Goes(r, "arrive", "enter")
    /\ readCount' = readCount + 1
    /\ UNCHANGED << sharedNum, wrt, seen >>

\* The first reader acquires the semaphore; rdCnt is unlocked.
Enter(r) ==
    /\ Goes(r, "enter", "read")
    /\ IF readCount = 1 THEN acquire ELSE UNCHANGED wrt
    /\ rdCnt' = Nobody
    /\ UNCHANGED << readCount, sharedNum, seen >>

\* The reader has read sharedNum, and locks rdCnt.
Leave(r) ==
    /\ rdCnt = Nobody
    /\ rdCnt' = r
    /\ Goes(r, "read", "leave")
    /\ readCount' = readCount - 1
    /\ UNCHANGED << sharedNum, wrt, seen >>

\* The last reader releases the semaphore; rdCnt is unlocked.
Left(r) ==
    /\ Goes(r, "leave", "done")
    /\ IF readCount = 0 THEN release ELSE UNCHANGED wrt
    /\ rdCnt' = Nobody
    /\ UNCHANGED << readCount, sharedNum, seen >>

ReaderStep(r) == Arrive(r) \/ Enter(r) \/ Leave(r) \/ Left(r)

-----------------------------------------------------------------------------
(* writer *)

\* Fault: the writer looks at the semaphore and does not take it.
AcquireNot(w) ==
    /\ Goes(w, "acquire", "load")
    /\ wrt > 0
    /\ UNCHANGED << readCount, sharedNum, rdCnt, wrt, seen >>

Acquire(w) ==
    /\ Goes(w, "acquire", "load")
    /\ acquire
    /\ UNCHANGED << readCount, sharedNum, rdCnt, seen >>

Load(w) ==
    /\ Goes(w, "load", "store")
    /\ seen' = [seen EXCEPT ![w] = sharedNum]
    /\ UNCHANGED << readCount, sharedNum, rdCnt, wrt >>

Store(w) ==
    /\ Goes(w, "store", "release")
    /\ sharedNum' = seen[w] + 1
    /\ UNCHANGED << readCount, rdCnt, wrt, seen >>

Release(w) ==
    /\ Goes(w, "release", "done")
    /\ release
    /\ UNCHANGED << readCount, sharedNum, rdCnt, seen >>

WriterStep(w) == Acquire(w) \/ Load(w) \/ Store(w) \/ Release(w)

Next == (\E r \in Readers : ReaderStep(r)) \/ (\E w \in Writers : WriterStep(w))

Spec == Init /\ [][Next]_vars

\* readers_writers joins all threads.
Joined == \A t \in Readers \cup Writers : at[t] = "done"

-----------------------------------------------------------------------------
(* Properties *)

Reading == {r \in Readers : at[r] = "read"}
Writing == {w \in Writers : at[w] \in {"load", "store", "release"}}
Written == {w \in Writers : at[w] \in {"release", "done"}}

\* A writer is alone: no reader reads and no other writer writes beside it, so
\* that sharedNum counts every writer that has stored.  The semaphore, which is
\* acquired by the first reader and released by the last one, stays binary.
WritersExclude ==
    /\ wrt \in {0, 1}
    /\ Writing # {} => Reading = {} /\ Cardinality(Writing) = 1
    /\ sharedNum = 1 + Cardinality(Written)
=============================================================================
