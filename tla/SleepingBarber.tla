--------------------------- MODULE SleepingBarber ---------------------------
(***************************************************************************)
(* Sleeping_barber.cpp: customers sit down while there is a free chair and *)
(* signal the barber, who takes one of them at a time and signals back when *)
(* the hair is cut.  The mutex ios is held for a print only, and is left   *)
(* out; what is done under shopMutex is one step, as nothing in it waits.  *)
(*                                                                         *)
(* The barber may signal twice before a customer wakes up.  barber is a    *)
(* binary semaphore, and its release at 1 is undefined: libraries differ in *)
(* whether the second signal is counted or lost.                           *)
(***************************************************************************)
EXTENDS Naturals, FiniteSets

CONSTANTS Customers, CHAIRS

\* What is assumed of the constants.
BarberAssumption == IsFiniteSet(Customers) /\ CHAIRS \in Nat

VARIABLES
    waiting,       \* the number of customers on the chairs
    customers,     \* the count of the semaphore customers
    barber,        \* the count of the semaphore barber
    barberAt,      \* where the barber's thread is
    customer,      \* where each customer's thread is
    overflown      \* history: barber was released at 1

vars == << waiting, customers, barber, barberAt, customer, overflown >>

Init ==
    /\ waiting = 0
    /\ customers = 0
    /\ barber = 0
    /\ barberAt = "asleep"
    /\ customer = [c \in Customers |-> "arrive"]
    /\ overflown = FALSE

Goes(c, from, to) ==
    /\ customer[c] = from
    /\ customer' = [customer EXCEPT ![c] = to]

-----------------------------------------------------------------------------
(* barberFunc *)

WakeUp ==
    /\ barberAt = "asleep"
    /\ customers > 0
    /\ customers' = customers - 1
    /\ barberAt' = "call"
    /\ UNCHANGED << waiting, barber, customer, overflown >>

Call ==
    /\ barberAt = "call"
    /\ waiting' = waiting - 1
    /\ barberAt' = "cut"
    /\ UNCHANGED << customers, barber, customer, overflown >>

Release ==
    /\ barberAt = "cut"
    /\ \/ barber = 0 /\ barber' = 1 /\ UNCHANGED overflown
       \/ barber > 0 /\ barber' \in {barber, barber + 1} /\ overflown' = TRUE
    /\ barberAt' = "asleep"
    /\ UNCHANGED << waiting, customers, customer >>

BarberStep == WakeUp \/ Call \/ Release

-----------------------------------------------------------------------------
(* customerFunc *)

Sit(c) ==
    /\ waiting # CHAIRS
    /\ Goes(c, "arrive", "signal")
    /\ waiting' = waiting + 1
    /\ UNCHANGED << customers, barber, barberAt, overflown >>

TurnAway(c) ==
    /\ waiting = CHAIRS
    /\ Goes(c, "arrive", "left")
    /\ UNCHANGED << waiting, customers, barber, barberAt, overflown >>

\* Fault: the customer waits for the barber without a signal to him.
SignalNot(c) ==
    /\ Goes(c, "signal", "wait")
    /\ UNCHANGED << waiting, customers, barber, barberAt, overflown >>

Signal(c) ==
    /\ Goes(c, "signal", "wait")
    /\ customers' = customers + 1
    /\ UNCHANGED << waiting, barber, barberAt, overflown >>

LeaveCut(c) ==
    /\ barber > 0
    /\ Goes(c, "wait", "left")
    /\ barber' = barber - 1
    /\ UNCHANGED << waiting, customers, barberAt, overflown >>

CustomerStep(c) == Sit(c) \/ TurnAway(c) \/ Signal(c) \/ LeaveCut(c)

Next == BarberStep \/ \E c \in Customers : CustomerStep(c)

Spec == Init /\ [][Next]_vars

\* sleeping_barbers joins the customers and leaves the barber alone.
Joined == \A c \in Customers : customer[c] = "left"

\* A lost signal leaves customers waiting for a barber who sleeps.
Hung ==
    /\ overflown /\ barberAt = "asleep" /\ customers = 0 /\ barber = 0
    /\ \A c \in Customers : customer[c] \in {"wait", "left"}

-----------------------------------------------------------------------------
(* Properties *)

At(where) == Cardinality({c \in Customers : customer[c] = where})

\* The chairs taken are those of customers who have not signalled yet, of
\* signals the barber has not seen, and of the one he is about to call.  And
\* who waits is known to the barber, or his answer is: nobody is forgotten,
\* and nobody leaves for another one's hair.  The semaphore of the customers
\* never counts more of them than there are chairs.
ChairsBalance ==
    /\ waiting <= CHAIRS
    /\ waiting = At("signal") + customers + (IF barberAt = "call" THEN 1 ELSE 0)
    /\ ~overflown =>
          At("wait") = customers + barber + (IF barberAt = "asleep" THEN 0 ELSE 1)
=============================================================================
