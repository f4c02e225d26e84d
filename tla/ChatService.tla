---------------------------- MODULE ChatService -----------------------------
(***************************************************************************)
(* Task-2/ChatService: users and chats behind one mutex, called by threads. *)
(* main creates the first users, and starts the threads then.  Each call   *)
(* locks service, works on what the mutex protects in steps of its own, and *)
(* unlocks it.  A chat's own mutex is never waited for, as service is held *)
(* whenever it is taken; it is left out, as are names, texts and the log.  *)
(***************************************************************************)
EXTENDS Naturals, Sequences, FiniteSets

CONSTANTS
    Callers,       \* the threads
    CALLS,         \* the number of calls that each of them makes
    FIRST_USERS,   \* the number of users that main creates
    UNKNOWN,       \* an id that is given to nobody
    NoCaller

\* What is assumed of the constants.
ChatAssumption ==
    /\ IsFiniteSet(Callers) /\ NoCaller \notin Callers
    /\ CALLS \in Nat /\ FIRST_USERS \in Nat /\ UNKNOWN \in Nat
    /\ FIRST_USERS + Cardinality(Callers) * CALLS <= UNKNOWN

VARIABLES
    users_,
    chats_,        \* members and messages of each chat; a message is its sender
    next_user_id, next_chat_id,     \* from 0 on, instead of 1000
    service,       \* who has locked the mutex
    caller,        \* the call each thread is in, and what it has read
    calls,         \* the number of calls it still has to make
    created,       \* history: the ids that createUser has returned, main's too
    sent           \* history: the messages of each chat that were answered as sent

vars == << users_, chats_, next_user_id, next_chat_id, service, caller, calls,
           created, sent >>

Idle == [is |-> "idle"]

isUserValid(u) == u \in users_
isChatValid(c) == c \in DOMAIN chats_

\* The calls that a thread may make, with ids that exist and one that does not.
CallsPossible ==
    LET users == users_ \cup {UNKNOWN}
        chats == DOMAIN chats_ \cup {UNKNOWN}
    IN  {[is |-> "createUser"], [is |-> "getMessages"]}
        \cup [is : {"createDirectChat"}, user1 : users, user2 : users]
        \cup [is : {"createGroupChat"}, members : {{}, users_, users}]
        \cup [is : {"sendMessage"}, chat : chats, user : users]

\* The early returns of the calls.
Refused(call) ==
    \/ /\ call.is = "createDirectChat"
       /\ ~isUserValid(call.user1) \/ ~isUserValid(call.user2) \/ call.user1 = call.user2
    \/ /\ call.is = "createGroupChat"
       /\ call.members = {} \/ \E u \in call.members : ~isUserValid(u)
    \/ /\ call.is = "sendMessage"
       /\ \/ ~isChatValid(call.chat)
          \/ ~isUserValid(call.user)
          \/ isChatValid(call.chat) /\ call.user \notin chats_[call.chat].members

Init ==
    /\ users_ = {u \in 0 .. FIRST_USERS : u < FIRST_USERS}
    /\ chats_ = << >>
    /\ next_user_id = FIRST_USERS
    /\ next_chat_id = 0
    /\ service = NoCaller
    /\ caller = [t \in Callers |-> Idle]
    /\ calls = [t \in Callers |-> CALLS]
    /\ created = [i \in 1 .. FIRST_USERS |-> i - 1]
    /\ sent = << >>

\* Fault: the mutex is not locked.
EnterUnlocked(t) ==
    /\ caller[t] = Idle
    /\ calls[t] > 0
    /\ service' = t
    /\ \E call \in CallsPossible : caller' = [caller EXCEPT ![t] = call]
    /\ calls' = [calls EXCEPT ![t] = @ - 1]
    /\ UNCHANGED << users_, chats_, next_user_id, next_chat_id, created, sent >>

Enter(t) ==
    /\ caller[t] = Idle
    /\ calls[t] > 0
    /\ service = NoCaller
    /\ service' = t
    /\ \E call \in CallsPossible : caller' = [caller EXCEPT ![t] = call]
    /\ calls' = [calls EXCEPT ![t] = @ - 1]
    /\ UNCHANGED << users_, chats_, next_user_id, next_chat_id, created, sent >>

Return(t) ==
    /\ caller' = [caller EXCEPT ![t] = Idle]
    /\ service' = NoCaller
    /\ UNCHANGED calls

\* A call that changes nothing: a refused one, and getMessages.
Leave(t) ==
    /\ caller[t].is = "getMessages" \/ Refused(caller[t])
    /\ Return(t)
    /\ UNCHANGED << users_, chats_, next_user_id, next_chat_id, created, sent >>

\* What a call reads first: the next id, or the messages so far.
Read(t) ==
    /\ caller[t].is \in {"createUser", "createDirectChat", "createGroupChat", "sendMessage"}
    /\ ~Refused(caller[t])
    /\ caller' = [caller EXCEPT ![t] =
         CASE caller[t].is = "createUser" -> [is |-> "storeUser", id |-> next_user_id]
           [] caller[t].is = "createDirectChat" ->
                 [is |-> "storeChat", id |-> next_chat_id,
                  members |-> {caller[t].user1, caller[t].user2}]
           [] caller[t].is = "createGroupChat" ->
                 [is |-> "storeChat", id |-> next_chat_id, members |-> caller[t].members]
           [] caller[t].is = "sendMessage" ->
                 [is |-> "storeMessage", chat |-> caller[t].chat, user |-> caller[t].user,
                  messages |-> chats_[caller[t].chat].messages]]
    /\ UNCHANGED << users_, chats_, next_user_id, next_chat_id, service, calls, created, sent >>

StoreUser(t) ==
    /\ caller[t].is = "storeUser"
    /\ next_user_id' = caller[t].id + 1
    /\ users_' = users_ \cup {caller[t].id}
    /\ created' = Append(created, caller[t].id)
    /\ Return(t)
    /\ UNCHANGED << chats_, next_chat_id, sent >>

StoreChat(t) ==
    /\ caller[t].is = "storeChat"
    /\ next_chat_id' = caller[t].id + 1
    /\ LET ids == DOMAIN chats_ \cup {caller[t].id}
       IN  /\ chats_' = [c \in ids |->
                            IF c = caller[t].id
                            THEN [members |-> caller[t].members, messages |-> << >>]
                            ELSE chats_[c]]
           /\ sent' = [c \in ids |-> IF c = caller[t].id THEN << >> ELSE sent[c]]
    /\ Return(t)
    /\ UNCHANGED << users_, next_user_id, created >>

StoreMessage(t) ==
    /\ caller[t].is = "storeMessage"
    /\ chats_' = [chats_ EXCEPT ![caller[t].chat].messages =
                     Append(caller[t].messages, caller[t].user)]
    /\ sent' = [sent EXCEPT ![caller[t].chat] = Append(@, caller[t].user)]
    /\ Return(t)
    /\ UNCHANGED << users_, next_user_id, next_chat_id, created >>

Step(t) ==
    Enter(t) \/ Leave(t) \/ Read(t) \/ StoreUser(t) \/ StoreChat(t) \/ StoreMessage(t)

Next == \E t \in Callers : Step(t)

Spec == Init /\ [][Next]_vars

\* The same service for one caller.
Bit == INSTANCE BitChat

\* The threads are joined.
Joined == \A t \in Callers : caller[t] = Idle /\ calls[t] = 0

-----------------------------------------------------------------------------
(* Properties *)

\* What the callers were told is so: nobody got the id of another one, and a
\* chat holds the messages that were answered as sent, all of them, in order
\* and from members only.
AnswersHold ==
    /\ \A i, j \in DOMAIN created : created[i] = created[j] => i = j
    /\ \A c \in DOMAIN chats_ :
          /\ chats_[c].messages = sent[c]
          /\ \A i \in DOMAIN sent[c] : sent[c][i] \in chats_[c].members

\* However the calls of the threads overlap, users, chats and ids change as if
\* each call were one step: the mutex makes the service of Task-2 the one that
\* BitChat is for a single caller.
CallsAreSequential == Bit!Spec
=============================================================================
