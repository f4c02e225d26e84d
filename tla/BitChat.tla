------------------------------- MODULE BitChat ------------------------------
(***************************************************************************)
(* tasks/BitChat: users and chats for one caller, each call one step.  It  *)
(* is what Task-2/ChatService, the same service for several threads, has to *)
(* look like to each of them.  The calls that are refused, and getMessages, *)
(* change nothing: they are the steps that leave every variable as it is.  *)
(***************************************************************************)
EXTENDS Naturals, Sequences

CONSTANT
    FIRST_USERS    \* the number of users that main creates first

VARIABLES
    users_,
    chats_,                       \* members and messages of each chat; a
                                  \* message is its sender
    next_user_id, next_chat_id,   \* from 0 on, instead of 1000
    created                       \* history: the ids that createUser returned

vars == << users_, chats_, next_user_id, next_chat_id, created >>

isUserValid(u) == u \in users_
isChatValid(c) == c \in DOMAIN chats_
isUserInChat(c, u) == u \in chats_[c].members

Init ==
    /\ users_ = {u \in 0 .. FIRST_USERS : u < FIRST_USERS}
    /\ chats_ = << >>
    /\ next_user_id = FIRST_USERS
    /\ next_chat_id = 0
    /\ created = [i \in 1 .. FIRST_USERS |-> i - 1]

createUser ==
    /\ next_user_id' = next_user_id + 1
    /\ users_' = users_ \cup {next_user_id}
    /\ created' = Append(created, next_user_id)
    /\ UNCHANGED << chats_, next_chat_id >>

NewChat(members) ==
    /\ next_chat_id' = next_chat_id + 1
    /\ chats_' = [c \in DOMAIN chats_ \cup {next_chat_id} |->
                     IF c = next_chat_id THEN [members |-> members, messages |-> << >>]
                     ELSE chats_[c]]
    /\ UNCHANGED << users_, next_user_id, created >>

createDirectChat(u, v) ==
    /\ isUserValid(u) /\ isUserValid(v)
    /\ u # v
    /\ NewChat({u, v})

createGroupChat(members) ==
    /\ members # {}
    /\ \A u \in members : isUserValid(u)
    /\ NewChat(members)

sendMessage(c, u) ==
    /\ isChatValid(c) /\ isUserValid(u) /\ isUserInChat(c, u)
    /\ chats_' = [chats_ EXCEPT ![c].messages = Append(@, u)]
    /\ UNCHANGED << users_, next_user_id, next_chat_id, created >>

Next ==
    \/ createUser
    \/ \E u, v \in users_ : createDirectChat(u, v)
    \/ \E members \in SUBSET users_ : createGroupChat(members)
    \/ \E c \in DOMAIN chats_, u \in users_ : sendMessage(c, u)

Spec == Init /\ [][Next]_vars
=============================================================================
