------------------------------- MODULE ChatOps -------------------------------
(***************************************************************************)
(* The operations of Chat (protocol/src/chat.rs) as operators.  A Chat is  *)
(* a record with the fields owner, users and message_count; a public key   *)
(* stands for the node it hashes to, so the map of users is a set.         *)
(*                                                                         *)
(* accept_message is split in two: Accepts says when it returns Ok, and    *)
(* Accepted is the state it then leaves behind.  Its comparison of the two *)
(* channel ids is left out: every caller passes the id the chat was made   *)
(* with.                                                                   *)
(***************************************************************************)
EXTENDS Integers, FiniteSets

CONSTANTS
    MaxUsers,      \* MAX_USERS, the capacity of the user map
    NoOwner        \* owner_id: None

\* The three kinds of Protocol payload.
NewChannel(owner) == [kind |-> "NewChannel", user |-> owner]
AddUser(user)     == [kind |-> "AddUser", user |-> user]
ChatMessage       == [kind |-> "ChatMessage"]

Payload(Node) ==
    {NewChannel(n) : n \in Node} \cup {AddUser(n) : n \in Node} \cup {ChatMessage}

NewChat == [owner |-> NoOwner, users |-> {}, message_count |-> 0]

-----------------------------------------------------------------------------
\* Mutant of CanAddUser: a map without a capacity.
CanAddUserAlways(users, user) == TRUE

\* FnvIndexMap::insert replaces the key of a user that is there already.
CanAddUser(users, user) == user \in users \/ Cardinality(users) < MaxUsers

Accepts(chat, author, data) ==
    \/ /\ data.kind = "NewChannel"
       /\ CanAddUser(chat.users, data.user)
    \/ /\ data.kind = "AddUser"
       /\ author = chat.owner
       /\ CanAddUser(chat.users, data.user)
    \/ /\ data.kind = "ChatMessage"
       /\ author \in chat.users

OwnerAfter(chat, data) ==
    IF data.kind = "NewChannel" THEN data.user ELSE chat.owner

UsersAfter(chat, data) ==
    IF data.kind = "ChatMessage" THEN chat.users ELSE chat.users \cup {data.user}

MessageCountAfter(chat, data) ==
    IF data.kind = "ChatMessage" THEN chat.message_count + 1 ELSE chat.message_count

Accepted(chat, data) ==
    [owner |-> OwnerAfter(chat, data),
     users |-> UsersAfter(chat, data),
     message_count |-> MessageCountAfter(chat, data)]
=============================================================================
