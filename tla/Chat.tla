-------------------------------- MODULE Chat --------------------------------
(***************************************************************************)
(* Direct conversations of two users: opened once for a pair, read and     *)
(* written by both.                                                        *)
(***************************************************************************)
EXTENDS Social

ASSUME IdsAreOrdered == Users \subseteq Nat

VARIABLES
  conversation,  \* the Conversation table with the lastReadAt of its participants
  message,       \* the Message table
  clock          \* when the newest message was begun

chatVars == <<conversation, message, clock>>

NoConversation == [key |-> <<>>, read |-> [u \in Users |-> 0]]
NoMessage == [conversation |-> 0, sender |-> None]

ChatTypeOK ==
  /\ conversation \in [ConversationId -> [key : {<<>>} \cup (Users \X Users),
                                          read : [Users -> 0..MaxMessages]]]
  /\ message \in [MessageId -> [conversation : {0} \cup ConversationId, sender : Users \cup {None}]]
  /\ clock \in 0..MaxMessages

ChatInit ==
  /\ conversation = [k \in ConversationId |-> NoConversation]
  /\ message = [m \in MessageId |-> NoMessage]
  /\ clock = 0

Opened(k) == conversation[k] # NoConversation
Between(k) == {conversation[k].key[i] : i \in DOMAIN conversation[k].key}
Sent(m) == message[m] # NoMessage
Recipients(m) == Between(message[m].conversation) \ {message[m].sender}

\* countUnreadMessages: messages of others, begun after the user last read.
Unread(k, u) ==
  {m \in MessageId : Sent(m) /\ message[m].conversation = k /\ message[m].sender # u
                       /\ m > conversation[k].read[u]}

-----------------------------------------------------------------------------
(* Opening a conversation *)

\* The two ids sorted and joined.
DirectKey(u, v) == IF u < v THEN <<u, v>> ELSE <<v, u>>

WithKey(key) == \E k \in ConversationId : conversation[k].key = key

\* getOrCreateDirectConversation finds the other user and looks for the conversation;
Open(p, u) ==
  /\ Ready(p, "chat")
  /\ \E v \in Users \ {u} :
       /\ ~WithKey(DirectKey(u, v))
       /\ Begin(p, [Idle EXCEPT !.pc = "open", !.user = u, !.other = v])
  /\ UNCHANGED <<setting, photo, follow, job, inbox, failures, chatVars>>

\* when there was none it creates one, and takes the other's when the key is taken by now.
Create(p) ==
  LET key == DirectKey(req[p].user, req[p].other) IN
  /\ At(p, "open")
  /\ IF WithKey(key) THEN UNCHANGED conversation
     ELSE \E k \in ConversationId :
            /\ Fresh(k, Opened)
            /\ conversation' = [conversation EXCEPT ![k] =
                 [key |-> key, read |-> [w \in Users |-> IF w \in {key[1], key[2]} THEN clock ELSE 0]]]
  /\ Done(p)
  /\ UNCHANGED <<setting, photo, follow, job, inbox, failures, message, clock>>

-----------------------------------------------------------------------------
(* Writing and reading *)

\* sendMessage: the transaction dates the message and the conversation,
Send(p, u) ==
  /\ Ready(p, "chat")
  /\ \E k \in ConversationId :
       /\ u \in Between(k)
       /\ clock < MaxMessages /\ clock' = clock + 1
       /\ Begin(p, [Idle EXCEPT !.pc = "commit", !.user = u, !.on = k, !.id = clock'])
  /\ UNCHANGED <<setting, photo, follow, job, inbox, failures, conversation, message>>

\* and all of it is seen when it commits.  What the sender writes the sender has read.
Commit(p) ==
  LET r == req[p] IN
  /\ At(p, "commit")
  /\ message' = [message EXCEPT ![r.id] = [conversation |-> r.on, sender |-> r.user]]
  /\ conversation' = [conversation EXCEPT ![r.on].read[r.user] = r.id]
  /\ req' = [req EXCEPT ![p].pc = "notifyOther"]
  /\ UNCHANGED <<setting, photo, follow, job, inbox, failures, clock>>

\* The other is sent a notification, which the answer to the sender does not wait for.
NotifyOther(p) ==
  /\ At(p, "notifyOther")
  /\ QueueFor(Recipients(req[p].id), req[p].id)
  /\ Done(p)
  /\ UNCHANGED <<setting, photo, follow, inbox, failures, chatVars>>

\* markAsRead checks that the user takes part, and dates the reading after that.
Read(p, u) ==
  /\ Ready(p, "chat")
  /\ \E k \in ConversationId :
       u \in Between(k) /\ Begin(p, [Idle EXCEPT !.pc = "markAsRead", !.user = u, !.on = k])
  /\ UNCHANGED <<setting, photo, follow, job, inbox, failures, chatVars>>

MarkAsRead(p) ==
  /\ At(p, "markAsRead")
  /\ conversation' = [conversation EXCEPT ![req[p].on].read[req[p].user] = clock]
  /\ Done(p)
  /\ UNCHANGED <<setting, photo, follow, job, inbox, failures, message, clock>>

-----------------------------------------------------------------------------
ChatWork(p) == Create(p) \/ Commit(p) \/ NotifyOther(p) \/ MarkAsRead(p)
ChatStep(p) == (\E u \in Users : Open(p, u) \/ Send(p, u) \/ Read(p, u)) \/ ChatWork(p)
=============================================================================
