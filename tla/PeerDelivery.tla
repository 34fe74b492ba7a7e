---------------------------- MODULE PeerDelivery ----------------------------
(***************************************************************************)
(* Peer/deliver and Peer/retract between the mailboxes of two users, each  *)
(* on a server of its own: messages, edits and retractions of a direct     *)
(* chat that both may open at once, each under an id of its own.           *)
(*                                                                         *)
(* A handler is a row of backend calls, and each of them is a step here:   *)
(* other calls, and the owner who blocks, unblocks, removes messages or    *)
(* opens the chat, come in between, and the backend may fail at any of     *)
(* them.  Nothing in the handlers serializes the calls to a mailbox, while *)
(* store_server_message asks that of its callers: overlapped[s] tells      *)
(* whether it was ever broken in s, and the properties that need it say so.*)
(*                                                                         *)
(* A call may be lost, arrive late or again, and its answer may be lost.   *)
(* The sender repeats it until it has an answer that is not transient. The *)
(* sending side is the deployment's: only how it tells a transient failure *)
(* is in the repository.                                                   *)
(***************************************************************************)
EXTENDS Naturals, Sequences, FiniteSets

CONSTANTS
  A, B,        \* the two users, and their mailboxes
  Msg,         \* the senderMsgIds each of them uses
  Writer,      \* the users that send messages
  Editor,      \* the users that edit and retract what they sent
  Keeper,      \* the users that block the peer, and remove messages
  Task,        \* the calls that a mailbox can have in work at once
  MaxRemovals  \* bounds how many messages each owner removes

Side == {A, B}
Peer(s) == IF s = A THEN B ELSE A

ASSUME SideAssumption == A # B
ASSUME UsersAssumption == Writer \cup Editor \cup Keeper \subseteq {A, B}
ASSUME RemovalsAssumption == MaxRemovals \in Nat

\* Chat ids in their order.  Each side has one for a chat that it opens, and
\* A is the side whose id is the lesser.
ChatId == {1, 2}
NoChat == 0
Own(s) == IF s = A THEN 1 ELSE 2

Kind == {"message", "edit", "retract"}
Fate == {"none", "waiting", "accepted", "failed"}
Text == {"written", "edited", ""}

\* A removed record is no longer in the store; the model keeps it to tell
\* what was there.
Mark == {"stored", "tombstone", "removed"}

VARIABLES
  known,       \* known[s]: s has a ChatContact for its peer
  blocked,     \* blocked[s]: that contact is blocked
  chats,       \* chats[s]: the direct chats of s with its peer
  inbox,       \* inbox[s]: the peer's messages that s stores
  fate,        \* fate[s][m][k]: what became of s's call k about message m
  net,         \* the calls that have been sent
  answers,     \* the answers that have been sent
  calls,       \* calls[s][t]: the call in work in s, and what it read
  dropped,     \* history: dropped[s], the messages a blocking s answered unread
  overlapped   \* history: overlapped[s], a call of s had another beside it, or
               \* the chat opened or moved under it

vars == <<known, blocked, chats, inbox, fate, net, answers, calls, dropped, overlapped>>
mailboxVars == <<known, blocked, chats, inbox>>
senderVars == <<fate, net>>

Stored == [smid : Msg, chat : ChatId, text : Text, mark : Mark]
Request == [from : Side, smid : Msg, kind : Kind, chat : ChatId]
Result == {"accepted", "invalidArguments", "forbidden"}
Reply == [to : Side, smid : Msg, kind : Kind, result : Result,
          canonical : ChatId \cup {NoChat}]

\* A call in work: the contact as it was read, the chat that was found for it
\* and the id it is to have, what the answer tells of that id, and the message
\* that an edit or a retraction is about.  In a call that is not sound the
\* backend may fail at any step.
Pc == {"resolve", "find", "sender", "chat", "check", "store", "update", "seek", "wipe"}
Call == [pc : Pc, q : Request, sound : BOOLEAN, known : BOOLEAN, blocked : BOOLEAN,
         from : ChatId \cup {NoChat}, chat : ChatId \cup {NoChat},
         tells : ChatId \cup {NoChat}, at : Nat]
Idle == [pc |-> "idle"]

Init ==
  /\ known = [s \in Side |-> FALSE]
  /\ blocked = [s \in Side |-> FALSE]
  /\ chats = [s \in Side |-> {}]
  /\ inbox = [s \in Side |-> <<>>]
  /\ fate = [s \in Side |-> [m \in Msg |-> [k \in Kind |-> "none"]]]
  /\ net = {}
  /\ answers = {}
  /\ calls = [s \in Side |-> [t \in Task |-> Idle]]
  /\ dropped = [s \in Side |-> {}]
  /\ overlapped = [s \in Side |-> FALSE]

Busy(s) == \E t \in Task : calls[s][t] # Idle

-----------------------------------------------------------------------------
(* The owner of a mailbox, and its deployment's sending side.              *)

\* ChatContact/set and Chat/set: the contact, which Chat/set wants to exist,
\* and a direct chat with it if there is none.
Open(s) ==
  /\ chats[s] = {}
  /\ chats' = [chats EXCEPT ![s] = {Own(s)}]
  /\ known' = [known EXCEPT ![s] = TRUE]
  /\ overlapped' = [overlapped EXCEPT ![s] = @ \/ Busy(s)]
  /\ UNCHANGED <<blocked, inbox, senderVars, answers, calls, dropped>>

\* A message of the owner's to the peer.
Compose(s, m) ==
  /\ s \in Writer
  /\ chats[s] # {} /\ fate[s][m]["message"] = "none"
  /\ fate' = [fate EXCEPT ![s][m]["message"] = "waiting"]
  /\ UNCHANGED <<mailboxVars, net, answers, calls, dropped, overlapped>>

\* An edit or a retraction of a message the peer has accepted.
FollowUp(s, m, k) ==
  /\ s \in Editor /\ k # "message"
  /\ fate[s][m]["message"] = "accepted"
  /\ fate[s][m][k] = "none"
  /\ fate' = [fate EXCEPT ![s][m][k] = "waiting"]
  /\ UNCHANGED <<mailboxVars, net, answers, calls, dropped, overlapped>>

\* ChatContact/set.
Block(s) ==
  /\ s \in Keeper /\ known[s] /\ ~blocked[s]
  /\ blocked' = [blocked EXCEPT ![s] = TRUE]
  /\ UNCHANGED <<known, chats, inbox, senderVars, answers, calls, dropped, overlapped>>

Unblock(s) ==
  /\ s \in Keeper /\ blocked[s]
  /\ blocked' = [blocked EXCEPT ![s] = FALSE]
  /\ UNCHANGED <<known, chats, inbox, senderVars, answers, calls, dropped, overlapped>>

\* Message/set destroy, a read of a burnOnRead message, or the sweep of the
\* expired ones: the record is gone.
Remove(s, i) ==
  /\ s \in Keeper /\ inbox[s][i].mark # "removed"
  /\ Cardinality({j \in DOMAIN inbox[s] : inbox[s][j].mark = "removed"}) < MaxRemovals
  /\ inbox' = [inbox EXCEPT ![s][i].mark = "removed"]
  /\ UNCHANGED <<known, blocked, chats, senderVars, answers, calls, dropped, overlapped>>

\* Each time a call is sent it has the chat id of that time.
Send(s, m, k) ==
  /\ fate[s][m][k] = "waiting"
  /\ \E c \in chats[s] : net' = net \cup {[from |-> s, smid |-> m, kind |-> k, chat |-> c]}
  /\ UNCHANGED <<mailboxVars, fate, answers, calls, dropped, overlapped>>

\* The messages of one chat under another id.
Moved(box, from, to) ==
  [i \in DOMAIN box |-> IF box[i].chat = from THEN [box[i] EXCEPT !.chat = to] ELSE box[i]]

\* The chat of s with id from, under the id to.
Move(s, from, to) ==
  /\ chats' = [chats EXCEPT ![s] = (@ \ {from}) \cup {to}]
  /\ inbox' = [inbox EXCEPT ![s] = Moved(@, from, to)]

\* An answer arrives, and the call is over.  The sender moves its chat to the canonical id it is told.
Hear(s, r) ==
  /\ r \in answers /\ r.to = s
  /\ fate[s][r.smid][r.kind] = "waiting"
  /\ fate' = [fate EXCEPT ![s][r.smid][r.kind] =
                IF r.result = "accepted" THEN "accepted" ELSE "failed"]
  /\ \/ /\ r.canonical \notin chats[s] \cup {NoChat}
        /\ \E from \in chats[s] : Move(s, from, r.canonical)
        /\ overlapped' = [overlapped EXCEPT ![s] = @ \/ Busy(s)]
     \/ /\ r.canonical \in chats[s] \cup {NoChat}
        /\ UNCHANGED <<chats, inbox, overlapped>>
  /\ UNCHANGED <<known, blocked, net, answers, calls, dropped>>

-----------------------------------------------------------------------------
(* A call in work.  Each step ends the call with an answer or goes on.     *)

\* A failure of the backend is for good.
TransientBug(result) == result = "rateLimited"

\* is_transient, for the errors a handler answers with.
Transient(result) == result \in {"rateLimited", "serverFail"}

\* A transient answer has the sender do what it does without one: send again.
Answer(q, result, c) ==
  answers' = IF Transient(result) THEN answers ELSE answers \cup
    {[to |-> q.from, smid |-> q.smid, kind |-> q.kind, result |-> result, canonical |-> c]}

At(s, t, pc) == calls[s][t].pc = pc
Becomes(s, t, c) == calls' = [calls EXCEPT ![s][t] = c]

Ends(s, t, result, canonical) ==
  /\ Becomes(s, t, Idle)
  /\ Answer(calls[s][t].q, result, canonical)

GoesOn(s, t, c) == Becomes(s, t, c) /\ UNCHANGED answers

\* A call arrives: any that was ever sent, any number of times.  The contacts
\* are read first.
Begin(s, t, q, sound) ==
  /\ q.from = Peer(s) /\ calls[s][t] = Idle
  /\ GoesOn(s, t, [pc |-> IF q.kind = "retract" THEN "seek" ELSE "resolve",
                   q |-> q, sound |-> sound, known |-> known[s], blocked |-> blocked[s],
                   from |-> NoChat, chat |-> NoChat, tells |-> NoChat, at |-> 0])
  /\ overlapped' = [overlapped EXCEPT ![s] = @ \/ Busy(s)]
  /\ UNCHANGED <<mailboxVars, senderVars, dropped>>

LesserBug(x, y) == y

\* min(X, Y).
Lesser(x, y) == IF x < y THEN x ELSE y

\* A direct chat with the sender, if the sender is known at all.
Direct(s, c) == IF c.known /\ chats[s] # {} THEN chats[s] ELSE {NoChat}

\* The chat id the delivery uses, and the one the answer tells of.
Target(x, y) == IF y = NoChat THEN x ELSE Lesser(x, y)
Canonical(x, y) == IF y \in {NoChat, x} THEN NoChat ELSE Target(x, y)

\* The id of another chat is not taken over.
Taken(s, x, y) == x \in chats[s] /\ (y = NoChat \/ y > x)

\* Step 3 of the validation, which chat a delivery is for, and step 7: a
\* blocked sender is answered with success, and nothing is stored.
Resolve(s, t) ==
  LET c == calls[s][t]
      x == c.q.chat
  IN  /\ At(s, t, "resolve")
      /\ \E y \in Direct(s, c) :
           \/ /\ Taken(s, x, y)
              /\ Ends(s, t, "forbidden", NoChat)
              /\ UNCHANGED dropped
           \/ /\ ~Taken(s, x, y) /\ c.blocked
              /\ Ends(s, t, "accepted", Canonical(x, y))
              /\ dropped' = [dropped EXCEPT ![s] =
                               IF c.q.kind = "message" THEN @ \cup {c.q.smid} ELSE @]
           \/ /\ ~Taken(s, x, y) /\ ~c.blocked
              /\ GoesOn(s, t, [c EXCEPT !.pc = "find", !.from = y, !.chat = Target(x, y),
                                        !.tells = Canonical(x, y)])
              /\ UNCHANGED dropped
      /\ UNCHANGED <<mailboxVars, senderVars, overlapped>>

\* A tombstone is not found.
FindBug(s, c, m) ==
  {i \in DOMAIN inbox[s] : inbox[s][i].chat = c /\ inbox[s][i].smid = m /\ inbox[s][i].mark = "stored"}

\* find_message_by_sender_msg_id.
Find(s, c, m) ==
  {i \in DOMAIN inbox[s] : inbox[s][i].chat = c /\ inbox[s][i].smid = m /\ inbox[s][i].mark # "removed"}

\* A chat that has another id stays under it.
BringsBug(c) == c.from = NoChat

\* The chat must be created, or moved to the id the delivery uses.
Brings(c) == c.from # c.chat

\* Where a call is when its chat has been brought to the id it uses.
InChat(c) == IF c.q.kind = "message" THEN "check" ELSE "update"
ToChat(c) == IF Brings(c) THEN "chat" ELSE InChat(c)

\* deliver_message up to its first write: a message the chat already has is
\* answered, and nothing is written.
Repeated(s, t) ==
  LET c == calls[s][t]
  IN  /\ At(s, t, "find") /\ c.q.kind = "message"
      /\ \/ Find(s, c.from, c.q.smid) # {} /\ Ends(s, t, "accepted", c.tells)
         \/ /\ Find(s, c.from, c.q.smid) = {}
            /\ GoesOn(s, t, [c EXCEPT !.pc = IF c.known THEN ToChat(c) ELSE "sender"])
      /\ UNCHANGED <<mailboxVars, senderVars, dropped, overlapped>>

\* deliver_edit up to its first write.
Edited(s, t) ==
  LET c == calls[s][t]
      found == Find(s, c.from, c.q.smid)
  IN  /\ At(s, t, "find") /\ c.q.kind = "edit"
      /\ \/ found = {} /\ Ends(s, t, "invalidArguments", NoChat)
         \/ \E i \in found : GoesOn(s, t, [c EXCEPT !.pc = ToChat(c), !.at = i])
      /\ UNCHANGED <<mailboxVars, senderVars, dropped, overlapped>>

\* A placeholder contact for an unknown sender.  The store refuses a second.
MakeSender(s, t) ==
  LET c == calls[s][t]
  IN  /\ At(s, t, "sender") /\ ~known[s]
      /\ known' = [known EXCEPT ![s] = TRUE]
      /\ GoesOn(s, t, [c EXCEPT !.pc = ToChat(c)])
      /\ UNCHANGED <<blocked, chats, inbox, senderVars, dropped, overlapped>>

\* The chat is created, or moved, to an id that no chat has.
BringChat(s, t) ==
  LET c == calls[s][t]
  IN  /\ At(s, t, "chat") /\ c.chat \notin chats[s]
      /\ \/ /\ c.from = NoChat
            /\ chats' = [chats EXCEPT ![s] = @ \cup {c.chat}]
            /\ UNCHANGED inbox
         \/ c.from \in chats[s] /\ Move(s, c.from, c.chat)
      /\ GoesOn(s, t, [c EXCEPT !.pc = InChat(c)])
      /\ UNCHANGED <<known, blocked, senderVars, dropped, overlapped>>

\* store_server_message looks for the senderMsgId, and then creates.
Check(s, t) ==
  LET c == calls[s][t]
  IN  /\ At(s, t, "check")
      /\ \/ Find(s, c.chat, c.q.smid) # {} /\ Ends(s, t, "accepted", c.tells)
         \/ Find(s, c.chat, c.q.smid) = {} /\ GoesOn(s, t, [c EXCEPT !.pc = "store"])
      /\ UNCHANGED <<mailboxVars, senderVars, dropped, overlapped>>

Store(s, t) ==
  LET c == calls[s][t]
      new == [smid |-> c.q.smid, chat |-> c.chat, text |-> "written", mark |-> "stored"]
  IN  /\ At(s, t, "store")
      /\ inbox' = [inbox EXCEPT ![s] = Append(@, new)]
      /\ Ends(s, t, "accepted", c.tells)
      /\ UNCHANGED <<known, blocked, chats, senderVars, dropped, overlapped>>

\* The last write of an edit.
Update(s, t) ==
  LET c == calls[s][t]
  IN  /\ At(s, t, "update") /\ inbox[s][c.at].mark # "removed"
      /\ inbox' = [inbox EXCEPT ![s][c.at].text = "edited"]
      /\ Ends(s, t, "accepted", c.tells)
      /\ UNCHANGED <<known, blocked, chats, senderVars, dropped, overlapped>>

\* handle_peer_retract: the message in the chat the call names, and no other;
\* blocking is not looked at.
Seek(s, t) ==
  LET c == calls[s][t]
      found == Find(s, c.q.chat, c.q.smid)
  IN  /\ At(s, t, "seek")
      /\ \/ found = {} /\ Ends(s, t, "invalidArguments", NoChat)
         \/ found # {} /\ ~c.known /\ Ends(s, t, "forbidden", NoChat)
         \/ \E i \in found :
              /\ c.known
              /\ \/ inbox[s][i].mark = "tombstone" /\ Ends(s, t, "accepted", NoChat)
                 \/ /\ inbox[s][i].mark = "stored"
                    /\ GoesOn(s, t, [c EXCEPT !.pc = "wipe", !.at = i])
      /\ UNCHANGED <<mailboxVars, senderVars, dropped, overlapped>>

Wipe(s, t) ==
  LET c == calls[s][t]
  IN  /\ At(s, t, "wipe") /\ inbox[s][c.at].mark # "removed"
      /\ inbox' = [inbox EXCEPT ![s][c.at] = [@ EXCEPT !.text = "", !.mark = "tombstone"]]
      /\ Ends(s, t, "accepted", NoChat)
      /\ UNCHANGED <<known, blocked, chats, senderVars, dropped, overlapped>>

\* The backend refuses a second contact, a chat with the id of another or in
\* place of one that is gone, and a change of a message that is gone.
Refuse(s, t) ==
  LET c == calls[s][t]
  IN  /\ \/ At(s, t, "sender") /\ known[s]
         \/ At(s, t, "chat") /\ (c.chat \in chats[s] \/ c.from \notin chats[s] \cup {NoChat})
         \/ (At(s, t, "update") \/ At(s, t, "wipe")) /\ inbox[s][c.at].mark = "removed"
      /\ Ends(s, t, "serverFail", NoChat)
      /\ UNCHANGED <<mailboxVars, senderVars, dropped, overlapped>>

Fail(s, t) ==
  /\ calls[s][t] # Idle /\ ~calls[s][t].sound
  /\ Ends(s, t, "serverFail", NoChat)
  /\ UNCHANGED <<mailboxVars, senderVars, dropped, overlapped>>

Handle(s, t) ==
  \/ Resolve(s, t) \/ Repeated(s, t) \/ Edited(s, t) \/ MakeSender(s, t)
  \/ BringChat(s, t) \/ Check(s, t) \/ Store(s, t) \/ Update(s, t)
  \/ Seek(s, t) \/ Wipe(s, t) \/ Refuse(s, t)

Next ==
  \E s \in Side :
    \/ Open(s)
    \/ \E m \in Msg : Compose(s, m)
    \/ \E m \in Msg, k \in Kind : FollowUp(s, m, k) \/ Send(s, m, k)
    \/ Block(s) \/ Unblock(s)
    \/ \E i \in DOMAIN inbox[s] : Remove(s, i)
    \/ \E r \in answers : Hear(s, r)
    \/ \E t \in Task, q \in net, sound \in BOOLEAN : Begin(s, t, q, sound)
    \/ \E t \in Task : Handle(s, t) \/ Fail(s, t)

Spec == Init /\ [][Next]_vars

\* A message that waits is sent, in time a call about it arrives of which the
\* backend does all it is asked, a call in work goes on, and in time an answer
\* comes back.
Arrives(s, m) ==
  \E t \in Task, q \in net : q.smid = m /\ q.kind = "message" /\ Begin(s, t, q, TRUE)

Heard(s, m) ==
  \E r \in answers : r.smid = m /\ r.kind = "message" /\ Hear(s, r)

Fairness ==
  /\ \A s \in Side, m \in Msg :
       WF_vars(Send(s, m, "message")) /\ SF_vars(Arrives(s, m)) /\ WF_vars(Heard(s, m))
  /\ \A s \in Side, t \in Task : WF_vars(Handle(s, t) \/ Fail(s, t))

FairSpec == Spec /\ Fairness

-----------------------------------------------------------------------------
\* A stored message has a chat, and a user with a direct chat an id for it.
TypeOK ==
  /\ known \in [Side -> BOOLEAN]
  /\ blocked \in [Side -> BOOLEAN]
  /\ chats \in [Side -> SUBSET ChatId]
  /\ inbox \in [Side -> Seq(Stored)]
  /\ fate \in [Side -> [Msg -> [Kind -> Fate]]]
  /\ net \subseteq Request
  /\ answers \subseteq Reply
  /\ calls \in [Side -> [Task -> Call \cup {Idle}]]
  /\ dropped \in [Side -> SUBSET Msg]
  /\ overlapped \in [Side -> BOOLEAN]

\* Two copies of one message in the store of s.
Twice(s) ==
  \E i, j \in DOMAIN inbox[s] :
    /\ i # j /\ inbox[s][i].smid = inbox[s][j].smid
    /\ inbox[s][i].mark # "removed" /\ inbox[s][j].mark # "removed"

\* However often a message is sent, however late a copy arrives, at whichever
\* write an earlier attempt failed, whatever the owner did between two of its
\* writes and whatever the chat's id was by then, it is stored once, as long as
\* the calls to the mailbox come one at a time.
StoredOnce == \A s \in Side : ~overlapped[s] => ~Twice(s)

\* The same of calls that overlap, as the handler's comment has it.
StoredOnceAlways == \A s \in Side : ~Twice(s)

\* A message its sender takes for delivered, and that no blocking owner has
\* dropped, is stored, or its owner has removed it; with calls one at a time it
\* is in the direct chat that the receiver has with the sender.
AcceptedIsStored ==
  \A s \in Side, m \in Msg :
    fate[s][m]["message"] = "accepted" /\ m \notin dropped[Peer(s)] =>
      \E i \in DOMAIN inbox[Peer(s)] :
        /\ inbox[Peer(s)][i].smid = m
        /\ \/ inbox[Peer(s)][i].mark = "removed"
           \/ overlapped[Peer(s)]
           \/ inbox[Peer(s)][i].chat \in chats[Peer(s)]

\* Both opened the chat, maybe at once and under two ids: with one message of
\* each accepted, and stored, they have it under one id, unless calls
\* overlapped.
SameChat ==
  (\A s \in Side : /\ ~overlapped[s]
                   /\ \E m \in Msg \ dropped[Peer(s)] : fate[s][m]["message"] = "accepted")
    => chats[A] = chats[B]

\* A message that is sent again and again is accepted in the end, unless calls
\* overlap in the mailbox it is for.
AllArrive ==
  <>[](\A s \in Side, m \in Msg :
         fate[s][m]["message"] \in {"none", "accepted"} \/ overlapped[Peer(s)])

\* A retracted message stays a tombstone with an empty body.
TombstoneStays ==
  \A s \in Side : \A i \in DOMAIN inbox[s] : inbox[s][i].mark = "tombstone" => inbox[s][i].text = ""
=============================================================================
