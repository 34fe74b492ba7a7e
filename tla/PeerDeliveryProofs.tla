-------------------------- MODULE PeerDeliveryProofs --------------------------
(***************************************************************************)
(* Proofs about PeerDelivery, for any messages and any number of calls in  *)
(* work: one that its sender takes for delivered is stored, dropped or     *)
(* removed; and where the calls to a mailbox come one at a time each       *)
(* message is stored once, and the two users come to have the chat under   *)
(* one id.                                                                 *)
(*                                                                         *)
(* What makes a repeated delivery harmless, if nothing else is in work, is *)
(* that the messages of a peer are all in the one direct chat, whose id    *)
(* may change but only for all of them at once (Neat): the chat in         *)
(* which a call looks for its senderMsgId is then the chat in which the    *)
(* message was stored, and what the call has read stays so (Fresh).        *)
(***************************************************************************)
EXTENDS PeerDelivery, SequenceTheorems, TLAPS

-----------------------------------------------------------------------------
(* The inductive invariant.                                                *)

\* One call in work, one chat, and in it each message that is there, once.
OneCall(s) == \A t, u \in Task : calls[s][t] # Idle /\ calls[s][u] # Idle => t = u

Live(s, i) == i \in DOMAIN inbox[s] /\ inbox[s][i].mark # "removed"

Neat(s) ==
  /\ \A x, y \in chats[s] : x = y
  /\ \A i : Live(s, i) => inbox[s][i].chat \in chats[s]
  /\ \A i, j : Live(s, i) /\ Live(s, j) /\ inbox[s][i].smid = inbox[s][j].smid => i = j

\* What a call has read is so still.
Fresh(s, c) ==
  /\ c.pc \in {"resolve", "find", "sender"} => c.known = known[s]
  /\ c.pc \in {"find", "sender", "chat"} => chats[s] = {c.from} \ {NoChat}
  /\ c.pc \in {"check", "store"} => c.chat \in chats[s]
  /\ c.pc = "store" => \A i : Live(s, i) => inbox[s][i].smid # c.q.smid

\* Where a call is tells what it is about, and that the sender is known.
Placed == {"find", "sender", "chat", "check", "store", "update"}
Apt(s, c) ==
  /\ c.q.from = Peer(s)
  /\ c.pc \in {"sender", "check", "store"} => c.q.kind = "message"
  /\ c.pc = "update" => c.q.kind = "edit"
  /\ c.pc \in {"seek", "wipe"} => c.q.kind = "retract"
  /\ c.pc \in {"resolve", "find", "chat"} => c.q.kind # "retract"
  /\ c.pc \in Placed => c.chat \in ChatId
  /\ c.pc \in {"chat", "check", "store"} => known[s]
  /\ c.known => known[s]
  /\ c.pc = "find" /\ c.from # NoChat => c.known

\* Who has a chat with the peer has a contact for the peer.
Local(s) ==
  /\ chats[s] # {} => known[s]
  /\ \A t \in Task : calls[s][t] # Idle => Apt(s, calls[s][t])
  /\ ~overlapped[s] =>
       /\ OneCall(s) /\ Neat(s)
       /\ \A t \in Task : calls[s][t] # Idle => Fresh(s, calls[s][t])

Held(s, m) == \E i \in DOMAIN inbox[s] : inbox[s][i].smid = m
Had(s, m) == m \in dropped[s] \/ Held(s, m)

\* A message for which there is a positive answer was stored, or dropped.
AnswersTrue ==
  \A r \in answers :
    r.kind = "message" /\ r.result = "accepted" => Had(Peer(r.to), r.smid)

AcceptedHad ==
  \A s \in Side, m \in Msg : fate[s][m]["message"] = "accepted" => Had(Peer(s), m)

IInv == TypeOK /\ (\A s \in Side : Local(s)) /\ AnswersTrue /\ AcceptedHad

-----------------------------------------------------------------------------
(* The two sides, and sequences of messages.                               *)

LEMMA Peers ==
  ASSUME NEW s \in Side
  PROVE  Peer(s) \in Side /\ Peer(Peer(s)) = s /\ Peer(s) # s
BY SideAssumption DEF Side, Peer

LEMMA Others ==
  ASSUME NEW s \in Side
  PROVE  Side = {s, Peer(s)}
BY SideAssumption DEF Side, Peer

LEMMA SeqOf ==
  ASSUME NEW S, NEW n \in Nat, NEW f \in [1 .. n -> S]
  PROVE  f \in Seq(S) /\ Len(f) = n
<1>1. f \in Seq(S)
  BY SeqDef
<1>2. Len(f) \in Nat /\ DOMAIN f = 1 .. Len(f)
  BY <1>1, LenProperties
<1>3. DOMAIN f = 1 .. n
  OBVIOUS
<1> QED BY <1>1, <1>2, <1>3

LEMMA BoxOf ==
  ASSUME NEW box \in Seq(Stored)
  PROVE  /\ Len(box) \in Nat /\ DOMAIN box = 1 .. Len(box)
         /\ box \in [1 .. Len(box) -> Stored]
         /\ \A i \in DOMAIN box : box[i] \in Stored
BY LenProperties, ElementOfSeq

\* The messages of one chat under another id.
LEMMA MovedIs ==
  ASSUME NEW box \in Seq(Stored), NEW from, NEW to \in ChatId
  PROVE  /\ Moved(box, from, to) \in Seq(Stored)
         /\ DOMAIN Moved(box, from, to) = DOMAIN box
         /\ \A i \in DOMAIN box :
              /\ Moved(box, from, to)[i].smid = box[i].smid
              /\ Moved(box, from, to)[i].mark = box[i].mark
              /\ box[i].chat = from => Moved(box, from, to)[i].chat = to
<1>1. Len(box) \in Nat /\ DOMAIN box = 1 .. Len(box) /\ \A i \in DOMAIN box : box[i] \in Stored
  BY BoxOf
<1>2. ASSUME NEW i \in DOMAIN box
      PROVE  /\ Moved(box, from, to)[i] \in Stored
             /\ Moved(box, from, to)[i].smid = box[i].smid
             /\ Moved(box, from, to)[i].mark = box[i].mark
             /\ box[i].chat = from => Moved(box, from, to)[i].chat = to
  <2>1. Moved(box, from, to)[i] = IF box[i].chat = from THEN [box[i] EXCEPT !.chat = to] ELSE box[i]
    BY DEF Moved
  <2>2. box[i] \in Stored
    BY <1>1
  <2>3. CASE box[i].chat = from
    BY <2>1, <2>2, <2>3 DEF Stored
  <2>4. CASE box[i].chat # from
    BY <2>1, <2>2, <2>4
  <2> QED BY <2>3, <2>4
<1>3. Moved(box, from, to) \in [1 .. Len(box) -> Stored]
  BY <1>1, <1>2 DEF Moved
<1>4. DOMAIN Moved(box, from, to) = DOMAIN box
  BY DEF Moved
<1> QED BY <1>1, <1>2, <1>3, <1>4, SeqOf

\* One message rewritten, with its senderMsgId and its chat as they were.
LEMMA RewrittenIs ==
  ASSUME NEW box \in Seq(Stored), NEW i, NEW rec,
         i \in DOMAIN box => rec \in Stored /\ rec.smid = box[i].smid /\ rec.chat = box[i].chat
                             /\ (box[i].mark = "removed" => rec.mark = "removed"),
         NEW new, new = [box EXCEPT ![i] = rec]
  PROVE  /\ new \in Seq(Stored) /\ DOMAIN new = DOMAIN box
         /\ \A j \in DOMAIN box :
              /\ new[j].smid = box[j].smid /\ new[j].chat = box[j].chat
              /\ box[j].mark = "removed" => new[j].mark = "removed"
<1>1. Len(box) \in Nat /\ DOMAIN box = 1 .. Len(box) /\ \A j \in DOMAIN box : box[j] \in Stored
  BY BoxOf
<1>2. DOMAIN new = DOMAIN box /\ new = [j \in DOMAIN box |-> new[j]]
  OBVIOUS
<1>3. ASSUME NEW j \in DOMAIN box
      PROVE  /\ new[j] \in Stored
             /\ new[j].smid = box[j].smid /\ new[j].chat = box[j].chat
             /\ box[j].mark = "removed" => new[j].mark = "removed"
  <2>1. CASE j = i
    <3>1. new[j] = rec
      BY <2>1, <1>3
    <3> QED BY <3>1, <2>1, <1>3
  <2>2. CASE j # i
    <3>1. new[j] = box[j]
      BY <2>2, <1>3
    <3> QED BY <3>1, <1>1, <1>3
  <2> QED BY <2>1, <2>2
<1>4. new \in [1 .. Len(box) -> Stored]
  BY <1>1, <1>2, <1>3
<1> QED BY <1>1, <1>2, <1>3, <1>4, SeqOf

LEMMA AppendedIs ==
  ASSUME NEW box \in Seq(Stored), NEW rec \in Stored, NEW new, new = Append(box, rec)
  PROVE  /\ new \in Seq(Stored) /\ DOMAIN new = 1 .. Len(box) + 1
         /\ new[Len(box) + 1] = rec
         /\ \A j \in DOMAIN box : j \in DOMAIN new /\ new[j] = box[j]
         /\ \A j \in DOMAIN new : j \in DOMAIN box \/ j = Len(box) + 1
<1>1. Len(box) \in Nat /\ DOMAIN box = 1 .. Len(box)
  BY BoxOf
<1>2. new \in Seq(Stored) /\ Len(new) = Len(box) + 1 /\ new[Len(box) + 1] = rec
      /\ \A j \in 1 .. Len(box) : new[j] = box[j]
  BY AppendProperties
<1>3. DOMAIN new = 1 .. Len(box) + 1
  BY <1>2, LenProperties
<1> QED BY <1>1, <1>2, <1>3

-----------------------------------------------------------------------------
(* What a step at the mailbox of s may do.                                 *)

Same(s) ==
  /\ known'[s] = known[s] /\ chats'[s] = chats[s] /\ inbox'[s] = inbox[s]
  /\ calls'[s] = calls[s] /\ overlapped'[s] = overlapped[s]

Honest(s) ==
  \A r \in answers' : \/ r \in answers
                      \/ /\ r.to = Peer(s)
                         /\ r.kind = "message" /\ r.result = "accepted" => Had(s, r.smid)'

Earned ==
  \A s \in Side, m \in Msg :
    fate'[s][m]["message"] = "accepted" =>
      fate[s][m]["message"] = "accepted" \/ Had(Peer(s), m)

Lasting(s) == \A m : Had(s, m) => Had(s, m)'

Good(s) ==
  /\ TypeOK'
  /\ Local(s)' /\ \A r \in Side \ {s} : Same(r)
  /\ \A r \in Side : Lasting(r)
  /\ Honest(s) /\ Earned

LEMMA LocalSame ==
  ASSUME NEW s \in Side, Local(s), Same(s)
  PROVE  Local(s)'
<1>1. \A t \in Task : calls'[s][t] # Idle => Apt(s, calls[s][t])' 
  BY DEF Local, Same, Apt
<1>2. Neat(s) => Neat(s)'
  BY DEF Same, Neat, Live
<1>3. OneCall(s) => OneCall(s)'
  BY DEF Same, OneCall
<1>4. ASSUME ~overlapped[s]
      PROVE  \A t \in Task : calls'[s][t] # Idle => Fresh(s, calls[s][t])'
  BY <1>4 DEF Local, Same, Fresh, Live
<1> QED BY <1>1, <1>2, <1>3, <1>4 DEF Local, Same

LEMMA GoodKeeps ==
  ASSUME IInv, NEW s \in Side, Good(s)
  PROVE  IInv'
<1>1. \A r \in Side : Local(r)'
  BY LocalSame DEF Good, IInv
<1>2. AnswersTrue'
  <2> SUFFICES ASSUME NEW r \in answers', r.kind = "message", r.result = "accepted"
               PROVE  Had(Peer(r.to), r.smid)'
    BY DEF AnswersTrue
  <2>1. r.to \in Side /\ Peer(r.to) \in Side
    BY Peers DEF Good, TypeOK, Reply
  <2>2. CASE r \in answers
    BY <2>1, <2>2 DEF IInv, AnswersTrue, Good, Lasting
  <2>3. CASE r \notin answers
    BY <2>1, <2>3, Peers DEF Good, Honest
  <2> QED BY <2>2, <2>3
<1>3. AcceptedHad'
  <2> SUFFICES ASSUME NEW r \in Side, NEW m \in Msg, fate'[r][m]["message"] = "accepted"
               PROVE  Had(Peer(r), m)'
    BY DEF AcceptedHad
  <2>1. Peer(r) \in Side
    BY Peers
  <2>2. Had(Peer(r), m)
    BY DEF Good, Earned, IInv, AcceptedHad
  <2> QED BY <2>1, <2>2 DEF Good, Lasting
<1> QED BY <1>1, <1>2, <1>3 DEF IInv, Good

\* What is held stays held where no record goes.
LEMMA LastingIf ==
  ASSUME NEW s \in Side, dropped[s] \subseteq dropped'[s],
         \A i \in DOMAIN inbox[s] : i \in DOMAIN inbox'[s] /\ inbox'[s][i].smid = inbox[s][i].smid
  PROVE  Lasting(s)
<1> SUFFICES ASSUME NEW m, Had(s, m) PROVE Had(s, m)'
  BY DEF Lasting
<1>1. CASE m \in dropped[s]
  BY <1>1 DEF Had
<1>2. CASE Held(s, m)
  <2>1. PICK i \in DOMAIN inbox[s] : inbox[s][i].smid = m
    BY <1>2 DEF Held
  <2>2. i \in DOMAIN inbox'[s] /\ inbox'[s][i].smid = m
    BY <2>1
  <2> QED BY <2>2 DEF Had, Held
<1> QED BY <1>1, <1>2 DEF Had

LEMMA LastingSame ==
  ASSUME NEW s \in Side, dropped'[s] = dropped[s], inbox'[s] = inbox[s]
  PROVE  Lasting(s)
BY LastingIf

\* A mailbox in which the messages that are there are as they were, in chats
\* that are one as they were.
Kept(s) ==
  /\ DOMAIN inbox'[s] = DOMAIN inbox[s]
  /\ \A i \in DOMAIN inbox[s] :
       /\ inbox'[s][i].smid = inbox[s][i].smid
       /\ inbox[s][i].mark = "removed" => inbox'[s][i].mark = "removed"

LEMMA KeptKeeps ==
  ASSUME NEW s \in Side, Kept(s)
  PROVE  /\ dropped[s] \subseteq dropped'[s] => Lasting(s)
         /\ \A i : Live(s, i)' => Live(s, i) /\ inbox'[s][i].smid = inbox[s][i].smid
BY LastingIf DEF Kept, Live

LEMMA NeatKept ==
  ASSUME NEW s \in Side, Kept(s), Neat(s), \A x, y \in chats'[s] : x = y,
         \A i \in DOMAIN inbox[s] : inbox[s][i].chat \in chats[s] => inbox'[s][i].chat \in chats'[s]
  PROVE  Neat(s)'
<1>1. \A i : Live(s, i)' => Live(s, i) /\ inbox'[s][i].smid = inbox[s][i].smid
  BY KeptKeeps
<1>2. \A i : Live(s, i)' => inbox'[s][i].chat \in chats'[s]
  BY <1>1 DEF Neat, Live
<1>3. \A i, j : Live(s, i)' /\ Live(s, j)' /\ inbox'[s][i].smid = inbox'[s][j].smid => i = j
  BY <1>1 DEF Neat
<1> QED BY <1>2, <1>3 DEF Neat

-----------------------------------------------------------------------------
(* A step of a call in work.                                               *)

LEMMA Writes ==
  ASSUME TypeOK, NEW s \in Side, NEW t \in Task, NEW d \in Call \cup {Idle}, Becomes(s, t, d)
  PROVE  /\ calls' \in [Side -> [Task -> Call \cup {Idle}]]
         /\ calls'[s][t] = d
         /\ \A u \in Task \ {t} : calls'[s][u] = calls[s][u]
         /\ \A r \in Side \ {s} : calls'[r] = calls[r]
BY DEF Becomes, TypeOK

LEMMA AnswerHonest ==
  ASSUME TypeOK, NEW s \in Side, NEW q \in Request, NEW result \in Result \cup {"serverFail"},
         NEW c \in ChatId \cup {NoChat}, Answer(q, result, c), q.from = Peer(s),
         q.kind = "message" /\ result = "accepted" => Had(s, q.smid)'
  PROVE  answers' \subseteq Reply /\ Honest(s)
<1> DEFINE a == [to |-> q.from, smid |-> q.smid, kind |-> q.kind, result |-> result,
                 canonical |-> c]
<1>1. CASE Transient(result)
  BY <1>1 DEF Answer, Honest, TypeOK
<1>2. CASE ~Transient(result)
  <2>1. a \in Reply
    BY <1>2 DEF Reply, Request, Transient
  <2>2. answers' = answers \cup {a}
    BY <1>2 DEF Answer
  <2>3. answers' \subseteq Reply
    BY <2>1, <2>2 DEF TypeOK
  <2>4. a.to = Peer(s) /\ (a.kind = "message" /\ a.result = "accepted" => Had(s, a.smid)')
    OBVIOUS
  <2> HIDE DEF a
  <2>5. Honest(s)
    BY <2>2, <2>4 DEF Honest
  <2> QED BY <2>3, <2>5
<1> QED BY <1>1, <1>2

LEMMA AnswerKept ==
  ASSUME TypeOK, NEW s \in Side, answers' = answers
  PROVE  answers' \subseteq Reply /\ Honest(s)
BY DEF TypeOK, Honest

\* What is known of a call in work.
LEMMA CallIs ==
  ASSUME TypeOK, NEW s \in Side, NEW t \in Task, Local(s), NEW c, c = calls[s][t], c # Idle
  PROVE  /\ c \in Call /\ c.q \in Request /\ Apt(s, c)
         /\ ~overlapped[s] => Neat(s) /\ Fresh(s, c)
<1>1. c \in Call
  BY DEF TypeOK
<1> QED BY <1>1 DEF Local, Call

LEMMA LocalStep ==
  ASSUME TypeOK, NEW s \in Side, NEW t \in Task, Local(s), calls[s][t] # Idle,
         NEW d \in Call \cup {Idle}, Becomes(s, t, d), overlapped' = overlapped,
         known[s] => known'[s], chats'[s] # {} => known'[s],
         d # Idle => Apt(s, d)',
         ~overlapped[s] => Neat(s)' /\ (d # Idle => Fresh(s, d)')
  PROVE  Local(s)'
<1>1. calls'[s][t] = d /\ \A u \in Task \ {t} : calls'[s][u] = calls[s][u]
  BY Writes
<1>2. ASSUME NEW u \in Task, calls'[s][u] # Idle PROVE Apt(s, calls[s][u])'
  <2>1. CASE u = t
    BY <2>1, <1>1, <1>2 DEF Apt
  <2>2. CASE u # t
    BY <2>2, <1>1, <1>2 DEF Local, Apt
  <2> QED BY <2>1, <2>2
<1>3. ASSUME ~overlapped[s] PROVE OneCall(s)'
  BY <1>1, <1>3 DEF Local, OneCall
<1>4. ASSUME ~overlapped[s], NEW u \in Task, calls'[s][u] # Idle
      PROVE  Fresh(s, calls[s][u])'
  <2>1. u = t
    BY <1>1, <1>4 DEF Local, OneCall
  <2> QED BY <2>1, <1>1, <1>4 DEF Fresh
<1> QED BY <1>2, <1>3, <1>4 DEF Local

LEMMA StepGood ==
  ASSUME IInv, NEW s \in Side, NEW t \in Task, calls[s][t] # Idle,
         NEW d \in Call \cup {Idle}, Becomes(s, t, d),
         UNCHANGED <<blocked, senderVars, overlapped>>,
         known' \in [Side -> BOOLEAN], chats' \in [Side -> SUBSET ChatId],
         inbox' \in [Side -> Seq(Stored)], dropped' \in [Side -> SUBSET Msg],
         answers' \subseteq Reply,
         \A r \in Side \ {s} : /\ known'[r] = known[r] /\ chats'[r] = chats[r]
                               /\ inbox'[r] = inbox[r] /\ dropped'[r] = dropped[r],
         Lasting(s), Honest(s),
         known[s] => known'[s], chats'[s] # {} => known'[s],
         d # Idle => Apt(s, d)',
         ~overlapped[s] => Neat(s)' /\ (d # Idle => Fresh(s, d)')
  PROVE  Good(s)
<1>1. calls' \in [Side -> [Task -> Call \cup {Idle}]] /\ \A r \in Side \ {s} : calls'[r] = calls[r]
  BY Writes DEF IInv
<1>2. TypeOK'
  BY <1>1 DEF IInv, TypeOK, senderVars
<1>3. Local(s)'
  BY LocalStep DEF IInv
<1>4. \A r \in Side \ {s} : Same(r) /\ Lasting(r)
  BY <1>1, LastingSame DEF Same
<1>5. Earned
  BY DEF Earned, senderVars
<1> QED BY <1>2, <1>3, <1>4, <1>5 DEF Good

\* A step that writes nothing in the mailbox.
LEMMA ReadGood ==
  ASSUME IInv, NEW s \in Side, NEW t \in Task, calls[s][t] # Idle,
         NEW d \in Call \cup {Idle}, Becomes(s, t, d),
         UNCHANGED <<mailboxVars, senderVars, overlapped>>,
         dropped' \in [Side -> SUBSET Msg], dropped[s] \subseteq dropped'[s],
         \A r \in Side \ {s} : dropped'[r] = dropped[r],
         answers' \subseteq Reply, Honest(s),
         d # Idle => Apt(s, d) /\ (~overlapped[s] => Fresh(s, d))
  PROVE  Good(s)
<1>1. UNCHANGED <<known, blocked, chats, inbox>>
  BY DEF mailboxVars
<1>2. /\ known \in [Side -> BOOLEAN] /\ chats \in [Side -> SUBSET ChatId]
      /\ inbox \in [Side -> Seq(Stored)]
  BY DEF IInv, TypeOK
<1>3. Lasting(s)
  BY <1>1, LastingIf
<1>4. Local(s)
  BY DEF IInv
<1>5. d # Idle => Apt(s, d)'
  BY <1>1 DEF Apt
<1>6. ~overlapped[s] => Neat(s)' /\ (d # Idle => Fresh(s, d)')
  BY <1>1, <1>4 DEF Local, Neat, Live, Fresh
<1> QED BY <1>1, <1>2, <1>3, <1>4, <1>5, <1>6, StepGood DEF Local

\* A call that ends, with no more written.
LEMMA EndGood ==
  ASSUME IInv, NEW s \in Side, NEW t \in Task, NEW c, c = calls[s][t], c # Idle,
         NEW result \in Result \cup {"serverFail"}, NEW x \in ChatId \cup {NoChat},
         Ends(s, t, result, x), UNCHANGED <<mailboxVars, senderVars, overlapped>>,
         dropped' \in [Side -> SUBSET Msg], dropped[s] \subseteq dropped'[s],
         \A r \in Side \ {s} : dropped'[r] = dropped[r],
         c.q.kind = "message" /\ result = "accepted" => Had(s, c.q.smid)'
  PROVE  Good(s)
<1>1. c.q \in Request /\ Apt(s, c)
  BY CallIs DEF IInv
<1>2. answers' \subseteq Reply /\ Honest(s)
  <2>1. Answer(c.q, result, x) /\ c.q.from = Peer(s)
    BY <1>1 DEF Ends, Apt
  <2> QED BY <2>1, <1>1, AnswerHonest DEF IInv
<1>3. Becomes(s, t, Idle)
  BY DEF Ends
<1> QED BY <1>2, <1>3, ReadGood

\* A call that goes on, with no more written.
LEMMA OnGood ==
  ASSUME IInv, NEW s \in Side, NEW t \in Task, calls[s][t] # Idle, NEW d \in Call,
         GoesOn(s, t, d), UNCHANGED <<mailboxVars, senderVars, overlapped, dropped>>,
         Apt(s, d), ~overlapped[s] => Fresh(s, d)
  PROVE  Good(s)
<1>1. answers' \subseteq Reply /\ Honest(s) /\ Becomes(s, t, d)
  BY AnswerKept DEF GoesOn, IInv
<1> QED BY <1>1, ReadGood DEF IInv, TypeOK

-----------------------------------------------------------------------------
(* The steps of the handlers.                                              *)

LEMMA TargetType ==
  ASSUME NEW x \in ChatId, NEW y \in ChatId \cup {NoChat}
  PROVE  Target(x, y) \in ChatId /\ Canonical(x, y) \in ChatId \cup {NoChat}
BY DEF Target, Canonical, Lesser, ChatId, NoChat

LEMMA NotIdle ==
  ASSUME NEW c, c.pc # "idle"
  PROVE  c # Idle
BY DEF Idle

LEMMA DirectIs ==
  ASSUME TypeOK, NEW s \in Side, Local(s), NEW c \in Call, NEW y \in Direct(s, c)
  PROVE  /\ y \in ChatId \cup {NoChat} /\ (y # NoChat => c.known)
         /\ Neat(s) /\ c.known = known[s] => chats[s] = {y} \ {NoChat}
<1>1. chats[s] \subseteq ChatId /\ NoChat \notin ChatId
  BY DEF TypeOK, ChatId, NoChat
<1>2. CASE c.known /\ chats[s] # {}
  <2>1. y \in chats[s]
    BY <1>2 DEF Direct
  <2> QED BY <2>1, <1>1, <1>2 DEF Neat
<1>3. CASE ~(c.known /\ chats[s] # {})
  <2>1. y = NoChat
    BY <1>3 DEF Direct
  <2>2. c.known = known[s] => chats[s] = {}
    BY <1>3 DEF Local
  <2> QED BY <2>1, <2>2
<1> QED BY <1>2, <1>3

LEMMA ResolveGood ==
  ASSUME IInv, NEW s \in Side, NEW t \in Task, Resolve(s, t)
  PROVE  Good(s)
<1>1. PICK c : c = calls[s][t]
  OBVIOUS
<1>2. c.pc = "resolve" /\ c # Idle
  BY <1>1, NotIdle DEF Resolve, At
<1>3. c \in Call /\ c.q \in Request /\ Apt(s, c) /\ (~overlapped[s] => Neat(s) /\ Fresh(s, c))
  BY <1>1, <1>2, CallIs DEF IInv
<1>4. c.q.chat \in ChatId /\ c.q.smid \in Msg
  BY <1>3 DEF Request
<1>5. UNCHANGED <<mailboxVars, senderVars, overlapped>>
  BY DEF Resolve
<1>6. PICK y \in Direct(s, c) :
        \/ Ends(s, t, "forbidden", NoChat) /\ UNCHANGED dropped
        \/ /\ Ends(s, t, "accepted", Canonical(c.q.chat, y))
           /\ dropped' = [dropped EXCEPT ![s] =
                            IF c.q.kind = "message" THEN dropped[s] \cup {c.q.smid} ELSE dropped[s]]
        \/ /\ GoesOn(s, t, [c EXCEPT !.pc = "find", !.from = y, !.chat = Target(c.q.chat, y),
                                     !.tells = Canonical(c.q.chat, y)])
           /\ UNCHANGED dropped
  BY <1>1 DEF Resolve
<1>7. /\ y \in ChatId \cup {NoChat} /\ (y # NoChat => c.known)
      /\ Neat(s) /\ c.known = known[s] => chats[s] = {y} \ {NoChat}
  BY <1>3, DirectIs DEF IInv
<1>8. PICK x, z : x = Target(c.q.chat, y) /\ z = Canonical(c.q.chat, y)
  OBVIOUS
<1>9. x \in ChatId /\ z \in ChatId \cup {NoChat}
  BY <1>4, <1>7, <1>8, TargetType
<1>10. CASE Ends(s, t, "forbidden", NoChat) /\ UNCHANGED dropped
  BY <1>1, <1>2, <1>5, <1>10, EndGood DEF Result, IInv, TypeOK
<1>11. CASE /\ Ends(s, t, "accepted", Canonical(c.q.chat, y))
            /\ dropped' = [dropped EXCEPT ![s] =
                             IF c.q.kind = "message" THEN dropped[s] \cup {c.q.smid} ELSE dropped[s]]
  <2>1. /\ dropped' \in [Side -> SUBSET Msg] /\ dropped[s] \subseteq dropped'[s]
        /\ \A r \in Side \ {s} : dropped'[r] = dropped[r]
        /\ c.q.kind = "message" => c.q.smid \in dropped'[s]
    BY <1>4, <1>11 DEF IInv, TypeOK
  <2>2. c.q.kind = "message" => Had(s, c.q.smid)'
    BY <2>1 DEF Had
  <2> QED BY <2>1, <2>2, <1>1, <1>2, <1>5, <1>8, <1>9, <1>11, EndGood DEF Result
<1>12. CASE /\ GoesOn(s, t, [c EXCEPT !.pc = "find", !.from = y, !.chat = Target(c.q.chat, y),
                                      !.tells = Canonical(c.q.chat, y)])
            /\ UNCHANGED dropped
  <2>1. PICK d : d = [c EXCEPT !.pc = "find", !.from = y, !.chat = x, !.tells = z]
    OBVIOUS
  <2>2. /\ d \in Call /\ d.pc = "find" /\ d.q = c.q /\ d.known = c.known
        /\ d.from = y /\ d.chat = x
    BY <2>1, <1>3, <1>7, <1>9 DEF Call, Pc
  <2>3. Apt(s, d)
    BY <2>2, <1>2, <1>3, <1>7, <1>9 DEF Apt
  <2>4. ~overlapped[s] => Fresh(s, d)
    BY <2>2, <1>2, <1>3, <1>7 DEF Fresh
  <2> QED BY <2>1, <2>2, <2>3, <2>4, <1>1, <1>2, <1>5, <1>8, <1>12, OnGood
<1> QED BY <1>6, <1>10, <1>11, <1>12

\* A message that is found is held.
LEMMA FoundHad ==
  ASSUME NEW s \in Side, NEW x, NEW m, Find(s, x, m) # {}, UNCHANGED <<inbox, dropped>>
  PROVE  Had(s, m)'
<1>1. PICK i \in DOMAIN inbox[s] : inbox[s][i].smid = m
  BY DEF Find
<1> QED BY <1>1 DEF Had, Held

\* Where a call goes to when it has read what it needs.
LEMMA ToChatIs ==
  ASSUME NEW s \in Side, NEW c \in Call, Apt(s, c), known[s], c.pc \in {"find", "sender"},
         c.q.kind # "retract", c.q \in Request, NEW n \in Nat, TypeOK, Local(s),
         ~overlapped[s] => chats[s] = {c.from} \ {NoChat},
         NEW d, d = [c EXCEPT !.pc = ToChat(c), !.at = n]
  PROVE  d \in Call /\ Apt(s, d) /\ (~overlapped[s] => Fresh(s, d))
<1>1. c.q.kind \in {"message", "edit"} /\ c.chat \in ChatId /\ NoChat \notin ChatId
  BY DEF Request, Kind, Apt, Placed, ChatId, NoChat
<1>2. /\ ToChat(c) \in {"chat", "check", "update"}
      /\ ToChat(c) = "check" => c.q.kind = "message" /\ c.from = c.chat
      /\ ToChat(c) = "update" => c.q.kind = "edit"
  BY <1>1 DEF ToChat, InChat, Brings
<1>3. PICK p : p = ToChat(c)
  OBVIOUS
<1>4. /\ d \in Call /\ d.pc = p /\ d.q = c.q /\ d.from = c.from /\ d.chat = c.chat
      /\ d.known = c.known
  BY <1>2, <1>3 DEF Call, Pc
<1>5. Apt(s, d)
  BY <1>1, <1>2, <1>3, <1>4 DEF Apt
<1>6. ASSUME ~overlapped[s] PROVE Fresh(s, d)
  BY <1>1, <1>2, <1>3, <1>4, <1>6 DEF Fresh
<1> QED BY <1>4, <1>5, <1>6

LEMMA RepeatedGood ==
  ASSUME IInv, NEW s \in Side, NEW t \in Task, Repeated(s, t)
  PROVE  Good(s)
<1>1. PICK c : c = calls[s][t]
  OBVIOUS
<1>2. c.pc = "find" /\ c # Idle /\ c.q.kind = "message"
  BY <1>1, NotIdle DEF Repeated, At
<1>3. c \in Call /\ c.q \in Request /\ Apt(s, c) /\ (~overlapped[s] => Neat(s) /\ Fresh(s, c))
  BY <1>1, <1>2, CallIs DEF IInv
<1>4. UNCHANGED <<mailboxVars, senderVars, overlapped, dropped>>
  BY DEF Repeated
<1>5. CASE Find(s, c.from, c.q.smid) # {} /\ Ends(s, t, "accepted", c.tells)
  <2>1. Had(s, c.q.smid)'
    BY <1>4, <1>5, FoundHad DEF mailboxVars
  <2>2. c.tells \in ChatId \cup {NoChat}
    BY <1>3 DEF Call
  <2> QED BY <2>1, <2>2, <1>1, <1>2, <1>4, <1>5, EndGood DEF Result, IInv, TypeOK
<1>6. CASE GoesOn(s, t, [c EXCEPT !.pc = IF c.known THEN ToChat(c) ELSE "sender"])
  <2>1. CASE c.known
    <3>1. PICK d : d = [c EXCEPT !.pc = ToChat(c), !.at = c.at]
      OBVIOUS
    <3>2. d = [c EXCEPT !.pc = ToChat(c)] /\ c.at \in Nat
      BY <3>1, <1>3 DEF Call
    <3>3. known[s] /\ c.q.kind # "retract" /\ (~overlapped[s] => chats[s] = {c.from} \ {NoChat})
      BY <2>1, <1>2, <1>3 DEF Apt, Fresh
    <3>4. d \in Call /\ Apt(s, d) /\ (~overlapped[s] => Fresh(s, d))
      BY <3>1, <3>2, <3>3, <1>2, <1>3, ToChatIs DEF IInv
    <3> QED BY <3>2, <3>4, <2>1, <1>1, <1>2, <1>4, <1>6, OnGood
  <2>2. CASE ~c.known
    <3>1. PICK d : d = [c EXCEPT !.pc = "sender"]
      OBVIOUS
    <3>2. /\ d \in Call /\ d.pc = "sender" /\ d.q = c.q /\ d.from = c.from /\ d.chat = c.chat
          /\ d.known = c.known
      BY <3>1, <1>3 DEF Call, Pc
    <3>3. Apt(s, d) /\ (~overlapped[s] => Fresh(s, d))
      BY <3>2, <1>2, <1>3 DEF Apt, Fresh, Placed
    <3> QED BY <3>1, <3>2, <3>3, <2>2, <1>1, <1>2, <1>4, <1>6, OnGood
  <2> QED BY <2>1, <2>2
<1> QED BY <1>1, <1>5, <1>6 DEF Repeated

LEMMA EditedGood ==
  ASSUME IInv, NEW s \in Side, NEW t \in Task, Edited(s, t)
  PROVE  Good(s)
<1>1. PICK c : c = calls[s][t]
  OBVIOUS
<1>2. c.pc = "find" /\ c # Idle /\ c.q.kind = "edit"
  BY <1>1, NotIdle DEF Edited, At
<1>3. c \in Call /\ c.q \in Request /\ Apt(s, c) /\ (~overlapped[s] => Neat(s) /\ Fresh(s, c))
  BY <1>1, <1>2, CallIs DEF IInv
<1>4. UNCHANGED <<mailboxVars, senderVars, overlapped, dropped>>
  BY DEF Edited
<1>5. CASE Ends(s, t, "invalidArguments", NoChat)
  BY <1>1, <1>2, <1>4, <1>5, EndGood DEF Result, IInv, TypeOK
<1>6. ASSUME NEW i \in Find(s, c.from, c.q.smid),
             GoesOn(s, t, [c EXCEPT !.pc = ToChat(c), !.at = i])
      PROVE  Good(s)
  <2>1. i \in DOMAIN inbox[s] /\ inbox[s][i].chat = c.from
    BY <1>6 DEF Find
  <2>2. inbox[s] \in Seq(Stored)
    BY DEF IInv, TypeOK
  <2>3. i \in Nat /\ inbox[s][i].chat \in ChatId
    <3>1. DOMAIN inbox[s] \subseteq Nat /\ inbox[s][i] \in Stored
      BY <2>1, <2>2, BoxOf
    <3> QED BY <3>1, <2>1 DEF Stored
  <2>4. PICK d : d = [c EXCEPT !.pc = ToChat(c), !.at = i]
    OBVIOUS
  <2>5. known[s] /\ c.q.kind # "retract" /\ (~overlapped[s] => chats[s] = {c.from} \ {NoChat})
    <3>1. c.from # NoChat
      BY <2>1, <2>3 DEF ChatId, NoChat
    <3> QED BY <3>1, <1>2, <1>3 DEF Apt, Fresh
  <2>6. d \in Call /\ Apt(s, d) /\ (~overlapped[s] => Fresh(s, d))
    BY <2>3, <2>4, <2>5, <1>2, <1>3, ToChatIs DEF IInv
  <2> QED BY <2>4, <2>6, <1>1, <1>2, <1>4, <1>6, OnGood
<1> QED BY <1>1, <1>5, <1>6 DEF Edited

LEMMA MakeSenderGood ==
  ASSUME IInv, NEW s \in Side, NEW t \in Task, MakeSender(s, t)
  PROVE  Good(s)
<1>1. PICK c : c = calls[s][t]
  OBVIOUS
<1>2. c.pc = "sender" /\ c # Idle
  BY <1>1, NotIdle DEF MakeSender, At
<1>3. c \in Call /\ c.q \in Request /\ Apt(s, c) /\ (~overlapped[s] => Neat(s) /\ Fresh(s, c))
  BY <1>1, <1>2, CallIs DEF IInv
<1>4. /\ known' = [known EXCEPT ![s] = TRUE]
      /\ UNCHANGED <<blocked, chats, inbox, senderVars, dropped, overlapped>>
  BY DEF MakeSender
<1>5. PICK p : p = ToChat(c)
  OBVIOUS
<1>6. PICK d : d = [c EXCEPT !.pc = p]
  OBVIOUS
<1>7. /\ p \in {"chat", "check", "update"} /\ c.chat \in ChatId
      /\ p = "check" => c.from = c.chat
      /\ p # "update" /\ c.q.kind = "message"
  BY <1>2, <1>3, <1>5 DEF ToChat, InChat, Brings, Apt, Placed
<1>8. /\ d \in Call /\ d.pc = p /\ d.q = c.q /\ d.from = c.from /\ d.chat = c.chat
      /\ d.known = c.known
  BY <1>3, <1>6, <1>7 DEF Call, Pc
<1>9. known' \in [Side -> BOOLEAN] /\ known'[s] = TRUE /\ \A r \in Side \ {s} : known'[r] = known[r]
  BY <1>4 DEF IInv, TypeOK
<1>10. Apt(s, d)'
  BY <1>3, <1>7, <1>8, <1>9 DEF Apt
<1>11. ~overlapped[s] => Neat(s)' /\ Fresh(s, d)'
  <2>1. ~overlapped[s] => Neat(s)'
    BY <1>3, <1>4 DEF Neat, Live
  <2>2. ~overlapped[s] => chats[s] = {c.from} \ {NoChat}
    BY <1>2, <1>3 DEF Fresh
  <2>3. ASSUME ~overlapped[s] PROVE p = "check" => c.chat \in chats[s]
    BY <2>2, <2>3, <1>7 DEF ChatId, NoChat
  <2>4. ~overlapped[s] => Fresh(s, d)'
    BY <2>2, <2>3, <1>4, <1>7, <1>8 DEF Fresh
  <2> QED BY <2>1, <2>4
<1>12. Becomes(s, t, d) /\ answers' \subseteq Reply /\ Honest(s)
  BY <1>1, <1>5, <1>6, AnswerKept DEF MakeSender, GoesOn, IInv
<1>13. /\ chats' \in [Side -> SUBSET ChatId] /\ inbox' \in [Side -> Seq(Stored)]
       /\ dropped' \in [Side -> SUBSET Msg]
  BY <1>4 DEF IInv, TypeOK
<1>14. Lasting(s)
  BY <1>4, LastingSame
<1> QED BY <1>1, <1>2, <1>4, <1>8, <1>9, <1>10, <1>11, <1>12, <1>13, <1>14, StepGood

\* A chat, and its messages, under another id.
LEMMA MoveIs ==
  ASSUME TypeOK, NEW s \in Side, NEW from \in chats[s], NEW to \in ChatId, Move(s, from, to)
  PROVE  /\ chats' \in [Side -> SUBSET ChatId] /\ inbox' \in [Side -> Seq(Stored)]
         /\ \A r \in Side \ {s} : chats'[r] = chats[r] /\ inbox'[r] = inbox[r]
         /\ chats'[s] = (chats[s] \ {from}) \cup {to} /\ Kept(s)
         /\ Neat(s) => chats[s] = {from} /\ chats'[s] = {to} /\ Neat(s)'
<1>1. inbox[s] \in Seq(Stored)
  BY DEF TypeOK
<1>2. PICK box : box = Moved(inbox[s], from, to)
  OBVIOUS
<1>3. /\ box \in Seq(Stored) /\ DOMAIN box = DOMAIN inbox[s]
      /\ \A i \in DOMAIN inbox[s] :
           /\ box[i].smid = inbox[s][i].smid /\ box[i].mark = inbox[s][i].mark
           /\ inbox[s][i].chat = from => box[i].chat = to
  BY <1>1, <1>2, MovedIs
<1>4. inbox' = [inbox EXCEPT ![s] = box] /\ chats' = [chats EXCEPT ![s] = (chats[s] \ {from}) \cup {to}]
  BY <1>2 DEF Move
<1>5. inbox'[s] = box /\ inbox' \in [Side -> Seq(Stored)]
      /\ \A r \in Side \ {s} : inbox'[r] = inbox[r]
  BY <1>3, <1>4 DEF TypeOK
<1>6. /\ chats'[s] = (chats[s] \ {from}) \cup {to} /\ chats' \in [Side -> SUBSET ChatId]
      /\ \A r \in Side \ {s} : chats'[r] = chats[r]
  BY <1>4 DEF TypeOK
<1>7. Kept(s)
  BY <1>3, <1>5 DEF Kept
<1>8. ASSUME Neat(s) PROVE chats[s] = {from} /\ chats'[s] = {to} /\ Neat(s)'
  <2>1. chats[s] = {from}
    BY <1>8 DEF Neat
  <2>2. chats'[s] = {to}
    BY <2>1, <1>6
  <2>3. \A i \in DOMAIN inbox[s] : inbox[s][i].chat \in chats[s] => inbox'[s][i].chat \in chats'[s]
    BY <2>1, <2>2, <1>3, <1>5
  <2>4. Neat(s)'
    BY <2>2, <2>3, <1>7, <1>8, NeatKept
  <2> QED BY <2>1, <2>2, <2>4
<1> QED BY <1>5, <1>6, <1>7, <1>8

LEMMA BringChatGood ==
  ASSUME IInv, NEW s \in Side, NEW t \in Task, BringChat(s, t)
  PROVE  Good(s)
<1>1. PICK c : c = calls[s][t]
  OBVIOUS
<1>2. c.pc = "chat" /\ c # Idle
  BY <1>1, NotIdle DEF BringChat, At
<1>3. c \in Call /\ c.q \in Request /\ Apt(s, c) /\ (~overlapped[s] => Neat(s) /\ Fresh(s, c))
  BY <1>1, <1>2, CallIs DEF IInv
<1>4. /\ c.chat \notin chats[s]
      /\ UNCHANGED <<known, blocked, senderVars, dropped, overlapped>>
      /\ GoesOn(s, t, [c EXCEPT !.pc = InChat(c)])
  BY <1>1 DEF BringChat
<1>5. c.chat \in ChatId /\ known[s] /\ NoChat \notin ChatId
  BY <1>2, <1>3 DEF Apt, Placed, ChatId, NoChat
<1>6. /\ chats' \in [Side -> SUBSET ChatId] /\ inbox' \in [Side -> Seq(Stored)]
      /\ \A r \in Side \ {s} : chats'[r] = chats[r] /\ inbox'[r] = inbox[r]
      /\ c.chat \in chats'[s] /\ Lasting(s)
      /\ ~overlapped[s] => Neat(s)'
  <2>1. CASE c.from = NoChat /\ chats' = [chats EXCEPT ![s] = chats[s] \cup {c.chat}] /\ UNCHANGED inbox
    <3>1. /\ chats'[s] = chats[s] \cup {c.chat} /\ chats' \in [Side -> SUBSET ChatId]
          /\ \A r \in Side \ {s} : chats'[r] = chats[r]
      BY <2>1, <1>5 DEF IInv, TypeOK
    <3>2. ASSUME ~overlapped[s] PROVE Neat(s)'
      <4>1. chats[s] = {}
        BY <2>1, <3>2, <1>2, <1>3 DEF Fresh
      <4>2. \A i : ~Live(s, i)
        BY <4>1, <3>2, <1>3 DEF Neat
      <4> QED BY <4>1, <4>2, <3>1, <2>1 DEF Neat, Live
    <3> QED BY <3>1, <3>2, <2>1, <1>4, LastingSame DEF IInv, TypeOK
  <2>2. CASE c.from \in chats[s] /\ Move(s, c.from, c.chat)
    <3>1. TypeOK
      BY DEF IInv
    <3>2. Lasting(s)
      BY <2>2, <3>1, <1>4, <1>5, MoveIs, KeptKeeps
    <3> QED BY <2>2, <3>1, <3>2, <1>3, <1>5, MoveIs
  <2> QED BY <1>1, <2>1, <2>2 DEF BringChat
<1>7. PICK p : p = InChat(c)
  OBVIOUS
<1>8. PICK d : d = [c EXCEPT !.pc = p]
  OBVIOUS
<1>9. Good(s)
  <2>1. /\ p \in {"check", "update"} /\ (p = "check" => c.q.kind = "message")
        /\ p = "update" => c.q.kind = "edit"
    BY <1>2, <1>3, <1>7 DEF InChat, Request, Kind, Apt
  <2>2. /\ d \in Call /\ d.pc = p /\ d.q = c.q /\ d.chat = c.chat /\ d.known = c.known
    BY <2>1, <1>3, <1>8 DEF Call, Pc
  <2>3. Apt(s, d)'
    BY <2>1, <2>2, <1>3, <1>4, <1>5 DEF Apt
  <2>4. ~overlapped[s] => Neat(s)' /\ Fresh(s, d)'
    BY <2>1, <2>2, <1>6 DEF Fresh
  <2>5. Becomes(s, t, d) /\ answers' \subseteq Reply /\ Honest(s)
    BY <1>4, <1>7, <1>8, AnswerKept DEF GoesOn, IInv
  <2>6. known' \in [Side -> BOOLEAN] /\ dropped' \in [Side -> SUBSET Msg]
    BY <1>4 DEF IInv, TypeOK
  <2> QED BY <2>2, <2>3, <2>4, <2>5, <2>6, <1>1, <1>2, <1>4, <1>5, <1>6, StepGood
<1> QED BY <1>9


LEMMA CheckGood ==
  ASSUME IInv, NEW s \in Side, NEW t \in Task, Check(s, t)
  PROVE  Good(s)
<1>1. PICK c : c = calls[s][t]
  OBVIOUS
<1>2. c.pc = "check" /\ c # Idle
  BY <1>1, NotIdle DEF Check, At
<1>3. c \in Call /\ c.q \in Request /\ Apt(s, c) /\ (~overlapped[s] => Neat(s) /\ Fresh(s, c))
  BY <1>1, <1>2, CallIs DEF IInv
<1>4. UNCHANGED <<mailboxVars, senderVars, overlapped, dropped>>
  BY DEF Check
<1>5. CASE Find(s, c.chat, c.q.smid) # {} /\ Ends(s, t, "accepted", c.tells)
  <2>1. Had(s, c.q.smid)'
    BY <1>4, <1>5, FoundHad DEF mailboxVars
  <2>2. c.tells \in ChatId \cup {NoChat}
    BY <1>3 DEF Call
  <2> QED BY <2>1, <2>2, <1>1, <1>2, <1>4, <1>5, EndGood DEF Result, IInv, TypeOK
<1>6. CASE Find(s, c.chat, c.q.smid) = {} /\ GoesOn(s, t, [c EXCEPT !.pc = "store"])
  <2>1. PICK d : d = [c EXCEPT !.pc = "store"]
    OBVIOUS
  <2>2. d \in Call /\ d.pc = "store" /\ d.q = c.q /\ d.chat = c.chat /\ d.known = c.known
    BY <2>1, <1>3 DEF Call, Pc
  <2>3. Apt(s, d)
    BY <2>2, <1>2, <1>3 DEF Apt, Placed
  <2>4. ASSUME ~overlapped[s] PROVE Fresh(s, d)
    <3>1. Neat(s) /\ c.chat \in chats[s]
      BY <2>4, <1>2, <1>3 DEF Fresh
    <3>2. ASSUME NEW i, Live(s, i) PROVE inbox[s][i].smid # c.q.smid
      <4>1. inbox[s][i].chat = c.chat
        BY <3>1, <3>2 DEF Neat
      <4> QED BY <4>1, <3>2, <1>6 DEF Find, Live
    <3> QED BY <3>1, <3>2, <2>2 DEF Fresh
  <2> QED BY <2>1, <2>2, <2>3, <2>4, <1>1, <1>2, <1>4, <1>6, OnGood
<1> QED BY <1>1, <1>5, <1>6 DEF Check

LEMMA StoreGood ==
  ASSUME IInv, NEW s \in Side, NEW t \in Task, Store(s, t)
  PROVE  Good(s)
<1>1. PICK c : c = calls[s][t]
  OBVIOUS
<1>2. c.pc = "store" /\ c # Idle
  BY <1>1, NotIdle DEF Store, At
<1>3. c \in Call /\ c.q \in Request /\ Apt(s, c) /\ (~overlapped[s] => Neat(s) /\ Fresh(s, c))
  BY <1>1, <1>2, CallIs DEF IInv
<1>4. PICK new : new = [smid |-> c.q.smid, chat |-> c.chat, text |-> "written", mark |-> "stored"]
  OBVIOUS
<1>5. /\ inbox' = [inbox EXCEPT ![s] = Append(inbox[s], new)]
      /\ Ends(s, t, "accepted", c.tells)
      /\ UNCHANGED <<known, blocked, chats, senderVars, dropped, overlapped>>
  BY <1>1, <1>4 DEF Store
<1>6. new \in Stored /\ new.smid = c.q.smid /\ new.chat = c.chat
  BY <1>2, <1>3, <1>4 DEF Stored, Request, Apt, Placed, Text, Mark
<1>7. PICK box : box = Append(inbox[s], new)
  OBVIOUS
<1>8. inbox[s] \in Seq(Stored)
  BY DEF IInv, TypeOK
<1>9. PICK n : n = Len(inbox[s]) + 1
  OBVIOUS
<1>10. /\ box \in Seq(Stored) /\ n \in DOMAIN box /\ box[n] = new
       /\ \A j \in DOMAIN inbox[s] : j \in DOMAIN box /\ box[j] = inbox[s][j]
       /\ \A j \in DOMAIN box : j \in DOMAIN inbox[s] \/ j = n
  <2>1. Len(inbox[s]) \in Nat
    BY <1>8, BoxOf
  <2>2. DOMAIN box = 1 .. n /\ n \in 1 .. n
    BY <2>1, <1>6, <1>7, <1>8, <1>9, AppendedIs
  <2> QED BY <2>2, <1>6, <1>7, <1>8, <1>9, AppendedIs
<1>11. inbox'[s] = box /\ inbox' \in [Side -> Seq(Stored)] /\ \A r \in Side \ {s} : inbox'[r] = inbox[r]
  BY <1>5, <1>7, <1>10 DEF IInv, TypeOK
<1>12. Lasting(s)
  BY <1>5, <1>10, <1>11, LastingIf
<1>13. Had(s, c.q.smid)'
  BY <1>6, <1>10, <1>11 DEF Had, Held
<1>14. ASSUME ~overlapped[s] PROVE Neat(s)'
  <2>1. Neat(s) /\ c.chat \in chats[s] /\ \A i : Live(s, i) => inbox[s][i].smid # c.q.smid
    BY <1>2, <1>3, <1>14 DEF Fresh
  <2>2. ASSUME NEW i, Live(s, i)'
        PROVE  \/ Live(s, i) /\ inbox'[s][i] = inbox[s][i]
               \/ i = n /\ inbox'[s][i] = new
    BY <2>2, <1>10, <1>11 DEF Live
  <2>3. \A i : Live(s, i)' => inbox'[s][i].chat \in chats'[s]
    BY <2>1, <2>2, <1>5, <1>6 DEF Neat
  <2>4. ASSUME NEW i, NEW j, Live(s, i)', Live(s, j)', inbox'[s][i].smid = inbox'[s][j].smid
        PROVE  i = j
    BY <2>1, <2>2, <2>4, <1>6 DEF Neat
  <2> QED BY <2>1, <2>3, <2>4, <1>5 DEF Neat
<1>15. Becomes(s, t, Idle) /\ answers' \subseteq Reply /\ Honest(s)
  <2>1. Answer(c.q, "accepted", c.tells) /\ c.tells \in ChatId \cup {NoChat} /\ c.q.from = Peer(s)
    BY <1>1, <1>3, <1>5 DEF Ends, Call, Apt
  <2> QED BY <2>1, <1>3, <1>5, <1>13, AnswerHonest DEF Ends, Result, IInv
<1>16. /\ known' \in [Side -> BOOLEAN] /\ chats' \in [Side -> SUBSET ChatId]
       /\ dropped' \in [Side -> SUBSET Msg]
  BY <1>5 DEF IInv, TypeOK
<1>17. chats'[s] # {} => known'[s]
  BY <1>5 DEF IInv, Local
<1> QED BY <1>1, <1>2, <1>5, <1>11, <1>12, <1>14, <1>15, <1>16, <1>17, StepGood

\* A record rewritten in the store.
LEMMA RewriteIs ==
  ASSUME TypeOK, NEW s \in Side, NEW i, NEW rec,
         i \in DOMAIN inbox[s] =>
           rec \in Stored /\ rec.smid = inbox[s][i].smid /\ rec.chat = inbox[s][i].chat,
         inbox[s][i].mark # "removed" \/ rec.mark = "removed",
         inbox' = [inbox EXCEPT ![s] = [inbox[s] EXCEPT ![i] = rec]], UNCHANGED <<chats, dropped>>
  PROVE  /\ inbox' \in [Side -> Seq(Stored)] /\ \A r \in Side \ {s} : inbox'[r] = inbox[r]
         /\ Kept(s) /\ Lasting(s) /\ (Neat(s) => Neat(s)')
<1>1. PICK box : box = [inbox[s] EXCEPT ![i] = rec]
  OBVIOUS
<1>2. inbox[s] \in Seq(Stored)
  BY DEF TypeOK
<1>3. /\ box \in Seq(Stored) /\ DOMAIN box = DOMAIN inbox[s]
      /\ \A j \in DOMAIN inbox[s] :
           /\ box[j].smid = inbox[s][j].smid /\ box[j].chat = inbox[s][j].chat
           /\ inbox[s][j].mark = "removed" => box[j].mark = "removed"
  BY <1>1, <1>2, RewrittenIs
<1>4. inbox'[s] = box /\ inbox' \in [Side -> Seq(Stored)] /\ \A r \in Side \ {s} : inbox'[r] = inbox[r]
  BY <1>1, <1>3 DEF TypeOK
<1>5. Kept(s)
  BY <1>3, <1>4 DEF Kept
<1>6. Lasting(s)
  BY <1>5, KeptKeeps
<1>7. ASSUME Neat(s) PROVE Neat(s)'
  <2>1. \A x, y \in chats'[s] : x = y
    BY <1>7 DEF Neat
  <2>2. \A j \in DOMAIN inbox[s] : inbox[s][j].chat \in chats[s] => inbox'[s][j].chat \in chats'[s]
    BY <1>3, <1>4
  <2> QED BY <2>1, <2>2, <1>5, <1>7, NeatKept
<1> QED BY <1>4, <1>5, <1>6, <1>7

\* A call that ends with a record rewritten.
LEMMA RewriteGood ==
  ASSUME IInv, NEW s \in Side, NEW t \in Task, NEW c, c = calls[s][t], c # Idle,
         c.q.kind # "message", NEW x \in ChatId \cup {NoChat}, Ends(s, t, "accepted", x),
         UNCHANGED <<known, blocked, chats, senderVars, dropped, overlapped>>,
         inbox' \in [Side -> Seq(Stored)], \A r \in Side \ {s} : inbox'[r] = inbox[r],
         Lasting(s), Neat(s) => Neat(s)'
  PROVE  Good(s)
<1>1. c.q \in Request /\ Apt(s, c) /\ (~overlapped[s] => Neat(s))
  BY CallIs DEF IInv
<1>2. Becomes(s, t, Idle) /\ answers' \subseteq Reply /\ Honest(s)
  <2>1. Answer(c.q, "accepted", x) /\ c.q.from = Peer(s)
    BY <1>1 DEF Ends, Apt
  <2> QED BY <2>1, <1>1, AnswerHonest DEF Ends, Result, IInv
<1>3. /\ known' \in [Side -> BOOLEAN] /\ chats' \in [Side -> SUBSET ChatId]
      /\ dropped' \in [Side -> SUBSET Msg]
  BY DEF IInv, TypeOK
<1>4. chats'[s] # {} => known'[s]
  BY DEF IInv, Local
<1> QED BY <1>1, <1>2, <1>3, <1>4, StepGood

LEMMA UpdateGood ==
  ASSUME IInv, NEW s \in Side, NEW t \in Task, Update(s, t)
  PROVE  Good(s)
<1>1. PICK c : c = calls[s][t]
  OBVIOUS
<1>2. c.pc = "update" /\ c # Idle
  BY <1>1, NotIdle DEF Update, At
<1>3. c \in Call /\ c.q.kind = "edit" /\ c.tells \in ChatId \cup {NoChat}
  BY <1>1, <1>2, CallIs DEF IInv, Apt, Call
<1>4. /\ inbox[s][c.at].mark # "removed" /\ Ends(s, t, "accepted", c.tells)
      /\ inbox' = [inbox EXCEPT ![s][c.at].text = "edited"]
      /\ UNCHANGED <<known, blocked, chats, senderVars, dropped, overlapped>>
  BY <1>1 DEF Update
<1>5. PICK rec : rec = [inbox[s][c.at] EXCEPT !.text = "edited"]
  OBVIOUS
<1>6. inbox' = [inbox EXCEPT ![s] = [inbox[s] EXCEPT ![c.at] = rec]]
  BY <1>4, <1>5
<1>7. ASSUME c.at \in DOMAIN inbox[s]
      PROVE  rec \in Stored /\ rec.smid = inbox[s][c.at].smid /\ rec.chat = inbox[s][c.at].chat
  <2>1. inbox[s] \in Seq(Stored)
    BY DEF IInv, TypeOK
  <2>2. inbox[s][c.at] \in Stored
    BY <2>1, <1>7, BoxOf
  <2> QED BY <2>2, <1>5 DEF Stored, Text
<1>8. TypeOK /\ UNCHANGED <<chats, dropped>>
  BY <1>4 DEF IInv
<1>9. PICK i : i = c.at
  OBVIOUS
<1>10. /\ i \in DOMAIN inbox[s] =>
            rec \in Stored /\ rec.smid = inbox[s][i].smid /\ rec.chat = inbox[s][i].chat
       /\ inbox[s][i].mark # "removed"
       /\ inbox' = [inbox EXCEPT ![s] = [inbox[s] EXCEPT ![i] = rec]]
  BY <1>4, <1>6, <1>7, <1>9
<1>11. /\ inbox' \in [Side -> Seq(Stored)] /\ \A r \in Side \ {s} : inbox'[r] = inbox[r]
       /\ Kept(s) /\ Lasting(s) /\ (Neat(s) => Neat(s)')
  BY <1>8, <1>10, RewriteIs
<1> QED BY <1>1, <1>2, <1>3, <1>4, <1>11, RewriteGood

LEMMA WipeGood ==
  ASSUME IInv, NEW s \in Side, NEW t \in Task, Wipe(s, t)
  PROVE  Good(s)
<1>1. PICK c : c = calls[s][t]
  OBVIOUS
<1>2. c.pc = "wipe" /\ c # Idle
  BY <1>1, NotIdle DEF Wipe, At
<1>3. c.q.kind = "retract"
  BY <1>1, <1>2, CallIs DEF IInv, Apt
<1>4. /\ inbox[s][c.at].mark # "removed" /\ Ends(s, t, "accepted", NoChat)
      /\ inbox' = [inbox EXCEPT ![s][c.at] = [@ EXCEPT !.text = "", !.mark = "tombstone"]]
      /\ UNCHANGED <<known, blocked, chats, senderVars, dropped, overlapped>>
  BY <1>1 DEF Wipe
<1>5. PICK rec : rec = [inbox[s][c.at] EXCEPT !.text = "", !.mark = "tombstone"]
  OBVIOUS
<1>6. inbox' = [inbox EXCEPT ![s] = [inbox[s] EXCEPT ![c.at] = rec]]
  BY <1>4, <1>5
<1>7. ASSUME c.at \in DOMAIN inbox[s]
      PROVE  rec \in Stored /\ rec.smid = inbox[s][c.at].smid /\ rec.chat = inbox[s][c.at].chat
  <2>1. inbox[s] \in Seq(Stored)
    BY DEF IInv, TypeOK
  <2>2. inbox[s][c.at] \in Stored
    BY <2>1, <1>7, BoxOf
  <2> QED BY <2>2, <1>5 DEF Stored, Text, Mark
<1>8. TypeOK /\ UNCHANGED <<chats, dropped>>
  BY <1>4 DEF IInv
<1>9. PICK i : i = c.at
  OBVIOUS
<1>10. /\ i \in DOMAIN inbox[s] =>
            rec \in Stored /\ rec.smid = inbox[s][i].smid /\ rec.chat = inbox[s][i].chat
       /\ inbox[s][i].mark # "removed"
       /\ inbox' = [inbox EXCEPT ![s] = [inbox[s] EXCEPT ![i] = rec]]
  BY <1>4, <1>6, <1>7, <1>9
<1>11. /\ inbox' \in [Side -> Seq(Stored)] /\ \A r \in Side \ {s} : inbox'[r] = inbox[r]
       /\ Kept(s) /\ Lasting(s) /\ (Neat(s) => Neat(s)')
  BY <1>8, <1>10, RewriteIs
<1> QED BY <1>1, <1>2, <1>3, <1>4, <1>11, RewriteGood

LEMMA SeekGood ==
  ASSUME IInv, NEW s \in Side, NEW t \in Task, Seek(s, t)
  PROVE  Good(s)
<1>1. PICK c : c = calls[s][t]
  OBVIOUS
<1>2. c.pc = "seek" /\ c # Idle
  BY <1>1, NotIdle DEF Seek, At
<1>3. c \in Call /\ c.q \in Request /\ Apt(s, c) /\ c.q.kind = "retract"
  BY <1>1, <1>2, CallIs DEF IInv, Apt
<1>4. UNCHANGED <<mailboxVars, senderVars, overlapped, dropped>>
  BY DEF Seek
<1>5. ASSUME NEW result \in Result, Ends(s, t, result, NoChat) PROVE Good(s)
  BY <1>1, <1>2, <1>3, <1>4, <1>5, EndGood DEF IInv, TypeOK
<1>6. ASSUME NEW i \in Find(s, c.q.chat, c.q.smid), GoesOn(s, t, [c EXCEPT !.pc = "wipe", !.at = i])
      PROVE  Good(s)
  <2>1. i \in Nat
    <3>1. inbox[s] \in Seq(Stored) /\ i \in DOMAIN inbox[s]
      BY <1>6 DEF IInv, TypeOK, Find
    <3>2. DOMAIN inbox[s] \subseteq Nat
      BY <3>1, BoxOf
    <3> QED BY <3>1, <3>2
  <2>2. PICK d : d = [c EXCEPT !.pc = "wipe", !.at = i]
    OBVIOUS
  <2>3. d \in Call /\ d.pc = "wipe" /\ d.q = c.q /\ d.known = c.known
    BY <2>1, <2>2, <1>3 DEF Call, Pc
  <2>4. Apt(s, d) /\ Fresh(s, d)
    BY <2>3, <1>3 DEF Apt, Fresh, Placed
  <2> QED BY <2>2, <2>3, <2>4, <1>1, <1>2, <1>4, <1>6, OnGood
<1> QED BY <1>1, <1>5, <1>6 DEF Seek, Result

\* A call that the backend does not let go on.
LEMMA FailedGood ==
  ASSUME IInv, NEW s \in Side, NEW t \in Task, calls[s][t] # Idle, Refuse(s, t) \/ Fail(s, t)
  PROVE  Good(s)
<1>1. PICK c : c = calls[s][t]
  OBVIOUS
<1>2. Ends(s, t, "serverFail", NoChat) /\ UNCHANGED <<mailboxVars, senderVars, dropped, overlapped>>
  BY DEF Refuse, Fail
<1>3. /\ dropped' \in [Side -> SUBSET Msg] /\ dropped'[s] = dropped[s]
      /\ \A r \in Side \ {s} : dropped'[r] = dropped[r]
  BY <1>2 DEF IInv, TypeOK
<1>4. NoChat \in ChatId \cup {NoChat} /\ "serverFail" # "accepted"
  OBVIOUS
<1> QED BY <1>1, <1>2, <1>3, <1>4, EndGood

LEMMA Refusing ==
  ASSUME NEW s \in Side, NEW t \in Task, Refuse(s, t)
  PROVE  calls[s][t] # Idle
BY NotIdle DEF Refuse, At

\* Nothing is in work in a mailbox in which no call is overlapped by the step.
LEMMA Alone ==
  ASSUME TypeOK, NEW s \in Side, overlapped' = [overlapped EXCEPT ![s] = @ \/ Busy(s)]
  PROVE  /\ overlapped' \in [Side -> BOOLEAN]
         /\ \A r \in Side \ {s} : overlapped'[r] = overlapped[r]
         /\ ~overlapped'[s] => ~overlapped[s] /\ \A t \in Task : calls[s][t] = Idle
<1>1. PICK b : b = (overlapped[s] \/ Busy(s))
  OBVIOUS
<1>2. b \in BOOLEAN
  BY <1>1 DEF TypeOK
<1>3. overlapped' = [overlapped EXCEPT ![s] = b]
  BY <1>1
<1>4. /\ overlapped' \in [Side -> BOOLEAN] /\ overlapped'[s] = b
      /\ \A r \in Side \ {s} : overlapped'[r] = overlapped[r]
  BY <1>2, <1>3 DEF TypeOK
<1> QED BY <1>1, <1>4 DEF Busy

LEMMA BeginGood ==
  ASSUME IInv, NEW s \in Side, NEW t \in Task, NEW q \in net, NEW sound \in BOOLEAN,
         Begin(s, t, q, sound)
  PROVE  Good(s)
<1>1. PICK d : d = [pc |-> IF q.kind = "retract" THEN "seek" ELSE "resolve",
                    q |-> q, sound |-> sound, known |-> known[s], blocked |-> blocked[s],
                    from |-> NoChat, chat |-> NoChat, tells |-> NoChat, at |-> 0]
  OBVIOUS
<1>2. /\ q.from = Peer(s) /\ calls[s][t] = Idle /\ Becomes(s, t, d) /\ UNCHANGED answers
      /\ overlapped' = [overlapped EXCEPT ![s] = @ \/ Busy(s)]
      /\ UNCHANGED <<known, blocked, chats, inbox, fate, net, dropped>>
  BY <1>1 DEF Begin, GoesOn, mailboxVars, senderVars
<1>3. TypeOK /\ Local(s) /\ q \in Request
  BY DEF IInv, TypeOK
<1>4. /\ d \in Call /\ d.q = q /\ d.known = known[s]
      /\ IF q.kind = "retract" THEN d.pc = "seek" ELSE d.pc = "resolve"
  <2>1. known[s] \in BOOLEAN /\ blocked[s] \in BOOLEAN
    BY <1>3 DEF TypeOK
  <2>2. PICK p : p = IF q.kind = "retract" THEN "seek" ELSE "resolve"
    OBVIOUS
  <2>3. d = [pc |-> p, q |-> q, sound |-> sound, known |-> known[s], blocked |-> blocked[s],
             from |-> NoChat, chat |-> NoChat, tells |-> NoChat, at |-> 0] /\ p \in Pc
    BY <2>2, <1>1 DEF Pc
  <2>4. d \in Call /\ d.q = q /\ d.known = known[s] /\ d.pc = p
    BY <2>1, <2>3, <1>3 DEF Call
  <2> QED BY <2>2, <2>4
<1>5. /\ overlapped' \in [Side -> BOOLEAN]
      /\ \A r \in Side \ {s} : overlapped'[r] = overlapped[r]
      /\ ~overlapped'[s] => ~overlapped[s] /\ \A u \in Task : calls[s][u] = Idle
  BY <1>2, <1>3, Alone
<1>6. /\ calls' \in [Side -> [Task -> Call \cup {Idle}]] /\ calls'[s][t] = d
      /\ \A u \in Task \ {t} : calls'[s][u] = calls[s][u]
      /\ \A r \in Side \ {s} : calls'[r] = calls[r]
  BY <1>2, <1>3, <1>4, Writes
<1>7. TypeOK'
  BY <1>2, <1>3, <1>5, <1>6 DEF TypeOK
<1>8. Apt(s, d)'
  BY <1>2, <1>4 DEF Apt, Placed
<1>9. Local(s)'
  <2>1. \A u \in Task : calls'[s][u] # Idle => Apt(s, calls[s][u])'
    <3> SUFFICES ASSUME NEW u \in Task, calls'[s][u] # Idle PROVE Apt(s, calls[s][u])'
      OBVIOUS
    <3>1. CASE u = t
      BY <3>1, <1>6, <1>8 DEF Apt
    <3>2. CASE u # t
      <4>1. Apt(s, calls[s][u]) /\ calls'[s][u] = calls[s][u]
        BY <3>2, <1>3, <1>6 DEF Local
      <4> QED BY <4>1, <1>2 DEF Apt
    <3> QED BY <3>1, <3>2
  <2>2. ASSUME ~overlapped'[s] PROVE OneCall(s)'
    BY <2>2, <1>5, <1>6 DEF OneCall
  <2>3. ASSUME ~overlapped'[s] PROVE Neat(s)'
    BY <2>3, <1>2, <1>3, <1>5 DEF Local, Neat, Live
  <2>4. ASSUME ~overlapped'[s], NEW u \in Task, calls'[s][u] # Idle
        PROVE  Fresh(s, calls[s][u])'
    <3>1. calls'[s][u] = d
      BY <2>4, <1>5, <1>6
    <3> QED BY <3>1, <1>2, <1>4 DEF Fresh
  <2> QED BY <2>1, <2>2, <2>3, <2>4, <1>2, <1>3 DEF Local
<1>10. \A r \in Side \ {s} : Same(r)
  BY <1>2, <1>5, <1>6 DEF Same
<1>11. \A r \in Side : Lasting(r)
  BY <1>2, LastingSame
<1>12. Honest(s) /\ Earned
  BY <1>2 DEF Honest, Earned
<1> QED BY <1>7, <1>9, <1>10, <1>11, <1>12 DEF Good

-----------------------------------------------------------------------------
(* The steps of the owners and of their sending sides.                     *)

\* A step that leaves both mailboxes and their calls alone.
LEMMA AsideGood ==
  ASSUME IInv, NEW s \in Side, TypeOK', Earned,
         UNCHANGED <<known, chats, inbox, answers, calls, dropped, overlapped>>
  PROVE  Good(s)
<1>1. \A r \in Side : Same(r)
  BY DEF Same
<1>2. Local(s)'
  BY <1>1, LocalSame DEF IInv
<1>3. \A r \in Side : Lasting(r)
  BY LastingSame
<1>4. Honest(s)
  BY DEF Honest
<1> QED BY <1>1, <1>2, <1>3, <1>4 DEF Good

\* What becomes of one call.
LEMMA FateIs ==
  ASSUME TypeOK, NEW s \in Side, NEW m \in Msg, NEW k \in Kind, NEW x \in Fate,
         fate' = [fate EXCEPT ![s][m][k] = x],
         k = "message" /\ x = "accepted" => Had(Peer(s), m)
  PROVE  fate' \in [Side -> [Msg -> [Kind -> Fate]]] /\ Earned
<1>1. fate' \in [Side -> [Msg -> [Kind -> Fate]]]
  BY DEF TypeOK
<1>2. ASSUME NEW r \in Side, NEW n \in Msg, fate'[r][n]["message"] = "accepted"
      PROVE  fate[r][n]["message"] = "accepted" \/ Had(Peer(r), n)
  <2>1. "message" \in Kind
    BY DEF Kind
  <2>2. CASE r = s /\ n = m /\ k = "message"
    BY <2>1, <2>2, <1>2 DEF TypeOK
  <2>3. CASE ~(r = s /\ n = m /\ k = "message")
    <3>1. fate'[r][n]["message"] = fate[r][n]["message"]
      BY <2>1, <2>3 DEF TypeOK
    <3> QED BY <3>1, <1>2
  <2> QED BY <2>2, <2>3
<1> QED BY <1>1, <1>2 DEF Earned

LEMMA SenderGood ==
  ASSUME IInv, NEW s \in Side, NEW m \in Msg, NEW k \in Kind,
         Compose(s, m) \/ FollowUp(s, m, k) \/ Send(s, m, k)
  PROVE  Good(s)
<1>1. UNCHANGED <<known, blocked, chats, inbox, answers, calls, dropped, overlapped>>
  BY DEF Compose, FollowUp, Send, mailboxVars
<1>2. CASE Compose(s, m) \/ FollowUp(s, m, k)
  <2>1. PICK l \in Kind : fate' = [fate EXCEPT ![s][m][l] = "waiting"]
    BY <1>2 DEF Compose, FollowUp, Kind
  <2>2. fate' \in [Side -> [Msg -> [Kind -> Fate]]] /\ Earned
    BY <2>1, FateIs DEF Fate, IInv
  <2>3. net' = net
    BY <1>2 DEF Compose, FollowUp
  <2>4. TypeOK'
    BY <2>2, <2>3, <1>1 DEF IInv, TypeOK
  <2> QED BY <2>2, <2>4, <1>1, AsideGood
<1>3. CASE Send(s, m, k)
  <2>1. PICK c \in chats[s] : net' = net \cup {[from |-> s, smid |-> m, kind |-> k, chat |-> c]}
    BY <1>3 DEF Send
  <2>2. c \in ChatId /\ fate' = fate
    BY <1>3 DEF Send, IInv, TypeOK
  <2>3. TypeOK' /\ Earned
    BY <2>1, <2>2, <1>1 DEF IInv, TypeOK, Request, Earned
  <2> QED BY <2>3, <1>1, AsideGood
<1> QED BY <1>2, <1>3

LEMMA BlockGood ==
  ASSUME IInv, NEW s \in Side, Block(s) \/ Unblock(s)
  PROVE  Good(s)
<1>1. UNCHANGED <<known, chats, inbox, fate, net, answers, calls, dropped, overlapped>>
  BY DEF Block, Unblock, senderVars
<1>2. blocked' \in [Side -> BOOLEAN]
  BY DEF Block, Unblock, IInv, TypeOK
<1>3. TypeOK' /\ Earned
  BY <1>1, <1>2 DEF IInv, TypeOK, Earned
<1> QED BY <1>1, <1>3, AsideGood

LEMMA RemoveGood ==
  ASSUME IInv, NEW s \in Side, NEW i \in DOMAIN inbox[s], Remove(s, i)
  PROVE  Good(s)
<1>1. PICK rec : rec = [inbox[s][i] EXCEPT !.mark = "removed"]
  OBVIOUS
<1>2. /\ inbox' = [inbox EXCEPT ![s] = [inbox[s] EXCEPT ![i] = rec]]
      /\ UNCHANGED <<known, blocked, chats, fate, net, answers, calls, dropped, overlapped>>
  BY <1>1 DEF Remove, senderVars
<1>3. rec \in Stored /\ rec.smid = inbox[s][i].smid /\ rec.chat = inbox[s][i].chat
      /\ rec.mark = "removed"
  <2>1. inbox[s] \in Seq(Stored)
    BY DEF IInv, TypeOK
  <2>2. inbox[s][i] \in Stored
    BY <2>1, BoxOf
  <2> QED BY <2>2, <1>1 DEF Stored, Mark
<1>4. TypeOK /\ UNCHANGED <<chats, dropped>>
  BY <1>2 DEF IInv
<1>5. /\ inbox' \in [Side -> Seq(Stored)] /\ \A r \in Side \ {s} : inbox'[r] = inbox[r]
      /\ Kept(s) /\ Lasting(s) /\ (Neat(s) => Neat(s)')
  BY <1>2, <1>3, <1>4, RewriteIs
<1>6. TypeOK'
  BY <1>2, <1>5 DEF IInv, TypeOK
<1>7. Local(s)'
  <2>1. Local(s) /\ \A j : Live(s, j)' => Live(s, j) /\ inbox'[s][j].smid = inbox[s][j].smid
    BY <1>5, KeptKeeps DEF IInv
  <2>2. \A t \in Task : calls'[s][t] # Idle => Apt(s, calls[s][t])'
    BY <2>1, <1>2 DEF Local, Apt
  <2>3. ASSUME ~overlapped[s], NEW t \in Task, calls[s][t] # Idle PROVE Fresh(s, calls[s][t])'
    <3>1. Fresh(s, calls[s][t])
      BY <2>1, <2>3 DEF Local
    <3> QED BY <3>1, <2>1, <1>2 DEF Fresh
  <2>4. ASSUME ~overlapped[s] PROVE OneCall(s)' /\ Neat(s)'
    BY <2>1, <2>4, <1>2, <1>5 DEF Local, OneCall
  <2> QED BY <2>1, <2>2, <2>3, <2>4, <1>2 DEF Local
<1>8. \A r \in Side \ {s} : Same(r) /\ Lasting(r)
  BY <1>2, <1>5, LastingSame DEF Same
<1>9. Honest(s) /\ Earned
  BY <1>2 DEF Honest, Earned
<1> QED BY <1>5, <1>6, <1>7, <1>8, <1>9 DEF Good

\* Chats that change where nothing is in work.
LEMMA ChatsLocal ==
  ASSUME TypeOK, NEW s \in Side, Local(s), calls' = calls, known'[s],
         overlapped' = [overlapped EXCEPT ![s] = @ \/ Busy(s)], Neat(s) => Neat(s)'
  PROVE  Local(s)'
<1>1. \A t \in Task : calls'[s][t] # Idle => Apt(s, calls[s][t])'
  BY DEF Local, Apt
<1>2. ASSUME ~overlapped'[s]
      PROVE  /\ OneCall(s)' /\ Neat(s)'
             /\ \A t \in Task : calls'[s][t] # Idle => Fresh(s, calls[s][t])'
  <2>1. ~overlapped[s] /\ \A t \in Task : calls[s][t] = Idle
    BY <1>2, Alone
  <2> QED BY <2>1 DEF Local, OneCall
<1> QED BY <1>1, <1>2 DEF Local

LEMMA OpenGood ==
  ASSUME IInv, NEW s \in Side, Open(s)
  PROVE  Good(s)
<1>1. /\ chats[s] = {} /\ chats' = [chats EXCEPT ![s] = {Own(s)}]
      /\ known' = [known EXCEPT ![s] = TRUE]
      /\ overlapped' = [overlapped EXCEPT ![s] = @ \/ Busy(s)]
      /\ UNCHANGED <<blocked, inbox, fate, net, answers, calls, dropped>>
  BY DEF Open, senderVars
<1>2. TypeOK /\ Local(s)
  BY DEF IInv
<1>3. /\ overlapped' \in [Side -> BOOLEAN]
      /\ \A r \in Side \ {s} : overlapped'[r] = overlapped[r]
  BY <1>1, <1>2, Alone
<1>4. /\ chats' \in [Side -> SUBSET ChatId] /\ known' \in [Side -> BOOLEAN]
      /\ chats'[s] = {Own(s)} /\ known'[s]
      /\ \A r \in Side \ {s} : chats'[r] = chats[r] /\ known'[r] = known[r]
  BY <1>1, <1>2 DEF TypeOK, Own, ChatId
<1>5. TypeOK'
  BY <1>1, <1>2, <1>3, <1>4 DEF TypeOK
<1>6. Neat(s) => Neat(s)'
  <2> HAVE Neat(s)
  <2>1. \A i : ~Live(s, i)
    BY <1>1 DEF Neat
  <2>2. \A i : ~Live(s, i)'
    BY <2>1, <1>1 DEF Live
  <2>3. \A x, y \in chats'[s] : x = y
    BY <1>4
  <2> QED BY <2>2, <2>3 DEF Neat
<1>7. Local(s)'
  BY <1>1, <1>2, <1>4, <1>6, ChatsLocal
<1>8. \A r \in Side \ {s} : Same(r)
  BY <1>1, <1>3, <1>4 DEF Same
<1>9. \A r \in Side : Lasting(r)
  BY <1>1, LastingSame
<1>10. Honest(s) /\ Earned
  BY <1>1 DEF Honest, Earned
<1> QED BY <1>5, <1>7, <1>8, <1>9, <1>10 DEF Good

LEMMA HearGood ==
  ASSUME IInv, NEW s \in Side, NEW r \in answers, Hear(s, r)
  PROVE  Good(s)
<1>1. TypeOK /\ Local(s) /\ r \in Reply /\ r.to = s
  BY DEF Hear, IInv, TypeOK
<1>2. UNCHANGED <<known, blocked, net, answers, calls, dropped>>
  BY DEF Hear
<1>3. PICK x \in Fate : /\ fate' = [fate EXCEPT ![s][r.smid][r.kind] = x]
                        /\ x = "accepted" => r.result = "accepted"
  BY DEF Hear, Fate
<1>4. r.smid \in Msg /\ r.kind \in Kind /\ r.canonical \in ChatId \cup {NoChat}
  BY <1>1 DEF Reply
<1>5. r.kind = "message" /\ x = "accepted" => Had(Peer(s), r.smid)
  BY <1>1, <1>3 DEF IInv, AnswersTrue
<1>6. fate' \in [Side -> [Msg -> [Kind -> Fate]]] /\ Earned
  BY <1>1, <1>3, <1>4, <1>5, FateIs
<1>7. CASE UNCHANGED <<chats, inbox, overlapped>>
  <2>1. TypeOK'
    BY <1>1, <1>2, <1>6, <1>7 DEF TypeOK
  <2> QED BY <2>1, <1>2, <1>6, <1>7, AsideGood
<1>8. ASSUME NEW from \in chats[s], Move(s, from, r.canonical), r.canonical \notin chats[s] \cup {NoChat},
             overlapped' = [overlapped EXCEPT ![s] = @ \/ Busy(s)]
      PROVE  Good(s)
  <2>1. PICK to \in ChatId : to = r.canonical
    BY <1>4, <1>8
  <2>2. Move(s, from, to)
    BY <2>1, <1>8
  <2>3. /\ chats' \in [Side -> SUBSET ChatId] /\ inbox' \in [Side -> Seq(Stored)]
        /\ \A u \in Side \ {s} : chats'[u] = chats[u] /\ inbox'[u] = inbox[u]
        /\ Kept(s) /\ (Neat(s) => Neat(s)')
    BY <2>2, <1>1, MoveIs
  <2>4. /\ overlapped' \in [Side -> BOOLEAN]
        /\ \A u \in Side \ {s} : overlapped'[u] = overlapped[u]
    BY <1>1, <1>8, Alone
  <2>5. TypeOK'
    BY <2>3, <2>4, <1>1, <1>2, <1>6 DEF TypeOK
  <2>6. known'[s]
    BY <1>1, <1>2, <1>8 DEF Local
  <2>7. Local(s)'
    BY <2>3, <2>6, <1>1, <1>2, <1>8, ChatsLocal
  <2>8. \A u \in Side \ {s} : Same(u) /\ Lasting(u)
    BY <2>3, <2>4, <1>2, LastingSame DEF Same
  <2>9. Lasting(s)
    BY <2>3, <1>2, KeptKeeps
  <2>10. Honest(s)
    BY <1>2 DEF Honest
  <2> QED BY <2>5, <2>7, <2>8, <2>9, <2>10, <1>6 DEF Good
<1> QED BY <1>7, <1>8 DEF Hear

-----------------------------------------------------------------------------
(* The invariant, and what it says.                                        *)

LEMMA HandleGood ==
  ASSUME IInv, NEW s \in Side, NEW t \in Task, Handle(s, t) \/ Fail(s, t)
  PROVE  Good(s)
<1>1. CASE Refuse(s, t) \/ Fail(s, t)
  BY <1>1, Refusing, FailedGood DEF Fail
<1> QED BY <1>1, ResolveGood, RepeatedGood, EditedGood, MakeSenderGood, BringChatGood, CheckGood,
           StoreGood, UpdateGood, SeekGood, WipeGood DEF Handle

LEMMA NextGood ==
  ASSUME IInv, Next
  PROVE  \E s \in Side : Good(s)
<1>1. PICK s \in Side :
        \/ Open(s)
        \/ \E m \in Msg : Compose(s, m)
        \/ \E m \in Msg, k \in Kind : FollowUp(s, m, k) \/ Send(s, m, k)
        \/ Block(s) \/ Unblock(s)
        \/ \E i \in DOMAIN inbox[s] : Remove(s, i)
        \/ \E r \in answers : Hear(s, r)
        \/ \E t \in Task, q \in net, sound \in BOOLEAN : Begin(s, t, q, sound)
        \/ \E t \in Task : Handle(s, t) \/ Fail(s, t)
  BY DEF Next
<1>2. CASE Open(s) \/ Block(s) \/ Unblock(s)
  BY <1>2, OpenGood, BlockGood
<1>3. CASE \E m \in Msg : Compose(s, m)
  BY <1>3, SenderGood DEF Kind
<1>4. CASE \E m \in Msg, k \in Kind : FollowUp(s, m, k) \/ Send(s, m, k)
  BY <1>4, SenderGood
<1>5. CASE \E i \in DOMAIN inbox[s] : Remove(s, i)
  BY <1>5, RemoveGood
<1>6. CASE \E r \in answers : Hear(s, r)
  BY <1>6, HearGood
<1>7. CASE \E t \in Task, q \in net, sound \in BOOLEAN : Begin(s, t, q, sound)
  BY <1>7, BeginGood
<1>8. CASE \E t \in Task : Handle(s, t) \/ Fail(s, t)
  BY <1>8, HandleGood
<1> QED BY <1>1, <1>2, <1>3, <1>4, <1>5, <1>6, <1>7, <1>8

LEMMA IInvInit == Init => IInv
<1> SUFFICES ASSUME Init PROVE IInv
  OBVIOUS
<1>1. TypeOK
  BY EmptySeq DEF Init, TypeOK, Fate
<1>2. ASSUME NEW s \in Side PROVE Local(s)
  <2>1. chats[s] = {} /\ inbox[s] = <<>> /\ \A t \in Task : calls[s][t] = Idle
    BY <1>2 DEF Init
  <2>2. \A i : ~Live(s, i)
    <3>1. <<>> \in Seq(Stored) /\ Len(<<>>) = 0 /\ DOMAIN <<>> = 1 .. 0
      BY EmptySeq
    <3> QED BY <3>1, <2>1 DEF Live
  <2>3. OneCall(s) /\ Neat(s)
    BY <2>1, <2>2 DEF OneCall, Neat
  <2> QED BY <2>1, <2>3 DEF Local
<1>3. AnswersTrue /\ AcceptedHad
  BY DEF Init, AnswersTrue, AcceptedHad, Kind
<1> QED BY <1>1, <1>2, <1>3 DEF IInv

LEMMA IInvNext == IInv /\ [Next]_vars => IInv'
<1> SUFFICES ASSUME IInv, [Next]_vars PROVE IInv'
  OBVIOUS
<1>1. CASE Next
  BY <1>1, NextGood, GoodKeeps
<1>2. CASE UNCHANGED vars
  <2>1. UNCHANGED <<known, blocked, chats, inbox, fate, net, answers, calls, dropped, overlapped>>
    BY <1>2 DEF vars
  <2>2. TypeOK'
    BY <2>1 DEF IInv, TypeOK
  <2>3. \A s \in Side : Local(s)'
    BY <2>1, LocalSame DEF Same, IInv
  <2>4. AnswersTrue' /\ AcceptedHad'
    BY <2>1 DEF IInv, AnswersTrue, AcceptedHad, Had, Held
  <2> QED BY <2>2, <2>3, <2>4 DEF IInv
<1> QED BY <1>1, <1>2

LEMMA Invariance == Spec => []IInv
BY IInvInit, IInvNext, PTL DEF Spec

\* StoredOnce, for any messages and any number of calls in work: whatever fails
\* and whatever the owner does between two writes of a call, a mailbox whose
\* calls come one at a time has each message of the peer's once.
THEOREM Once == Spec => []StoredOnce
<1>1. IInv => StoredOnce
  <2> SUFFICES ASSUME IInv, NEW s \in Side, ~overlapped[s], Twice(s) PROVE FALSE
    BY DEF StoredOnce
  <2>1. Neat(s)
    BY DEF IInv, Local
  <2>2. PICK i, j \in DOMAIN inbox[s] :
          /\ i # j /\ inbox[s][i].smid = inbox[s][j].smid
          /\ inbox[s][i].mark # "removed" /\ inbox[s][j].mark # "removed"
    BY DEF Twice
  <2>3. Live(s, i) /\ Live(s, j)
    BY <2>2 DEF Live
  <2> QED BY <2>1, <2>2, <2>3 DEF Neat
<1> QED BY <1>1, Invariance, PTL

\* AcceptedIsStored, for any messages and any number of calls in work: what its
\* sender takes for delivered was stored or dropped by a block, however the
\* calls overlap and the owner blocks, unblocks and removes, and it is in the
\* chat of the two unless it was removed or calls overlapped.
THEOREM Accepted == Spec => []AcceptedIsStored
<1>1. IInv => AcceptedIsStored
  <2> SUFFICES ASSUME IInv, NEW s \in Side, NEW m \in Msg,
                      fate[s][m]["message"] = "accepted", m \notin dropped[Peer(s)]
               PROVE  \E i \in DOMAIN inbox[Peer(s)] :
                        /\ inbox[Peer(s)][i].smid = m
                        /\ \/ inbox[Peer(s)][i].mark = "removed"
                           \/ overlapped[Peer(s)]
                           \/ inbox[Peer(s)][i].chat \in chats[Peer(s)]
    BY DEF AcceptedIsStored
  <2>1. PICK p \in Side : p = Peer(s)
    BY Peers
  <2>2. Had(p, m)
    BY <2>1 DEF IInv, AcceptedHad
  <2>3. PICK i \in DOMAIN inbox[p] : inbox[p][i].smid = m
    BY <2>1, <2>2 DEF Had, Held
  <2>4. Local(p)
    BY DEF IInv
  <2>5. inbox[p][i].mark = "removed" \/ overlapped[p] \/ inbox[p][i].chat \in chats[p]
    BY <2>4 DEF Local, Neat, Live
  <2> QED BY <2>1, <2>3, <2>5
<1> QED BY <1>1, Invariance, PTL

-----------------------------------------------------------------------------
(* Both sides come to have the chat under one id, where no calls overlap.  *)

Quiet == \A s \in Side : ~overlapped[s]

\* A chat that is no longer under the id x is under the lesser one.
Under(s, x) == 1 \in chats[s] \/ x \in chats[s]

\* A call was sent with the id that the sender's chat had, and if it has
\* another now then the peer's chat has it too.
Carried == \A q \in net : Under(q.from, q.chat)
Lowered == \A q \in net : q.chat \notin chats[q.from] => 1 \in chats[Peer(q.from)]

\* An id that an answer tells of is the lesser, and one of the two has it.
Told(s, x) == x # NoChat => x = 1 /\ (1 \in chats[s] \/ 1 \in chats[Peer(s)])
Advice == \A r \in answers : Told(r.to, r.canonical)

\* Where a message of the peer's is stored a call came with the chat's id.
Brought ==
  \A s \in Side : DOMAIN inbox[s] # {} => \E q \in net : q.from = Peer(s) /\ Under(s, q.chat)

\* A call moves a chat to the lesser id only, and only if the sender has it.
Bound(s, c) ==
  /\ c.q \in net
  /\ Told(s, c.tells)
  /\ c.pc \in Placed => /\ c.chat \in {1, c.q.chat}
                        /\ c.from \notin {NoChat, c.chat} => c.chat = 1 /\ 1 \in chats[Peer(s)]

Agreed ==
  /\ Carried /\ Lowered /\ Advice /\ Brought
  /\ \A s \in Side, t \in Task : calls[s][t] # Idle => Bound(s, calls[s][t])

Meeting == Quiet => Agreed

\* What a step may do to the chats, and what it may add.
Down ==
  /\ net \subseteq net'
  /\ \A r \in Side : \A x : Under(r, x) => Under(r, x)'
  /\ \A r \in Side : 1 \in chats[r] => 1 \in chats'[r]
  /\ \A q \in net : q.chat \in chats[q.from] =>
                      q.chat \in chats'[q.from] \/ 1 \in chats'[Peer(q.from)]

Filled(r) ==
  DOMAIN inbox'[r] # {} =>
    DOMAIN inbox[r] # {} \/ \E q \in net' : q.from = Peer(r) /\ Under(r, q.chat)'

Added ==
  /\ \A q \in net' : q \in net \/ q.chat \in chats'[q.from]
  /\ \A r \in answers' : r \in answers \/ Told(r.to, r.canonical)'
  /\ \A r \in Side : Filled(r)
  /\ \A r \in Side, t \in Task :
       calls'[r][t] # Idle => calls'[r][t] = calls[r][t] \/ Bound(r, calls[r][t])'

LEMMA ToldDown ==
  ASSUME Down, NEW s \in Side, NEW x, Told(s, x)
  PROVE  Told(s, x)'
BY Peers DEF Down, Told

LEMMA AgreedKeeps ==
  ASSUME TypeOK, Agreed, Down, Added
  PROVE  Agreed'
<1>1. ASSUME NEW q \in net PROVE q.from \in Side /\ Peer(q.from) \in Side
  BY Peers DEF TypeOK, Request
<1>2. Carried'
  BY <1>1 DEF Agreed, Carried, Down, Added, Under
<1>3. Lowered'
  <2> SUFFICES ASSUME NEW q \in net', q.chat \notin chats'[q.from] PROVE 1 \in chats'[Peer(q.from)]
    BY DEF Lowered
  <2>1. q \in net
    BY DEF Added
  <2> QED BY <2>1, <1>1 DEF Agreed, Lowered, Down
<1>4. Advice'
  <2> SUFFICES ASSUME NEW r \in answers' PROVE Told(r.to, r.canonical)'
    BY DEF Advice
  <2>1. CASE r \in answers
    <3>1. r.to \in Side /\ Told(r.to, r.canonical)
      BY <2>1 DEF TypeOK, Reply, Agreed, Advice
    <3> QED BY <3>1, ToldDown
  <2> QED BY <2>1 DEF Added
<1>5. Brought'
  <2> SUFFICES ASSUME NEW s \in Side, DOMAIN inbox'[s] # {}
               PROVE  \E q \in net' : q.from = Peer(s) /\ Under(s, q.chat)'
    BY DEF Brought
  <2>1. CASE DOMAIN inbox[s] # {}
    <3>1. PICK q \in net : q.from = Peer(s) /\ Under(s, q.chat)
      BY <2>1 DEF Agreed, Brought
    <3> QED BY <3>1 DEF Down
  <2> QED BY <2>1 DEF Added, Filled
<1>6. ASSUME NEW s \in Side, NEW t \in Task, calls'[s][t] # Idle PROVE Bound(s, calls[s][t])'
  <2>1. CASE calls'[s][t] = calls[s][t]
    <3>1. PICK c : c = calls[s][t]
      OBVIOUS
    <3>2. Bound(s, c)
      BY <3>1, <2>1, <1>6 DEF Agreed
    <3>3. Told(s, c.tells)'
      BY <3>2, ToldDown DEF Bound
    <3>4. Bound(s, c)'
      BY <3>2, <3>3, Peers DEF Bound, Down
    <3> QED BY <3>1, <3>4, <2>1 DEF Bound, Told
  <2> QED BY <2>1, <1>6 DEF Added
<1> QED BY <1>2, <1>3, <1>4, <1>5, <1>6 DEF Agreed

LEMMA DownSame ==
  ASSUME chats' = chats, net \subseteq net'
  PROVE  Down
BY DEF Down, Under

\* A chat that is opened, or moved to the lesser id, which the peer has.
LEMMA DownFall ==
  ASSUME TypeOK, Agreed, NEW s \in Side, net' = net,
         \A r \in Side \ {s} : chats'[r] = chats[r],
         chats[s] = {} \/ (chats'[s] = {1} /\ 1 \in chats[Peer(s)])
  PROVE  Down
<1>1. ASSUME NEW r \in Side, NEW x, Under(r, x) PROVE Under(r, x)'
  BY <1>1 DEF Under
<1>2. \A r \in Side : 1 \in chats[r] => 1 \in chats'[r]
  OBVIOUS
<1>3. ASSUME NEW q \in net, q.chat \in chats[q.from]
      PROVE  q.chat \in chats'[q.from] \/ 1 \in chats'[Peer(q.from)]
  <2>1. q.from \in Side /\ Peer(s) \in Side /\ Peer(s) # s
    BY Peers DEF TypeOK, Request
  <2> QED BY <2>1, <1>3
<1> QED BY <1>1, <1>2, <1>3 DEF Down

\* A step that adds nothing but calls to the net.
LEMMA AddedNone ==
  ASSUME UNCHANGED <<answers, calls>>, \A r \in Side : DOMAIN inbox'[r] = DOMAIN inbox[r],
         \A q \in net' : q \in net \/ q.chat \in chats'[q.from]
  PROVE  Added
BY DEF Added, Filled

LEMMA AddedOn ==
  ASSUME TypeOK, NEW s \in Side, NEW t \in Task, NEW d \in Call, GoesOn(s, t, d), net' = net,
         \A r \in Side : DOMAIN inbox'[r] = DOMAIN inbox[r], Bound(s, d)'
  PROVE  Added
<1>1. /\ calls'[s][t] = d /\ answers' = answers
      /\ \A u \in Task \ {t} : calls'[s][u] = calls[s][u]
      /\ \A r \in Side \ {s} : calls'[r] = calls[r]
  BY Writes DEF GoesOn
<1>2. Bound(s, calls[s][t])'
  BY <1>1 DEF Bound, Told
<1> QED BY <1>1, <1>2 DEF Added, Filled

LEMMA AddedEnd ==
  ASSUME TypeOK, NEW s \in Side, NEW t \in Task, NEW c, c = calls[s][t], c.q.from = Peer(s),
         NEW result, NEW x, Ends(s, t, result, x), net' = net, Told(s, x)',
         \A r \in Side : Filled(r)
  PROVE  Added
<1>1. /\ calls'[s][t] = Idle
      /\ \A u \in Task \ {t} : calls'[s][u] = calls[s][u]
      /\ \A r \in Side \ {s} : calls'[r] = calls[r]
  BY Writes DEF Ends
<1>2. Told(Peer(s), x)'
  BY Peers DEF Told
<1>3. PICK a : a = [to |-> c.q.from, smid |-> c.q.smid, kind |-> c.q.kind, result |-> result,
                    canonical |-> x]
  OBVIOUS
<1>4. answers' \subseteq answers \cup {a}
  BY <1>3 DEF Ends, Answer
<1>5. a.to = Peer(s) /\ a.canonical = x
  BY <1>3
<1>6. \A r \in answers' : r \in answers \/ Told(r.to, r.canonical)'
  BY <1>2, <1>4, <1>5 DEF Told
<1> QED BY <1>1, <1>6 DEF Added

\* What is known of a call in work where no calls overlap.
LEMMA BoundCall ==
  ASSUME IInv, Quiet, Agreed, NEW s \in Side, NEW t \in Task, NEW c, c = calls[s][t], c # Idle
  PROVE  /\ c \in Call /\ c.q \in Request /\ c.q.chat \in ChatId /\ c.q.from = Peer(s)
         /\ TypeOK /\ Neat(s) /\ Fresh(s, c) /\ Bound(s, c)
<1>1. c \in Call /\ c.q \in Request /\ Apt(s, c) /\ Neat(s) /\ Fresh(s, c)
  BY CallIs DEF IInv, Quiet
<1>2. TypeOK /\ Bound(s, c)
  BY DEF IInv, Agreed
<1> QED BY <1>1, <1>2 DEF Apt, Request

\* A call that ends, or goes on as it is, and writes nothing.
LEMMA EndAdds ==
  ASSUME IInv, Quiet, Agreed, NEW s \in Side, NEW t \in Task, NEW c, c = calls[s][t], c # Idle,
         NEW result, NEW x, Ends(s, t, result, x), Told(s, x), UNCHANGED <<chats, net>>,
         \A r \in Side : Filled(r)
  PROVE  Down /\ Added
<1>1. Down
  BY DownSame
<1>2. Told(s, x)'
  BY <1>1, ToldDown
<1>3. c.q.from = Peer(s) /\ TypeOK
  BY BoundCall
<1> QED BY <1>1, <1>2, <1>3, AddedEnd

LEMMA OnAdds ==
  ASSUME IInv, NEW s \in Side, NEW t \in Task, NEW d \in Call, GoesOn(s, t, d), Bound(s, d),
         UNCHANGED <<chats, net, inbox>>
  PROVE  Down /\ Added
<1>1. Down
  BY DownSame
<1>2. Told(s, d.tells)
  BY DEF Bound
<1>3. Told(s, d.tells)'
  BY <1>1, <1>2, ToldDown
<1>4. Bound(s, d)'
  BY <1>3 DEF Bound
<1>5. TypeOK
  BY DEF IInv
<1> QED BY <1>1, <1>4, <1>5, AddedOn

\* The id that a call uses, and the one that its answer tells of.
LEMMA ChosenIs ==
  ASSUME TypeOK, Agreed, NEW s \in Side, NEW q \in net, q.from = Peer(s),
         NEW y \in chats[s] \cup {NoChat},
         NEW x, x = Target(q.chat, y), NEW z, z = Canonical(q.chat, y)
  PROVE  /\ x \in {1, q.chat} /\ (y \notin {NoChat, x} => x = 1 /\ 1 \in chats[Peer(s)])
         /\ Told(s, z)
<1>1. q.chat \in {1, 2} /\ y \in {0, 1, 2} /\ NoChat = 0
  BY DEF TypeOK, Request, ChatId, NoChat
<1>2. q.chat = 1 => 1 \in chats[Peer(s)]
  BY DEF Agreed, Carried, Under
<1>3. CASE y \in {NoChat, q.chat}
  <2>1. x = q.chat /\ z = NoChat
    BY <1>1, <1>3 DEF Target, Canonical, Lesser
  <2> QED BY <2>1, <1>3 DEF Told
<1>4. CASE y \notin {NoChat, q.chat}
  <2>1. x = 1 /\ z = 1 /\ (q.chat = 1 \/ y = 1)
    BY <1>1, <1>4 DEF Target, Canonical, Lesser
  <2>2. 1 \in chats[s] \/ 1 \in chats[Peer(s)]
    BY <2>1, <1>1, <1>2
  <2>3. y # 1 => 1 \in chats[Peer(s)]
    BY <2>1, <1>2
  <2> QED BY <2>1, <2>2, <2>3 DEF Told
<1> QED BY <1>3, <1>4

LEMMA ResolveMeets ==
  ASSUME IInv, Quiet, Agreed, NEW s \in Side, NEW t \in Task, Resolve(s, t)
  PROVE  Down /\ Added
<1>1. PICK c : c = calls[s][t]
  OBVIOUS
<1>2. c # Idle
  BY <1>1, NotIdle DEF Resolve, At
<1>3. /\ c \in Call /\ c.q \in Request /\ c.q.chat \in ChatId /\ c.q.from = Peer(s)
      /\ TypeOK /\ Neat(s) /\ Fresh(s, c) /\ Bound(s, c)
  BY <1>1, <1>2, BoundCall
<1>4. UNCHANGED <<chats, net, inbox>>
  BY DEF Resolve, mailboxVars, senderVars
<1>5. PICK y \in Direct(s, c) :
        \/ Ends(s, t, "forbidden", NoChat)
        \/ Ends(s, t, "accepted", Canonical(c.q.chat, y))
        \/ GoesOn(s, t, [c EXCEPT !.pc = "find", !.from = y, !.chat = Target(c.q.chat, y),
                                  !.tells = Canonical(c.q.chat, y)])
  BY <1>1 DEF Resolve
<1>6. y \in chats[s] \cup {NoChat} /\ c.q \in net /\ chats[s] \subseteq ChatId
  BY <1>3 DEF Direct, Bound, TypeOK
<1>7. PICK x, z : x = Target(c.q.chat, y) /\ z = Canonical(c.q.chat, y)
  OBVIOUS
<1>8. /\ x \in {1, c.q.chat} /\ (y \notin {NoChat, x} => x = 1 /\ 1 \in chats[Peer(s)])
      /\ Told(s, z) /\ Told(s, NoChat)
  <2>1. PICK q \in net : q = c.q
    BY <1>6
  <2>2. /\ x \in {1, q.chat} /\ (y \notin {NoChat, x} => x = 1 /\ 1 \in chats[Peer(s)])
        /\ Told(s, z)
    BY <2>1, <1>3, <1>6, <1>7, ChosenIs
  <2> QED BY <2>1, <2>2 DEF Told
<1>9. \A r \in Side : Filled(r)
  BY <1>4 DEF Filled
<1>10. CASE Ends(s, t, "forbidden", NoChat) \/ Ends(s, t, "accepted", Canonical(c.q.chat, y))
  BY <1>1, <1>2, <1>4, <1>7, <1>8, <1>9, <1>10, EndAdds
<1>11. CASE GoesOn(s, t, [c EXCEPT !.pc = "find", !.from = y, !.chat = Target(c.q.chat, y),
                                   !.tells = Canonical(c.q.chat, y)])
  <2>1. PICK d : d = [c EXCEPT !.pc = "find", !.from = y, !.chat = x, !.tells = z]
    OBVIOUS
  <2>2. x \in ChatId /\ z \in ChatId \cup {NoChat} /\ y \in ChatId \cup {NoChat}
    BY <1>3, <1>6, <1>7, TargetType
  <2>3. d \in Call /\ d.pc = "find" /\ d.q = c.q /\ d.from = y /\ d.chat = x /\ d.tells = z
    BY <2>1, <2>2, <1>3 DEF Call, Pc
  <2>4. Bound(s, d)
    BY <2>3, <1>6, <1>8 DEF Bound
  <2> QED BY <2>1, <2>3, <2>4, <1>4, <1>7, <1>11, OnAdds
<1> QED BY <1>5, <1>10, <1>11

\* The steps that only read, and those that write in the records: a call keeps
\* what it found.
LEMMA ReadMeets ==
  ASSUME IInv, Quiet, Agreed, NEW s \in Side, NEW t \in Task, NEW c, c = calls[s][t], c # Idle,
         NEW p \in Pc, NEW n \in Nat, GoesOn(s, t, [c EXCEPT !.pc = p, !.at = n]),
         p \in Placed => c.pc \in Placed, UNCHANGED <<chats, net, inbox>>
  PROVE  Down /\ Added
<1>1. c \in Call /\ Bound(s, c)
  BY BoundCall
<1>2. PICK d : d = [c EXCEPT !.pc = p, !.at = n]
  OBVIOUS
<1>3. /\ d \in Call /\ d.pc = p /\ d.q = c.q /\ d.from = c.from /\ d.chat = c.chat
      /\ d.tells = c.tells
  BY <1>1, <1>2 DEF Call
<1>4. Bound(s, d)
  BY <1>1, <1>3 DEF Bound
<1> QED BY <1>2, <1>3, <1>4, OnAdds

LEMMA QuitMeets ==
  ASSUME IInv, Quiet, Agreed, NEW s \in Side, NEW t \in Task, NEW c, c = calls[s][t], c # Idle,
         NEW result, NEW x \in {NoChat, c.tells}, Ends(s, t, result, x), UNCHANGED <<chats, net>>,
         \A r \in Side : Filled(r)
  PROVE  Down /\ Added
<1>1. Bound(s, c)
  BY BoundCall
<1>2. Told(s, x)
  BY <1>1 DEF Bound, Told
<1> QED BY <1>2, EndAdds

LEMMA LookMeets ==
  ASSUME IInv, Quiet, Agreed, NEW s \in Side, NEW t \in Task,
         Repeated(s, t) \/ Edited(s, t) \/ Check(s, t) \/ Seek(s, t) \/ MakeSender(s, t)
  PROVE  Down /\ Added
<1>1. PICK c : c = calls[s][t]
  OBVIOUS
<1>2. c # Idle
  BY <1>1, NotIdle DEF Repeated, Edited, Check, Seek, MakeSender, At
<1>3. c \in Call /\ c.q \in Request /\ c.at \in Nat
  BY <1>1, <1>2, BoundCall DEF Call
<1>4. UNCHANGED <<chats, net, inbox>>
  BY DEF Repeated, Edited, Check, Seek, MakeSender, mailboxVars, senderVars
<1>5. inbox[s] \in Seq(Stored)
  BY DEF IInv, TypeOK
<1>6. DOMAIN inbox[s] \subseteq Nat
  BY <1>5, BoxOf
<1>7. \A r \in Side : Filled(r)
  BY <1>4 DEF Filled
<1>8. ASSUME NEW result, NEW x \in {NoChat, c.tells}, Ends(s, t, result, x) PROVE Down /\ Added
  BY <1>1, <1>2, <1>4, <1>7, <1>8, QuitMeets
<1>9. ASSUME NEW p \in Pc, NEW n \in Nat, GoesOn(s, t, [c EXCEPT !.pc = p, !.at = n]),
             p \in Placed => c.pc \in Placed
      PROVE  Down /\ Added
  BY <1>1, <1>2, <1>4, <1>9, ReadMeets
<1>10. ASSUME NEW p \in Pc, GoesOn(s, t, [c EXCEPT !.pc = p]), c.pc \in Placed
       PROVE  Down /\ Added
  <2>1. [c EXCEPT !.pc = p] = [c EXCEPT !.pc = p, !.at = c.at]
    BY <1>3 DEF Call
  <2> QED BY <2>1, <1>3, <1>9, <1>10
<1>11. ToChat(c) \in Pc
  BY DEF ToChat, InChat, Pc
<1>12. CASE Repeated(s, t)
  <2>1. \/ Ends(s, t, "accepted", c.tells)
        \/ GoesOn(s, t, [c EXCEPT !.pc = IF c.known THEN ToChat(c) ELSE "sender"])
    BY <1>1, <1>12 DEF Repeated
  <2>2. c.pc \in Placed /\ (IF c.known THEN ToChat(c) ELSE "sender") \in Pc
    BY <1>1, <1>11, <1>12 DEF Repeated, At, Placed, Pc
  <2> QED BY <2>1, <2>2, <1>8, <1>10
<1>13. CASE Edited(s, t)
  <2>1. \/ Ends(s, t, "invalidArguments", NoChat)
        \/ \E i \in Find(s, c.from, c.q.smid) : GoesOn(s, t, [c EXCEPT !.pc = ToChat(c), !.at = i])
    BY <1>1, <1>13 DEF Edited
  <2>2. c.pc \in Placed /\ Find(s, c.from, c.q.smid) \subseteq Nat
    BY <1>1, <1>6, <1>13 DEF Edited, At, Placed, Find
  <2> QED BY <2>1, <2>2, <1>8, <1>9, <1>11
<1>14. CASE Check(s, t)
  <2>1. c.pc \in Placed /\ (Ends(s, t, "accepted", c.tells) \/ GoesOn(s, t, [c EXCEPT !.pc = "store"]))
    BY <1>1, <1>14 DEF Check, At, Placed
  <2> QED BY <2>1, <1>8, <1>10 DEF Pc
<1>15. CASE Seek(s, t)
  <2>1. \/ \E result \in Result : Ends(s, t, result, NoChat)
        \/ \E i \in Find(s, c.q.chat, c.q.smid) : GoesOn(s, t, [c EXCEPT !.pc = "wipe", !.at = i])
    BY <1>1, <1>15 DEF Seek, Result
  <2>2. Find(s, c.q.chat, c.q.smid) \subseteq Nat /\ "wipe" \in Pc /\ "wipe" \notin Placed
    BY <1>6 DEF Find, Pc, Placed
  <2> QED BY <2>1, <2>2, <1>8, <1>9
<1>16. CASE MakeSender(s, t)
  <2>1. c.pc \in Placed /\ GoesOn(s, t, [c EXCEPT !.pc = ToChat(c)])
    BY <1>1, <1>16 DEF MakeSender, At, Placed
  <2> QED BY <2>1, <1>10, <1>11
<1> QED BY <1>12, <1>13, <1>14, <1>15, <1>16

LEMMA BringChatMeets ==
  ASSUME IInv, Quiet, Agreed, NEW s \in Side, NEW t \in Task, BringChat(s, t)
  PROVE  Down /\ Added
<1>1. PICK c : c = calls[s][t]
  OBVIOUS
<1>2. c # Idle /\ c.pc = "chat"
  BY <1>1, NotIdle DEF BringChat, At
<1>3. /\ c \in Call /\ TypeOK /\ Neat(s) /\ Fresh(s, c) /\ Bound(s, c)
  BY <1>1, <1>2, BoundCall
<1>4. c.chat \notin chats[s] /\ net' = net /\ GoesOn(s, t, [c EXCEPT !.pc = InChat(c)])
  BY <1>1 DEF BringChat, senderVars
<1>5. c.chat \in ChatId
  BY <1>1, <1>2, CallIs DEF IInv, Apt, Placed
<1>6. /\ Down /\ \A r \in Side : DOMAIN inbox'[r] = DOMAIN inbox[r]
  <2>1. CASE c.from = NoChat /\ chats' = [chats EXCEPT ![s] = chats[s] \cup {c.chat}] /\ UNCHANGED inbox
    <3>1. chats[s] = {} /\ \A r \in Side \ {s} : chats'[r] = chats[r]
      BY <2>1, <1>2, <1>3 DEF Fresh, TypeOK
    <3> QED BY <3>1, <2>1, <1>3, <1>4, DownFall
  <2>2. CASE c.from \in chats[s] /\ Move(s, c.from, c.chat)
    <3>1. /\ \A r \in Side \ {s} : chats'[r] = chats[r] /\ inbox'[r] = inbox[r]
          /\ Kept(s) /\ chats'[s] = {c.chat}
      BY <2>2, <1>3, <1>5, MoveIs
    <3>2. c.from \notin {NoChat, c.chat}
      <4>1. c.from \in ChatId /\ c.from # c.chat
        BY <2>2, <1>3, <1>4 DEF TypeOK
      <4> QED BY <4>1 DEF ChatId, NoChat
    <3>3. c.chat = 1 /\ 1 \in chats[Peer(s)]
      BY <3>2, <1>2, <1>3 DEF Bound, Placed
    <3>4. Down
      BY <3>1, <3>3, <1>3, <1>4, DownFall
    <3> QED BY <3>1, <3>4 DEF Kept
  <2> QED BY <1>1, <2>1, <2>2 DEF BringChat
<1>7. PICK p : p = InChat(c)
  OBVIOUS
<1>8. PICK d : d = [c EXCEPT !.pc = p]
  OBVIOUS
<1>9. /\ d \in Call /\ d.q = c.q /\ d.from = c.from /\ d.chat = c.chat /\ d.tells = c.tells
  BY <1>3, <1>7, <1>8 DEF Call, InChat, Pc
<1>10. Bound(s, d)
  BY <1>2, <1>3, <1>9 DEF Bound, Placed
<1>11. Told(s, d.tells)'
  BY <1>6, <1>10, ToldDown DEF Bound
<1>12. Bound(s, d)'
  BY <1>4, <1>6, <1>10, <1>11, Peers DEF Bound, Down
<1>13. Added
  BY <1>3, <1>4, <1>6, <1>7, <1>8, <1>9, <1>12, AddedOn
<1> QED BY <1>6, <1>13

LEMMA WriteMeets ==
  ASSUME IInv, Quiet, Agreed, NEW s \in Side, NEW t \in Task,
         Store(s, t) \/ Update(s, t) \/ Wipe(s, t)
  PROVE  Down /\ Added
<1>1. PICK c : c = calls[s][t]
  OBVIOUS
<1>2. c # Idle
  BY <1>1, NotIdle DEF Store, Update, Wipe, At
<1>3. /\ c \in Call /\ c.q.from = Peer(s) /\ TypeOK /\ Fresh(s, c) /\ Bound(s, c)
  BY <1>1, <1>2, BoundCall
<1>4. UNCHANGED <<chats, net>> /\ \E x \in {NoChat, c.tells} : Ends(s, t, "accepted", x)
  BY <1>1 DEF Store, Update, Wipe, senderVars
<1>5. ASSUME NEW r \in Side PROVE Filled(r)
  <2>1. CASE r # s
    <3>1. inbox'[r] = inbox[r]
      BY <2>1 DEF Store, Update, Wipe, IInv, TypeOK
    <3> QED BY <3>1 DEF Filled
  <2>2. CASE r = s /\ Store(s, t)
    <3>1. c.pc = "store"
      BY <1>1, <2>2 DEF Store, At
    <3>2. c.q \in net /\ Under(s, c.q.chat)
      BY <3>1, <1>3 DEF Fresh, Bound, Placed, Under
    <3> QED BY <3>2, <2>2, <1>3, <1>4 DEF Filled, Under
  <2>3. CASE r = s /\ (Update(s, t) \/ Wipe(s, t))
    <3>1. DOMAIN inbox'[s] = DOMAIN inbox[s]
      BY <2>3 DEF Update, Wipe, IInv, TypeOK
    <3> QED BY <3>1, <2>3 DEF Filled
  <2> QED BY <2>1, <2>2, <2>3
<1> QED BY <1>1, <1>2, <1>4, <1>5, QuitMeets

LEMMA HandleMeets ==
  ASSUME IInv, Quiet, Agreed, NEW s \in Side, NEW t \in Task, Handle(s, t) \/ Fail(s, t)
  PROVE  Down /\ Added
<1>1. CASE Refuse(s, t) \/ Fail(s, t)
  <2>1. PICK c : c = calls[s][t]
    OBVIOUS
  <2>2. c # Idle
    BY <2>1, <1>1, Refusing DEF Fail
  <2>3. Ends(s, t, "serverFail", NoChat) /\ UNCHANGED <<chats, inbox, net>>
    BY <1>1 DEF Refuse, Fail, mailboxVars, senderVars
  <2>4. \A r \in Side : Filled(r)
    BY <2>3 DEF Filled
  <2> QED BY <2>1, <2>2, <2>3, <2>4, QuitMeets
<1> QED BY <1>1, ResolveMeets, LookMeets, BringChatMeets, WriteMeets DEF Handle

LEMMA SenderMeets ==
  ASSUME IInv, Quiet, Agreed, NEW s \in Side, NEW m \in Msg, NEW k \in Kind,
         Compose(s, m) \/ FollowUp(s, m, k) \/ Send(s, m, k)
  PROVE  Down /\ Added
<1>1. UNCHANGED <<chats, inbox, answers, calls>>
  BY DEF Compose, FollowUp, Send, mailboxVars
<1>2. net \subseteq net' /\ \A q \in net' : q \in net \/ q.chat \in chats'[q.from]
  <2>1. CASE net' = net
    BY <2>1
  <2>2. CASE Send(s, m, k)
    <3>1. PICK c \in chats[s] : net' = net \cup {[from |-> s, smid |-> m, kind |-> k, chat |-> c]}
      BY <2>2 DEF Send
    <3> QED BY <3>1, <1>1
  <2> QED BY <2>1, <2>2 DEF Compose, FollowUp
<1>3. Down
  BY <1>1, <1>2, DownSame
<1>4. Added
  BY <1>1, <1>2, AddedNone
<1> QED BY <1>3, <1>4

LEMMA KeeperMeets ==
  ASSUME IInv, Quiet, Agreed, NEW s \in Side,
         Block(s) \/ Unblock(s) \/ \E i \in DOMAIN inbox[s] : Remove(s, i)
  PROVE  Down /\ Added
<1>1. UNCHANGED <<chats, net, answers, calls>>
  BY DEF Block, Unblock, Remove, senderVars
<1>2. \A r \in Side : DOMAIN inbox'[r] = DOMAIN inbox[r]
  <2>1. CASE UNCHANGED inbox
    BY <2>1
  <2>2. ASSUME NEW i \in DOMAIN inbox[s], Remove(s, i)
        PROVE  \A r \in Side : DOMAIN inbox'[r] = DOMAIN inbox[r]
    BY <2>2 DEF Remove, IInv, TypeOK
  <2> QED BY <2>1, <2>2 DEF Block, Unblock
<1>3. Down
  BY <1>1, DownSame
<1>4. Added
  BY <1>1, <1>2, AddedNone
<1> QED BY <1>3, <1>4

LEMMA OpenMeets ==
  ASSUME IInv, Agreed, NEW s \in Side, Open(s)
  PROVE  Down /\ Added
<1>1. /\ TypeOK /\ chats[s] = {} /\ UNCHANGED <<inbox, net, answers, calls>>
      /\ \A r \in Side \ {s} : chats'[r] = chats[r]
  BY DEF Open, senderVars, IInv, TypeOK
<1>2. Down
  BY <1>1, DownFall
<1>3. Added
  BY <1>1, AddedNone
<1> QED BY <1>2, <1>3

LEMMA HearMeets ==
  ASSUME IInv, Quiet, Agreed, NEW s \in Side, NEW r \in answers, Hear(s, r)
  PROVE  Down /\ Added
<1>1. TypeOK /\ Neat(s) /\ UNCHANGED <<net, answers, calls>>
  BY DEF Hear, IInv, Local, Quiet
<1>2. Down /\ \A u \in Side : DOMAIN inbox'[u] = DOMAIN inbox[u]
  <2>1. CASE UNCHANGED <<chats, inbox>>
    BY <2>1, <1>1, DownSame
  <2>2. ASSUME NEW from \in chats[s], Move(s, from, r.canonical), r.canonical \notin chats[s] \cup {NoChat}
        PROVE  Down /\ \A u \in Side : DOMAIN inbox'[u] = DOMAIN inbox[u]
    <3>1. r.canonical = 1 /\ 1 \in chats[Peer(s)]
      BY <2>2 DEF Hear, Agreed, Advice, Told
    <3>2. PICK to \in ChatId : to = 1
      BY DEF ChatId
    <3>3. Move(s, from, to)
      BY <3>1, <3>2, <2>2
    <3>4. /\ \A u \in Side \ {s} : chats'[u] = chats[u] /\ inbox'[u] = inbox[u]
          /\ Kept(s) /\ chats'[s] = {1}
      BY <3>2, <3>3, <1>1, MoveIs
    <3>5. Down
      BY <3>1, <3>4, <1>1, DownFall
    <3> QED BY <3>4, <3>5 DEF Kept
  <2> QED BY <2>1, <2>2 DEF Hear
<1>3. Added
  BY <1>1, <1>2, AddedNone
<1> QED BY <1>2, <1>3

LEMMA BeginMeets ==
  ASSUME IInv, NEW s \in Side, NEW t \in Task, NEW q \in net, NEW sound \in BOOLEAN,
         Begin(s, t, q, sound)
  PROVE  Down /\ Added
<1>1. PICK p \in {"seek", "resolve"} : p = IF q.kind = "retract" THEN "seek" ELSE "resolve"
  OBVIOUS
<1>2. PICK d : d = [pc |-> p, q |-> q, sound |-> sound, known |-> known[s], blocked |-> blocked[s],
                    from |-> NoChat, chat |-> NoChat, tells |-> NoChat, at |-> 0]
  OBVIOUS
<1>3. TypeOK /\ known[s] \in BOOLEAN /\ blocked[s] \in BOOLEAN /\ q \in Request
  BY DEF IInv, TypeOK
<1>4. d \in Call /\ d.pc \notin Placed /\ d.q = q /\ d.tells = NoChat
  BY <1>1, <1>2, <1>3 DEF Call, Pc, Placed
<1>5. Bound(s, d)
  BY <1>4 DEF Bound, Told
<1>6. GoesOn(s, t, d) /\ UNCHANGED <<chats, net, inbox>>
  BY <1>1, <1>2 DEF Begin, mailboxVars, senderVars
<1> QED BY <1>4, <1>5, <1>6, OnAdds

LEMMA NextMeets ==
  ASSUME IInv, Quiet, Agreed, Next
  PROVE  Down /\ Added
<1>1. PICK s \in Side :
        \/ Open(s)
        \/ \E m \in Msg : Compose(s, m)
        \/ \E m \in Msg, k \in Kind : FollowUp(s, m, k) \/ Send(s, m, k)
        \/ Block(s) \/ Unblock(s)
        \/ \E i \in DOMAIN inbox[s] : Remove(s, i)
        \/ \E r \in answers : Hear(s, r)
        \/ \E t \in Task, q \in net, sound \in BOOLEAN : Begin(s, t, q, sound)
        \/ \E t \in Task : Handle(s, t) \/ Fail(s, t)
  BY DEF Next
<1>2. CASE Open(s) \/ Block(s) \/ Unblock(s)
  BY <1>2, OpenMeets, KeeperMeets
<1>3. CASE \E m \in Msg : Compose(s, m)
  BY <1>3, SenderMeets DEF Kind
<1>4. CASE \E m \in Msg, k \in Kind : FollowUp(s, m, k) \/ Send(s, m, k)
  BY <1>4, SenderMeets
<1>5. CASE \E i \in DOMAIN inbox[s] : Remove(s, i)
  BY <1>5, KeeperMeets
<1>6. CASE \E r \in answers : Hear(s, r)
  BY <1>6, HearMeets
<1>7. CASE \E t \in Task, q \in net, sound \in BOOLEAN : Begin(s, t, q, sound)
  BY <1>7, BeginMeets
<1>8. CASE \E t \in Task : Handle(s, t) \/ Fail(s, t)
  BY <1>8, HandleMeets
<1> QED BY <1>1, <1>2, <1>3, <1>4, <1>5, <1>6, <1>7, <1>8

\* Where calls have overlapped they always have.
LEMMA QuietBefore ==
  ASSUME TypeOK, [Next]_vars, Quiet'
  PROVE  Quiet
<1> SUFFICES ASSUME NEW r \in Side PROVE ~overlapped[r]
  BY DEF Quiet
<1>1. CASE overlapped' = overlapped
  BY <1>1 DEF Quiet
<1>2. ASSUME NEW s \in Side, overlapped' = [overlapped EXCEPT ![s] = @ \/ Busy(s)]
      PROVE  ~overlapped[r]
  <2>1. /\ \A u \in Side \ {s} : overlapped'[u] = overlapped[u]
        /\ ~overlapped'[s] => ~overlapped[s]
    BY <1>2, Alone
  <2> QED BY <2>1 DEF Quiet
<1>3. CASE UNCHANGED vars
  BY <1>1, <1>3 DEF vars
<1>4. ASSUME NEW s \in Side, NEW t \in Task, Handle(s, t) \/ Fail(s, t)
      PROVE  overlapped' = overlapped
  BY <1>4 DEF Handle, Fail, Resolve, Repeated, Edited, MakeSender, BringChat, Check, Store, Update,
              Seek, Wipe, Refuse
<1>5. ASSUME NEW s \in Side,
             \/ \E m \in Msg : Compose(s, m)
             \/ \E m \in Msg, k \in Kind : FollowUp(s, m, k) \/ Send(s, m, k)
             \/ Block(s) \/ Unblock(s)
             \/ \E i \in DOMAIN inbox[s] : Remove(s, i)
      PROVE  overlapped' = overlapped
  BY <1>5 DEF Compose, FollowUp, Send, Block, Unblock, Remove
<1>6. ASSUME NEW s \in Side,
             \/ Open(s)
             \/ \E q \in answers : Hear(s, q)
             \/ \E t \in Task, q \in net, sound \in BOOLEAN : Begin(s, t, q, sound)
      PROVE  overlapped' = overlapped \/ overlapped' = [overlapped EXCEPT ![s] = @ \/ Busy(s)]
  BY <1>6 DEF Open, Hear, Begin
<1> QED BY <1>1, <1>2, <1>3, <1>4, <1>5, <1>6 DEF Next

LEMMA MeetingInit == Init => Meeting
<1> SUFFICES ASSUME Init PROVE Agreed
  BY DEF Meeting
<1>1. net = {} /\ answers = {} /\ \A s \in Side : inbox[s] = <<>> /\ \A t \in Task : calls[s][t] = Idle
  BY DEF Init
<1>2. DOMAIN <<>> = {}
  <2>1. <<>> \in Seq(Stored) /\ Len(<<>>) = 0 /\ DOMAIN <<>> = 1 .. 0
    BY EmptySeq
  <2> QED BY <2>1
<1> QED BY <1>1, <1>2 DEF Agreed, Carried, Lowered, Advice, Brought

LEMMA MeetingNext == IInv /\ Meeting /\ [Next]_vars => Meeting'
<1> SUFFICES ASSUME IInv, Meeting, [Next]_vars, Quiet' PROVE Agreed'
  BY DEF Meeting
<1>1. TypeOK /\ Quiet /\ Agreed
  BY QuietBefore DEF IInv, Meeting
<1>2. CASE Next
  BY <1>1, <1>2, NextMeets, AgreedKeeps
<1>3. CASE UNCHANGED vars
  <2>1. UNCHANGED <<chats, net, inbox, answers, calls>>
    BY <1>3 DEF vars
  <2>2. Down /\ Added
    BY <2>1, DownSame, AddedNone
  <2> QED BY <2>2, <1>1, AgreedKeeps
<1> QED BY <1>2, <1>3

\* SameChat, for any messages and any number of calls: both opened the chat,
\* under two ids, and each has a message of the other's; then one of the two
\* moved its chat to the lesser id, which the other had.
THEOREM Met == Spec => []SameChat
<1>1. IInv /\ Meeting => SameChat
  <2> SUFFICES ASSUME IInv, Meeting, Quiet,
                      \A s \in Side :
                        \E m \in Msg \ dropped[Peer(s)] : fate[s][m]["message"] = "accepted"
               PROVE  chats[A] = chats[B]
    BY DEF SameChat, Quiet
  <2>1. A \in Side /\ B \in Side /\ Peer(A) = B /\ Peer(B) = A
    BY SideAssumption DEF Side, Peer
  <2>2. ASSUME NEW s \in Side PROVE DOMAIN inbox[Peer(s)] # {}
    <3>1. PICK m \in Msg \ dropped[Peer(s)] : fate[s][m]["message"] = "accepted"
      OBVIOUS
    <3>2. Held(Peer(s), m)
      BY <3>1 DEF IInv, AcceptedHad, Had
    <3> QED BY <3>2 DEF Held
  <2>3. Carried /\ Lowered /\ Brought
    BY DEF Meeting, Agreed
  <2>4. PICK p \in net : p.from = B /\ Under(A, p.chat)
    BY <2>1, <2>2, <2>3 DEF Brought
  <2>5. PICK q \in net : q.from = A /\ Under(B, q.chat)
    BY <2>1, <2>2, <2>3 DEF Brought
  <2>6. Under(B, p.chat) /\ Under(A, q.chat)
    BY <2>3, <2>4, <2>5 DEF Carried
  <2>7. /\ p.chat \notin chats[B] => 1 \in chats[A]
        /\ q.chat \notin chats[A] => 1 \in chats[B]
    BY <2>1, <2>3, <2>4, <2>5 DEF Lowered
  <2>8. chats[A] \subseteq {1, 2} /\ chats[B] \subseteq {1, 2}
    BY <2>1 DEF IInv, TypeOK, ChatId
  <2>9. (\A x, y \in chats[A] : x = y) /\ (\A x, y \in chats[B] : x = y)
    BY <2>1 DEF IInv, Local, Neat, Quiet
  <2>10. 1 \in chats[A] <=> 1 \in chats[B]
    BY <2>4, <2>5, <2>6, <2>7, <2>8, <2>9 DEF Under
  <2>11. chats[A] # {} /\ chats[B] # {}
    BY <2>4, <2>5, <2>6 DEF Under
  <2>12. CASE 1 \in chats[A]
    <3>1. chats[A] = {1} /\ chats[B] = {1}
      BY <2>9, <2>10, <2>12
    <3> QED BY <3>1
  <2>13. CASE 1 \notin chats[A]
    <3>1. chats[A] = {2} /\ chats[B] = {2}
      BY <2>8, <2>10, <2>11, <2>13
    <3> QED BY <3>1
  <2> QED BY <2>12, <2>13
<1>2. Spec => []Meeting
  BY Invariance, MeetingInit, MeetingNext, PTL DEF Spec
<1> QED BY <1>1, <1>2, Invariance, PTL
=============================================================================
