----------------------------- MODULE Mailboxes -----------------------------
(***************************************************************************)
(* Mailbox/set: one call creates, updates and destroys mailboxes of an     *)
(* account, and destroys or refiles the emails of the mailboxes it         *)
(* destroys.                                                               *)
(*                                                                         *)
(* The handler decides on copies of the mailboxes it has read, one before  *)
(* its first write and one before its first destroy, and on what it has    *)
(* done itself.  Each backend call holds the in-memory store's lock on its *)
(* own and checks nothing again, so each is one step, and calls of other   *)
(* requests may come between any two of them.  Who starts a call and what  *)
(* becomes of its answer is in Dispatch.                                   *)
(***************************************************************************)
EXTENDS Naturals, FiniteSets, Functions

CONSTANTS
  Request,     \* requests in progress; each runs one call at a time
  Cid,         \* creation ids
  Role,        \* mailbox roles
  Name,        \* mailbox names
  Email,
  Call,        \* the Mailbox/set calls clients make
  MaxBox,      \* mailbox ids are 1 .. MaxBox
  Seed,        \* the mailboxes the account may have at first
  NoRole,      \* role null
  NoState,     \* no ifInState
  Same         \* a patch that leaves the property alone

Top == 0                       \* parentId null
Box == 1 .. MaxBox
Parent == Box \cup {Top} \cup Cid      \* a parentId as the client writes it


\* What a call asks for.  "after" names an earlier call of the batch whose
\* newState is the ifInState (a result reference); "malformed" is a destroy
\* list with an element that is not a string; "known" is FALSE for a method
\* that is not registered or that the guard refuses.
Creation == [name : Name, parent : Parent, role : Role \cup {NoRole}]
Patch == [parent : Parent \cup {Same}, role : Role \cup {NoRole, Same}, valid : BOOLEAN]

ASSUME CallAssumption ==
  /\ Call # {}
  /\ \A c \in Call :
       /\ c \in [create : {c.create}, update : {c.update}, destroy : SUBSET Box,
                removeEmails : BOOLEAN, malformed : BOOLEAN, known : BOOLEAN,
                ifInState : Nat \cup {NoState}, after : Nat]
       /\ DOMAIN c.create \subseteq Cid /\ c.create \in [DOMAIN c.create -> Creation]
       /\ DOMAIN c.update \subseteq Box /\ c.update \in [DOMAIN c.update -> Patch]

\* null is no role, and a patch without a role is neither.
ASSUME NullAssumption == NoRole \notin Role /\ Same \notin Role \cup {NoRole}

\* Mailboxes with names and roles of their own, and parents among them.
ASSUME SeedAssumption ==
  /\ MaxBox \in Nat
  /\ \A s \in Seed : \E n \in 0 .. MaxBox :
       /\ s \in [1 .. n -> [name : Name, parent : 0 .. n, role : Role \cup {NoRole}]]
       /\ \A b \in 1 .. n : s[b].parent < b
       /\ \A b, c \in 1 .. n :
            b # c => /\ s[b].role # s[c].role \/ s[b].role = NoRole
                     /\ s[b].name # s[c].name \/ s[b].parent # s[c].parent

VARIABLES
  box,       \* the stored mailboxes: id -> name, parent, role
  filed,     \* the stored emails: email -> the ids in mailboxIds
  stamp,     \* the Mailbox state
  minted,    \* mailbox ids given out
  pc,        \* pc[r]: where r's call is
  arg,       \* arg[r]: the call
  ids,       \* ids[r]: the creation ids the call may refer to
  seen,      \* seen[r]: the mailboxes it has read
  todo,      \* todo[r]: the creates, updates or destroys it has not done
  made,      \* made[r]: created
  mutated,   \* mutated[r]: whether it has written anything
  freed,     \* freed[r]: roles_successfully_vacated
  claimed,   \* claimed[r]: roles_claimed_this_request
  at,        \* at[r]: the mailbox it is destroying
  found,     \* found[r]: emails_in_mailbox, with the mailboxIds read
  newState,  \* newState[r]: of the answer
  balked     \* an update that was to free a role was not made

storeVars == <<box, filed, stamp, minted>>
callVars  == <<pc, arg, ids, seen, todo, made, mutated, freed, claimed, at, found, newState, balked>>

Empty == [x \in {} |-> Top]

MailboxesInit ==
  /\ box \in Seed
  /\ filed \in [Email -> (SUBSET DOMAIN box) \ {{}}]
  /\ stamp = Cardinality(DOMAIN box)
  /\ minted = stamp
  /\ pc = [r \in Request |-> "idle"]
  /\ arg = [r \in Request |-> CHOOSE c \in Call : TRUE]
  /\ ids = [r \in Request |-> Empty]
  /\ seen = [r \in Request |-> Empty]
  /\ todo = [r \in Request |-> {}]
  /\ made = [r \in Request |-> Empty]
  /\ mutated = [r \in Request |-> FALSE]
  /\ freed = [r \in Request |-> {}]
  /\ claimed = [r \in Request |-> {}]
  /\ at = [r \in Request |-> Top]
  /\ found = [r \in Request |-> Empty]
  /\ newState = [r \in Request |-> stamp]
  /\ balked = FALSE

Over == {"idle", "done", "failed", "panicked"}
Running(r) == pc[r] \notin Over

-----------------------------------------------------------------------------
(* What the handler decides from its copies.                               *)

\* created_ids: the request's map, and over it what this call created.
Known(r) == DOMAIN ids[r] \cup DOMAIN made[r]

Resolves(r, p) == p \in Cid => p \in Known(r)

\* The reference as it was written.
ResolvedBug(r, p) == p

Resolved(r, p) ==
  IF p \notin Cid THEN p ELSE IF p \in DOMAIN made[r] THEN made[r][p].id ELSE ids[r][p]

\* parents_first: a create waits for a create of the call it refers to, unless
\* every one left waits.
Waits(r, k) ==
  LET p == arg[r].create[k].parent IN p # k /\ p \in todo[r]

Ready(r) ==
  LET ready == {k \in todo[r] : ~Waits(r, k)} IN IF ready = {} THEN todo[r] ELSE ready

HeldBut(r, role, n) == \E b \in DOMAIN seen[r] \ {n} : seen[r][b].role = role

Created(r, role) == \E k \in DOMAIN made[r] : arg[r].create[k].role = role

Vacating(r) == {n \in DOMAIN arg[r].update : arg[r].update[n].role = NoRole}

\* Every update that says role null counts, whoever holds the role.
IntendedBug(r) == Role

\* roles_intended_to_vacate.
Intended(r) == {seen[r][n].role : n \in Vacating(r) \cap DOMAIN seen[r]}

RoleFreeForCreate(r, role) ==
  role # NoRole => (HeldBut(r, role, Top) => role \in Intended(r)) /\ ~Created(r, role)

RoleFreeForUpdate(r, role, n) ==
  role \in Role =>
    /\ HeldBut(r, role, n) => role \in freed[r]
    /\ role \notin claimed[r]
    /\ ~Created(r, role)

NameTaken(r, name, p) ==
  \/ \E b \in DOMAIN seen[r] : seen[r][b].name = name /\ seen[r][b].parent = p
  \/ \E k \in DOMAIN made[r] : arg[r].create[k].name = name /\ made[r][k].parent = p

-----------------------------------------------------------------------------
(* The steps of a call.                                                    *)

Goto(r, where) == pc' = [pc EXCEPT ![r] = where]

Put(f, k, v) == [x \in DOMAIN f \cup {k} |-> IF x = k THEN v ELSE f[x]]

CheckStateBug(r) ==
  /\ pc[r] = "state"
  /\ Goto(r, "list")
  /\ newState' = [newState EXCEPT ![r] = stamp]
  /\ UNCHANGED <<storeVars, arg, ids, seen, todo, made, mutated, freed, claimed, at, found,
                 balked>>

\* get_state, and ifInState against it; an old state is also the newState of
\* a call that changes nothing.
CheckState(r) ==
  /\ pc[r] = "state"
  /\ Goto(r, IF arg[r].ifInState \in {NoState, stamp} THEN "list" ELSE "failed")
  /\ newState' = [newState EXCEPT ![r] = stamp]
  /\ UNCHANGED <<storeVars, arg, ids, seen, todo, made, mutated, freed, claimed, at, found,
                 balked>>

\* all_mailboxes.
ListBoxes(r) ==
  /\ pc[r] = "list"
  /\ seen' = [seen EXCEPT ![r] = box]
  /\ todo' = [todo EXCEPT ![r] = DOMAIN arg[r].create]
  /\ Goto(r, "create")
  /\ UNCHANGED <<storeVars, arg, ids, made, mutated, freed, claimed, at, found, newState, balked>>

\* One create: refused for a reference, role or name, or stored.
CreateBox(r, k) ==
  LET item == arg[r].create[k]
      p == Resolved(r, item.parent)
      ok == /\ Resolves(r, item.parent)
            /\ RoleFreeForCreate(r, item.role)
            /\ ~NameTaken(r, item.name, p)
  IN  /\ pc[r] = "create" /\ k \in Ready(r)
      /\ todo' = [todo EXCEPT ![r] = @ \ {k}]
      /\ \/ ~ok /\ UNCHANGED <<storeVars, made, mutated>>
         \/ /\ ok /\ minted < MaxBox
            /\ minted' = minted + 1
            /\ box' = Put(box, minted', [name |-> item.name, parent |-> p, role |-> item.role])
            /\ made' = [made EXCEPT ![r] = Put(@, k, [id |-> minted', parent |-> p])]
            /\ stamp' = stamp + 1
            /\ mutated' = [mutated EXCEPT ![r] = TRUE]
            /\ UNCHANGED filed
      /\ UNCHANGED <<pc, arg, ids, seen, freed, claimed, at, found, newState, balked>>

\* An update whose parentId does not resolve fails before any other runs.
StartUpdates(r) ==
  LET failing == {n \in DOMAIN arg[r].update : ~Resolves(r, arg[r].update[n].parent)}
  IN  /\ pc[r] = "create" /\ todo[r] = {}
      /\ todo' = [todo EXCEPT ![r] = DOMAIN arg[r].update \ failing]
      /\ balked' = (balked \/ failing \cap Vacating(r) # {})
      /\ Goto(r, "update")
      /\ UNCHANGED <<storeVars, arg, ids, seen, made, mutated, freed, claimed, at, found, newState>>

\* One update, those that set role null first.  A claim counts from here on
\* even when the backend then finds no mailbox.
UpdateBox(r, n) ==
  LET patch == arg[r].update[n]
      free == patch.valid /\ RoleFreeForUpdate(r, patch.role, n)
      ok == free /\ n \in DOMAIN box
  IN  /\ pc[r] = "update" /\ n \in todo[r]
      /\ n \in Vacating(r) \/ todo[r] \cap Vacating(r) = {}
      /\ todo' = [todo EXCEPT ![r] = @ \ {n}]
      /\ claimed' = [claimed EXCEPT ![r] = @ \cup (IF free THEN {patch.role} \cap Role ELSE {})]
      /\ \/ /\ ok
            /\ box' = [box EXCEPT
                 ![n].parent = IF patch.parent = Same THEN @ ELSE Resolved(r, patch.parent),
                 ![n].role = IF patch.role = Same THEN @ ELSE patch.role]
            /\ stamp' = stamp + 1
            /\ freed' = [freed EXCEPT ![r] = @ \cup
                 (IF n \in Vacating(r) \cap DOMAIN seen[r] THEN {seen[r][n].role} ELSE {})]
            /\ mutated' = [mutated EXCEPT ![r] = TRUE]
            /\ UNCHANGED <<filed, minted, balked>>
         \/ ~ok /\ balked' = (balked \/ n \in Vacating(r)) /\ UNCHANGED <<storeVars, mutated, freed>>
      /\ UNCHANGED <<pc, arg, ids, seen, made, at, found, newState>>

\* With nothing to destroy the answer is next; a malformed list fails the
\* call, with its creates and updates done.
EndUpdates(r) ==
  /\ pc[r] = "update" /\ todo[r] = {}
  /\ Goto(r, IF arg[r].malformed THEN "failed"
             ELSE IF arg[r].destroy = {} THEN "answer" ELSE "relist")
  /\ UNCHANGED <<storeVars, arg, ids, seen, todo, made, mutated, freed, claimed, at, found, newState, balked>>

\* The mailboxes of before the call, without what it made.
RelistBoxesBug(r) ==
  /\ pc[r] = "relist"
  /\ todo' = [todo EXCEPT ![r] = arg[r].destroy]
  /\ Goto(r, "destroy")
  /\ UNCHANGED <<storeVars, arg, ids, seen, made, mutated, freed, claimed, at, found, newState, balked>>

\* mailboxes_after_mutations.
RelistBoxes(r) ==
  /\ pc[r] = "relist"
  /\ seen' = [seen EXCEPT ![r] = box]
  /\ todo' = [todo EXCEPT ![r] = arg[r].destroy]
  /\ Goto(r, "destroy")
  /\ UNCHANGED <<storeVars, arg, ids, made, mutated, freed, claimed, at, found, newState, balked>>

\* The next destroy: refused over a child, else its emails are looked up.
DestroyBox(r, n) ==
  LET child == \E b \in DOMAIN seen[r] : seen[r][b].parent = n
  IN  /\ pc[r] = "destroy" /\ n \in todo[r]
      /\ todo' = [todo EXCEPT ![r] = @ \ {n}]
      /\ \/ child /\ UNCHANGED <<pc, at, found>>
         \/ /\ ~child
            /\ at' = [at EXCEPT ![r] = n]
            /\ found' = [found EXCEPT ![r] = [e \in {e \in DOMAIN filed : n \in filed[e]} |-> {}]]
            /\ Goto(r, "read")
      /\ UNCHANGED <<storeVars, arg, ids, seen, made, mutated, freed, claimed, newState, balked>>

\* emails_in_mailbox: those looked up that are still stored and in it.
ReadEmails(r) ==
  LET emails == {e \in DOMAIN found[r] \cap DOMAIN filed : at[r] \in filed[e]}
  IN  /\ pc[r] = "read"
      /\ found' = [found EXCEPT ![r] = [e \in emails |-> filed[e]]]
      /\ Goto(r, IF emails = {} THEN "drop"
                 ELSE IF arg[r].removeEmails THEN "remove" ELSE "destroy")
      /\ UNCHANGED <<storeVars, arg, ids, seen, todo, made, mutated, freed, claimed, at, newState, balked>>

\* No email goes, each only loses this mailbox.
OnlyBug(r) == {}

\* The emails that are in this mailbox alone.
Only(r) == {e \in DOMAIN found[r] : Cardinality(found[r][e]) = 1}

\* batch_destroy_emails on the emails that were in this mailbox alone.
RemoveEmails(r) ==
  /\ pc[r] = "remove"
  /\ filed' = [e \in DOMAIN filed \ Only(r) |-> filed[e]]
  /\ found' = [found EXCEPT ![r] = [e \in DOMAIN @ \ Only(r) |-> @[e]]]
  /\ Goto(r, "unfile")
  /\ UNCHANGED <<box, stamp, minted, arg, ids, seen, todo, made, mutated, freed, claimed,
                 at, newState, balked>>

\* The others lose this mailbox, one update_object each; one that is gone is
\* passed over.
Unfile(r, e) ==
  /\ pc[r] = "unfile" /\ e \in DOMAIN found[r]
  /\ filed' = [x \in DOMAIN filed |-> IF x = e THEN filed[x] \ {at[r]} ELSE filed[x]]
  /\ found' = [found EXCEPT ![r] = [x \in DOMAIN @ \ {e} |-> @[x]]]
  /\ UNCHANGED <<box, stamp, minted, pc, arg, ids, seen, todo, made, mutated, freed, claimed,
                 at, newState, balked>>

EndUnfile(r) ==
  /\ pc[r] = "unfile" /\ DOMAIN found[r] = {}
  /\ Goto(r, "drop")
  /\ UNCHANGED <<storeVars, arg, ids, seen, todo, made, mutated, freed, claimed, at, found, newState,
                 balked>>

\* destroy_object; the copy forgets what was destroyed.
DropBox(r) ==
  LET n == at[r]
  IN  /\ pc[r] = "drop"
      /\ IF n \in DOMAIN box
         THEN /\ box' = [b \in DOMAIN box \ {n} |-> box[b]]
              /\ stamp' = stamp + 1
              /\ mutated' = [mutated EXCEPT ![r] = TRUE]
              /\ seen' = [seen EXCEPT ![r] = [b \in DOMAIN @ \ {n} |-> @[b]]]
         ELSE UNCHANGED <<box, stamp, seen, mutated>>
      /\ Goto(r, "destroy")
      /\ UNCHANGED <<filed, minted, arg, ids, todo, made, freed, claimed, at, found, newState,
                     balked>>

EndDestroys(r) ==
  /\ pc[r] = "destroy" /\ todo[r] = {}
  /\ Goto(r, "answer")
  /\ UNCHANGED <<storeVars, arg, ids, seen, todo, made, mutated, freed, claimed, at, found, newState,
                 balked>>

\* finalize_set_response: after a write the state is read again.
Finish(r) ==
  /\ pc[r] = "answer"
  /\ newState' = [newState EXCEPT ![r] = IF mutated[r] THEN stamp ELSE @]
  /\ Goto(r, "done")
  /\ UNCHANGED <<storeVars, arg, ids, seen, todo, made, mutated, freed, claimed, at, found, balked>>

Step(r) ==
  \/ CheckState(r) \/ ListBoxes(r)
  \/ \E k \in Cid : CreateBox(r, k)
  \/ StartUpdates(r)
  \/ \E n \in Box : UpdateBox(r, n)
  \/ EndUpdates(r) \/ RelistBoxes(r)
  \/ \E n \in Box : DestroyBox(r, n)
  \/ ReadEmails(r) \/ RemoveEmails(r)
  \/ \E e \in Email : Unfile(r, e)
  \/ EndUnfile(r) \/ DropBox(r) \/ EndDestroys(r) \/ Finish(r)

\* A panic between two backend calls.
Panic(r) ==
  /\ Running(r)
  /\ balked' = (balked \/ (pc[r] \in {"create", "update"} /\ Vacating(r) # {}))
  /\ Goto(r, "panicked")
  /\ UNCHANGED <<storeVars, arg, ids, seen, todo, made, mutated, freed, claimed, at, found, newState>>
=============================================================================
