----------------------------- MODULE MCDispatch -----------------------------
(* Batches for the runs of Dispatch, over mailboxes 1 and 2.                *)
EXTENDS Dispatch, TLC

CONSTANTS k, m, a, b, d, inbox

New(name, parent, role) == [name |-> name, parent |-> parent, role |-> role]
To(parent, role, valid) == [parent |-> parent, role |-> role, valid |-> valid]

Nothing == [create |-> <<>>, update |-> <<>>, destroy |-> {}, removeEmails |-> FALSE,
            malformed |-> FALSE, known |-> TRUE, ifInState |-> NoState, after |-> 0]

First     == [Nothing EXCEPT !.create = k :> New(d, Top, NoRole), !.ifInState = 2]
Family    == [Nothing EXCEPT !.create = k :> New(d, Top, NoRole) @@ m :> New(b, k, inbox)]
Child     == [Nothing EXCEPT !.create = m :> New(a, k, NoRole), !.after = 1]
LateChild == [Nothing EXCEPT !.create = m :> New(a, k, NoRole)]
Again     == [Nothing EXCEPT !.create = k :> New(d, 1, NoRole)]
Touch     == [Nothing EXCEPT !.update = 2 :> To(1, Same, TRUE), !.ifInState = 2]
Swap(ok)  == [Nothing EXCEPT !.update = 1 :> To(Same, NoRole, ok) @@ 2 :> To(Same, inbox, TRUE)]
Hand(ok)  == [Nothing EXCEPT !.update = 1 :> To(Same, NoRole, ok),
                             !.create = k :> New(d, 2, inbox)]
Nest      == [Nothing EXCEPT !.create = k :> New(d, 1, NoRole), !.destroy = {1},
                             !.removeEmails = TRUE]
Move      == [Nothing EXCEPT !.update = 2 :> To(1, Same, TRUE), !.destroy = {1}]
Clear(f)  == [Nothing EXCEPT !.destroy = {1, 2}, !.removeEmails = f]
Purge     == [Nothing EXCEPT !.destroy = {2}, !.removeEmails = TRUE, !.ifInState = 2]
Broken    == [Nothing EXCEPT !.create = k :> New(a, 1, NoRole), !.malformed = TRUE]
Unknown   == [Nothing EXCEPT !.known = FALSE]

Batches ==
  {<<Family>>, <<Nest>>, <<Move>>, <<Clear(FALSE)>>, <<Clear(TRUE)>>, <<Purge>>}
    \cup {<<Swap(ok)>> : ok \in BOOLEAN} \cup {<<Hand(ok)>> : ok \in BOOLEAN}
    \cup {<<First, Child>>, <<First, Again, LateChild>>, <<Touch, Touch>>,
          <<Broken, LateChild>>, <<Unknown, Child>>}

Calls == UNION {Range(x) : x \in Batches}

Seeds == {1 :> New(a, Top, inbox) @@ 2 :> New(b, Top, NoRole),
          1 :> New(a, Top, inbox) @@ 2 :> New(b, 1, NoRole)}

SentIds == {Empty, k :> 1}
=============================================================================
