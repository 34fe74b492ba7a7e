----------------------------- MODULE MCFileTree -----------------------------
(* Requests and symmetry for the runs of FileTree.                          *)
EXTENDS FileTree, TLC

OneName == {<<"a">>}
Names == {<<"a">>, <<"a", 1>>}

Create(p, n) == [source |-> Top, patch |-> [parent |-> p, name |-> n]]
Copy(s, p)   == [source |-> s, patch |-> [parent |-> p]]

Asks(creates, updates, destroys, policies, flags) ==
  {[creates |-> cr, updates |-> up, destroys |-> de, onExists |-> p,
    removeChildren |-> f, destroyOriginals |-> TRUE] :
     cr \in creates, up \in updates, de \in destroys, p \in policies, f \in flags}

Seeds == 1 .. MaxSeeded

Creates(ps) == {<<Create(p, n)>> : p \in ps, n \in Name}
Copies == {<<Copy(s, p)>> : s \in Seeds, p \in Seeds \cup {Top}}
MovesOf(ns) == {<<[id |-> n, patch |-> [parent |-> p]]>> : n \in ns, p \in ns \cup {Top}}
Patches == MovesOf(Seeds) \cup {<<[id |-> n, patch |-> [name |-> x]]>> : n \in Seeds, x \in Name}
Destroys1 == {<<n>> : n \in Node}
Destroys2 == {<<n, m>> : n, m \in Seeds}

Policies == {"reject", "replace", "rename"}

\* One caller, everything it can ask for.
AloneRequests ==
  Asks(Creates(Node \cup {Top}), {<<>>}, {<<>>}, Policies, BOOLEAN)
    \cup Asks({<<>>}, Patches, {<<>>}, {"reject"}, {FALSE})
    \cup Asks({<<>>}, {<<>>}, Destroys2, {"reject"}, BOOLEAN)
    \cup Asks(Copies, {<<>>}, {<<>>}, Policies, BOOLEAN)

\* Several callers: creates below anything, moves, single destroys.
MoveRequests ==
  Asks(Creates(Node \cup {Top}), {<<>>}, {<<>>}, {"reject", "replace"}, {TRUE})
    \cup Asks({<<>>}, MovesOf(Node), {<<>>}, {"reject"}, {TRUE})
    \cup Asks({<<>>}, {<<>>}, Destroys1, {"reject"}, {TRUE})

TwinRequests == Asks(Creates({Top}), {<<>>}, {<<>>}, {"reject"}, {FALSE})

DestroyRequests == Asks({<<>>}, {<<>>}, Destroys1, {"reject"}, {TRUE})

Symmetry == Permutations(Mover) \cup Permutations(Caller \ Mover)
=============================================================================
