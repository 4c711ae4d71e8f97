---------------------------- MODULE SingleLookup ----------------------------
(***************************************************************************)
(* What a resolver promises: one lookup of a name at a time, and an answer  *)
(* that is an error or what a lookup of that name found.                     *)
(***************************************************************************)
EXTENDS Naturals

CONSTANTS Askers, Names

VARIABLES
    ask,     \* [state, name, answer] of every asker
    busy,    \* names that are being looked up
    found    \* the answers lookups have found, by name

Nothing == 0

Idle(n) == [state |-> "idle", name |-> n, answer |-> Nothing]

Init ==
    /\ ask \in [Askers -> {Idle(n) : n \in Names}]
    /\ busy = {} /\ found = [n \in Names |-> {}]

Ask(a) ==
    /\ ask[a].state = "idle"
    /\ \E n \in Names : ask' = [ask EXCEPT ![a] = [Idle(n) EXCEPT !.state = "asking"]]
    /\ UNCHANGED <<busy, found>>

\* An answer that is known already.
Recall(a) ==
    /\ ask[a].state = "idle"
    /\ \E n \in Names : \E v \in found[n] :
         ask' = [ask EXCEPT ![a] = [state |-> "answered", name |-> n, answer |-> v]]
    /\ UNCHANGED <<busy, found>>

Begin(n) == n \notin busy /\ busy' = busy \cup {n} /\ UNCHANGED <<ask, found>>

\* A lookup ends without an answer, or with one that was not found before.
End(n) ==
    /\ n \in busy /\ busy' = busy \ {n}
    /\ \/ UNCHANGED found
       \/ \E v \in found'[n] \ (found[n] \cup {Nothing}) :
            found' = [found EXCEPT ![n] = @ \cup {v}]
    /\ UNCHANGED ask

Answer(a) ==
    /\ ask[a].state = "asking"
    /\ \E v \in found[ask[a].name] \cup {Nothing} :
         ask' = [ask EXCEPT ![a] = [state |-> "answered", name |-> @.name, answer |-> v]]
    /\ UNCHANGED <<busy, found>>

Leave(a) ==
    /\ ask[a].state \in {"asking", "answered"}
    /\ ask' = [ask EXCEPT ![a] = Idle(@.name)]
    /\ UNCHANGED <<busy, found>>

Next ==
    \/ \E a \in Askers : Ask(a) \/ Recall(a) \/ Answer(a) \/ Leave(a)
    \/ \E n \in Names : Begin(n) \/ End(n)

Spec == Init /\ [][Next]_<<ask, busy, found>>
=============================================================================
