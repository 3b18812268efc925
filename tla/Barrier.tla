------------------------------ MODULE Barrier -------------------------------
(***************************************************************************)
(* What a barrier among the threads of a kernel promises: nobody leaves a  *)
(* round before everybody has entered it.                                  *)
(***************************************************************************)
EXTENDS Naturals

CONSTANT Thread

VARIABLES
    party,   \* the threads of the running kernel
    round,   \* the rounds that each thread has left
    inside   \* the threads that have entered a round and not left it

vars == <<party, round, inside>>

Init ==
    /\ party = {}
    /\ round = [t \in Thread |-> 0]
    /\ inside = {}

(* Another kernel starts when the threads of the last one are out. *)
Start(S) ==
    /\ inside = {}
    /\ party' = S
    /\ round' = [t \in Thread |-> 0]
    /\ UNCHANGED inside

Enter(t) ==
    /\ t \in party \ inside
    /\ inside' = inside \cup {t}
    /\ UNCHANGED <<party, round>>

Entered(u, r) == round[u] > r \/ (round[u] = r /\ u \in inside)

Leave(t) ==
    /\ t \in inside
    /\ \A u \in party : Entered(u, round[t])
    /\ inside' = inside \ {t}
    /\ round' = [round EXCEPT ![t] = @ + 1]
    /\ UNCHANGED party

Next ==
    \/ \E S \in SUBSET Thread : Start(S)
    \/ \E t \in Thread : Enter(t) \/ Leave(t)

Spec == Init /\ [][Next]_vars
=============================================================================
