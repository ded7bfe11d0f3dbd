--------------------------- MODULE SharedDocument ---------------------------
(***************************************************************************)
(* What keeping a live document on several devices promises: a device      *)
(* keeps what is saved on it and what it learns from another, for good;    *)
(* and it comes to keep nothing in another way.                            *)
(***************************************************************************)
CONSTANTS Device, Edit

VARIABLES
    typed,  \* the edits made so far
    kept,   \* the edits each device keeps
    saved   \* those saved on each device

vars == <<typed, kept, saved>>

Init == typed = {} /\ kept = [d \in Device |-> {}] /\ saved = [d \in Device |-> {}]

Type(e) == typed' = typed \cup {e} /\ UNCHANGED <<kept, saved>>

\* A device saves edits.
Save(d, S) ==
    /\ kept' = [kept EXCEPT ![d] = @ \cup S]
    /\ saved' = [saved EXCEPT ![d] = @ \cup S]
    /\ UNCHANGED typed

\* A device learns edits that another keeps.
Learn(d, p, S) ==
    /\ S \subseteq kept[p]
    /\ kept' = [kept EXCEPT ![d] = @ \cup S]
    /\ UNCHANGED <<typed, saved>>

Next ==
    \/ \E e \in Edit : Type(e)
    \/ \E d \in Device, S \in SUBSET typed : Save(d, S)
    \/ \E d \in Device : \E p \in Device \ {d}, S \in SUBSET typed : Learn(d, p, S)

Spec == Init /\ [][Next]_vars
=============================================================================
