------------------------------- MODULE Mailbox -------------------------------
(***************************************************************************)
(* What message pickup promises of a mailbox, with no locks, channels or    *)
(* messages on a wire: what is put in is taken out in that order, and is    *)
(* handled at most once.  What is taken may be lost.                        *)
(***************************************************************************)
EXTENDS Naturals, Sequences

VARIABLES
    inbox,      \* messages waiting, named by the order they were put in
    added,      \* how many there have been
    taken,      \* messages on their way to whoever handles them
    handled     \* messages handled, in that order

vars == <<inbox, added, taken, handled>>

Init == inbox = <<>> /\ added = 0 /\ taken = {} /\ handled = <<>>

Put == /\ added' = added + 1
       /\ inbox' = Append(inbox, added')
       /\ UNCHANGED <<taken, handled>>

Take == \E n \in 1..Len(inbox) :
            /\ inbox' = SubSeq(inbox, n + 1, Len(inbox))
            /\ taken' = taken \cup {inbox[i] : i \in 1..n}
            /\ UNCHANGED <<added, handled>>

Handle == \E m \in taken :
            /\ handled' = Append(handled, m)
            /\ taken' = taken \ {m}
            /\ UNCHANGED <<inbox, added>>

Lose == /\ taken' \in SUBSET taken
        /\ UNCHANGED <<inbox, added, handled>>

Next == Put \/ Take \/ Handle \/ Lose

Spec == Init /\ [][Next]_vars
-----------------------------------------------------------------------------
\* The messages in the inbox are in the order they came, and none is handled twice.
InOrder     == \A i, j \in 1..Len(inbox) : i < j => inbox[i] < inbox[j]
HandledOnce == \A i, j \in 1..Len(handled) : handled[i] = handled[j] => i = j
=============================================================================
