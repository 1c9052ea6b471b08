------------------------------ MODULE Handshake ------------------------------
(***************************************************************************)
(* What one thread of the DID exchange promises, with no goroutines, stores *)
(* or messages: the invitee asks with a DID of its own, the inviter answers *)
(* with one of its own, the invitee pairs with the DID of that answer, and  *)
(* the inviter is the last to know.  Either side may give up until it has   *)
(* paired; nothing is ever taken back.                                      *)
(***************************************************************************)
CONSTANTS Invitee, Inviter, NoDID

VARIABLES phase,     \* agent -> what it has done
          my, their  \* agent -> the DIDs of the connection it holds

vars == <<phase, my, their>>

Agents == {Invitee, Inviter}
Phases == {"open", "asked", "answered", "paired", "abandoned"}

Init == /\ phase = [a \in Agents |-> "open"]
        /\ my    = [a \in Agents |-> NoDID]
        /\ their = [a \in Agents |-> NoDID]

Ask == /\ phase[Invitee] = "open"
       /\ phase' = [phase EXCEPT ![Invitee] = "asked"]
       /\ LET d == my'[Invitee]
          IN  d # NoDID /\ my' = [my EXCEPT ![Invitee] = d]
       /\ UNCHANGED their

Answer == /\ phase[Inviter] = "open" /\ my[Invitee] # NoDID
          /\ phase' = [phase EXCEPT ![Inviter] = "answered"]
          /\ LET d == my'[Inviter]
             IN  d # NoDID /\ my' = [my EXCEPT ![Inviter] = d]
          /\ their' = [their EXCEPT ![Inviter] = my[Invitee]]

Pair == /\ phase[Invitee] = "asked" /\ my[Inviter] # NoDID
        /\ phase' = [phase EXCEPT ![Invitee] = "paired"]
        /\ their' = [their EXCEPT ![Invitee] = my[Inviter]]
        /\ UNCHANGED my

Confirm == /\ phase[Inviter] = "answered" /\ phase[Invitee] = "paired"
           /\ phase' = [phase EXCEPT ![Inviter] = "paired"]
           /\ UNCHANGED <<my, their>>

Abandon(a) == /\ phase[a] \notin {"paired", "abandoned"}
              /\ phase' = [phase EXCEPT ![a] = "abandoned"]
              /\ UNCHANGED <<my, their>>

Next == Ask \/ Answer \/ Pair \/ Confirm \/ \E a \in Agents : Abandon(a)

Spec == Init /\ [][Next]_vars

\* Whoever has paired holds the DID the other one holds as its own.
Agreed == \A a, b \in Agents : a # b /\ phase[a] = "paired" => their[a] = my[b]
=============================================================================
