------------------------------ MODULE DIDRotation ------------------------------
(***************************************************************************)
(* Two agents with a DIDComm v2 connection who change the DIDs they use for  *)
(* it: the middleware of pkg/didcomm/common/middleware, between the          *)
(* outbound dispatcher (SendToDID) and the inbound message handler.          *)
(*                                                                          *)
(*   rotate:   read the record - save it under the new DID - save a backup   *)
(*             record under the old DID                                      *)
(*   send:     find the record of the two DIDs, or create one - send, with   *)
(*             from_prior while the rotation is not acknowledged             *)
(*   receive:  find the record - take up their rotation - see whether they   *)
(*             acknowledge ours - save the record - perhaps reply            *)
(***************************************************************************)
EXTENDS Naturals, FiniteSets

CONSTANTS
    Agents,         \* two of them
    Workers,        \* goroutines of an agent
    Rotating,       \* the agents that rotate
    Patient,        \* ... once they know that the last rotation is understood
    MaxRotations, MaxSends, MaxTroubles
                    \* bounds of the exploration: a trouble is a repeated or lost message,
                    \* a failed save or a restart

ASSUME AgentsAssumption ==
    IsFiniteSet(Agents) /\ Cardinality(Agents) = 2 /\ Rotating \subseteq Agents
ASSUME LimitsAssumption == MaxRotations \in Nat /\ MaxSends \in Nat /\ MaxTroubles \in Nat

\* The DIDs of an agent are 0, 1, ...  A rotation from n - 1 to n is n; 0 is none.
DIDs == 0..MaxRotations

VARIABLES
    records,        \* the connection records of each agent
    workers,
    net,
    \* what has happened
    disturbed,      \* some save went over a change made since its record was read, or a
                    \* second connection was made for want of a record
    rotations, sends, troubles

counts == <<rotations, sends, troubles>>
vars   == <<records, workers, net, disturbed, counts>>

Other(a) == CHOOSE b \in Agents : b # a

Record(id, my, their, rot) == [id |-> id, my |-> my, their |-> their, rot |-> rot]
NoRecord == Record(0, 0, 0, 0)
Idle     == [pc |-> "idle", was |-> NoRecord, rec |-> NoRecord, my |-> 0, their |-> 0]

\* The connection was made with the first DIDs and has the id 1.
Init ==
    /\ records = [a \in Agents |-> {Record(1, 0, 0, 0)}]
    /\ workers = [a \in Agents |-> [w \in Workers |-> Idle]]
    /\ net = {}
    /\ disturbed = FALSE
    /\ rotations = [a \in Agents |-> 0] /\ sends = 0 /\ troubles = 0

Become(a, w, me) == workers' = [workers EXCEPT ![a][w] = me]
Trouble == troubles < MaxTroubles /\ troubles' = troubles + 1

-----------------------------------------------------------------------------
(***************************************************************************)
(* The connection store.                                                    *)
(***************************************************************************)
Connection(a)               == CHOOSE r \in records[a] : r.id = 1
GetByDIDs(a, my, their)     == {r \in records[a] : r.my = my /\ r.their = their}
GetByTheirDID(a, their)     == {r \in records[a] : r.their = their}
NewID(a)                    == 1 + Cardinality(records[a])

\* Mutant: the record is saved beside the one under the other DIDs.
SaveBeside(a, rec) ==
    records' = [records EXCEPT ![a] = {r \in @ : r.id # rec.id \/ r.my # rec.my} \cup {rec}]

SaveConnectionRecord(a, rec) ==
    records' = [records EXCEPT ![a] = {r \in @ : r.id # rec.id} \cup {rec}]

\* The record that was read is saved with its changes.
Update(a, me) ==
    /\ SaveConnectionRecord(a, me.rec)
    /\ disturbed' = (disturbed \/ me.was \notin records[a])

-----------------------------------------------------------------------------
(***************************************************************************)
(* RotateConnectionDID                                                      *)
(***************************************************************************)
Rotate(a, w) ==
    LET rec == Connection(a)
    IN  /\ workers[a][w].pc = "idle" /\ a \in Rotating
        /\ rotations[a] < MaxRotations /\ rec.my < MaxRotations /\ (Patient => rec.rot = 0)
        /\ \A v \in Workers : workers[a][v].pc \notin {"new", "backup"}
        /\ rotations' = [rotations EXCEPT ![a] = @ + 1]
        /\ Become(a, w, [Idle EXCEPT !.pc = "new",
                                     !.was = rec, !.rec = [rec EXCEPT !.my = @ + 1, !.rot = rec.my + 1]])
        /\ UNCHANGED <<records, net, disturbed, sends, troubles>>

SaveNew(a, w) ==
    /\ workers[a][w].pc = "new"
    /\ Update(a, workers[a][w])
    /\ Become(a, w, [workers[a][w] EXCEPT !.pc = "backup"])
    /\ UNCHANGED <<net, counts>>

SaveBackup(a, w) ==
    /\ workers[a][w].pc = "backup"
    /\ SaveConnectionRecord(a, [workers[a][w].rec EXCEPT !.id = NewID(a), !.my = @ - 1])
    /\ Become(a, w, Idle)
    /\ UNCHANGED <<net, disturbed, counts>>

-----------------------------------------------------------------------------
(***************************************************************************)
(* SendToDID, with the DIDs of the connection or of the message replied to. *)
(***************************************************************************)
Send(a, w) ==
    /\ workers[a][w].pc = "idle" /\ sends < MaxSends /\ sends' = sends + 1
    /\ Become(a, w, [Idle EXCEPT !.pc = "find", !.my = Connection(a).my,
                                 !.their = Connection(a).their])
    /\ UNCHANGED <<records, net, disturbed, rotations, troubles>>

Message(a, w, rot) ==
    [to |-> Other(a), src |-> workers[a][w].my, dst |-> workers[a][w].their, prior |-> rot]

\* getOrCreateConnection finds a record, and HandleOutboundMessage adds its rotation, ...
FindAndSend(a, w) ==
    /\ workers[a][w].pc = "find"
    /\ \E r \in GetByDIDs(a, workers[a][w].my, workers[a][w].their) :
          net' = net \cup {Message(a, w, r.rot)}
    /\ Become(a, w, Idle)
    /\ UNCHANGED <<records, disturbed, counts>>

FindNothing(a, w) ==
    /\ workers[a][w].pc = "find"
    /\ GetByDIDs(a, workers[a][w].my, workers[a][w].their) = {}
    /\ Become(a, w, [workers[a][w] EXCEPT !.pc = "create"])
    /\ UNCHANGED <<records, net, disturbed, counts>>

\* ... or creates one.
CreateAndSend(a, w) ==
    /\ workers[a][w].pc = "create"
    /\ SaveConnectionRecord(a, Record(NewID(a), workers[a][w].my, workers[a][w].their, 0))
    /\ net' = net \cup {Message(a, w, 0)}
    /\ Become(a, w, Idle)
    /\ disturbed' = TRUE /\ UNCHANGED counts

-----------------------------------------------------------------------------
(***************************************************************************)
(* HandleInboundMessage.  A query by one DID may find several records, in any *)
(* order, and the first is taken.                                            *)
(***************************************************************************)
\* handleInboundRotate and the lookup after it: the records that may be taken, each with
\* their new DID if the message brings one.
Found(m) ==
    LET a     == m.to
        under == GetByDIDs(a, m.dst, m.prior - 1)
    IN  IF m.prior = 0 THEN GetByTheirDID(a, m.src)
        ELSE IF m.src # m.prior THEN {}
        ELSE IF under # {} THEN {[r EXCEPT !.their = m.prior] : r \in under}
        ELSE IF GetByDIDs(a, m.dst, m.prior) # {} THEN GetByTheirDID(a, m.src)
        ELSE {}

\* handleInboundRotateAck.  Mutant: a message to the old DID acknowledges the new one.
AckedByAnything(r, m) == [r EXCEPT !.rot = 0]
Expected(r, m)     == r.rot # 0 => m.dst \in {r.rot - 1, r.rot}
Acknowledged(r, m) == [r EXCEPT !.rot = IF m.dst = @ THEN 0 ELSE @]

\* The service that the message is for answers it or not.
Accept(a, w, my, their) ==
    \/ Become(a, w, Idle) /\ UNCHANGED sends
    \/ /\ sends < MaxSends /\ sends' = sends + 1
       /\ Become(a, w, [Idle EXCEPT !.pc = "find", !.my = my, !.their = their])

Arrives(m) ==
    /\ m \in net
    /\ \/ net' = net \ {m} /\ UNCHANGED troubles
       \/ net' = net /\ Trouble

Refuse(m, w) ==
    /\ workers[m.to][w].pc = "idle" /\ Arrives(m)
    /\ Found(m) = {} \/ \E r \in Found(m) : ~Expected(r, m)
    /\ UNCHANGED <<records, workers, disturbed, rotations, sends>>

\* A record that has not changed is not saved.
Receive(m, w) ==
    /\ workers[m.to][w].pc = "idle" /\ Arrives(m)
    /\ \E r \in Found(m) :
        /\ Expected(r, m)
        /\ IF Acknowledged(r, m) \in records[m.to]
           THEN Accept(m.to, w, m.dst, m.src)
           ELSE /\ \E was \in records[m.to] :
                       /\ was.id = r.id
                       /\ Become(m.to, w, [pc |-> "save", was |-> was, rec |-> Acknowledged(r, m),
                                           my |-> m.dst, their |-> m.src])
                /\ UNCHANGED sends
    /\ UNCHANGED <<records, disturbed, rotations>>

SaveReceived(a, w) ==
    /\ workers[a][w].pc = "save"
    /\ Update(a, workers[a][w])
    /\ Accept(a, w, workers[a][w].my, workers[a][w].their)
    /\ UNCHANGED <<net, rotations, troubles>>

-----------------------------------------------------------------------------
(***************************************************************************)
(* Troubles                                                                 *)
(***************************************************************************)
Lose(m) == m \in net /\ net' = net \ {m} /\ Trouble
           /\ UNCHANGED <<records, workers, disturbed, rotations, sends>>

\* An access or a send fails, and the call ends.
Fail(a, w) ==
    /\ workers[a][w].pc # "idle" /\ Become(a, w, Idle) /\ Trouble
    /\ UNCHANGED <<records, net, disturbed, rotations, sends>>

Restart(a) ==
    /\ workers[a] # [w \in Workers |-> Idle]
    /\ workers' = [workers EXCEPT ![a] = [w \in Workers |-> Idle]] /\ Trouble
    /\ UNCHANGED <<records, net, disturbed, rotations, sends>>

Next ==
    \/ \E a \in Agents, w \in Workers :
        \/ Rotate(a, w) \/ SaveNew(a, w) \/ SaveBackup(a, w)
        \/ Send(a, w) \/ FindAndSend(a, w) \/ FindNothing(a, w) \/ CreateAndSend(a, w)
        \/ SaveReceived(a, w) \/ Fail(a, w)
    \/ \E m \in net : Lose(m) \/ \E w \in Workers : Receive(m, w) \/ Refuse(m, w)
    \/ \E a \in Agents : Restart(a)

Spec == Init /\ [][Next]_vars
-----------------------------------------------------------------------------
Records  == [id : Nat \ {0}, my : DIDs, their : DIDs, rot : DIDs]
Messages == [to : Agents, src : DIDs, dst : DIDs, prior : DIDs]

\* Every variable holds a value of its kind; an id names one record, and a rotation
\* belongs to a record of its old or its new DID.
TypeOK ==
    /\ records \in [Agents -> SUBSET Records]
    /\ \A a \in Agents : \A r, s \in records[a] : r.id = s.id => r = s
    /\ \A a \in Agents : \A r \in records[a] : r.rot # 0 => r.my \in {r.rot - 1, r.rot}
    /\ workers \in [Agents -> [Workers ->
           [pc : {"idle", "new", "backup", "find", "create", "save"},
            was : Records \cup {NoRecord}, rec : Records \cup {NoRecord},
            my : DIDs, their : DIDs]]]
    /\ net \subseteq Messages /\ disturbed \in BOOLEAN
    /\ rotations \in [Agents -> Nat] /\ sends \in Nat /\ troubles \in Nat

Understood(m)  == Found(m) # {} /\ \A r \in Found(m) : Expected(r, m)

\* The next message on the connection.
NextMessage(a) == LET r == Connection(a)
                  IN  [to |-> Other(a), src |-> r.my, dst |-> r.their, prior |-> r.rot]

\* A rotation was not stopped between its two saves, or has been acknowledged.
BackedUp(a) == LET r == Connection(a)
               IN  r.rot # 0 => \E b \in records[a] : b.my = r.rot - 1

\* However the rotations of the two agents, their messages and replies interleave, each
\* agent takes the next message of the other's connection: from_prior is announced for
\* as long as the other needs it, and what is sent to a DID left behind is still taken
\* (one rotation of each agent, and no save goes over another goroutine's change).
StaysReachable ==
    \A a \in Agents :
        ~disturbed /\ rotations[a] <= 1 /\ rotations[Other(a)] <= 1 /\ BackedUp(Other(a))
        => Understood(NextMessage(a))

\* "If we rotated our DID, we need to accept messages to either our old DID or our new
\* DID" (the comment in handleInboundRotate).
NewDIDIsAccepted ==
    \A m \in net :
        LET r == Connection(Other(m.to))
        IN  m.src = r.my /\ m.dst = Connection(m.to).my => Understood(m)
=============================================================================
