-------------------------- MODULE PresentProofProofs --------------------------
(***************************************************************************)
(* What holds of every thread of present-proof: any number of goroutines,   *)
(* duplicates, losses, failing calls and restarts, and clients that answer  *)
(* by event or by call, once or twice.                                      *)
(***************************************************************************)
EXTENDS PresentProof, TLAPS

-----------------------------------------------------------------------------
(***************************************************************************)
(* The inductive invariant has two parts beside the types.                  *)
(*                                                                          *)
(* Roles: no code says that a prover receives requests and a verifier        *)
(* presentations; it follows from what each is sent, and it is why a         *)
(* verifier can only come to done by way of presentation-received.          *)
(*                                                                          *)
(* Telling: whatever says that the presentation was accepted, a message, a  *)
(* stored state or a goroutine about to send or to store it, exists only    *)
(* once the verifier has saved the presentation, which stays saved.         *)
(***************************************************************************)
Takes(a) == IF a = Prover THEN Requests \cup {"ack", "problem-report"}
            ELSE {"propose", "presentation", "problem-report"}
Visits(a) == IF a = Prover
             THEN {"start", "proposal-sent", "request-received", "presentation-sent", "done", "abandoned"}
             ELSE {"start", "proposal-received", "request-sent", "presentation-received", "done",
                   "abandoned"}

RoleOK(a, me) == /\ me.type \in Takes(a) \cup {"none"}
                 /\ me.at \in Visits(a) /\ me.next \in Visits(a) \cup {"noop"}
                 /\ me.out \in Takes(Peer(a)) \cup {"none"}

\* A goroutine that tells, or will tell, that the presentation was accepted.
Tells(a, me) ==
    \/ me.type = "ack" \/ me.out = "ack"
    \/ a = Verifier /\ \/ "done" \in {me.at, me.next}
                       \/ me.at = "presentation-received" /\ me.pc \in {"save", "act"}

NetRoles  == \A a \in Agents, t \in Types : net[a][t] > 0 => t \in Takes(a)
HeldRoles == \A a \in Agents : /\ payload[a].type \in Takes(a) \cup {"none"}
                               /\ \A h \in Held : events[a][h] > 0 => h.type \in Takes(a)
\* Nobody is sent, holds or executes a message that is not for its role.
Roles     == /\ NetRoles /\ HeldRoles
             /\ \A a \in Agents, w \in Workers : RoleOK(a, workers[a][w])

NetTells  == \A a \in Agents : net[a]["ack"] > 0 => saved
DataTells == data[Verifier].name = "done" => saved
Telling   == /\ NetTells /\ DataTells
             /\ \A a \in Agents, w \in Workers : Tells(a, workers[a][w]) => saved

IInv == TypeOK /\ Roles /\ Telling

\* What a worker's state must be, when what is saved is `s`.
Fine(a, w, me, s) == WorkerOK(w, me) /\ RoleOK(a, me) /\ (Tells(a, me) => s)

WorkersFine == /\ workers' \in [Agents -> [Workers -> Worker]]
               /\ \A a \in Agents, w \in Workers : Fine(a, w, workers'[a][w], saved')

LEMMA MoveWorker ==
    ASSUME IInv, saved => saved', NEW a \in Agents, NEW w \in Workers, NEW x,
           Goto(a, w, x), Fine(a, w, x, saved')
    PROVE  WorkersFine
  <1>1. x \in Worker
    BY DEF Fine, WorkerOK
  <1>2. workers' \in [Agents -> [Workers -> Worker]]
    BY <1>1 DEF IInv, TypeOK, Goto
  <1>3. ASSUME NEW b \in Agents, NEW v \in Workers
        PROVE  workers'[b][v] = IF b = a /\ v = w THEN x ELSE workers[b][v]
    BY DEF IInv, TypeOK, Goto
  <1>4. ASSUME NEW b \in Agents, NEW v \in Workers PROVE Fine(b, v, workers[b][v], saved')
    BY DEF IInv, TypeOK, Roles, Telling, Fine
  <1>5. ASSUME NEW b \in Agents, NEW v \in Workers PROVE Fine(b, v, workers'[b][v], saved')
    BY <1>3, <1>4
  <1> QED
    BY <1>2, <1>5 DEF WorkersFine

\* Every goroutine starts well typed, fit for any role, and with nothing to tell.
LEMMA IdleIsFine ==
    /\ IdleWorker \in Worker
    /\ \A a, w, s : Fine(a, w, IdleWorker, s)
  <1>1. IdleWorker \in Worker
    BY DEF IdleWorker, Worker, PCs, Types, Options, States, Followers
  <1>2. \A w : WorkerOK(w, IdleWorker)
    BY <1>1 DEF WorkerOK, IdleWorker
  <1>3. \A a : RoleOK(a, IdleWorker) /\ ~ Tells(a, IdleWorker)
    BY DEF RoleOK, Tells, IdleWorker, Visits
  <1> QED
    BY <1>1, <1>2, <1>3 DEF Fine

\* Setting one counter keeps the others.
LEMMA SetCount ==
    ASSUME NEW T, NEW f \in [Agents -> [T -> Nat]], NEW a \in Agents, NEW t \in T, NEW k \in Nat
    PROVE  LET g == [f EXCEPT ![a][t] = k]
           IN  /\ g \in [Agents -> [T -> Nat]]
               /\ \A b \in Agents, u \in T :
                     g[b][u] = IF b = a /\ u = t THEN k ELSE f[b][u]
  OBVIOUS

\* Both agents are agents, and each is the other's peer.
LEMMA PeerType == ASSUME NEW a \in Agents PROVE Peer(a) \in Agents
  BY DEF Agents, Peer

\* What a message may be, and what it leads to, by the role of who takes it.
LEMMA TakesType ==
    ASSUME NEW a
    PROVE  /\ Takes(a) \subseteq Types
           /\ \A t \in Takes(a) : NextState(t) \in Visits(a) /\ NextState(t) \in States
           /\ Visits(a) \subseteq States
  BY DEF Takes, Types, Visits, States, NextState, Requests

-----------------------------------------------------------------------------
(***************************************************************************)
(* What a step has to show, part by part.                                   *)
(***************************************************************************)
DataFine == /\ data' \in [Agents -> [name : States, ack : BOOLEAN]]
            /\ data'[Verifier].name = "done" => saved'
NetFine  == /\ net' \in [Agents -> [Types -> Nat]]
            /\ \A a \in Agents, t \in Types : net'[a][t] > 0 => t \in Takes(a)
            /\ \A a \in Agents : net'[a]["ack"] > 0 => saved'
HeldFine == /\ payload' \in [Agents -> Held \cup {None}]
            /\ events'  \in [Agents -> [Held -> Nat]]
            /\ \A a \in Agents : /\ payload'[a].type \in Takes(a) \cup {"none"}
                                 /\ \A h \in Held : events'[a][h] > 0 => h.type \in Takes(a)
UsedFine == /\ saved' \in BOOLEAN /\ opened' \in BOOLEAN
            /\ rounds' \in Nat /\ duplicates' \in Nat /\ doubles' \in Nat
            /\ failures' \in Nat /\ crashes' \in Nat

LEMMA StepInv ==
    ASSUME DataFine, NetFine, HeldFine, UsedFine, WorkersFine
    PROVE  IInv'
  <1>1. TypeOK'
    BY DEF DataFine, NetFine, HeldFine, UsedFine, WorkersFine, Fine, TypeOK
  <1>2. Roles'
    BY DEF NetFine, HeldFine, WorkersFine, Fine, Roles, NetRoles, HeldRoles
  <1>3. Telling'
    BY DEF DataFine, NetFine, WorkersFine, Fine, Telling, NetTells, DataTells
  <1> QED
    BY <1>1, <1>2, <1>3 DEF IInv

\* The parts a step leaves alone.
LEMMA DataStays == ASSUME IInv, UNCHANGED data, saved => saved' PROVE DataFine
  BY DEF IInv, TypeOK, Telling, DataTells, DataFine
LEMMA NetStays == ASSUME IInv, UNCHANGED net, saved => saved' PROVE NetFine
  BY DEF IInv, TypeOK, Roles, Telling, NetRoles, NetTells, NetFine
LEMMA HeldStays == ASSUME IInv, UNCHANGED <<payload, events>> PROVE HeldFine
  BY DEF IInv, TypeOK, Roles, HeldRoles, HeldFine
LEMMA UsedStays == ASSUME IInv, UNCHANGED <<saved, used>> PROVE UsedFine
  BY DEF IInv, TypeOK, used, UsedFine
LEMMA WorkersStay == ASSUME IInv, UNCHANGED workers, saved => saved' PROVE WorkersFine
  BY DEF IInv, TypeOK, Roles, Telling, Fine, WorkersFine

\* The worker a step starts from.
LEMMA WorkerIsFine ==
    ASSUME IInv, NEW a \in Agents, NEW w \in Workers
    PROVE  Fine(a, w, workers[a][w], saved)
  BY DEF IInv, TypeOK, Roles, Telling, Fine

-----------------------------------------------------------------------------
\* Every initial state satisfies the invariant.
LEMMA InitInv == Init => IInv
  <1> SUFFICES ASSUME Init PROVE IInv
    OBVIOUS
  <1>1. workers \in [Agents -> [Workers -> Worker]]
    BY IdleIsFine DEF Init
  <1>2. \A a \in Agents, w \in Workers : workers[a][w] = IdleWorker
    BY DEF Init
  <1>3. TypeOK
    <2>1. data \in [Agents -> [name : States, ack : BOOLEAN]]
      BY DEF Init, States
    <2> QED
      BY <1>1, <1>2, <2>1, IdleIsFine DEF Init, TypeOK, Fine
  <1>4. Roles
    <2>1. ASSUME NEW a \in Agents, NEW w \in Workers PROVE RoleOK(a, workers[a][w])
      BY <1>2, IdleIsFine DEF Fine
    <2>2. NetRoles /\ HeldRoles
      BY DEF Init, NetRoles, HeldRoles, None
    <2> QED
      BY <2>1, <2>2 DEF Roles
  <1>5. Telling
    <2>1. "ack" \in Types /\ Verifier \in Agents
      BY DEF Types, Agents
    <2>2. NetTells /\ DataTells
      BY <2>1 DEF Init, NetTells, DataTells
    <2>3. ASSUME NEW a \in Agents, NEW w \in Workers PROVE Tells(a, workers[a][w]) => saved
      BY <1>2, IdleIsFine DEF Fine
    <2> QED
      BY <2>2, <2>3 DEF Telling
  <1> QED
    BY <1>3, <1>4, <1>5 DEF IInv

LEMMA HandleOutboundInv ==
    ASSUME IInv, NEW w \in Handlers, HandleOutbound(w)
    PROVE  IInv'
  <1> DEFINE x == [IdleWorker EXCEPT !.pc = "execute", !.at = OpeningState, !.opt = Opening]
  <1>1. Opener \in Agents /\ w \in Workers
    BY DEF Opener, Agents, Workers
  <1>2. /\ OpeningState \in {"proposal-sent", "request-sent"} /\ OpeningState \in Visits(Opener)
        /\ Opening \in Options
    BY PartiesAssumption DEF OpeningState, Opener, Visits, Options, Requests
  <1>3. /\ x \in Worker /\ x.pc = "execute" /\ x.at = OpeningState
        /\ x.type = "none" /\ x.next = "noop" /\ x.out = "none" /\ x.abandons = FALSE
    BY <1>2, IdleIsFine DEF IdleWorker, Worker, PCs, States
  <1>6. Goto(Opener, w, x) /\ UNCHANGED <<data, payload, saved, net, events>>
    BY DEF HandleOutbound
  <1> HIDE DEF x
  <1>4. WorkerOK(w, x)
    BY <1>2, <1>3 DEF WorkerOK
  <1>5. RoleOK(Opener, x) /\ ~ Tells(Opener, x)
    BY <1>2, <1>3 DEF RoleOK, Tells
  <1>7. WorkersFine
    BY <1>1, <1>4, <1>5, <1>6, MoveWorker DEF Fine
  <1>8. UsedFine
    BY DEF HandleOutbound, IInv, TypeOK, UsedFine
  <1> QED
    BY <1>6, <1>7, <1>8, DataStays, NetStays, HeldStays, StepInv

\* A copy of a message that is delivered was on its way; no new copy appears.
LEMMA DeliverNet ==
    ASSUME IInv, NEW a \in Agents, NEW t \in Types, Deliver(a, t), UNCHANGED saved
    PROVE  NetFine /\ duplicates' \in Nat /\ t \in Takes(a) /\ (t = "ack" => saved)
  <1>1. net \in [Agents -> [Types -> Nat]] /\ duplicates \in Nat /\ "ack" \in Types
    BY DEF IInv, TypeOK, Types
  <1>2. t \in Takes(a) /\ (t = "ack" => saved)
    BY DEF Deliver, IInv, Roles, Telling, NetRoles, NetTells
  <1>3. CASE net' = [net EXCEPT ![a][t] = @ - 1] /\ UNCHANGED duplicates
    <2>1. net[a][t] \in Nat /\ net[a][t] > 0
      BY <1>1 DEF Deliver
    <2>2. net[a][t] - 1 \in Nat
      BY <2>1
    <2>3. net' = [net EXCEPT ![a][t] = net[a][t] - 1]
      BY <1>3
    <2>4. net' \in [Agents -> [Types -> Nat]]
      BY <1>1, <2>2, <2>3, SetCount
    <2>5. \A b \in Agents, u \in Types : net'[b][u] > 0 => net[b][u] > 0
      BY <1>1, <2>1, <2>2, <2>3, SetCount
    <2>6. NetFine
      BY <1>1, <2>4, <2>5 DEF IInv, Roles, Telling, NetRoles, NetTells, NetFine
    <2> QED
      BY <1>1, <1>2, <1>3, <2>6
  <1>4. CASE duplicates' = duplicates + 1 /\ UNCHANGED net
    BY <1>1, <1>2, <1>4, NetStays
  <1> QED
    BY <1>3, <1>4 DEF Deliver

LEMMA HandleInboundInv ==
    ASSUME IInv, NEW a \in Agents, NEW w \in Handlers, NEW t \in Types, HandleInbound(a, w, t)
    PROVE  IInv'
  <1> DEFINE p == IF CanTriggerActionEvents(t) THEN "payload" ELSE "execute"
             i == [IdleWorker EXCEPT !.type = t, !.ack = data[a].ack, !.at = NextState(t)]
             x == [i EXCEPT !.pc = p]
  <1>1. w \in Workers /\ UNCHANGED <<data, payload, saved, events>>
    BY DEF Workers, HandleInbound
  <1>2. NetFine /\ duplicates' \in Nat /\ t \in Takes(a) /\ (t = "ack" => saved)
    BY <1>1, DeliverNet DEF HandleInbound
  <1>3. UsedFine
    BY <1>2 DEF HandleInbound, IInv, TypeOK, UsedFine
  <1>4. SUFFICES WorkersFine
    BY <1>1, <1>2, <1>3, DataStays, HeldStays, StepInv
  <1>5. UNCHANGED workers \/ Goto(a, w, x)
    BY DEF HandleInbound
  <1>6. data[a].ack \in BOOLEAN
    BY DEF IInv, TypeOK
  <1>7. /\ NextState(t) \in States /\ NextState(t) \in Visits(a)
        /\ t = "ack" <=> NextState(t) = "done"
    BY <1>2, TakesType DEF NextState, Types, Requests
  <1>8. /\ p \in {"payload", "execute"} /\ (p = "payload" <=> t # "ack")
    BY DEF CanTriggerActionEvents
  <1> HIDE DEF p
  <1>9. /\ i \in Worker /\ i.type = t /\ i.at = NextState(t)
        /\ i.next = "noop" /\ i.out = "none" /\ i.abandons = FALSE
    BY <1>6, <1>7, IdleIsFine DEF IdleWorker, Worker
  <1> HIDE DEF i
  <1>13. /\ x \in Worker /\ x.pc = p /\ x.type = t /\ x.at = NextState(t)
         /\ x.next = "noop" /\ x.out = "none" /\ x.abandons = FALSE
    BY <1>8, <1>9 DEF Worker, PCs
  <1> HIDE DEF x
  <1>10. WorkerOK(w, x)
    BY <1>7, <1>8, <1>13 DEF WorkerOK, EventTypes, CanTriggerActionEvents, NextState
  <1>11. RoleOK(a, x)
    BY <1>2, <1>7, <1>13 DEF RoleOK
  <1>12. Tells(a, x) => saved
    BY <1>2, <1>7, <1>8, <1>13 DEF Tells
  <1> QED
    BY <1>1, <1>5, <1>10, <1>11, <1>12, MoveWorker, WorkersStay DEF Fine

\* A worker keeps what it is fine for when only its place in the code changes.
LEMMA Advance ==
    ASSUME NEW a, NEW w, NEW me, NEW s, NEW p \in {"event", "push"},
           Fine(a, w, me, s), me.type \in EventTypes
    PROVE  Fine(a, w, [me EXCEPT !.pc = p], s)
  <1> DEFINE x == [me EXCEPT !.pc = p]
  <1>1. me \in Worker
    BY DEF Fine, WorkerOK
  <1>2. /\ x \in Worker /\ x.pc = p
        /\ x.type = me.type /\ x.at = me.at /\ x.next = me.next /\ x.out = me.out
        /\ x.abandons = me.abandons
    BY <1>1 DEF Worker, PCs
  <1> HIDE DEF x
  <1>3. WorkerOK(w, x)
    BY <1>2 DEF Fine, WorkerOK
  <1>4. RoleOK(a, x) /\ (Tells(a, x) => s)
    BY <1>2 DEF Fine, RoleOK, Tells
  <1> QED
    BY <1>3, <1>4 DEF Fine, x

\* The goroutines before the listener: the payload, the event and the decision.
LEMMA ClientInv ==
    ASSUME IInv, NEW a \in Agents, NEW w \in Workers,
           \/ SaveTransitionalPayload(a, w) \/ SendActionEvent(a, w)
           \/ DeleteTransitionalPayload(a, w)
    PROVE  IInv'
  <1> DEFINE me == workers[a][w]
             h  == Holding(me)
  <1>1. /\ Fine(a, w, me, saved) /\ me \in Worker
        /\ me.type \in EventTypes /\ me.type \in Takes(a) /\ me.ack \in BOOLEAN
    <2>1. Fine(a, w, me, saved)
      BY WorkerIsFine
    <2>2. me.type \in EventTypes
      BY <2>1 DEF Fine, WorkerOK, SaveTransitionalPayload, SendActionEvent, DeleteTransitionalPayload
    <2> QED
      BY <2>1, <2>2 DEF Fine, WorkerOK, RoleOK, Worker, EventTypes, Types, Requests
  <1>2. h \in Held /\ h.type \in Takes(a)
    BY <1>1 DEF Holding, Held
  <1>3. UNCHANGED <<data, saved, net, used>>
    BY DEF SaveTransitionalPayload, SendActionEvent, DeleteTransitionalPayload
  <1>4. payload \in [Agents -> Held \cup {None}] /\ events \in [Agents -> [Held -> Nat]]
    BY DEF IInv, TypeOK
  <1>5. CASE SendActionEvent(a, w)
    <2>1. events' = [events EXCEPT ![a][h] = events[a][h] + 1] /\ UNCHANGED payload
      BY <1>5 DEF SendActionEvent
    <2>2. events[a][h] + 1 \in Nat
      BY <1>2, <1>4
    <2>3. /\ events' \in [Agents -> [Held -> Nat]]
          /\ \A b \in Agents, g \in Held : events'[b][g] = events[b][g] \/ (b = a /\ g = h)
      BY <1>2, <1>4, <2>1, <2>2, SetCount
    <2>4. HeldFine
      BY <1>2, <1>4, <2>1, <2>3 DEF HeldFine, IInv, Roles, HeldRoles
    <2>5. WorkersFine
      BY <1>3, <1>5, IdleIsFine, MoveWorker DEF SendActionEvent, Idle
    <2> QED
      BY <1>3, <2>4, <2>5, DataStays, NetStays, UsedStays, StepInv
  <1>6. CASE ~ SendActionEvent(a, w)
    <2>1. UNCHANGED events /\ payload' \in {[payload EXCEPT ![a] = h], [payload EXCEPT ![a] = None]}
      BY <1>6 DEF SaveTransitionalPayload, DeleteTransitionalPayload
    <2>2. payload' \in [Agents -> Held \cup {None}]
      BY <1>2, <1>4, <2>1
    <2>3. \A b \in Agents : payload'[b] \in {payload[b], None} \/ (b = a /\ payload'[b] = h)
      BY <1>4, <2>1
    <2>4. HeldFine
      BY <1>2, <1>4, <2>1, <2>2, <2>3 DEF HeldFine, IInv, Roles, HeldRoles, None
    <2>5. PICK p \in {"event", "push"} : Goto(a, w, [me EXCEPT !.pc = p])
      BY <1>6 DEF SaveTransitionalPayload, DeleteTransitionalPayload
    <2>6. WorkersFine
      BY <1>1, <1>3, <2>5, Advance, MoveWorker
    <2> QED
      BY <1>3, <2>4, <2>6, DataStays, NetStays, UsedStays, StepInv
  <1> QED
    BY <1>5, <1>6

LEMMA DecideInv ==
    ASSUME IInv, NEW a \in Agents, NEW w \in Handlers, NEW h \in Held, h.type \in Takes(a),
           Decide(a, w, h), HeldFine, doubles' \in Nat
    PROVE  IInv'
  <1>1. PICK opt \in Options, stop \in BOOLEAN :
           /\ rounds' = IF opt = "propose" THEN rounds + 1 ELSE rounds
           /\ Goto(a, w, [IdleWorker EXCEPT !.pc = "delete", !.type = h.type, !.ack = h.ack,
                                            !.opt = opt, !.stop = stop, !.at = NextState(h.type)])
    <2>1. Offers(h.type) \subseteq Options
      BY DEF Offers, Options
    <2> QED
      BY <2>1 DEF Decide
  <1> DEFINE x == [IdleWorker EXCEPT !.pc = "delete", !.type = h.type, !.ack = h.ack,
                                     !.opt = opt, !.stop = stop, !.at = NextState(h.type)]
  <1>2. UNCHANGED <<data, saved, net, opened, duplicates, failures, crashes>>
    BY DEF Decide
  <1>3. w \in Workers
    BY DEF Workers
  <1>4. h.type \in EventTypes /\ h.type \in Types /\ h.type # "ack" /\ h.ack \in BOOLEAN
    BY DEF Held, EventTypes, CanTriggerActionEvents
  <1>5. NextState(h.type) \in States /\ NextState(h.type) \in Visits(a) /\ NextState(h.type) # "done"
    BY <1>4, TakesType DEF NextState, Types
  <1>6. /\ x \in Worker /\ x.pc = "delete" /\ x.type = h.type /\ x.at = NextState(h.type)
        /\ x.next = "noop" /\ x.out = "none" /\ x.abandons = FALSE
    BY <1>1, <1>4, <1>5, IdleIsFine DEF IdleWorker, Worker, PCs
  <1> HIDE DEF x
  <1>7. WorkerOK(w, x) /\ RoleOK(a, x) /\ ~ Tells(a, x)
    BY <1>4, <1>5, <1>6 DEF WorkerOK, RoleOK, Tells
  <1>8. WorkersFine
    BY <1>1, <1>2, <1>3, <1>7, MoveWorker DEF Fine, x
  <1>9. UsedFine
    BY <1>1, <1>2 DEF IInv, TypeOK, UsedFine
  <1> QED
    BY <1>2, <1>8, <1>9, DataStays, NetStays, StepInv

LEMMA AnswerInv ==
    ASSUME IInv, NEW a \in Agents, NEW w \in Handlers,
           AnswerAction(a, w) \/ \E h \in Held : AnswerEvent(a, w, h)
    PROVE  IInv'
  <1>1. payload \in [Agents -> Held \cup {None}] /\ events \in [Agents -> [Held -> Nat]]
    BY DEF IInv, TypeOK
  <1>2. CASE AnswerAction(a, w)
    <2>1. doubles' \in Nat
      BY <1>2 DEF AnswerAction, IInv, TypeOK
    <2>2. payload[a] \in Held /\ payload[a].type \in Takes(a)
      <3>1. payload[a] \in Held
        BY <1>1, <1>2 DEF AnswerAction
      <3>2. payload[a].type # "none"
        BY <3>1 DEF Held, EventTypes, Types, Requests
      <3> QED
        BY <3>1, <3>2 DEF IInv, Roles, HeldRoles
    <2>3. HeldFine
      BY <1>2, HeldStays DEF AnswerAction, Decide
    <2> QED
      BY <1>2, <2>1, <2>2, <2>3, DecideInv DEF AnswerAction
  <1>3. CASE \E h \in Held : AnswerEvent(a, w, h)
    <2>1. PICK h \in Held : AnswerEvent(a, w, h)
      BY <1>3
    <2>2. h.type \in Takes(a) /\ events[a][h] - 1 \in Nat
      BY <1>1, <2>1 DEF AnswerEvent, IInv, Roles, HeldRoles
    <2>3. events' = [events EXCEPT ![a][h] = events[a][h] - 1] /\ UNCHANGED payload
      BY <2>1 DEF AnswerEvent, Decide
    <2>4. /\ events' \in [Agents -> [Held -> Nat]]
          /\ \A b \in Agents, g \in Held : events'[b][g] = events[b][g] \/ (b = a /\ g = h)
      BY <1>1, <2>2, <2>3, SetCount
    <2>5. HeldFine
      BY <1>1, <2>2, <2>3, <2>4 DEF HeldFine, IInv, Roles, HeldRoles
    <2>6. doubles' \in Nat
      BY <2>1 DEF AnswerEvent, IInv, TypeOK
    <2> QED
      BY <2>1, <2>2, <2>5, <2>6, DecideInv DEF AnswerEvent
  <1> QED
    BY <1>2, <1>3

-----------------------------------------------------------------------------
(***************************************************************************)
(* handle(), in the listener and elsewhere.                                 *)
(***************************************************************************)
\* The listener may give up whatever it is doing.
LEMMA GiveUpFine ==
    ASSUME NEW a, NEW me, NEW s, NEW w, Fine(a, w, me, s)
    PROVE  Fine(a, Listener, GiveUp(me), s)
  <1> DEFINE x == GiveUp(me)
  <1>1. me \in Worker
    BY DEF Fine, WorkerOK
  <1>2. /\ x \in Worker /\ x.pc = "execute" /\ x.at = "abandoned"
        /\ x.type = me.type /\ x.next = me.next /\ x.out = me.out
    BY <1>1 DEF GiveUp, Worker, PCs, States
  <1> HIDE DEF x
  <1>3. WorkerOK(Listener, x)
    BY <1>2 DEF WorkerOK
  <1>4. RoleOK(a, x)
    BY <1>2 DEF Fine, RoleOK, Visits
  <1>5. Tells(a, x) => s
    BY <1>2 DEF Fine, Tells
  <1> QED
    BY <1>3, <1>4, <1>5 DEF Fine, x

LEMMA AfterErrorFine ==
    ASSUME NEW a, NEW me, NEW s, NEW w, Fine(a, w, me, s)
    PROVE  Fine(a, w, AfterError(w, me), s)
  BY GiveUpFine, IdleIsFine DEF AfterError

\* What Then makes of a worker, and the five pairs ExecuteState gives it.
LEMMA ThenFine ==
    ASSUME NEW a, NEW w, NEW me, NEW s, NEW next \in Followers, NEW out,
           Fine(a, w, me, s), me.pc = "execute",
           next \in Visits(a) \cup {"noop"}, out \in Takes(Peer(a)) \cup {"none"},
           out \in Types \cup {"none"},
           out = "ack" => s, next = "done" => a # Verifier \/ s,
           me.at = "presentation-received" => s
    PROVE  Fine(a, w, Then(me, next, out), s)
  <1> DEFINE x == Then(me, next, out)
  <1>1. me \in Worker
    BY DEF Fine, WorkerOK
  <1>2. /\ x \in Worker /\ x.pc = "save" /\ x.next = next /\ x.out = out
        /\ x.type = me.type /\ x.at = me.at /\ x.abandons = me.abandons
    BY <1>1 DEF Then, Worker, PCs
  <1> HIDE DEF x
  <1>3. WorkerOK(w, x)
    BY <1>2 DEF Fine, WorkerOK
  <1>4. RoleOK(a, x)
    BY <1>2 DEF Fine, RoleOK
  <1>5. Tells(a, x) => s
    BY <1>2 DEF Fine, Tells
  <1> QED
    BY <1>3, <1>4, <1>5 DEF Fine, x

\* A worker may note what the verifier promises.
LEMMA AckFine ==
    ASSUME NEW a, NEW w, NEW me, NEW s, NEW k \in BOOLEAN, Fine(a, w, me, s)
    PROVE  LET x == [me EXCEPT !.ack = k]
           IN  Fine(a, w, x, s) /\ x.pc = me.pc /\ x.at = me.at
  <1> DEFINE x == [me EXCEPT !.ack = k]
  <1>1. me \in Worker
    BY DEF Fine, WorkerOK
  <1>2. /\ x \in Worker /\ x.pc = me.pc /\ x.next = me.next /\ x.out = me.out
        /\ x.type = me.type /\ x.at = me.at /\ x.abandons = me.abandons
    BY <1>1 DEF Worker
  <1> HIDE DEF x
  <1>3. Fine(a, w, x, s)
    BY <1>2 DEF Fine, WorkerOK, RoleOK, Tells
  <1> QED
    BY <1>2, <1>3 DEF x

\* Executing a state ends in error or leaves the worker fine, if executing
\* presentation-received has saved the presentation.
LEMMA ExecuteFine ==
    ASSUME NEW a \in Agents, NEW w, NEW me, NEW s,
           Fine(a, w, me, s), me.pc = "execute", me.at = "presentation-received" => s
    PROVE  ExecuteState(me).pc = "error" \/ Fine(a, w, ExecuteState(me), s)
  <1>1. me \in Worker /\ me.at \in Visits(a)
    BY DEF Fine, WorkerOK, RoleOK
  <1>2. CannotGoOn(me).pc = "error"
    BY <1>1 DEF CannotGoOn, Worker
  <1>3. CASE me.at = "request-received"
    <2> DEFINE n == IF me.opt = "presentation" THEN "presentation-sent" ELSE "proposal-sent"
    <2>1. ExecuteState(me) = Then(me, n, "none")
      BY <1>3 DEF ExecuteState
    <2>2. a = Prover /\ n \in Followers /\ n \in Visits(a) /\ n # "done"
      BY <1>1, <1>3 DEF Visits, Followers
    <2> HIDE DEF n
    <2> QED
      BY <1>3, <2>1, <2>2, ThenFine
  <1>4. CASE me.at = "presentation-sent"
    <2> DEFINE n == IF WillConfirm(me.type) THEN "noop" ELSE "done"
    <2>1. ExecuteState(me) = Then(me, n, "presentation")
      BY <1>4 DEF ExecuteState
    <2>2. a = Prover /\ n \in Followers /\ n \in Visits(a) \cup {"noop"}
      BY <1>1, <1>4 DEF Visits, Followers
    <2>3. "presentation" \in Takes(Peer(a)) /\ "presentation" \in Types
      BY <2>2, PartiesAssumption DEF Takes, Peer, Types
    <2> HIDE DEF n
    <2> QED
      BY <1>4, <2>1, <2>2, <2>3, PartiesAssumption, ThenFine
  <1>5. CASE me.at = "proposal-sent"
    <2>1. ExecuteState(me) \in {Then(me, "noop", "propose"), CannotGoOn(me)}
      BY <1>5 DEF ExecuteState
    <2>2. a = Prover /\ "noop" \in Followers
      BY <1>1, <1>5 DEF Visits, Followers
    <2>3. "propose" \in Takes(Peer(a)) /\ "propose" \in Types
      BY <2>2, PartiesAssumption DEF Takes, Peer, Types
    <2> QED
      BY <1>2, <1>5, <2>1, <2>2, <2>3, ThenFine
  <1>6. CASE me.at = "proposal-received"
    <2>1. ExecuteState(me) = Then(me, "request-sent", "none")
      BY <1>6 DEF ExecuteState
    <2>2. a # Prover /\ "request-sent" \in Followers /\ "request-sent" \in Visits(a)
      BY <1>1, <1>6 DEF Visits, Followers
    <2> QED
      BY <1>6, <2>1, <2>2, ThenFine
  <1>7. CASE me.at = "request-sent"
    <2> DEFINE x == [me EXCEPT !.ack = Promise(me)]
    <2>1. me.opt \in Requests => ExecuteState(me) = Then(x, "noop", me.opt)
      BY <1>7 DEF ExecuteState
    <2>2. me.opt \notin Requests => ExecuteState(me) = CannotGoOn(me)
      BY <1>7 DEF ExecuteState
    <2>3. a # Prover /\ Peer(a) = Prover /\ "noop" \in Followers
      BY <1>1, <1>7 DEF Visits, Followers, Peer
    <2>4. me.opt \in Requests => me.opt \in Takes(Peer(a)) /\ me.opt \in Types /\ me.opt # "ack"
      BY <2>3 DEF Takes, Types, Requests
    <2>6. Promise(me) \in BOOLEAN
      BY DEF Promise, WillConfirm
    <2>5. Fine(a, w, x, s) /\ x.pc = me.pc /\ x.at = me.at
      BY <2>6, AckFine
    <2> HIDE DEF x
    <2> QED
      BY <1>2, <1>7, <2>1, <2>2, <2>3, <2>4, <2>5, ThenFine
  <1>8. CASE me.at = "presentation-received"
    <2>1. ExecuteState(me) = Then(me, "done", Confirm(me))
      BY <1>8 DEF ExecuteState
    <2>2. a # Prover /\ Peer(a) = Prover /\ "done" \in Followers /\ "done" \in Visits(a)
      BY <1>1, <1>8 DEF Visits, Followers, Peer
    <2>3. Confirm(me) \in Takes(Peer(a)) \cup {"none"} /\ Confirm(me) \in Types \cup {"none"}
      BY <2>2 DEF Takes, Types, Confirm
    <2> QED
      BY <1>8, <2>1, <2>2, <2>3, ThenFine
  <1>9. CASE me.at = "done"
    <2>1. ExecuteState(me) = Then(me, "noop", "none")
      BY <1>9 DEF ExecuteState
    <2> QED
      BY <1>9, <2>1, ThenFine DEF Followers
  <1>10. CASE me.at = "abandoned"
    <2>1. ExecuteState(me) = Then(me, "noop", Report(me))
      BY <1>10 DEF ExecuteState
    <2>2. /\ Report(me) \in Takes(Peer(a)) \cup {"none"} /\ Report(me) \in Types \cup {"none"}
          /\ Report(me) # "ack"
      BY DEF Takes, Types, Report
    <2> QED
      BY <1>10, <2>1, <2>2, ThenFine DEF Followers
  <1>11. CASE me.at = "start"
    <2>1. ExecuteState(me) = CannotGoOn(me)
      BY <1>11 DEF ExecuteState
    <2> QED
      BY <1>2, <2>1
  <1> QED
    BY <1>1, <1>3, <1>4, <1>5, <1>6, <1>7, <1>8, <1>9, <1>10, <1>11 DEF Visits

LEMMA TakeCallbackInv ==
    ASSUME IInv, NEW a \in Agents, NEW w \in Workers, TakeCallback(a, w)
    PROVE  IInv'
  <1> DEFINE me == workers[a][w]
             z  == [me EXCEPT !.pc = "execute"]
             x  == IF me.stop THEN GiveUp(me) ELSE z
  <1>1. Fine(a, w, me, saved) /\ me \in Worker /\ me.pc = "push" /\ w # Listener
    BY WorkerIsFine DEF Fine, WorkerOK, TakeCallback
  <1>2. UNCHANGED <<data, payload, saved, net, events, used>>
    BY DEF TakeCallback
  <1>3. Fine(a, Listener, z, saved)
    <2>1. /\ z \in Worker /\ z.pc = "execute" /\ z.at = me.at /\ z.type = me.type
          /\ z.next = me.next /\ z.out = me.out
      BY <1>1 DEF Worker, PCs
    <2> HIDE DEF z
    <2>2. WorkerOK(Listener, z)
      BY <2>1 DEF WorkerOK
    <2>3. RoleOK(a, z) /\ (Tells(a, z) => saved)
      BY <1>1, <2>1 DEF Fine, RoleOK, Tells
    <2> QED
      BY <2>2, <2>3 DEF Fine
  <1> HIDE DEF z
  <1>4. Fine(a, Listener, x, saved)
    BY <1>1, <1>3, GiveUpFine
  <1>5. workers' = [workers EXCEPT ![a][w] = IdleWorker, ![a][Listener] = x]
    BY DEF TakeCallback, z
  <1> HIDE DEF x
  <1>6. x \in Worker /\ IdleWorker \in Worker /\ Listener \in Workers
    BY <1>4, IdleIsFine DEF Fine, WorkerOK, Workers
  <1>7. workers \in [Agents -> [Workers -> Worker]]
    BY DEF IInv, TypeOK
  <1>8. workers' \in [Agents -> [Workers -> Worker]]
    BY <1>5, <1>6, <1>7
  <1>9. ASSUME NEW b \in Agents, NEW v \in Workers
        PROVE  workers'[b][v] = IF b = a /\ v = Listener THEN x
                                ELSE IF b = a /\ v = w THEN IdleWorker ELSE workers[b][v]
    BY <1>1, <1>5, <1>6, <1>7
  <1>10. ASSUME NEW b \in Agents, NEW v \in Workers PROVE Fine(b, v, workers'[b][v], saved')
    BY <1>2, <1>4, <1>9, IdleIsFine, WorkerIsFine
  <1>11. WorkersFine
    BY <1>8, <1>10 DEF WorkersFine
  <1> QED
    BY <1>2, <1>11, DataStays, NetStays, HeldStays, UsedStays, StepInv

\* What executing a state and looking at its error leaves a worker with.
LEMMA ConcludeFine ==
    ASSUME NEW a \in Agents, NEW w, NEW me, NEW s,
           Fine(a, w, me, s), me.pc = "execute", me.at = "presentation-received" => s
    PROVE  Fine(a, w, Conclude(w, me), s)
  <1>1. ExecuteState(me).pc = "error" \/ Fine(a, w, ExecuteState(me), s)
    BY ExecuteFine
  <1>2. Fine(a, w, AfterError(w, me), s)
    BY AfterErrorFine
  <1> QED
    BY <1>1, <1>2 DEF Conclude

\* What is saved may only help.
LEMMA FineGrows ==
    ASSUME NEW a, NEW w, NEW me, NEW s, NEW t, s => t, Fine(a, w, me, s)
    PROVE  Fine(a, w, me, t)
  BY DEF Fine

LEMMA ExecuteInv ==
    ASSUME IInv, NEW a \in Agents, NEW w \in Workers, SavePresentation(a, w) \/ Execute(a, w)
    PROVE  IInv'
  <1> DEFINE me == workers[a][w]
  <1>1. /\ UNCHANGED <<data, payload, net, events, used>>
        /\ saved => saved'
        /\ me.pc = "execute" /\ (me.at = "presentation-received" => saved')
    BY DEF SavePresentation, Execute
  <1>2. Fine(a, w, me, saved')
    BY <1>1, WorkerIsFine, FineGrows
  <1>3. Fine(a, w, Conclude(w, me), saved') /\ Fine(a, w, AfterError(w, me), saved')
    BY <1>1, <1>2, ConcludeFine, AfterErrorFine
  <1>4. Goto(a, w, Conclude(w, me)) \/ Goto(a, w, AfterError(w, me))
    BY DEF SavePresentation, Execute
  <1>5. WorkersFine
    BY <1>1, <1>3, <1>4, MoveWorker
  <1>6. UsedFine
    <2>1. saved' \in BOOLEAN
      BY DEF SavePresentation, Execute, IInv, TypeOK
    <2>2. UNCHANGED <<opened, rounds, duplicates, doubles, failures, crashes>>
      BY DEF SavePresentation, Execute, used
    <2> QED
      BY <2>1, <2>2 DEF IInv, TypeOK, UsedFine
  <1> QED
    BY <1>1, <1>5, <1>6, DataStays, NetStays, HeldStays, StepInv

\* The state that follows has everything the one before had.
LEMMA ProceedFine ==
    ASSUME IInv, saved => saved', NEW a \in Agents, NEW w \in Workers, Proceed(a, w)
    PROVE  WorkersFine
  <1> DEFINE me == workers[a][w]
             x  == [me EXCEPT !.pc = "execute", !.at = me.next]
  <1>1. Fine(a, w, me, saved) /\ me \in Worker
    BY WorkerIsFine DEF Fine, WorkerOK
  <1>2. CASE me.next = "noop"
    BY <1>2, IdleIsFine, MoveWorker DEF Proceed, Idle
  <1>3. CASE me.next # "noop"
    <2>1. Goto(a, w, x)
      BY <1>3 DEF Proceed
    <2>2. me.next \in States /\ me.next # "presentation-received" /\ me.next \in Visits(a)
      BY <1>1, <1>3 DEF Fine, RoleOK, Worker, Followers, States
    <2>3. /\ x \in Worker /\ x.pc = "execute" /\ x.at = me.next /\ x.type = me.type
          /\ x.next = me.next /\ x.out = me.out /\ x.abandons = me.abandons
      BY <1>1, <2>2 DEF Worker, PCs
    <2> HIDE DEF x
    <2>4. WorkerOK(w, x)
      BY <1>1, <2>2, <2>3 DEF Fine, WorkerOK
    <2>5. RoleOK(a, x) /\ (Tells(a, x) => saved)
      BY <1>1, <2>2, <2>3 DEF Fine, RoleOK, Tells
    <2> QED
      BY <2>1, <2>4, <2>5, MoveWorker DEF Fine
  <1> QED
    BY <1>2, <1>3

LEMMA SaveInternalDataInv ==
    ASSUME IInv, NEW a \in Agents, NEW w \in Workers, SaveInternalData(a, w)
    PROVE  IInv'
  <1> DEFINE me == workers[a][w]
             x  == [me EXCEPT !.pc = "act"]
             d  == [name |-> me.at, ack |-> me.ack]
  <1>1. Fine(a, w, me, saved) /\ me \in Worker /\ me.pc = "save"
    BY WorkerIsFine DEF Fine, WorkerOK, SaveInternalData
  <1>2. UNCHANGED <<payload, saved, net, events, used>>
    BY DEF SaveInternalData
  <1>3. DataFine
    <2>1. d \in [name : States, ack : BOOLEAN] /\ d.name = me.at
      BY <1>1 DEF Worker
    <2>2. data' = [data EXCEPT ![a] = d] /\ data \in [Agents -> [name : States, ack : BOOLEAN]]
      BY DEF SaveInternalData, IInv, TypeOK
    <2> HIDE DEF d
    <2>3. data' \in [Agents -> [name : States, ack : BOOLEAN]]
      BY <2>1, <2>2
    <2>4. Verifier \in Agents /\ data'[Verifier] = IF a = Verifier THEN d ELSE data[Verifier]
      BY <2>2 DEF Agents
    <2>5. a = Verifier /\ d.name = "done" => saved
      BY <1>1, <2>1 DEF Fine, Tells
    <2>6. data[Verifier].name = "done" => saved
      BY DEF IInv, Telling, DataTells
    <2> QED
      BY <1>2, <2>3, <2>4, <2>5, <2>6 DEF DataFine
  <1>4. WorkersFine
    <2>1. CASE me.out = "none"
      BY <1>2, <2>1, ProceedFine DEF SaveInternalData
    <2>2. CASE me.out # "none"
      <3>1. Goto(a, w, x)
        BY <2>2 DEF SaveInternalData
      <3>2. /\ x \in Worker /\ x.pc = "act" /\ x.at = me.at /\ x.type = me.type
            /\ x.next = me.next /\ x.out = me.out /\ x.abandons = me.abandons
        BY <1>1 DEF Worker, PCs
      <3> HIDE DEF x
      <3>3. WorkerOK(w, x)
        BY <1>1, <2>2, <3>2 DEF Fine, WorkerOK
      <3>4. RoleOK(a, x) /\ (Tells(a, x) => saved)
        BY <1>1, <3>2 DEF Fine, RoleOK, Tells
      <3> QED
        BY <1>2, <3>1, <3>3, <3>4, MoveWorker DEF Fine
    <2> QED
      BY <2>1, <2>2
  <1> QED
    BY <1>2, <1>3, <1>4, NetStays, HeldStays, UsedStays, StepInv

\* What a goroutine sends is for its peer, and an ack only if the presentation is saved.
LEMMA SendNet ==
    ASSUME IInv, NEW a \in Agents, NEW w \in Workers, workers[a][w].pc = "act",
           Send(a, workers[a][w].out), UNCHANGED saved
    PROVE  NetFine
  <1> DEFINE t == workers[a][w].out
             b == Peer(a)
  <1>1. t \in Types /\ t \in Takes(b) /\ (t = "ack" => saved)
    BY WorkerIsFine DEF Fine, WorkerOK, RoleOK, Tells, Worker
  <1>2. net' = [net EXCEPT ![b][t] = net[b][t] + 1] /\ b \in Agents /\ "ack" \in Types
    BY PeerType DEF Send, Types
  <1> HIDE DEF t, b
  <1>3. net \in [Agents -> [Types -> Nat]] /\ net[b][t] + 1 \in Nat
    BY <1>1, <1>2 DEF IInv, TypeOK
  <1>4. /\ net' \in [Agents -> [Types -> Nat]]
        /\ \A c \in Agents, u \in Types : net'[c][u] = net[c][u] \/ (c = b /\ u = t)
    BY <1>1, <1>2, <1>3, SetCount
  <1> QED
    BY <1>1, <1>2, <1>4 DEF NetFine, IInv, Roles, Telling, NetRoles, NetTells

LEMMA ActInv ==
    ASSUME IInv, NEW a \in Agents, NEW w \in Workers, Act(a, w)
    PROVE  IInv'
  <1>1. UNCHANGED <<data, payload, saved, events, used>>
    BY DEF Act
  <1>2. NetFine
    BY <1>1, SendNet DEF Act
  <1>3. WorkersFine
    BY <1>1, ProceedFine DEF Act
  <1> QED
    BY <1>1, <1>2, <1>3, DataStays, HeldStays, UsedStays, StepInv

-----------------------------------------------------------------------------
(***************************************************************************)
(* Failures and restarts.                                                   *)
(***************************************************************************)
LEMMA FailInv ==
    ASSUME IInv, NEW a \in Agents, NEW w \in Workers, Fail(a, w)
    PROVE  IInv'
  <1> DEFINE me == workers[a][w]
             x  == [me EXCEPT !.pc = "push"]
  <1>1. UNCHANGED <<data, payload, saved, events, opened, rounds, duplicates, doubles, crashes>>
    BY DEF Fail
  <1>2. NetFine
    BY <1>1, NetStays, SendNet DEF Fail
  <1>3. UsedFine
    BY <1>1 DEF Fail, IInv, TypeOK, UsedFine
  <1>4. Fine(a, w, me, saved)
    BY WorkerIsFine
  <1>5. WorkersFine
    <2>1. CASE Goto(a, w, AfterError(w, me))
      BY <1>1, <1>4, <2>1, AfterErrorFine, MoveWorker
    <2>2. CASE me.pc = "delete" /\ Goto(a, w, x)
      <3>1. me.type \in EventTypes
        BY <1>4, <2>2 DEF Fine, WorkerOK
      <3> QED
        BY <1>1, <1>4, <2>2, <3>1, Advance, MoveWorker
    <2> QED
      BY <2>1, <2>2 DEF Fail
  <1> QED
    BY <1>1, <1>2, <1>3, <1>5, DataStays, HeldStays, StepInv

LEMMA LoseInv ==
    ASSUME IInv, NEW a \in Agents, NEW t \in Types, Lose(a, t)
    PROVE  IInv'
  <1>0. net \in [Agents -> [Types -> Nat]] /\ net[a][t] > 0 /\ "ack" \in Types
    BY DEF Lose, IInv, TypeOK, Types
  <1>1. net \in [Agents -> [Types -> Nat]] /\ net[a][t] - 1 \in Nat /\ "ack" \in Types
    <2>1. net[a][t] \in Nat
      BY <1>0
    <2> QED
      BY <1>0, <2>1
  <1>2. net' = [net EXCEPT ![a][t] = net[a][t] - 1]
    BY DEF Lose
  <1>3. /\ net' \in [Agents -> [Types -> Nat]]
        /\ \A b \in Agents, u \in Types : net'[b][u] > 0 => net[b][u] > 0
    BY <1>1, <1>2, SetCount
  <1>4. UNCHANGED <<data, payload, saved, events, workers>>
    BY DEF Lose
  <1>5. NetFine
    BY <1>1, <1>3, <1>4 DEF NetFine, IInv, Roles, Telling, NetRoles, NetTells
  <1>6. UsedFine
    BY DEF Lose, IInv, TypeOK, UsedFine
  <1> QED
    BY <1>4, <1>5, <1>6, DataStays, HeldStays, WorkersStay, StepInv

LEMMA CrashInv ==
    ASSUME IInv, NEW a \in Agents, Crash(a)
    PROVE  IInv'
  <1>1. UNCHANGED <<data, payload, saved, net>>
    BY DEF Crash
  <1>2. /\ events' \in [Agents -> [Held -> Nat]]
        /\ \A b \in Agents, h \in Held : events'[b][h] = events[b][h] \/ events'[b][h] = 0
    BY DEF Crash, IInv, TypeOK
  <1>3. HeldFine
    <2>1. payload' = payload /\ payload \in [Agents -> Held \cup {None}] /\ HeldRoles
      BY DEF Crash, IInv, TypeOK, Roles
    <2>2. \A b \in Agents, h \in Held : events'[b][h] > 0 => events[b][h] > 0
      BY <1>2
    <2> QED
      BY <1>2, <2>1, <2>2 DEF HeldFine, HeldRoles
  <1>4. workers' \in [Agents -> [Workers -> Worker]]
    BY IdleIsFine DEF Crash, IInv, TypeOK
  <1>5. \A b \in Agents, v \in Workers : workers'[b][v] \in {IdleWorker, workers[b][v]}
    BY DEF Crash, IInv, TypeOK
  <1>6. ASSUME NEW b \in Agents, NEW v \in Workers PROVE Fine(b, v, workers'[b][v], saved')
    BY <1>1, <1>5, IdleIsFine, WorkerIsFine
  <1>7. WorkersFine
    BY <1>4, <1>6 DEF WorkersFine
  <1>8. UsedFine
    BY DEF Crash, IInv, TypeOK, UsedFine
  <1> QED
    BY <1>1, <1>3, <1>7, <1>8, DataStays, NetStays, StepInv

-----------------------------------------------------------------------------
\* Every step keeps the invariant.
LEMMA NextInv == IInv /\ [Next]_vars => IInv'
  <1> SUFFICES ASSUME IInv, [Next]_vars PROVE IInv'
    OBVIOUS
  <1>1. CASE UNCHANGED vars
    BY <1>1, DataStays, NetStays, HeldStays, UsedStays, WorkersStay, StepInv DEF vars
  <1>2. CASE \E w \in Handlers : HandleOutbound(w)
    BY <1>2, HandleOutboundInv
  <1>3. ASSUME NEW a \in Agents, Receive(a) PROVE IInv'
    BY <1>3, HandleInboundInv DEF Receive
  <1>4. ASSUME NEW a \in Agents, Answer(a) PROVE IInv'
    BY <1>4, AnswerInv DEF Answer
  <1>5. ASSUME NEW a \in Agents, NEW w \in Workers, Run(a, w) PROVE IInv'
    BY <1>5, ClientInv, TakeCallbackInv, ExecuteInv, SaveInternalDataInv, ActInv DEF Run
  <1> QED
    BY <1>1, <1>2, <1>3, <1>4, <1>5, FailInv, LoseInv, CrashInv DEF Next

\* The invariant holds of every thread.
LEMMA Invariant == Spec => []IInv
  BY InitInv, NextInv, PTL DEF Spec

\* Every variable of every thread holds a value of its kind, for any constants.
THEOREM TypeCorrect == Spec => []TypeOK
  <1>1. IInv => TypeOK
    BY DEF IInv
  <1> QED
    BY <1>1, Invariant, PTL

\* A prover is only ever sent, holds and executes what is for a prover, and a verifier
\* what is for a verifier, though HandleInbound checks no such thing.
THEOREM RolesKept == Spec => []Roles
  <1>1. IInv => Roles
    BY DEF IInv
  <1> QED
    BY <1>1, Invariant, PTL

\* No prover is told that a presentation was accepted which the verifier has not
\* saved, whatever is repeated, lost, failing or restarted.
THEOREM AcceptedAfterSave == Spec => []AcceptedMeansSaved
  <1>1. IInv => AcceptedMeansSaved
    BY DEF IInv, Telling, NetTells, DataTells, Tells, AcceptedMeansSaved, Agents
  <1> QED
    BY <1>1, Invariant, PTL

-----------------------------------------------------------------------------
(***************************************************************************)
(* Threads in which each message is delivered once, each payload answered by *)
(* one call at a time and nothing fails, though agents may restart at any    *)
(* time.  There is one turn in such a thread: a message on its way, a stored *)
(* payload, or a goroutine between two of these.  Beside it only a listener  *)
(* that trails behind, on its way from what it has sent to done, stores      *)
(* anything; and nothing that the one with the turn relies on.               *)
(***************************************************************************)
Orderly == MaxDuplicates = 0 /\ MaxDoubles = 0 /\ MaxFailures = 0

\* A goroutine that has a message, or what follows from one, in its hands; the ones on
\* their way to done that nobody waits for are not concerned.
Busy(me)  == me.pc \in {"payload", "push", "execute", "save", "act"}
Trails(me) == Busy(me) /\ me.at = "done" /\ me.type # "ack"

InNet(a, t)  == net[a][t] > 0
InStore(a)   == payload[a] # None
InHand(a, w) == Busy(workers[a][w]) /\ ~ Trails(workers[a][w])

\* No two places have the turn, and none does before the thread is opened.  A restart
\* may lose it.
OneTurn ==
    /\ \A a, b \in Agents, t, u \in Types : InNet(a, t) /\ InNet(b, u) => a = b /\ t = u
    /\ \A a \in Agents, t \in Types : net[a][t] <= 1
    /\ \A a, b \in Agents : InStore(a) /\ InStore(b) => a = b
    /\ \A a, b \in Agents, v, w \in Workers : InHand(a, v) /\ InHand(b, w) => a = b /\ v = w
    /\ \A a, b \in Agents, t \in Types : InNet(a, t) => ~ InStore(b)
    /\ \A a, b \in Agents, t \in Types, w \in Workers : InNet(a, t) => ~ InHand(b, w)
    /\ \A a, b \in Agents, w \in Workers : InStore(a) => ~ InHand(b, w)
    /\ ~ opened => \A a \in Agents : /\ ~ InStore(a)
                                     /\ \A t \in Types : ~ InNet(a, t)
                                     /\ \A w \in Workers : ~ InHand(a, w)

\* A stored payload is claimed by one goroutine or one event at most.
Claims(a, w) == \/ workers[a][w].pc = "delete"
                \/ a \in ByEvent /\ workers[a][w].pc = "event"
OneClaim == \A a \in Agents :
    /\ \A v, w \in Workers : Claims(a, v) /\ Claims(a, w) => v = w
    /\ \A w \in Workers : Claims(a, w) => payload[a] = Holding(workers[a][w])
    /\ workers[a][Listener].pc \notin {"payload", "event", "delete", "push"}
    /\ a \in ByEvent => \A h \in Held : events[a][h] > 0 =>
           events[a][h] = 1 /\ payload[a] = h /\ \A w \in Workers : ~ Claims(a, w)

\* What is true of the stores when agent a is to take a message: the verifier goes by the
\* promise in the request, and a report of one that gave up finds the other waiting.
P == data[Prover]
V == data[Verifier]
Sent == {"presentation-sent", "done"}
Waiting(a) == IF a = Prover THEN {"proposal-sent"} \cup Sent ELSE {"request-sent"}
Fits(a, t) ==
    CASE t = "propose"      -> /\ a = Verifier /\ P.name = "proposal-sent"
                               /\ V.name = "start" \/ (V.name = "request-sent" /\ rounds > 0)
      [] t \in Requests     -> /\ a = Prover /\ P.name \in {"start", "proposal-sent"}
                               /\ V.name = "request-sent" /\ V.ack = WillConfirm(t)
      [] t = "presentation" -> /\ a = Verifier /\ V.name = "request-sent"
                               /\ P.name = "presentation-sent" \/ (P.name = "done" /\ ~ V.ack)
      [] t = "ack"          -> /\ a = Prover /\ P.name = "presentation-sent"
                               /\ V.name \in {"presentation-received", "done"} /\ V.ack
      [] t = "problem-report" -> data[a].name \in Waiting(a) /\ data[Peer(a)].name = "abandoned"
      [] OTHER -> FALSE

\* ... when a goroutine has come to the state it is at, ...
GivesUpFrom(a) == IF a = Prover THEN {"start", "proposal-sent", "request-received"}
                  ELSE {"start", "request-sent", "proposal-received"}
Opens(a, me) == me.type = "none" /\ me.opt = Opening /\ P.name = "start" /\ V.name = "start"
FitsState(a, me) ==
    CASE me.at = "request-received"      -> me.type \in Requests /\ Fits(a, me.type)
      [] me.at = "proposal-received"     -> me.type = "propose" /\ Fits(a, me.type)
      [] me.at = "presentation-received" -> me.type = "presentation" /\ Fits(a, me.type)
      [] me.at = "presentation-sent" ->
            /\ a = Prover /\ me.type \in Requests /\ P.name = "request-received"
            /\ V.name = "request-sent" /\ V.ack = WillConfirm(me.type)
      [] me.at = "proposal-sent" ->
            /\ a = Prover
            /\ \/ me.type \in Requests /\ P.name = "request-received" /\ V.name = "request-sent"
               \/ Opens(a, me) /\ Opening = "propose"
      [] me.at = "request-sent" ->
            /\ a = Verifier
            /\ \/ me.type = "propose" /\ V.name = "proposal-received" /\ P.name = "proposal-sent"
               \/ Opens(a, me) /\ Opening \in Requests
      [] me.at = "done" -> me.type = "ack" /\ Fits(a, "ack")
      [] me.at = "abandoned" ->
            \/ me.type = "problem-report" /\ Fits(a, me.type)
            \/ /\ me.type \in EventTypes \ {"problem-report"} /\ me.abandons
               /\ data[a].name \in GivesUpFrom(a) /\ data[Peer(a)].name \in Waiting(Peer(a))
      [] OTHER -> FALSE

\* ... when it has executed that state, ...
Leads(me) ==
    CASE me.at = "request-received"  -> me.next \in {"presentation-sent", "proposal-sent"} /\ me.out = "none"
      [] me.at = "proposal-received" -> me.next = "request-sent" /\ me.out = "none"
      [] me.at = "presentation-received" -> me.next = "done" /\ me.out = Confirm(me)
      [] me.at = "presentation-sent" -> /\ me.next = (IF WillConfirm(me.type) THEN "noop" ELSE "done")
                                        /\ me.out = "presentation"
      [] me.at = "proposal-sent" -> me.next = "noop" /\ me.out = "propose" /\ me.opt = "propose"
      [] me.at = "request-sent"  -> me.next = "noop" /\ me.out = me.opt /\ me.opt \in Requests
      [] me.at = "done"          -> me.next = "noop" /\ me.out = "none"
      [] me.at = "abandoned"     -> me.next = "noop" /\ me.out = Report(me)
      [] OTHER -> FALSE
Remembers(a, me) ==
    me.ack = IF me.pc = "save" /\ me.at = "request-sent" THEN Promise(me) ELSE data[a].ack

\* ... when it is about to send what follows from it, ...
FitsAct(a, me) ==
    /\ Fits(Peer(a), me.out)
    /\ me.at = "presentation-sent" => /\ a = Prover /\ me.type \in Requests
                                      /\ V.ack = WillConfirm(me.type)
    /\ me.at = "presentation-received" => a = Verifier /\ me.type = "presentation" /\ V.ack

\* ... and when it goes on to done with nobody waiting for it.
FitsTrail(a, me) ==
    /\ me.pc \in {"execute", "save"} /\ P.name \in Sent
    /\ \/ a = Prover /\ ~ V.ack /\ me.type \in Requests
       \/ a = Verifier /\ V.name \in {"presentation-received", "done"} /\ me.type = "presentation"

FitsWorker(a, w, me) ==
    /\ me.pc \in {"payload", "event", "delete", "push"} => me.at = NextState(me.type)
    /\ me.pc \in {"payload", "push"} => Fits(a, me.type)
    /\ Busy(me) => Remembers(a, me)
    /\ me.pc \in {"save", "act"} => Leads(me)
    /\ Trails(me) => FitsTrail(a, me)
    /\ me.pc \in {"execute", "save"} /\ ~ Trails(me) => FitsState(a, me)
    /\ me.pc = "act" => FitsAct(a, me)
    /\ me.pc \in {"execute", "save", "act"} /\ me.type \in EventTypes => w = Listener
    /\ me.pc # "idle" /\ me.opt = "propose" /\ me.type # "none" => rounds > 0
    /\ me.abandons => me.at = "abandoned"
Steps ==
    /\ \A a \in Agents, t \in Types : InNet(a, t) => Fits(a, t)
    /\ \A a \in Agents : InStore(a) => Fits(a, payload[a].type) /\ payload[a].ack = data[a].ack
    /\ \A a \in Agents, w \in Workers : FitsWorker(a, w, workers[a][w])
    /\ ~ P.ack
    /\ ~ opened => /\ \A a \in Agents : data[a] = [name |-> "start", ack |-> FALSE]
                   /\ \A a \in Agents, w \in Workers : ~ Trails(workers[a][w])

\* A prover that waits with no ack promised is on its way to done, if it was not restarted.
Waits ==
    /\ crashes = 0 /\ P.name = "presentation-sent" /\ ~ V.ack /\ V.name # "abandoned"
    => LET me == workers[Prover][Listener]
       IN  (me.pc = "act" /\ me.at = "presentation-sent") \/ Trails(me)

OrderlyInv == TypeOK /\ OneTurn /\ OneClaim /\ Steps /\ Waits
Turns      == OneTurn' /\ OneClaim' /\ Steps' /\ Waits'

\* Moving one worker leaves the others where they are.
LEMMA MovedWorker ==
    ASSUME TypeOK, NEW a \in Agents, NEW w \in Workers, NEW x, Goto(a, w, x)
    PROVE  \A b \in Agents, v \in Workers :
              workers'[b][v] = IF b = a /\ v = w THEN x ELSE workers[b][v]
  BY DEF TypeOK, Goto

\* The listener is a goroutine of its own.
LEMMA ListenerWorks ==
    Listener \in Workers /\ \A w \in Handlers : w \in Workers /\ w # Listener
  BY PartiesAssumption DEF Workers

\* There are two agents, each the other's peer.
LEMMA Peers ==
    /\ Prover \in Agents /\ Verifier \in Agents /\ Prover # Verifier
    /\ Peer(Prover) = Verifier /\ Peer(Verifier) = Prover
    /\ \A a \in Agents : a = Prover \/ a = Verifier
  BY PartiesAssumption DEF Peer, Agents

\* While nothing is stored, what fits goes on to fit.
LEMMA FitsStay ==
    ASSUME UNCHANGED data, rounds > 0 => rounds' > 0
    PROVE  /\ \A b, t : Fits(b, t) => Fits(b, t)'
           /\ \A b, v, me : FitsWorker(b, v, me) => FitsWorker(b, v, me)'
  <1>1. \A b, t : Fits(b, t) => Fits(b, t)'
    BY DEF Fits, P, V
  <1>2. \A b, me : FitsState(b, me) => FitsState(b, me)'
    BY <1>1 DEF FitsState, Opens, P, V
  <1>3. \A b, me : FitsAct(b, me) => FitsAct(b, me)'
    BY <1>1 DEF FitsAct, P, V
  <1>4. \A b, me : FitsTrail(b, me) => FitsTrail(b, me)'
    BY DEF FitsTrail, P, V
  <1>5. \A b, v, me : FitsWorker(b, v, me) => FitsWorker(b, v, me)'
    BY <1>1, <1>2, <1>3, <1>4 DEF FitsWorker, Remembers
  <1> QED
    BY <1>1, <1>5

\* An idle worker fits everywhere.
LEMMA IdleFits == \A a, w : FitsWorker(a, w, IdleWorker)
  BY DEF FitsWorker, IdleWorker, Busy, Trails

\* A step that stores nothing: what fitted fits, and the worker that moves and the mail
\* that is there afterwards have to fit.
LEMMA QuietSteps ==
    ASSUME OrderlyInv, UNCHANGED data, rounds > 0 => rounds' > 0, opened' \/ UNCHANGED opened,
           NEW a \in Agents, NEW w \in Workers, NEW x, Goto(a, w, x), FitsWorker(a, w, x),
           ~ opened' => ~ Trails(x),
           \A b \in Agents, t \in Types : net'[b][t] > 0 => Fits(b, t),
           \A b \in Agents : payload'[b] # None =>
              Fits(b, payload'[b].type) /\ payload'[b].ack = data[b].ack
    PROVE  Steps'
  <1>1. \A b \in Agents, v \in Workers : FitsWorker(b, v, workers'[b][v])
    BY MovedWorker DEF OrderlyInv, Steps
  <1>2. \A b \in Agents, v \in Workers : FitsWorker(b, v, workers[b][v])'
    BY <1>1, FitsStay
  <1>3. ~ opened' => \A b \in Agents, v \in Workers : ~ Trails(workers'[b][v])
    BY MovedWorker DEF OrderlyInv, Steps
  <1>4. (\A b \in Agents, t \in Types : InNet(b, t) => Fits(b, t))'
    BY FitsStay DEF InNet
  <1>5. (\A b \in Agents : InStore(b) => Fits(b, payload[b].type) /\ payload[b].ack = data[b].ack)'
    BY FitsStay DEF InStore
  <1> QED
    BY <1>2, <1>3, <1>4, <1>5 DEF OrderlyInv, Steps, P

\* A step that sends and takes nothing keeps what the messages and payloads need.
LEMMA SameMail ==
    ASSUME OrderlyInv, UNCHANGED <<net, payload>>
    PROVE  /\ \A b \in Agents, t \in Types : net'[b][t] > 0 => Fits(b, t)
           /\ \A b \in Agents : payload'[b] # None =>
                 Fits(b, payload'[b].type) /\ payload'[b].ack = data[b].ack
  BY DEF OrderlyInv, Steps, InNet, InStore

\* Nor does it keep a prover waiting if the listener has not moved, ...
LEMMA QuietWaits ==
    ASSUME OrderlyInv, UNCHANGED <<data, crashes>>,
           workers'[Prover][Listener] = workers[Prover][Listener]
    PROVE  Waits'
  BY DEF OrderlyInv, Waits, P, V

\* ... as when a handler moves, or the verifier's listener.
LEMMA OtherWaits ==
    ASSUME OrderlyInv, UNCHANGED <<data, crashes>>, NEW a \in Agents, NEW w \in Workers, NEW x,
           Goto(a, w, x), a # Prover \/ w # Listener
    PROVE  Waits'
  BY MovedWorker, QuietWaits, Peers, ListenerWorks DEF OrderlyInv

\* One lemma per action: the turn is passed on, and what has it fits.
LEMMA HandleOutboundTurn ==
    ASSUME OrderlyInv, NEW w \in Handlers, HandleOutbound(w)
    PROVE  Turns
  <1>1. Opener \in Agents /\ w \in Workers /\ w # Listener
    BY ListenerWorks DEF Opener, Agents
  <1>2. PICK x : x = [IdleWorker EXCEPT !.pc = "execute", !.at = OpeningState, !.opt = Opening]
    OBVIOUS
  <1>3. /\ x.pc = "execute" /\ x.at = OpeningState /\ x.opt = Opening /\ x.type = "none"
        /\ x.ack = FALSE /\ x.abandons = FALSE
    BY <1>2 DEF IdleWorker
  <1>4. Goto(Opener, w, x) /\ UNCHANGED <<data, payload, net, events, rounds, crashes>>
        /\ opened' /\ ~ opened
    BY <1>2 DEF HandleOutbound
  <1>5. \A b \in Agents, v \in Workers :
              workers'[b][v] = IF b = Opener /\ v = w THEN x ELSE workers[b][v]
    BY <1>1, <1>4, MovedWorker DEF OrderlyInv
  <1>6. \A b \in Agents : data[b].name = "start" /\ data[b].ack = FALSE
    BY <1>4 DEF OrderlyInv, Steps
  <1>7. OpeningState # "done" /\ Busy(x) /\ ~ Trails(x)
    BY <1>3 DEF Busy, Trails, OpeningState
  <1>8. FitsState(Opener, x)
    BY <1>1, <1>3, <1>6, Peers, PartiesAssumption
    DEF FitsState, Opens, OpeningState, Opener, Requests, P, V
  <1>9. FitsWorker(Opener, w, x)
    BY <1>1, <1>3, <1>6, <1>7, <1>8 DEF FitsWorker, Remembers, EventTypes, Types, Requests
  <1>10. OneTurn'
    BY <1>1, <1>4, <1>5, <1>7 DEF OneTurn, OrderlyInv, InNet, InStore, InHand
  <1>11. OneClaim'
    BY <1>1, <1>3, <1>4, <1>5, ListenerWorks DEF OneClaim, OrderlyInv, Claims
  <1>12. Steps'
    BY <1>1, <1>4, <1>9, SameMail, QuietSteps
  <1>13. Waits'
    BY <1>1, <1>4, OtherWaits
  <1> QED
    BY <1>10, <1>11, <1>12, <1>13 DEF Turns
\* A message that fits is one its receiver's state takes, or the report a prover that
\* is done refuses.
LEMMA FitsIsTaken ==
    ASSUME NEW a \in Agents, NEW t \in Types, Fits(a, t)
    PROVE  \/ CanTransitionTo(data[a].name, NextState(t))
           \/ a = Prover /\ t = "problem-report" /\ data[a].name = "done"
  BY Peers DEF Fits, Waiting, Sent, P, V, CanTransitionTo, NextState, Types, Requests

LEMMA HandleInboundTurn ==
    ASSUME OrderlyInv, Orderly, NEW a \in Agents, NEW w \in Handlers, NEW t \in Types,
           HandleInbound(a, w, t)
    PROVE  Turns
  <1>1. w \in Workers /\ w # Listener /\ UNCHANGED <<data, payload, events, opened, rounds, crashes>>
        /\ workers[a][w].pc = "idle"
    BY ListenerWorks DEF HandleInbound
  <1>2. net[a][t] > 0 /\ net' = [net EXCEPT ![a][t] = net[a][t] - 1]
    BY LimitsAssumption DEF HandleInbound, Deliver, Orderly, OrderlyInv, TypeOK
  <1>3. \A b \in Agents, u \in Types : net'[b][u] = 0
    <2>1. net[a][t] = 1 /\ net \in [Agents -> [Types -> Nat]]
      BY <1>2 DEF OrderlyInv, OneTurn, TypeOK
    <2>2. \A b \in Agents, u \in Types : net'[b][u] = IF b = a /\ u = t THEN 0 ELSE net[b][u]
      BY <1>2, <2>1
    <2>3. \A b \in Agents, u \in Types : net[b][u] > 0 => b = a /\ u = t
      BY <1>2 DEF OrderlyInv, OneTurn, InNet
    <2> QED
      BY <2>1, <2>2, <2>3
  <1>4. Fits(a, t) /\ opened
    BY <1>2 DEF OrderlyInv, OneTurn, Steps, InNet
  <1>5. \A b \in Agents : payload[b] = None /\ \A v \in Workers : ~ InHand(b, v)
    BY <1>2 DEF OrderlyInv, OneTurn, InNet, InStore
  <1>6. CASE UNCHANGED workers
    <2>1. OneTurn'
      BY <1>1, <1>3, <1>4, <1>5, <1>6 DEF OneTurn, InNet, InStore, InHand
    <2>2. OneClaim'
      BY <1>1, <1>6 DEF OneClaim, OrderlyInv, Claims
    <2>3. Steps'
      BY <1>1, <1>3, <1>4, <1>5, <1>6, FitsStay DEF OrderlyInv, Steps, InNet, InStore, P
    <2>4. Waits'
      BY <1>1, <1>6, QuietWaits
    <2> QED
      BY <2>1, <2>2, <2>3, <2>4 DEF Turns
  <1>7. CASE ~ UNCHANGED workers
    <2>1. PICK x : x = [IdleWorker EXCEPT !.type = t, !.ack = data[a].ack, !.at = NextState(t),
                           !.pc = IF CanTriggerActionEvents(t) THEN "payload" ELSE "execute"]
      OBVIOUS
    <2>2. /\ x.pc = (IF t = "ack" THEN "execute" ELSE "payload") /\ x.type = t /\ x.at = NextState(t)
          /\ x.ack = data[a].ack /\ x.opt = "none" /\ x.abandons = FALSE
      BY <2>1 DEF IdleWorker, CanTriggerActionEvents
    <2>3. Goto(a, w, x)
      BY <1>7, <2>1 DEF HandleInbound, CanTriggerActionEvents
    <2>4. Busy(x) /\ ~ Trails(x)
      BY <2>2 DEF Busy, Trails, NextState, Types
    <2>5. t = "ack" => x.at = "done"
      BY <2>2 DEF NextState, Requests
    <2>6. FitsWorker(a, w, x)
      BY <1>4, <2>2, <2>4, <2>5 DEF FitsWorker, FitsState, Remembers, EventTypes, CanTriggerActionEvents
    <2>7. \A b \in Agents, v \in Workers :
                workers'[b][v] = IF b = a /\ v = w THEN x ELSE workers[b][v]
      BY <1>1, <2>3, MovedWorker DEF OrderlyInv
    <2>8. OneTurn'
      BY <1>1, <1>3, <1>4, <1>5, <2>4, <2>7 DEF OneTurn, InNet, InStore, InHand
    <2>9. OneClaim'
      BY <1>1, <2>2, <2>7, ListenerWorks DEF OneClaim, OrderlyInv, Claims
    <2>10. Steps'
      BY <1>1, <1>3, <1>4, <1>5, <2>3, <2>4, <2>6, QuietSteps
    <2>11. Waits'
      BY <1>1, <2>3, OtherWaits
    <2> QED
      BY <2>8, <2>9, <2>10, <2>11 DEF Turns
  <1> QED
    BY <1>6, <1>7

LEMMA SavePayloadTurn ==
    ASSUME OrderlyInv, NEW a \in Agents, NEW w \in Workers, SaveTransitionalPayload(a, w)
    PROVE  Turns
  <1> DEFINE me == workers[a][w]
  <1>1. PICK x : x = [me EXCEPT !.pc = "event"]
    OBVIOUS
  <1>2. me.pc = "payload" /\ UNCHANGED <<data, net, events, opened, rounds, crashes>>
        /\ Goto(a, w, x) /\ payload' = [payload EXCEPT ![a] = Holding(me)]
    BY <1>1 DEF SaveTransitionalPayload, used
  <1>3. me \in Worker /\ me.type \in EventTypes /\ w # Listener /\ FitsWorker(a, w, me)
    BY <1>2 DEF OrderlyInv, TypeOK, WorkerOK, OneClaim, Steps
  <1>4. x.pc = "event" /\ x.at = me.at /\ x.type = me.type /\ x.opt = me.opt
        /\ x.abandons = me.abandons /\ Holding(x) = Holding(me)
    BY <1>1, <1>3 DEF Worker, Holding
  <1>5. me.at = NextState(me.type) /\ me.at # "done" /\ Fits(a, me.type) /\ me.ack = data[a].ack
    BY <1>2, <1>3 DEF FitsWorker, Busy, Remembers, NextState, EventTypes, CanTriggerActionEvents, Types
  <1>6. InHand(a, w)
    BY <1>2, <1>5 DEF InHand, Busy, Trails
  <1>7. \A b \in Agents, v \in Workers :
              workers'[b][v] = IF b = a /\ v = w THEN x ELSE workers[b][v]
    BY <1>2, MovedWorker DEF OrderlyInv
  <1>8. \A b \in Agents : payload[b] = None /\ payload'[b] = IF b = a THEN Holding(me) ELSE None
    BY <1>2, <1>6 DEF OrderlyInv, OneTurn, InStore, TypeOK
  <1>9. opened /\ (\A b \in Agents, t \in Types : ~ InNet(b, t))
        /\ (\A b \in Agents, v \in Workers : InHand(b, v) => b = a /\ v = w)
    BY <1>6 DEF OrderlyInv, OneTurn
  <1>10. \A h \in Held : h # None
    BY DEF Held, None, EventTypes, Types, Requests
  <1>11. \A b \in Agents, v \in Workers : ~ Claims(b, v)
    <2>1. \A b \in Agents, v \in Workers : Claims(b, v) => workers[b][v].type \in EventTypes
      BY DEF OrderlyInv, TypeOK, WorkerOK, Claims
    <2>2. None.type \notin EventTypes
      BY DEF None, EventTypes, Types, Requests
    <2>3. \A y : Holding(y).type = y.type
      BY DEF Holding
    <2> QED
      BY <1>8, <2>1, <2>2, <2>3 DEF OrderlyInv, OneClaim
  <1>12. \A b \in ByEvent, h \in Held : b \in Agents => ~ (events[b][h] > 0)
    BY <1>8, <1>10 DEF OrderlyInv, OneClaim
  <1>13. OneTurn'
    BY <1>2, <1>4, <1>7, <1>8, <1>9 DEF OneTurn, OrderlyInv, InNet, InStore, InHand, Busy
  <1>14. OneClaim'
    BY <1>2, <1>3, <1>4, <1>7, <1>8, <1>11, <1>12, ListenerWorks DEF OneClaim, OrderlyInv, Claims
  <1>15. Steps'
    <2>1. FitsWorker(a, w, x) /\ ~ Trails(x)
      BY <1>3, <1>4, <1>5, <1>2 DEF FitsWorker, Busy, Trails
    <2>2. Holding(me).type = me.type /\ Holding(me).ack = me.ack
      BY DEF Holding
    <2> QED
      BY <1>2, <1>5, <1>8, <1>9, <2>1, <2>2, QuietSteps DEF InNet
  <1>16. Waits'
    BY <1>2, <1>3, OtherWaits
  <1> QED
    BY <1>13, <1>14, <1>15, <1>16 DEF Turns

LEMMA SendActionEventTurn ==
    ASSUME OrderlyInv, NEW a \in Agents, NEW w \in Workers, SendActionEvent(a, w)
    PROVE  Turns
  <1> DEFINE me == workers[a][w]
             h  == Holding(me)
  <1>1. me.pc = "event" /\ UNCHANGED <<data, payload, net, opened, rounds, crashes>>
        /\ Goto(a, w, IdleWorker)
    BY DEF SendActionEvent, used, Idle
  <1>2. h \in Held /\ w # Listener
    BY <1>1 DEF OrderlyInv, OneClaim, TypeOK, WorkerOK, Worker, Holding, Held
  <1>3. \A b \in Agents, g \in Held :
           events'[b][g] = IF b = a /\ g = h THEN events[a][g] + 1 ELSE events[b][g]
    BY <1>2 DEF SendActionEvent, OrderlyInv, TypeOK
  <1>4. \A b \in Agents, v \in Workers :
              workers'[b][v] = IF b = a /\ v = w THEN IdleWorker ELSE workers[b][v]
    BY <1>1, MovedWorker DEF OrderlyInv
  <1>5. OneTurn'
    BY <1>1, <1>4 DEF OneTurn, OrderlyInv, InNet, InStore, InHand, IdleWorker, Busy
  <1>6. OneClaim'
    <2>1. ASSUME a \in ByEvent
          PROVE  /\ payload[a] = h /\ \A g \in Held : events[a][g] = 0
                 /\ \A v \in Workers : ~ Claims(a, v)'
      <3>1. Claims(a, w)
        BY <1>1, <2>1 DEF Claims
      <3>2. \A g \in Held : events[a][g] \in Nat /\ ~ (events[a][g] > 0)
        BY <2>1, <3>1 DEF OrderlyInv, OneClaim, TypeOK
      <3> QED
        BY <1>4, <3>1, <3>2 DEF OrderlyInv, OneClaim, Claims, IdleWorker
    <2>2. \A b \in Agents, v \in Workers : Claims(b, v)' => Claims(b, v) /\ workers'[b][v] = workers[b][v]
      BY <1>4 DEF Claims, IdleWorker
    <2>3. \A b \in Agents :
             /\ \A v, u \in Workers : Claims(b, v)' /\ Claims(b, u)' => v = u
             /\ \A v \in Workers : Claims(b, v)' => payload'[b] = Holding(workers'[b][v])
             /\ workers'[b][Listener].pc \notin {"payload", "event", "delete", "push"}
      BY <1>1, <1>4, <2>2, ListenerWorks DEF OrderlyInv, OneClaim, IdleWorker
    <2>4. ASSUME NEW b \in Agents, b \in ByEvent, NEW g \in Held, events'[b][g] > 0
          PROVE  events'[b][g] = 1 /\ payload'[b] = g /\ \A v \in Workers : ~ Claims(b, v)'
      <3>1. CASE b = a
        BY <1>1, <1>3, <2>1, <2>4, <3>1
      <3>2. CASE b # a
        BY <1>1, <1>3, <2>2, <2>4, <3>2 DEF OrderlyInv, OneClaim
      <3> QED
        BY <3>1, <3>2
    <2> QED
      BY <2>3, <2>4 DEF OneClaim
  <1>7. Steps'
    <2>1. ~ Trails(IdleWorker)
      BY DEF Trails, Busy, IdleWorker
    <2> QED
      BY <1>1, <2>1, IdleFits, SameMail, QuietSteps
  <1>8. Waits'
    BY <1>1, <1>2, OtherWaits
  <1> QED
    BY <1>5, <1>6, <1>7, <1>8 DEF Turns
LEMMA DeleteTurn ==
    ASSUME OrderlyInv, NEW a \in Agents, NEW w \in Workers, DeleteTransitionalPayload(a, w)
    PROVE  Turns
  <1> DEFINE me == workers[a][w]
  <1>1. PICK x : x = [me EXCEPT !.pc = "push"]
    OBVIOUS
  <1>2. me.pc = "delete" /\ UNCHANGED <<data, net, events, opened, rounds, crashes>>
        /\ Goto(a, w, x) /\ payload' = [payload EXCEPT ![a] = None]
    BY <1>1 DEF DeleteTransitionalPayload, used
  <1>3. Claims(a, w) /\ w # Listener /\ payload[a] = Holding(me)
    BY <1>2 DEF Claims, OrderlyInv, OneClaim
  <1>4. me \in Worker /\ me.type \in EventTypes /\ me.at = NextState(me.type) /\ FitsWorker(a, w, me)
    BY <1>2 DEF OrderlyInv, TypeOK, WorkerOK, Steps, FitsWorker
  <1>5. x.pc = "push" /\ x.at = me.at /\ x.type = me.type /\ x.opt = me.opt /\ x.ack = me.ack
        /\ x.abandons = me.abandons
    BY <1>1, <1>4 DEF Worker
  <1>6. \A b \in Agents, v \in Workers :
              workers'[b][v] = IF b = a /\ v = w THEN x ELSE workers[b][v]
    BY <1>2, MovedWorker DEF OrderlyInv
  <1>7. Holding(me).type = me.type /\ Holding(me).ack = me.ack /\ Holding(me) # None
    BY <1>4 DEF Holding, None, EventTypes, Types, Requests
  <1>8. InStore(a) /\ Fits(a, me.type) /\ me.ack = data[a].ack
    BY <1>3, <1>7 DEF InStore, OrderlyInv, Steps
  <1>9. opened /\ (\A b \in Agents, t \in Types : ~ InNet(b, t))
        /\ (\A b \in Agents, v \in Workers : ~ InHand(b, v))
        /\ \A b \in Agents : payload[b] = IF b = a THEN Holding(me) ELSE None
    BY <1>3, <1>8 DEF OrderlyInv, OneTurn, InStore
  <1>10. \A b \in Agents : payload'[b] = None
    BY <1>2, <1>9 DEF OrderlyInv, TypeOK
  <1>11. \A b \in Agents, v \in Workers : Claims(b, v) => b = a /\ v = w
    <2>1. \A b \in Agents, v \in Workers : Claims(b, v) => workers[b][v].type \in EventTypes
      BY DEF OrderlyInv, TypeOK, WorkerOK, Claims
    <2>2. None.type \notin EventTypes
      BY DEF None, EventTypes, Types, Requests
    <2>3. \A y : Holding(y).type = y.type
      BY DEF Holding
    <2> QED
      BY <1>3, <1>9, <2>1, <2>2, <2>3 DEF OrderlyInv, OneClaim
  <1>12. OneTurn'
    BY <1>2, <1>6, <1>9, <1>10 DEF OrderlyInv, OneTurn, InNet, InStore, InHand
  <1>13. OneClaim'
    <2>1. \A b \in Agents, v \in Workers : ~ Claims(b, v)'
      BY <1>5, <1>6, <1>11 DEF Claims
    <2>2. \A b \in Agents, h \in Held : b \in ByEvent => ~ (events[b][h] > 0)
      <3>1. \A h \in Held : h # None
        BY DEF Held, None, EventTypes, Types, Requests
      <3> QED
        BY <1>3, <1>9, <3>1 DEF OrderlyInv, OneClaim
    <2>3. \A b \in Agents : workers'[b][Listener].pc \notin {"payload", "event", "delete", "push"}
      BY <1>3, <1>6, ListenerWorks DEF OrderlyInv, OneClaim
    <2> QED
      BY <1>2, <2>1, <2>2, <2>3 DEF OneClaim
  <1>14. Steps'
    <2>1. x.at # "done"
      BY <1>4, <1>5 DEF NextState, EventTypes, CanTriggerActionEvents, Types
    <2>2. FitsWorker(a, w, x) /\ ~ Trails(x)
      BY <1>2, <1>4, <1>5, <1>8, <2>1 DEF FitsWorker, Busy, Trails, Remembers
    <2> QED
      BY <1>2, <1>9, <1>10, <2>2, QuietSteps DEF InNet
  <1>15. Waits'
    BY <1>2, <1>3, OtherWaits
  <1> QED
    BY <1>12, <1>13, <1>14, <1>15 DEF Turns

\* Either answer takes the one claim there is, and leaves the payload where it is.
LEMMA AnswerTurn ==
    ASSUME OrderlyInv, Orderly, NEW a \in Agents, NEW w \in Handlers,
           AnswerAction(a, w) \/ \E h \in Held : AnswerEvent(a, w, h)
    PROVE  Turns
  <1>1. PICK h : /\ Decide(a, w, h) /\ h \in Held /\ payload[a] = h
                 /\ \A v \in Workers : ~ Claims(a, v)
                 /\ \A b \in Agents, g \in Held : b \in ByEvent => events'[b][g] =
                       IF b = a /\ g = h THEN 0 ELSE events[b][g]
    <2>1. CASE AnswerAction(a, w)
      <3>1. Decide(a, w, payload[a]) /\ payload[a] # None /\ a \notin ByEvent /\ UNCHANGED events
        BY <2>1 DEF AnswerAction
      <3>2. \A v \in Handlers : workers[a][v].pc # "delete"
        BY <2>1, LimitsAssumption DEF AnswerAction, Orderly, OrderlyInv, TypeOK
      <3>3. \A v \in Workers : ~ Claims(a, v)
        BY <3>1, <3>2 DEF Claims, Workers, OrderlyInv, OneClaim
      <3> QED
        BY <3>1, <3>3 DEF OrderlyInv, TypeOK
    <2>2. CASE \E h \in Held : AnswerEvent(a, w, h)
      <3>1. PICK h \in Held : AnswerEvent(a, w, h)
        BY <2>2
      <3>2. a \in ByEvent /\ events[a][h] > 0 /\ events' = [events EXCEPT ![a][h] = events[a][h] - 1]
            /\ Decide(a, w, h)
        BY <3>1 DEF AnswerEvent
      <3>3. events[a][h] = 1 /\ payload[a] = h /\ \A v \in Workers : ~ Claims(a, v)
        BY <3>2 DEF OrderlyInv, OneClaim
      <3>4. \A b \in Agents, g \in Held : events'[b][g] = IF b = a /\ g = h THEN 0 ELSE events[b][g]
        BY <3>2, <3>3 DEF OrderlyInv, TypeOK
      <3> QED
        BY <3>2, <3>3, <3>4
    <2> QED
      BY <2>1, <2>2
  <1>2. PICK opt, x : /\ Goto(a, w, x) /\ rounds' = IF opt = "propose" THEN rounds + 1 ELSE rounds
                      /\ x.pc = "delete" /\ x.type = h.type /\ x.ack = h.ack /\ x.opt = opt
                      /\ x.at = NextState(h.type) /\ x.abandons = FALSE
    <2> DEFINE X(opt, stop) == [IdleWorker EXCEPT
                    !.pc = "delete", !.type = h.type, !.ack = h.ack,
                    !.opt = opt, !.stop = stop, !.at = NextState(h.type)]
    <2>1. PICK opt \in Offers(h.type), stop \in BOOLEAN :
             /\ stop => opt = "none"
             /\ rounds' = IF opt = "propose" THEN rounds + 1 ELSE rounds
             /\ Goto(a, w, X(opt, stop))
      BY <1>1, Zenon DEF Decide
    <2>2. PICK x : x = X(opt, stop)
      OBVIOUS
    <2>3. /\ x.pc = "delete" /\ x.type = h.type /\ x.ack = h.ack /\ x.opt = opt
          /\ x.at = NextState(h.type) /\ x.abandons = FALSE
      BY <2>2 DEF IdleWorker
    <2> HIDE DEF X
    <2> QED
      BY <2>1, <2>2, <2>3
  <1>3. UNCHANGED <<data, payload, net, opened, crashes>> /\ workers[a][w].pc = "idle"
        /\ w \in Workers /\ w # Listener
    BY <1>1, ListenerWorks DEF Decide
  <1>4. \A b \in Agents, v \in Workers :
              workers'[b][v] = IF b = a /\ v = w THEN x ELSE workers[b][v]
    BY <1>2, <1>3, MovedWorker DEF OrderlyInv
  <1>5. OneTurn'
    BY <1>2, <1>3, <1>4 DEF OneTurn, OrderlyInv, InNet, InStore, InHand, Busy
  <1>6. OneClaim'
    <2>1. \A v \in Workers : Claims(a, v)' => v = w
      BY <1>1, <1>4 DEF Claims
    <2>2. \A b \in Agents, v \in Workers :
              b # a => (Claims(b, v)' <=> Claims(b, v)) /\ workers'[b][v] = workers[b][v]
      BY <1>4 DEF Claims
    <2>3. \A b \in Agents : workers'[b][Listener].pc \notin {"payload", "event", "delete", "push"}
      BY <1>3, <1>4, ListenerWorks DEF OrderlyInv, OneClaim
    <2>4. \A g \in Held : a \in ByEvent => ~ (events'[a][g] > 0)
      BY <1>1 DEF OrderlyInv, OneClaim
    <2>5. Holding(x) = h
      BY <1>1, <1>2 DEF Holding, Held
    <2>6. ASSUME NEW b \in Agents
          PROVE  /\ \A v, u \in Workers : Claims(b, v)' /\ Claims(b, u)' => v = u
                 /\ \A v \in Workers : Claims(b, v)' => payload'[b] = Holding(workers'[b][v])
                 /\ b \in ByEvent => \A g \in Held : events'[b][g] > 0 =>
                       events'[b][g] = 1 /\ payload'[b] = g /\ \A v \in Workers : ~ Claims(b, v)'
      <3>1. CASE b = a
        BY <1>1, <1>3, <1>4, <2>1, <2>4, <2>5, <3>1
      <3>2. CASE b # a
        BY <1>1, <1>3, <2>2, <3>2 DEF OrderlyInv, OneClaim
      <3> QED
        BY <3>1, <3>2
    <2> QED
      BY <2>3, <2>6 DEF OneClaim
  <1>7. rounds \in Nat /\ (rounds > 0 => rounds' > 0) /\ (opt = "propose" => rounds' > 0)
    BY <1>2 DEF OrderlyInv, TypeOK
  <1>8. Steps'
    <2>1. \A b \in Agents, v \in Workers :
             ~ (b = a /\ v = w) => FitsWorker(b, v, workers[b][v])' /\ workers'[b][v] = workers[b][v]
      BY <1>3, <1>4, <1>7, FitsStay DEF OrderlyInv, Steps
    <2>2. FitsWorker(a, w, x)' /\ ~ Trails(x)
      BY <1>2, <1>7 DEF FitsWorker, Busy, Trails
    <2>3. \A b \in Agents, v \in Workers : FitsWorker(b, v, workers[b][v])'
      BY <1>4, <2>1, <2>2
    <2>4. ~ opened => \A b \in Agents, v \in Workers : ~ Trails(workers'[b][v])
      BY <1>4, <2>2 DEF OrderlyInv, Steps
    <2> QED
      BY <1>3, <1>7, <2>3, <2>4, FitsStay DEF OrderlyInv, Steps, InNet, InStore, P
  <1>9. Waits'
    BY <1>2, <1>3, OtherWaits
  <1> QED
    BY <1>5, <1>6, <1>8, <1>9 DEF Turns

\* What a message that fits has come to, the goroutine that takes it may execute or give up.
LEMMA FitsEither ==
    ASSUME NEW a \in Agents, NEW me, me.type \in EventTypes, me.at = NextState(me.type),
           Fits(a, me.type)
    PROVE  /\ FitsState(a, me)
           /\ me.at \in {"request-received", "presentation-received", "proposal-received", "abandoned"}
           /\ \A x : x.type = me.type /\ x.at = "abandoned" /\ x.abandons = TRUE => FitsState(a, x)
  <1>1. me.type \in Requests \cup {"propose", "presentation", "problem-report"}
    BY DEF EventTypes, CanTriggerActionEvents, Types
  <1>2. CASE me.type \in Requests
    BY <1>2, Peers DEF NextState, Fits, FitsState, GivesUpFrom, Waiting, Requests, EventTypes, P, V
  <1>3. CASE me.type = "propose"
    BY <1>3, Peers DEF NextState, Fits, FitsState, GivesUpFrom, Waiting, Requests, EventTypes, P, V
  <1>4. CASE me.type = "presentation"
    BY <1>4, Peers DEF NextState, Fits, FitsState, GivesUpFrom, Waiting, Sent, Requests, EventTypes, P, V
  <1>5. CASE me.type = "problem-report"
    BY <1>5, Peers DEF NextState, Fits, FitsState, Requests
  <1> QED
    BY <1>1, <1>2, <1>3, <1>4, <1>5

LEMMA TakeCallbackTurn ==
    ASSUME OrderlyInv, NEW a \in Agents, NEW w \in Workers, TakeCallback(a, w)
    PROVE  Turns
  <1> DEFINE me == workers[a][w]
  <1>1. PICK x : x = IF me.stop THEN GiveUp(me) ELSE [me EXCEPT !.pc = "execute"]
    OBVIOUS
  <1>2. me.pc = "push" /\ w # Listener /\ workers[a][Listener].pc = "idle"
        /\ UNCHANGED <<data, payload, net, events, opened, rounds, crashes>>
    BY DEF TakeCallback, used
  <1>3. me \in Worker /\ me.type \in EventTypes /\ FitsWorker(a, w, me)
    BY <1>2 DEF OrderlyInv, TypeOK, WorkerOK, Steps
  <1>4. me.at = NextState(me.type) /\ Fits(a, me.type) /\ me.ack = data[a].ack
    BY <1>2, <1>3 DEF FitsWorker, Busy, Remembers
  <1>5. x.pc = "execute" /\ x.type = me.type /\ x.ack = me.ack /\ x.opt = me.opt
        /\ \/ x.at = me.at /\ x.abandons = me.abandons
           \/ x.at = "abandoned" /\ x.abandons = TRUE
    BY <1>1, <1>3 DEF Worker, GiveUp
  <1>6. \A b \in Agents, v \in Workers :
           workers'[b][v] = IF b = a /\ v = Listener THEN x
                            ELSE IF b = a /\ v = w THEN IdleWorker ELSE workers[b][v]
    BY <1>1, <1>2, ListenerWorks DEF TakeCallback, OrderlyInv, TypeOK
  <1>7. FitsState(a, x) /\ x.at # "done"
    <2>1. CASE x.at = me.at
      <3>1. FitsState(a, x)
        BY <1>3, <1>4, <1>5, <2>1, FitsEither
      <3> QED
        BY <1>3, <1>4, <2>1, <3>1, FitsEither
    <2>2. CASE x.at = "abandoned" /\ x.abandons = TRUE
      BY <1>3, <1>4, <1>5, <2>2, FitsEither
    <2> QED
      BY <1>5, <2>1, <2>2
  <1>8. Busy(x) /\ ~ Trails(x) /\ FitsWorker(a, Listener, x)
    BY <1>2, <1>3, <1>4, <1>5, <1>7 DEF FitsWorker, Busy, Trails, Remembers
  <1>9. OneTurn'
    <2>1. InHand(a, w)
      BY <1>2, <1>3, <1>4, FitsEither DEF InHand, Busy, Trails
    <2>2. \A b \in Agents, v \in Workers : InHand(b, v)' => b = a /\ v = Listener
      BY <1>6, <2>1 DEF OrderlyInv, OneTurn, InHand, IdleWorker, Busy
    <2> QED
      BY <1>2, <2>1, <2>2 DEF OrderlyInv, OneTurn, InNet, InStore
  <1>10. OneClaim'
    <2>1. \A b \in Agents, v \in Workers :
             Claims(b, v)' => Claims(b, v) /\ workers'[b][v] = workers[b][v]
      BY <1>5, <1>6 DEF Claims, IdleWorker
    <2>2. \A b \in Agents : workers'[b][Listener].pc \notin {"payload", "event", "delete", "push"}
      BY <1>5, <1>6, ListenerWorks DEF OrderlyInv, OneClaim
    <2> QED
      BY <1>2, <2>1, <2>2 DEF OrderlyInv, OneClaim
  <1>11. Steps'
    <2>1. \A b \in Agents, v \in Workers : FitsWorker(b, v, workers'[b][v])
      BY <1>6, <1>8, IdleFits DEF OrderlyInv, Steps
    <2>2. \A b \in Agents, v \in Workers : FitsWorker(b, v, workers[b][v])'
      BY <1>2, <2>1, FitsStay
    <2>3. ~ opened => \A b \in Agents, v \in Workers : ~ Trails(workers'[b][v])
      BY <1>6, <1>8 DEF OrderlyInv, Steps, Trails, Busy, IdleWorker
    <2> QED
      BY <1>2, <2>2, <2>3, FitsStay DEF OrderlyInv, Steps, InNet, InStore, P
  <1>12. Waits'
    <2>1. a = Prover => ~ (workers[Prover][Listener].pc = "act" \/ Trails(workers[Prover][Listener]))
      BY <1>2 DEF Trails, Busy
    <2>2. CASE a = Prover
      BY <1>2, <2>1, <2>2 DEF OrderlyInv, Waits, P, V
    <2>3. CASE a # Prover
      BY <1>2, <1>6, <2>3, Peers, ListenerWorks, QuietWaits
    <2> QED
      BY <2>2, <2>3
  <1> QED
    BY <1>9, <1>10, <1>11, <1>12 DEF Turns
\* A goroutine that goes on by itself hands the turn to nobody else.
LEMMA GoOn ==
    ASSUME OrderlyInv, NEW a \in Agents, NEW w \in Workers, NEW x, Goto(a, w, x),
           workers[a][w].pc \in {"execute", "save", "act"},
           x.pc \in {"idle", "execute", "save", "act"}, Busy(x) /\ ~ Trails(x) => InHand(a, w),
           UNCHANGED <<payload, net, events, opened>>
    PROVE  OneTurn' /\ OneClaim'
  <1>1. \A b \in Agents, v \in Workers :
              workers'[b][v] = IF b = a /\ v = w THEN x ELSE workers[b][v]
    BY MovedWorker DEF OrderlyInv
  <1>2. \A b \in Agents, v \in Workers : InHand(b, v)' => InHand(b, v)
    BY <1>1 DEF InHand
  <1>3. OneTurn'
    BY <1>2 DEF OrderlyInv, OneTurn, InNet, InStore
  <1>4. \A b \in Agents, v \in Workers :
             Claims(b, v)' => Claims(b, v) /\ workers'[b][v] = workers[b][v]
    BY <1>1 DEF Claims
  <1>5. \A b \in Agents : workers'[b][Listener].pc \notin {"payload", "event", "delete", "push"}
    BY <1>1, ListenerWorks DEF OrderlyInv, OneClaim
  <1> QED
    BY <1>3, <1>4, <1>5 DEF OrderlyInv, OneClaim

\* What a goroutine makes of the state it has come to: it leads on, or gives up.
LEMMA ExecuteLeads ==
    ASSUME NEW a \in Agents, NEW w \in Workers, NEW me \in Worker, me.pc = "execute",
           Trails(me) \/ FitsState(a, me), me.abandons => me.at = "abandoned",
           NEW x, x = Conclude(w, me)
    PROVE  \/ /\ x.pc = "save" /\ x.type = me.type /\ x.at = me.at /\ x.opt = me.opt
              /\ x.abandons = me.abandons /\ Leads(x)
              /\ x.ack = IF me.at = "request-sent" THEN Promise(me) ELSE me.ack
           \/ x = AfterError(w, me) /\ me.at \in {"proposal-sent", "request-sent"} /\ me.type # "none"
  <1>1. ASSUME NEW n, NEW o, NEW y, y = Then(me, n, o)
        PROVE  /\ y.pc = "save" /\ y.type = me.type /\ y.at = me.at /\ y.opt = me.opt
               /\ y.abandons = me.abandons /\ y.next = n /\ y.out = o /\ y.ack = me.ack
    BY <1>1 DEF Then, Worker
  <1>2. (me.at = "done" /\ Trails(me)) \/ FitsState(a, me)
    BY DEF Trails
  <1>3. CASE me.at = "request-received"
    <2>1. PICK n \in {"presentation-sent", "proposal-sent"} : ExecuteState(me) = Then(me, n, "none")
      BY <1>3 DEF ExecuteState
    <2>2. x = Then(me, n, "none")
      BY <1>1, <1>3, <2>1 DEF Conclude, CanTransitionTo
    <2>3. Leads(x)
      BY <1>1, <1>3, <2>2 DEF Leads
    <2> QED
      BY <1>1, <1>3, <2>2, <2>3
  <1>4. CASE me.at = "proposal-received"
    <2>1. ExecuteState(me) = Then(me, "request-sent", "none")
      BY <1>4 DEF ExecuteState
    <2>2. x = Then(me, "request-sent", "none")
      BY <1>1, <1>4, <2>1 DEF Conclude, CanTransitionTo
    <2>3. Leads(x)
      BY <1>1, <1>4, <2>2 DEF Leads
    <2> QED
      BY <1>1, <1>4, <2>2, <2>3
  <1>5. CASE me.at = "presentation-received"
    <2>1. ExecuteState(me) = Then(me, "done", Confirm(me))
      BY <1>5 DEF ExecuteState
    <2>2. x = Then(me, "done", Confirm(me))
      BY <1>1, <1>5, <2>1 DEF Conclude, CanTransitionTo
    <2>3. Leads(x)
      BY <1>1, <1>5, <2>2 DEF Leads, Confirm
    <2> QED
      BY <1>1, <1>5, <2>2, <2>3
  <1>6. CASE me.at = "presentation-sent"
    <2>1. PICK n : ExecuteState(me) = Then(me, n, "presentation")
                   /\ n = IF WillConfirm(me.type) THEN "noop" ELSE "done"
      BY <1>6 DEF ExecuteState
    <2>2. x = Then(me, n, "presentation")
      BY <1>1, <1>6, <2>1 DEF Conclude, CanTransitionTo
    <2>3. Leads(x)
      BY <1>1, <1>6, <2>1, <2>2 DEF Leads
    <2> QED
      BY <1>1, <1>6, <2>2, <2>3
  <1>7. CASE me.at = "done"
    <2>1. ExecuteState(me) = Then(me, "noop", "none")
      BY <1>7 DEF ExecuteState
    <2>2. x = Then(me, "noop", "none")
      BY <1>1, <2>1 DEF Conclude
    <2>3. Leads(x)
      BY <1>1, <1>7, <2>2 DEF Leads
    <2> QED
      BY <1>1, <1>7, <2>2, <2>3
  <1>8. CASE me.at = "abandoned"
    <2>1. ExecuteState(me) = Then(me, "noop", Report(me))
      BY <1>8 DEF ExecuteState
    <2>2. x = Then(me, "noop", Report(me))
      BY <1>1, <2>1 DEF Conclude
    <2>3. Leads(x)
      BY <1>1, <1>8, <2>2 DEF Leads, Report
    <2> QED
      BY <1>1, <1>8, <2>2, <2>3
  <1>9. CASE me.at = "proposal-sent" /\ me.opt = "propose"
    <2>1. ExecuteState(me) = Then(me, "noop", "propose")
      BY <1>9 DEF ExecuteState
    <2>2. x = Then(me, "noop", "propose")
      BY <1>1, <2>1 DEF Conclude
    <2>3. Leads(x)
      BY <1>1, <1>9, <2>2 DEF Leads
    <2> QED
      BY <1>1, <1>9, <2>2, <2>3
  <1>10. CASE me.at = "request-sent" /\ me.opt \in Requests
    <2>1. PICK y : y = [me EXCEPT !.ack = Promise(me)]
      OBVIOUS
    <2>2. ExecuteState(me) = Then(y, "noop", me.opt)
      BY <1>10, <2>1 DEF ExecuteState
    <2>3. /\ y \in [pc : PCs, type : Types \cup {"none"}, ack : BOOLEAN, opt : Options, stop : BOOLEAN,
                    abandons : BOOLEAN, at : States, next : Followers, out : Types \cup {"none"}]
          /\ y.type = me.type /\ y.at = me.at /\ y.opt = me.opt /\ y.abandons = me.abandons
          /\ y.ack = Promise(me)
      BY <2>1 DEF Worker, Promise, WillConfirm
    <2>4. PICK z : z = Then(y, "noop", me.opt)
      OBVIOUS
    <2>5. /\ z.pc = "save" /\ z.type = me.type /\ z.at = me.at /\ z.opt = me.opt
          /\ z.abandons = me.abandons /\ z.next = "noop" /\ z.out = me.opt /\ z.ack = Promise(me)
      BY <2>3, <2>4 DEF Then
    <2>6. x = z
      BY <2>2, <2>4, <2>5 DEF Conclude
    <2>7. Leads(x)
      BY <1>10, <2>5, <2>6 DEF Leads
    <2> QED
      BY <1>10, <2>5, <2>6, <2>7
  <1>11. CASE \/ me.at = "proposal-sent" /\ me.opt # "propose"
              \/ me.at = "request-sent" /\ me.opt \notin Requests
    <2>1. ExecuteState(me) = CannotGoOn(me)
      BY <1>11 DEF ExecuteState
    <2>2. CannotGoOn(me).pc = "error"
      BY DEF CannotGoOn, Worker
    <2>3. x = AfterError(w, me)
      BY <2>1, <2>2 DEF Conclude
    <2>4. me.type # "none"
      BY <1>2, <1>11 DEF FitsState, Opens, Requests
    <2> QED
      BY <1>11, <2>3, <2>4
  <1> QED
    BY <1>2, <1>3, <1>4, <1>5, <1>6, <1>7, <1>8, <1>9, <1>10, <1>11 DEF FitsState

\* Where the code gives up, both agents have stored what that takes.
LEMMA GivingUpFits ==
    ASSUME NEW a \in Agents, NEW me, FitsState(a, me), me.type # "none",
           me.at \in {"proposal-sent", "request-sent", "presentation-received"},
           NEW x, x.type = me.type, x.at = "abandoned", x.abandons = TRUE
    PROVE  FitsState(a, x) /\ me.type \in EventTypes
  <1>1. CASE me.at = "proposal-sent"
    BY <1>1, Peers DEF FitsState, Opens, Waiting, GivesUpFrom, EventTypes, CanTriggerActionEvents, Types, Requests, P, V
  <1>2. CASE me.at = "request-sent"
    BY <1>2, Peers DEF FitsState, Opens, Waiting, GivesUpFrom, EventTypes, CanTriggerActionEvents, Types, Requests, P, V
  <1>3. CASE me.at = "presentation-received"
    BY <1>3, Peers DEF FitsState, Fits, Waiting, Sent, GivesUpFrom, EventTypes, CanTriggerActionEvents, Types, Requests, P, V
  <1> QED
    BY <1>1, <1>2, <1>3

\* Neither stores anything, and one that trails goes on trailing.
LEMMA ExecuteTurn ==
    ASSUME OrderlyInv, NEW a \in Agents, NEW w \in Workers, SavePresentation(a, w) \/ Execute(a, w)
    PROVE  Turns
  <1> DEFINE me == workers[a][w]
  <1>1. me.pc = "execute" /\ UNCHANGED <<data, payload, net, events, opened, rounds, crashes>>
    BY DEF SavePresentation, Execute, used
  <1>2. me \in Worker /\ FitsWorker(a, w, me)
    BY DEF OrderlyInv, TypeOK, Steps
  <1>3. /\ Trails(me) => FitsTrail(a, me)
        /\ ~ Trails(me) => FitsState(a, me)
        /\ me.ack = data[a].ack /\ (me.abandons => me.at = "abandoned")
        /\ me.type \in EventTypes => w = Listener
        /\ me.opt = "propose" /\ me.type # "none" => rounds > 0
    BY <1>1, <1>2 DEF FitsWorker, Busy, Remembers
  <1>4. PICK x : /\ Goto(a, w, x)
                 /\ x = Conclude(w, me) \/ (me.at = "presentation-received" /\ x = AfterError(w, me))
    BY DEF SavePresentation, Execute
  <1>5. \/ /\ x.pc = "save" /\ x.type = me.type /\ x.at = me.at /\ x.opt = me.opt
           /\ x.abandons = me.abandons /\ Leads(x)
           /\ x.ack = IF me.at = "request-sent" THEN Promise(me) ELSE me.ack
        \/ x = AfterError(w, me) /\ me.type # "none"
           /\ me.at \in {"proposal-sent", "request-sent", "presentation-received"}
    <2>1. CASE x = Conclude(w, me)
      BY <1>1, <1>2, <1>3, <2>1, ExecuteLeads
    <2>2. CASE x = AfterError(w, me) /\ me.at = "presentation-received"
      <3>1. ~ Trails(me)
        BY <2>2 DEF Trails
      <3> QED
        BY <1>3, <2>2, <3>1 DEF FitsState
    <2> QED
      BY <1>4, <2>1, <2>2
  <1>6. FitsWorker(a, w, x) /\ (Trails(x) <=> Trails(me)) /\ Busy(x) /\ x.pc \in {"execute", "save"}
    <2>1. CASE /\ x.pc = "save" /\ x.type = me.type /\ x.at = me.at /\ x.opt = me.opt
               /\ x.abandons = me.abandons /\ Leads(x)
               /\ x.ack = IF me.at = "request-sent" THEN Promise(me) ELSE me.ack
      <3>1. (Trails(x) <=> Trails(me)) /\ Busy(x)
        BY <1>1, <2>1 DEF Trails, Busy
      <3>2. Trails(x) => FitsTrail(a, x)
        BY <1>3, <2>1, <3>1 DEF FitsTrail
      <3>3. ~ Trails(x) => FitsState(a, x)
        BY <1>3, <2>1, <3>1 DEF FitsState, Opens
      <3>4. Remembers(a, x)
        BY <1>3, <2>1 DEF Remembers, Promise
      <3> QED
        BY <1>2, <1>3, <2>1, <3>1, <3>2, <3>3, <3>4 DEF FitsWorker
    <2>2. CASE x = AfterError(w, me) /\ me.type # "none"
               /\ me.at \in {"proposal-sent", "request-sent", "presentation-received"}
      <3>1. ~ Trails(me) /\ ~ me.abandons
        BY <1>3, <2>2 DEF Trails
      <3>2. PICK y : y = GiveUp(me)
        OBVIOUS
      <3>3. y.pc = "execute" /\ y.type = me.type /\ y.at = "abandoned" /\ y.abandons = TRUE
            /\ y.opt = me.opt /\ y.ack = me.ack
        BY <1>2, <3>2 DEF GiveUp, Worker
      <3>4. FitsState(a, y) /\ me.type \in EventTypes
        BY <1>3, <2>2, <3>1, <3>3, GivingUpFits
      <3>5. x = y
        BY <1>3, <2>2, <3>1, <3>2, <3>4 DEF AfterError
      <3>6. Busy(x) /\ ~ Trails(x)
        BY <3>3, <3>5 DEF Busy, Trails
      <3>7. FitsWorker(a, w, x)
        BY <1>3, <3>3, <3>4, <3>5, <3>6 DEF FitsWorker, Remembers
      <3> QED
        BY <3>1, <3>3, <3>5, <3>6, <3>7
    <2> QED
      BY <1>5, <2>1, <2>2
  <1>7. OneTurn' /\ OneClaim'
    <2>1. ~ Trails(x) => InHand(a, w)
      BY <1>1, <1>6 DEF InHand, Busy
    <2> QED
      BY <1>1, <1>4, <1>6, <2>1, GoOn
  <1>8. Steps'
    <2>1. ~ opened' => ~ Trails(x)
      BY <1>1, <1>6 DEF OrderlyInv, Steps
    <2> QED
      BY <1>1, <1>4, <1>6, <2>1, SameMail, QuietSteps
  <1>9. Waits'
    <2>1. CASE a = Prover /\ w = Listener
      <3>1. workers'[Prover][Listener] = x
        BY <1>4, <2>1, MovedWorker DEF OrderlyInv
      <3> QED
        BY <1>1, <1>6, <2>1, <3>1 DEF OrderlyInv, Waits, P, V
    <2>2. CASE ~ (a = Prover /\ w = Listener)
      BY <1>1, <1>4, <2>2, OtherWaits
    <2> QED
      BY <2>1, <2>2
  <1> QED
    BY <1>7, <1>8, <1>9 DEF Turns
\* What the goroutine that trails behind stores disturbs nobody.
TrailSaved == \/ /\ P.name \in Sent /\ ~ V.ack /\ P'.name = "done" /\ P'.ack = P.ack /\ V' = V
              \/ /\ P.name \in Sent /\ V.name \in {"presentation-received", "done"}
                 /\ V'.name = "done" /\ V'.ack = V.ack /\ P' = P

LEMMA TrailDisturbsNobody ==
    ASSUME TrailSaved, UNCHANGED rounds
    PROVE  /\ \A b \in Agents : \A t : Fits(b, t) => Fits(b, t)'
           /\ \A b \in Agents : \A v, y : FitsWorker(b, v, y) => FitsWorker(b, v, y)'
  <1>1. \A b \in Agents : data'[b].ack = data[b].ack /\ (Peer(b) \in Agents)
    BY Peers DEF TrailSaved, P, V
  <1>2. ASSUME NEW b \in Agents, NEW t, Fits(b, t) PROVE Fits(b, t)'
    <2>1. t \in Requests \cup {"propose", "presentation", "ack", "problem-report"}
      BY <1>2 DEF Fits
    <2>2. CASE t = "problem-report"
      BY <1>2, <2>2, Peers DEF Fits, Waiting, TrailSaved, Sent, Requests, P, V
    <2>3. CASE t = "ack"
      BY <1>2, <2>3, Peers DEF Fits, TrailSaved, Sent, Requests, P, V
    <2>4. CASE t = "presentation"
      BY <1>2, <2>4, Peers DEF Fits, TrailSaved, Sent, Requests, P, V
    <2>5. CASE t \in Requests \cup {"propose"}
      BY <1>2, <2>5, Peers DEF Fits, TrailSaved, Sent, Requests, P, V
    <2> QED
      BY <2>1, <2>2, <2>3, <2>4, <2>5
  <1>3. ASSUME NEW b \in Agents, NEW y, FitsState(b, y) PROVE FitsState(b, y)'
    <2>1. CASE y.at \in {"request-received", "proposal-received", "presentation-received", "done"}
      BY <1>2, <1>3, <2>1 DEF FitsState
    <2>2. CASE y.at \in {"presentation-sent", "proposal-sent", "request-sent"}
      BY <1>3, <2>2 DEF FitsState, Opens, TrailSaved, Sent, P, V
    <2>3. CASE y.at = "abandoned"
      BY <1>2, <1>3, <2>3, Peers DEF FitsState, GivesUpFrom, Waiting, TrailSaved, Sent, P, V
    <2> QED
      BY <1>3, <2>1, <2>2, <2>3 DEF FitsState
  <1>4. ASSUME NEW b \in Agents, NEW y, FitsAct(b, y) PROVE FitsAct(b, y)'
    BY <1>1, <1>2, <1>4 DEF FitsAct, TrailSaved
  <1>5. ASSUME NEW b \in Agents, NEW y, FitsTrail(b, y) PROVE FitsTrail(b, y)'
    BY <1>5 DEF FitsTrail, TrailSaved, Sent
  <1>6. ASSUME NEW b \in Agents, NEW v, NEW y, FitsWorker(b, v, y) PROVE FitsWorker(b, v, y)'
    <2>1. Remembers(b, y) => Remembers(b, y)'
      BY <1>1 DEF Remembers
    <2> QED
      BY <1>2, <1>3, <1>4, <1>5, <1>6, <2>1 DEF FitsWorker
  <1> QED
    BY <1>2, <1>6

\* The goroutine with the turn stores nothing that one trailing behind relies on.
LEMMA TrailIsLeftAlone ==
    ASSUME NEW a \in Agents, NEW me, FitsState(a, me), NEW b \in Agents, NEW y, FitsTrail(b, y), b # a,
           \A c \in Agents : data'[c] = IF c = a THEN [name |-> me.at, ack |-> me.ack] ELSE data[c],
           me.at = "request-sent" \/ me.ack = data[a].ack
    PROVE  FitsTrail(b, y)' /\ data'[b].ack = data[b].ack
  <1>1. CASE a = Prover
    <2>1. P'.name = me.at /\ V' = V
      BY <1>1, Peers DEF P, V
    <2>2. b = Verifier /\ P.name \in Sent /\ V.name \in {"presentation-received", "done"}
      BY <1>1, Peers DEF FitsTrail
    <2>3. me.at = "done"
      <3>1. CASE me.at \in {"request-received", "proposal-received", "presentation-received"}
        BY <1>1, <2>2, <3>1, Peers DEF FitsState, Fits, Requests, Sent
      <3>2. CASE me.at \in {"presentation-sent", "proposal-sent", "request-sent"}
        BY <1>1, <2>2, <3>2, Peers DEF FitsState, Opens, Sent
      <3>3. CASE me.at = "abandoned"
        BY <1>1, <2>2, <3>3, Peers DEF FitsState, Fits, Waiting, GivesUpFrom, Requests, Sent, P, V
      <3> QED
        BY <3>1, <3>2, <3>3 DEF FitsState
    <2> QED
      BY <1>1, <2>1, <2>2, <2>3, Peers DEF FitsTrail, Sent
  <1>2. CASE a = Verifier
    <2>1. V'.ack = me.ack /\ P' = P
      BY <1>2, Peers DEF P, V
    <2>2. b = Prover /\ P.name \in Sent /\ ~ V.ack
      BY <1>2, Peers DEF FitsTrail
    <2>3. me.at # "request-sent"
      BY <1>2, <2>2 DEF FitsState, Opens, Sent
    <2>4. ~ me.ack
      BY <1>2, <2>2, <2>3 DEF V
    <2> QED
      BY <1>2, <2>1, <2>2, <2>4, Peers DEF FitsTrail, Sent
  <1> QED
    BY <1>1, <1>2, Peers
\* What the goroutine with the turn has stored is what it goes on from.
LEMMA StoredFits ==
    ASSUME NEW a \in Agents, NEW me, NEW x, FitsState(a, me), Leads(me), ~ P.ack,
           me.opt = "propose" /\ me.type # "none" => rounds > 0, UNCHANGED rounds,
           \A c \in Agents : data'[c] = IF c = a THEN [name |-> me.at, ack |-> me.ack] ELSE data[c],
           me.ack = IF me.at = "request-sent" THEN Promise(me) ELSE data[a].ack,
           x.type = me.type, x.ack = me.ack, x.opt = me.opt, x.out = me.out, x.next = me.next,
           \/ x.at = me.next /\ me.next # "noop" /\ me.out = "none" /\ x.pc = "execute"
           \/ x.at = me.at /\ me.out # "none" /\ x.pc = "act"
    PROVE  /\ x.pc = "execute" => IF x.at = "done" /\ x.type # "ack" THEN FitsTrail(a, x)' ELSE FitsState(a, x)'
           /\ x.pc = "act" => FitsAct(a, x)' /\ x.at # "done"
  <1>1. CASE a = Prover
    <2>1. P'.name = me.at /\ V' = V
      BY <1>1, Peers DEF P, V
    <2>2. CASE me.at \in {"proposal-received", "presentation-received", "request-sent"}
      BY <1>1, <2>2, Peers DEF FitsState, Fits, Requests
    <2>3. CASE me.at = "request-received"
      <3>1. x.pc = "execute" /\ x.at \in {"presentation-sent", "proposal-sent"}
        BY <2>3 DEF Leads
      <3>2. me.type \in Requests /\ V.name = "request-sent" /\ V.ack = WillConfirm(me.type)
        BY <2>3 DEF FitsState, Fits, Requests
      <3> QED
        BY <1>1, <2>1, <2>3, <3>1, <3>2 DEF FitsState
    <2>4. CASE me.at = "presentation-sent"
      <3>1. x.pc = "act" /\ x.at = "presentation-sent" /\ x.out = "presentation"
        BY <2>4 DEF Leads
      <3>2. me.type \in Requests /\ V.name = "request-sent" /\ V.ack = WillConfirm(me.type)
        BY <2>4 DEF FitsState
      <3>3. Fits(Verifier, "presentation")'
        BY <2>1, <2>4, <3>2 DEF Fits, Requests
      <3> QED
        BY <1>1, <2>1, <3>1, <3>2, <3>3, Peers DEF FitsAct
    <2>5. CASE me.at = "proposal-sent"
      <3>1. x.pc = "act" /\ x.at = "proposal-sent" /\ x.out = "propose" /\ me.opt = "propose"
        BY <2>5 DEF Leads
      <3>2. V.name = "start" \/ (V.name = "request-sent" /\ rounds > 0)
        BY <2>5, <3>1 DEF FitsState, Opens, Requests
      <3>3. Fits(Verifier, "propose")'
        BY <2>1, <2>5, <3>2 DEF Fits, Requests
      <3> QED
        BY <1>1, <3>1, <3>3, Peers DEF FitsAct
    <2>6. CASE me.at = "done"
      BY <2>6 DEF Leads
    <2>7. CASE me.at = "abandoned"
      <3>1. me.out # "none" => me.out = "problem-report" /\ me.type # "problem-report" /\ me.next = "noop"
        BY <2>7 DEF Leads, Report
      <3>2. x.pc = "act" /\ x.out = "problem-report" /\ x.at = "abandoned" /\ me.type # "problem-report"
        BY <2>7, <3>1 DEF Leads
      <3>3. V.name \in Waiting(Verifier)
        BY <1>1, <2>7, <3>2, Peers DEF FitsState, V
      <3>4. Fits(Verifier, "problem-report")'
        BY <2>1, <2>7, <3>3, Peers DEF Fits, Waiting, Requests, V, P
      <3> QED
        BY <1>1, <3>2, <3>4, Peers DEF FitsAct
    <2> QED
      BY <2>2, <2>3, <2>4, <2>5, <2>6, <2>7 DEF FitsState
  <1>2. CASE a = Verifier
    <2>1. V'.name = me.at /\ V'.ack = me.ack /\ P' = P
      BY <1>2, Peers DEF P, V
    <2>2. CASE me.at \in {"request-received", "presentation-sent", "proposal-sent"}
      BY <1>2, <2>2, Peers DEF FitsState, Fits, Requests
    <2>3. CASE me.at = "proposal-received"
      <3>1. x.pc = "execute" /\ x.at = "request-sent"
        BY <2>3 DEF Leads
      <3>2. me.type = "propose" /\ P.name = "proposal-sent"
        BY <2>3 DEF FitsState, Fits, Requests
      <3> QED
        BY <1>2, <2>1, <2>3, <3>1, <3>2 DEF FitsState
    <2>4. CASE me.at = "request-sent"
      <3>1. x.pc = "act" /\ x.at = "request-sent" /\ x.out = me.opt /\ me.opt \in Requests
        BY <2>4 DEF Leads, Requests
      <3>2. P.name \in {"start", "proposal-sent"}
        BY <2>4 DEF FitsState, Opens
      <3>3. V'.ack = WillConfirm(me.opt)
        BY <2>1, <2>4 DEF Promise
      <3>4. Fits(Prover, me.opt)'
        BY <2>1, <2>4, <3>1, <3>2, <3>3 DEF Fits, Requests
      <3> QED
        BY <1>2, <3>1, <3>4, Peers DEF FitsAct
    <2>5. CASE me.at = "presentation-received"
      <3>1. me.next = "done" /\ me.out = (IF me.ack THEN "ack" ELSE "none") /\ me.ack = V.ack
        BY <1>2, <2>5, Peers DEF Leads, Confirm, V
      <3>2. me.type = "presentation" /\ P.name \in Sent /\ (V.ack => P.name = "presentation-sent")
        BY <2>5 DEF FitsState, Fits, Requests, Sent
      <3>3. CASE me.ack
        <4>1. x.pc = "act" /\ x.out = "ack" /\ x.at = "presentation-received"
          BY <2>5, <3>1, <3>3
        <4>2. Fits(Prover, "ack")'
          BY <2>1, <2>5, <3>1, <3>2, <3>3 DEF Fits, Requests
        <4> QED
          BY <1>2, <2>1, <3>2, <3>3, <4>1, <4>2, Peers DEF FitsAct
      <3>4. CASE ~ me.ack
        BY <1>2, <2>1, <2>5, <3>1, <3>2, <3>4 DEF FitsTrail, Sent
      <3> QED
        BY <3>3, <3>4
    <2>6. CASE me.at = "done"
      BY <2>6 DEF Leads
    <2>7. CASE me.at = "abandoned"
      <3>1. me.out # "none" => me.out = "problem-report" /\ me.type # "problem-report" /\ me.next = "noop"
        BY <2>7 DEF Leads, Report
      <3>2. x.pc = "act" /\ x.out = "problem-report" /\ x.at = "abandoned" /\ me.type # "problem-report"
        BY <2>7, <3>1 DEF Leads
      <3>3. P.name \in Waiting(Prover)
        BY <1>2, <2>7, <3>2, Peers DEF FitsState, P
      <3>4. Fits(Prover, "problem-report")'
        BY <2>1, <2>7, <3>3, Peers DEF Fits, Waiting, Requests, V, P
      <3> QED
        BY <1>2, <3>2, <3>4, Peers DEF FitsAct
    <2> QED
      BY <2>2, <2>3, <2>4, <2>5, <2>6, <2>7 DEF FitsState
  <1> QED
    BY <1>1, <1>2, Peers

\* Every state stored is a step of Fulfilment, or none.
LEMMA StoringFulfils ==
    ASSUME NEW a \in Agents, NEW me, UNCHANGED rounds,
           FitsState(a, me) \/ (me.at = "done" /\ FitsTrail(a, me)),
           me.opt = "propose" /\ me.type # "none" => rounds > 0, Leads(me),
           \A c \in Agents : data'[c] = IF c = a THEN [name |-> me.at, ack |-> me.ack] ELSE data[c]
    PROVE  [F!Next]_Phase
  <1>1. Over <=> V.name = "done" \/ V.name = "abandoned" \/ P.name = "abandoned"
    BY Peers DEF Over, Took, P, V
  <1>2. Over' <=> V'.name = "done" \/ V'.name = "abandoned" \/ P'.name = "abandoned"
    BY Peers DEF Over, Took, P, V
  <1>3. CASE a = Prover
    <2>1. P'.name = me.at /\ V' = V
      BY <1>3, Peers DEF P, V
    <2>2. CASE me.at = "request-received"
      <3>1. V.name = "request-sent" /\ P.name \in {"start", "proposal-sent"}
        BY <2>2 DEF FitsState, Fits, Requests
      <3> QED
        BY <1>1, <1>2, <2>1, <2>2, <3>1 DEF Phase, Took, Given, Asked, P, V
    <2>3. CASE me.at = "presentation-sent"
      <3>1. V.name = "request-sent" /\ P.name = "request-received"
        BY <2>3 DEF FitsState
      <3> QED
        BY <1>1, <1>2, <2>1, <2>3, <3>1 DEF Phase, Took, Given, Asked, P, V, F!Next, F!Give
    <2>4. CASE me.at = "proposal-sent"
      <3>1. /\ V.name \in {"request-sent", "start"} /\ P.name \in {"request-received", "start"}
        BY <2>4 DEF FitsState, Opens
      <3> QED
        BY <1>1, <1>2, <2>1, <2>4, <3>1 DEF Phase, Took, Given, Asked, P, V
    <2>5. CASE me.at = "done"
      <3>1. P.name \in Sent
        BY <2>5 DEF FitsState, Fits, FitsTrail, Requests, Sent
      <3> QED
        BY <1>1, <1>2, <2>1, <2>5, <3>1 DEF Phase, Took, Given, Asked, P, V, Sent
    <2>6. CASE me.at = "abandoned"
      <3>1. \/ P.name \in Waiting(Prover) /\ V.name = "abandoned"
            \/ P.name \in GivesUpFrom(Prover) /\ V.name \in Waiting(Verifier)
        BY <1>3, <2>6, Peers DEF FitsState, Fits, Requests, P, V
      <3> QED
        BY <1>1, <1>2, <2>1, <2>6, <3>1, Peers
        DEF Phase, Took, Given, Asked, P, V, F!Next, F!Drop, Waiting, GivesUpFrom, Sent
    <2>7. CASE me.at \in {"proposal-received", "presentation-received", "request-sent"}
      BY <1>3, <2>7, Peers DEF FitsState, Fits, Requests
    <2> QED
      BY <2>2, <2>3, <2>4, <2>5, <2>6, <2>7 DEF FitsState
  <1>4. CASE a = Verifier
    <2>1. V'.name = me.at /\ P' = P
      BY <1>4, Peers DEF P, V
    <2>2. CASE me.at = "proposal-received"
      <3>1. P.name = "proposal-sent" /\ (V.name = "start" \/ (V.name = "request-sent" /\ rounds > 0))
        BY <2>2 DEF FitsState, Fits, Requests
      <3> QED
        BY <1>1, <1>2, <2>1, <2>2, <3>1 DEF Phase, Took, Given, Asked, P, V
    <2>3. CASE me.at = "request-sent"
      <3>1. V.name \in {"proposal-received", "start"} /\ P.name \in {"proposal-sent", "start"}
        BY <2>3 DEF FitsState, Opens
      <3> QED
        BY <1>1, <1>2, <2>1, <2>3, <3>1 DEF Phase, Took, Given, Asked, P, V, F!Next, F!Ask
    <2>4. CASE me.at = "presentation-received"
      <3>1. V.name = "request-sent" /\ P.name \in Sent
        BY <2>4 DEF FitsState, Fits, Requests, Sent
      <3> QED
        BY <1>1, <1>2, <2>1, <2>4, <3>1 DEF Phase, Took, Given, Asked, P, V, Sent
    <2>5. CASE me.at = "done"
      <3>1. P.name \in Sent /\ V.name \in {"presentation-received", "done"}
        BY <1>4, <2>5, Peers DEF FitsState, Fits, FitsTrail, Requests, Sent
      <3> QED
        BY <1>1, <1>2, <2>1, <2>5, <3>1 DEF Phase, Took, Given, Asked, P, V, Sent, F!Next, F!Take
    <2>6. CASE me.at = "abandoned"
      <3>1. \/ V.name \in Waiting(Verifier) /\ P.name = "abandoned"
            \/ V.name \in GivesUpFrom(Verifier) /\ P.name \in Waiting(Prover)
        BY <1>4, <2>6, Peers DEF FitsState, Fits, Requests, P, V
      <3> QED
        BY <1>1, <1>2, <2>1, <2>6, <3>1, Peers
        DEF Phase, Took, Given, Asked, P, V, F!Next, F!Drop, Waiting, GivesUpFrom, Sent
    <2>7. CASE me.at \in {"request-received", "presentation-sent", "proposal-sent"}
      BY <1>4, <2>7, Peers DEF FitsState, Fits, Requests
    <2> QED
      BY <2>2, <2>3, <2>4, <2>5, <2>6, <2>7 DEF FitsState
  <1> QED
    BY <1>3, <1>4, Peers
\* Storing a state, by the goroutine with the turn or by one that trails.
LEMMA SaveInternalDataTurn ==
    ASSUME OrderlyInv, NEW a \in Agents, NEW w \in Workers, SaveInternalData(a, w)
    PROVE  Turns /\ [F!Next]_Phase
  <1> DEFINE me == workers[a][w]
  <1>1. me.pc = "save" /\ UNCHANGED <<payload, net, events, opened, rounds, crashes>>
    BY DEF SaveInternalData, used
  <1>2. \A c \in Agents : data'[c] = IF c = a THEN [name |-> me.at, ack |-> me.ack] ELSE data[c]
    BY DEF SaveInternalData, OrderlyInv, TypeOK
  <1>3. me \in Worker /\ FitsWorker(a, w, me) /\ WorkerOK(w, me) /\ me.ack \in BOOLEAN
    BY DEF OrderlyInv, TypeOK, Steps, Worker
  <1>4. /\ Trails(me) => FitsTrail(a, me)
        /\ ~ Trails(me) => FitsState(a, me)
        /\ Leads(me) /\ (me.abandons => me.at = "abandoned")
        /\ me.ack = IF me.at = "request-sent" THEN Promise(me) ELSE data[a].ack
        /\ me.type \in EventTypes => w = Listener
        /\ me.opt = "propose" /\ me.type # "none" => rounds > 0
    BY <1>1, <1>3 DEF FitsWorker, Busy, Remembers
  <1>5. [F!Next]_Phase
    <2>1. FitsState(a, me) \/ (me.at = "done" /\ FitsTrail(a, me))
      BY <1>4 DEF Trails
    <2> QED
      BY <1>1, <1>2, <1>4, <2>1, StoringFulfils
  <1>6. PICK x : /\ Goto(a, w, x)
                 /\ IF me.out # "none" THEN x = [me EXCEPT !.pc = "act"]
                    ELSE IF me.next = "noop" THEN x = IdleWorker
                    ELSE x = [me EXCEPT !.pc = "execute", !.at = me.next]
    BY DEF SaveInternalData, Proceed, Idle
  <1>7. \/ me.out = "none" /\ me.next = "noop" /\ x = IdleWorker /\ x.pc = "idle"
        \/ /\ x.type = me.type /\ x.ack = me.ack /\ x.opt = me.opt /\ x.out = me.out /\ x.next = me.next
           /\ x.abandons = me.abandons
           /\ \/ x.at = me.next /\ me.next # "noop" /\ me.out = "none" /\ x.pc = "execute"
              \/ x.at = me.at /\ me.out # "none" /\ x.pc = "act"
    <2>1. IdleWorker.pc = "idle"
      BY DEF IdleWorker
    <2> QED
      BY <1>3, <1>6, <2>1 DEF Worker
  <1>8. \A b \in Agents, v \in Workers :
              workers'[b][v] = IF b = a /\ v = w THEN x ELSE workers[b][v]
    BY <1>6, MovedWorker DEF OrderlyInv
  <1>9. \A b \in Agents, v \in Workers : workers[b][v].pc \in {"payload", "push"} => InHand(b, v)
    BY DEF OrderlyInv, Steps, FitsWorker, FitsTrail, InHand, Busy, Trails
  <1>10. CASE Trails(me)
    <2>1. FitsTrail(a, me) /\ me.at = "done" /\ me.next = "noop" /\ me.out = "none"
      BY <1>4, <1>10 DEF Trails, Leads
    <2>2. x = IdleWorker /\ ~ Busy(x) /\ ~ Trails(x)
      BY <1>7, <2>1 DEF Busy, Trails, IdleWorker
    <2>3. TrailSaved
      BY <1>2, <1>4, <2>1, Peers DEF TrailSaved, FitsTrail, P, V
    <2>4. opened
      BY <1>10 DEF OrderlyInv, Steps
    <2>5. OneTurn' /\ OneClaim'
      BY <1>1, <1>6, <1>7, <2>2, GoOn
    <2>6. \A b \in Agents, v \in Workers : FitsWorker(b, v, workers'[b][v])
      BY <1>8, <2>2, IdleFits DEF OrderlyInv, Steps
    <2>7. \A b \in Agents, v \in Workers : FitsWorker(b, v, workers[b][v])'
      BY <1>1, <2>3, <2>6, TrailDisturbsNobody
    <2>8. \A b \in Agents : data'[b].ack = data[b].ack
      BY <2>3, Peers DEF TrailSaved, P, V
    <2>9. Steps'
      BY <1>1, <2>3, <2>4, <2>7, <2>8, Peers, TrailDisturbsNobody DEF OrderlyInv, Steps, InNet, InStore, P
    <2>10. Waits'
      <3>1. CASE a = Prover
        BY <1>2, <2>1, <3>1, Peers DEF Waits, P
      <3>2. CASE a # Prover
        <4>1. P' = P /\ V'.ack = V.ack /\ V.name # "abandoned"
          BY <2>1, <2>8, <1>2, <3>2, Peers DEF FitsTrail, P, V
        <4>2. workers'[Prover][Listener] = workers[Prover][Listener]
          BY <1>8, <3>2, Peers, ListenerWorks
        <4> QED
          BY <1>1, <4>1, <4>2 DEF OrderlyInv, Waits
      <3> QED
        BY <3>1, <3>2
    <2> QED
      BY <1>5, <2>5, <2>9, <2>10 DEF Turns
  <1>11. CASE ~ Trails(me)
    <2>1. InHand(a, w) /\ FitsState(a, me)
      BY <1>1, <1>4, <1>11 DEF InHand, Busy
    <2>2. opened /\ \A b \in Agents : /\ payload[b] = None /\ \A t \in Types : ~ InNet(b, t)
                                      /\ \A v \in Workers : InHand(b, v) => b = a /\ v = w
      BY <2>1 DEF OrderlyInv, OneTurn, InStore
    <2>3. OneTurn' /\ OneClaim'
      BY <1>1, <1>6, <1>7, <2>1, GoOn
    <2>4. ~ P.ack
      BY DEF OrderlyInv, Steps
    <2>5. FitsWorker(a, w, x)'
      <3>1. CASE x = IdleWorker
        BY <3>1, IdleFits DEF FitsWorker, IdleWorker, Busy, Trails
      <3>2. CASE x # IdleWorker
        <4>1. /\ x.type = me.type /\ x.ack = me.ack /\ x.opt = me.opt /\ x.out = me.out /\ x.next = me.next
              /\ x.abandons = me.abandons
              /\ \/ x.at = me.next /\ me.next # "noop" /\ me.out = "none" /\ x.pc = "execute"
                 \/ x.at = me.at /\ me.out # "none" /\ x.pc = "act"
          BY <1>7, <3>2
        <4>2. /\ x.pc = "execute" => IF x.at = "done" /\ x.type # "ack" THEN FitsTrail(a, x)' ELSE FitsState(a, x)'
              /\ x.pc = "act" => FitsAct(a, x)' /\ x.at # "done"
          BY <1>1, <1>2, <1>4, <2>1, <2>4, <4>1, StoredFits
        <4>3. Remembers(a, x)'
          BY <1>2, <4>1 DEF Remembers
        <4>4. x.pc = "act" => Leads(x)
          BY <1>4, <4>1 DEF Leads, Confirm, Report
        <4>5. x.pc = "execute" => ~ x.abandons
          BY <1>4, <4>1 DEF Leads
        <4>6. x.abandons => x.at = "abandoned"
          BY <1>4, <4>1, <4>5
        <4> QED
          BY <1>1, <1>4, <4>1, <4>2, <4>3, <4>4, <4>6 DEF FitsWorker, Busy, Trails
      <3> QED
        BY <3>1, <3>2
    <2>6. ASSUME NEW b \in Agents, NEW v \in Workers, ~ (b = a /\ v = w)
          PROVE  FitsWorker(b, v, workers[b][v])'
      <3>0. PICK y : y = workers[b][v]
        OBVIOUS
      <3>1. FitsWorker(b, v, y) /\ ~ InHand(b, v) /\ workers'[b][v] = y
        BY <1>8, <2>2, <2>6, <3>0 DEF OrderlyInv, Steps
      <3> SUFFICES FitsWorker(b, v, y)'
        BY <3>1
      <3>2. CASE ~ Busy(y)
        BY <1>1, <3>1, <3>2 DEF FitsWorker, Busy, Trails
      <3>3. CASE Busy(y)
        <4>1. Trails(y) /\ FitsTrail(b, y) /\ y.type \in EventTypes /\ v = Listener
          BY <3>1, <3>3, <3>0 DEF InHand, FitsWorker, FitsTrail, EventTypes, CanTriggerActionEvents, Types, Requests
        <4>2. b # a
          <5>1. CASE me.type \in EventTypes
            BY <1>4, <2>6, <4>1, <5>1
          <5>2. CASE me.type \notin EventTypes
            BY <2>1, <4>1, <5>2, Peers
            DEF FitsState, Fits, Opens, FitsTrail, Sent, EventTypes, CanTriggerActionEvents, Types, Requests
          <5> QED
            BY <5>1, <5>2
        <4>3. FitsTrail(b, y)' /\ data'[b].ack = data[b].ack
          <5>1. me.at = "request-sent" \/ me.ack = data[a].ack
            BY <1>4
          <5> HIDE DEF me
          <5> QED
            BY <1>2, <2>1, <4>1, <4>2, <5>1, TrailIsLeftAlone
        <4>4. Remembers(b, y)'
          BY <3>1, <3>3, <4>1, <4>3 DEF FitsWorker, Remembers, Trails
        <4> QED
          BY <1>1, <3>1, <4>1, <4>3, <4>4 DEF FitsWorker, FitsTrail, Trails
      <3> QED
        BY <3>2, <3>3
    <2>7. \A b \in Agents, v \in Workers : FitsWorker(b, v, workers[b][v])'
      <3>1. FitsWorker(a, w, workers[a][w])'
        BY <1>8, <2>5
      <3> QED
        BY <2>6, <3>1
    <2>8. ~ P'.ack
      BY <1>2, <1>4, <2>1, <2>4, Peers DEF P, FitsState
    <2>9. Steps'
      BY <1>1, <2>2, <2>7, <2>8 DEF Steps, InNet, InStore
    <2>10. Waits'
      <3>1. CASE a = Prover /\ me.at = "presentation-sent"
        <4>1. w = Listener /\ x.pc = "act" /\ x.at = "presentation-sent"
          <5>1. me.out = "presentation" /\ me.type \in Requests
            BY <1>4, <2>1, <3>1 DEF FitsState, Leads
          <5>2. me.type \in EventTypes
            BY <5>1 DEF EventTypes, CanTriggerActionEvents, Types, Requests
          <5> QED
            BY <1>4, <1>7, <3>1, <5>1, <5>2
        <4>2. workers'[Prover][Listener] = x
          BY <1>8, <3>1, <4>1, Peers
        <4> QED
          BY <4>1, <4>2 DEF Waits
      <3>2. CASE a = Prover /\ me.at # "presentation-sent"
        BY <1>2, <3>2, Peers DEF Waits, P
      <3>3. CASE a = Verifier
        <4>1. V'.name = me.at /\ V'.ack = me.ack /\ P' = P
          BY <1>2, <3>3, Peers DEF P, V
        <4>2. workers'[Prover][Listener] = workers[Prover][Listener]
          BY <1>8, <3>3, Peers, ListenerWorks
        <4>3. CASE me.at = "request-sent"
          BY <2>1, <4>1, <4>3 DEF Waits, FitsState, Opens
        <4>4. CASE me.at = "abandoned"
          BY <4>1, <4>4 DEF Waits
        <4>5. CASE me.at \notin {"request-sent", "abandoned"}
          <5>1. V.name # "abandoned" /\ me.ack = V.ack
            BY <1>4, <2>1, <3>3, <4>5, Peers DEF FitsState, Fits, Requests, V
          <5> QED
            BY <1>1, <4>1, <4>2, <5>1 DEF OrderlyInv, Waits
        <4> QED
          BY <4>3, <4>4, <4>5
      <3> QED
        BY <3>1, <3>2, <3>3, Peers
    <2> QED
      BY <1>5, <2>3, <2>9, <2>10 DEF Turns
  <1> QED
    BY <1>10, <1>11
\* Sending what follows from a stored state: the turn goes on its way, and the goroutine
\* may trail behind.
LEMMA ActTurn ==
    ASSUME OrderlyInv, NEW a \in Agents, NEW w \in Workers, Act(a, w)
    PROVE  Turns
  <1> DEFINE me == workers[a][w]
             t  == me.out
  <1>1. me.pc = "act" /\ UNCHANGED <<data, payload, events, opened, rounds, crashes>>
        /\ net' = [net EXCEPT ![Peer(a)][t] = net[Peer(a)][t] + 1]
    BY DEF Act, Send, used
  <1>2. me \in Worker /\ FitsWorker(a, w, me) /\ t \in Types /\ Peer(a) \in Agents
    <2>1. me \in Worker /\ FitsWorker(a, w, me) /\ WorkerOK(w, me)
      BY DEF OrderlyInv, TypeOK, Steps
    <2>2. t \in Types
      BY <1>1, <2>1 DEF WorkerOK, Worker
    <2> QED
      BY <2>1, <2>2, Peers
  <1>3. FitsAct(a, me) /\ Leads(me) /\ (me.abandons => me.at = "abandoned")
        /\ (me.type \in EventTypes => w = Listener)
        /\ (me.opt = "propose" /\ me.type # "none" => rounds > 0)
    BY <1>1, <1>2 DEF FitsWorker
  <1>4. ~ Trails(me) /\ InHand(a, w) /\ me.ack = data[a].ack
    BY <1>1, <1>2 DEF FitsWorker, FitsTrail, InHand, Busy, Remembers
  <1>5. PICK x : /\ Goto(a, w, x)
                 /\ IF me.next = "noop" THEN x = IdleWorker
                    ELSE x = [me EXCEPT !.pc = "execute", !.at = me.next]
    BY DEF Act, Proceed, Idle
  <1>6. me.next # "noop" =>
           /\ me.next = "done" /\ x.pc = "execute" /\ x.at = "done" /\ x.type = me.type
           /\ x.opt = me.opt /\ x.ack = me.ack /\ x.abandons = me.abandons
           /\ me.at \in {"presentation-sent", "presentation-received"}
    <2>1. me.out # "none"
      BY <1>2 DEF Types, Requests
    <2>2. me.next # "noop" => /\ me.next = "done"
                              /\ me.at \in {"presentation-sent", "presentation-received"}
      BY <1>3, <2>1 DEF Leads
    <2> QED
      BY <1>2, <1>5, <2>2 DEF Worker
  <1>7. me.next # "noop" => me.type \in EventTypes /\ FitsTrail(a, x) /\ Trails(x) /\ ~ x.abandons
    <2>1. CASE me.at = "presentation-sent" /\ me.next # "noop"
      <3>1. me.out = "presentation" /\ me.type \in Requests /\ ~ V.ack /\ a = Prover
        BY <1>3, <2>1 DEF FitsAct, Leads
      <3>2. P.name \in Sent
        BY <1>3, <3>1, Peers DEF FitsAct, Fits, Requests, Sent
      <3> QED
        BY <1>3, <1>6, <2>1, <3>1, <3>2
        DEF FitsTrail, Trails, Busy, EventTypes, CanTriggerActionEvents, Types, Requests
    <2>2. CASE me.at = "presentation-received" /\ me.next # "noop"
      <3>1. me.out = "ack" /\ me.type = "presentation" /\ a = Verifier
        BY <1>2, <1>3, <2>2 DEF FitsAct, Leads, Confirm, Types, Requests
      <3>2. P.name \in Sent /\ V.name \in {"presentation-received", "done"}
        BY <1>3, <3>1, Peers DEF FitsAct, Fits, Requests, Sent
      <3> QED
        BY <1>3, <1>6, <2>2, <3>1, <3>2
        DEF FitsTrail, Trails, Busy, EventTypes, CanTriggerActionEvents, Types, Requests
    <2> QED
      BY <1>6, <2>1, <2>2
  <1>8. FitsWorker(a, w, x) /\ ~ (Busy(x) /\ ~ Trails(x)) /\ x.pc \in {"idle", "execute"}
    <2>1. CASE me.next = "noop"
      <3>1. x = IdleWorker /\ IdleWorker.pc = "idle"
        BY <1>5, <2>1 DEF IdleWorker
      <3> QED
        BY <3>1, IdleFits DEF Busy
    <2>2. CASE me.next # "noop"
      BY <1>3, <1>4, <1>6, <1>7, <2>2 DEF FitsWorker, Remembers
    <2> QED
      BY <2>1, <2>2
  <1>9. Fits(Peer(a), t)
    BY <1>3 DEF FitsAct
  <1>10. \A b \in Agents, u \in Types : net[b][u] = 0
    BY <1>4 DEF OrderlyInv, OneTurn, InNet, TypeOK
  <1>11. \A b \in Agents, u \in Types : net'[b][u] = IF b = Peer(a) /\ u = t THEN 1 ELSE 0
    BY <1>1, <1>2, <1>10 DEF OrderlyInv, TypeOK
  <1>12. opened /\ \A b \in Agents, v \in Workers : payload[b] = None /\ (InHand(b, v) => b = a /\ v = w)
    BY <1>4 DEF OrderlyInv, OneTurn, InStore
  <1>13. \A b \in Agents, v \in Workers :
              workers'[b][v] = IF b = a /\ v = w THEN x ELSE workers[b][v]
    BY <1>5, MovedWorker DEF OrderlyInv
  <1>14. OneTurn'
    <2>1. \A b \in Agents, v \in Workers : ~ InHand(b, v)'
      BY <1>8, <1>12, <1>13 DEF InHand
    <2> QED
      BY <1>1, <1>11, <1>12, <2>1 DEF OneTurn, InNet, InStore
  <1>15. OneClaim'
    <2>1. \A b \in Agents, v \in Workers :
             Claims(b, v)' => Claims(b, v) /\ workers'[b][v] = workers[b][v]
      BY <1>8, <1>13 DEF Claims
    <2>2. \A b \in Agents : workers'[b][Listener].pc \notin {"payload", "event", "delete", "push"}
      BY <1>8, <1>13, ListenerWorks DEF OrderlyInv, OneClaim
    <2> QED
      BY <1>1, <2>1, <2>2 DEF OrderlyInv, OneClaim
  <1>16. Steps'
    <2>1. \A b \in Agents, u \in Types : net'[b][u] > 0 => Fits(b, u)
      BY <1>9, <1>11
    <2> QED
      BY <1>1, <1>5, <1>8, <1>12, <2>1, QuietSteps
  <1>17. Waits'
    <2>1. CASE a = Prover /\ w = Listener
      <3>1. workers'[Prover][Listener] = x
        BY <1>13, <2>1
      <3>2. CASE me.at = "presentation-sent" /\ ~ V.ack
        <4>1. me.next # "noop"
          BY <1>3, <3>2 DEF FitsAct, Leads
        <4> QED
          BY <1>7, <3>1, <4>1 DEF Waits
      <3>3. CASE ~ (me.at = "presentation-sent" /\ ~ V.ack)
        BY <1>1, <1>4, <2>1, <3>3 DEF OrderlyInv, Waits, P, V
      <3> QED
        BY <3>2, <3>3
    <2>2. CASE ~ (a = Prover /\ w = Listener)
      BY <1>1, <1>5, <2>2, OtherWaits
    <2> QED
      BY <2>1, <2>2
  <1> QED
    BY <1>14, <1>15, <1>16, <1>17 DEF Turns

\* A restart takes the turn and the claim of its goroutines with it, and leaves messages
\* and payloads where they are.
LEMMA CrashTurn ==
    ASSUME OrderlyInv, NEW a \in Agents, Crash(a)
    PROVE  Turns
  <1>1. UNCHANGED <<data, payload, net, opened, rounds>> /\ crashes' # 0
    BY DEF Crash, OrderlyInv, TypeOK
  <1>2. \A b \in Agents, v \in Workers :
           workers'[b][v] = IF b = a THEN IdleWorker ELSE workers[b][v]
    BY DEF Crash, OrderlyInv, TypeOK
  <1>3. \A b \in Agents, h \in Held : events'[b][h] = IF b = a THEN 0 ELSE events[b][h]
    BY DEF Crash, OrderlyInv, TypeOK
  <1>4. IdleWorker.pc = "idle" /\ ~ Busy(IdleWorker) /\ ~ Trails(IdleWorker)
    BY DEF IdleWorker, Busy, Trails
  <1>5. OneTurn'
    BY <1>1, <1>2, <1>4 DEF OrderlyInv, OneTurn, InNet, InStore, InHand
  <1>6. OneClaim'
    <2>1. \A b \in Agents, v \in Workers :
             Claims(b, v)' => Claims(b, v) /\ workers'[b][v] = workers[b][v]
      BY <1>2, <1>4 DEF Claims
    <2>2. \A b \in Agents : workers'[b][Listener].pc \notin {"payload", "event", "delete", "push"}
      BY <1>2, <1>4, ListenerWorks DEF OrderlyInv, OneClaim
    <2> QED
      BY <1>1, <1>3, <2>1, <2>2 DEF OrderlyInv, OneClaim
  <1>7. Steps'
    <2>1. \A b \in Agents, v \in Workers : FitsWorker(b, v, workers'[b][v])
      BY <1>2, IdleFits DEF OrderlyInv, Steps
    <2>2. \A b \in Agents, v \in Workers : FitsWorker(b, v, workers[b][v])'
      BY <1>1, <2>1, FitsStay
    <2>3. ~ opened => \A b \in Agents, v \in Workers : ~ Trails(workers'[b][v])
      BY <1>2, <1>4 DEF OrderlyInv, Steps
    <2> QED
      BY <1>1, <2>2, <2>3, FitsStay DEF OrderlyInv, Steps, InNet, InStore, P
  <1>8. Waits'
    BY <1>1 DEF Waits
  <1> QED
    BY <1>5, <1>6, <1>7, <1>8 DEF Turns

\* Only a step that stores a state can move the thread; a counter-proposal answers a
\* request, so the thread was asked for already.
LEMMA QuietTurn ==
    ASSUME Turns, UNCHANGED data, UNCHANGED rounds
    PROVE  Turns /\ [F!Next]_Phase
  BY DEF Phase, Took, Over, Given, Asked

LEMMA AnswerIsQuiet ==
    ASSUME OrderlyInv, Orderly, NEW a \in Agents, NEW w \in Handlers,
           AnswerAction(a, w) \/ \E h \in Held : AnswerEvent(a, w, h)
    PROVE  [F!Next]_Phase
  <1>1. PICK h \in Held : Decide(a, w, h) /\ payload[a] = h /\ h # None
    <2>1. \A h \in Held : h # None
      BY DEF Held, None, EventTypes, Types, Requests
    <2> QED
      BY <2>1 DEF AnswerAction, AnswerEvent, OrderlyInv, OneClaim, TypeOK
  <1>2. UNCHANGED data /\ (UNCHANGED rounds \/ (rounds' = rounds + 1 /\ h.type \in Requests))
    <2>1. PICK opt \in Offers(h.type), stop \in BOOLEAN :
             rounds' = IF opt = "propose" THEN rounds + 1 ELSE rounds
      BY <1>1, Zenon DEF Decide
    <2>2. opt = "propose" => h.type \in Requests
      BY DEF Offers, Requests
    <2> QED
      BY <1>1, <2>1, <2>2 DEF Decide
  <1>3. CASE UNCHANGED rounds
    BY <1>2, <1>3 DEF Phase, Took, Over, Given, Asked
  <1>4. CASE rounds' = rounds + 1 /\ h.type \in Requests
    <2>1. V.name = "request-sent"
      BY <1>1, <1>4 DEF OrderlyInv, Steps, InStore, Fits, Requests
    <2>2. rounds \in Nat
      BY DEF OrderlyInv, TypeOK
    <2>3. Asked /\ Asked'
      BY <1>2, <2>1 DEF Asked, V
    <2>4. (Took' <=> Took) /\ (Over' <=> Over) /\ (Given' <=> Given)
      BY <1>2 DEF Took, Over, Given
    <2> QED
      BY <2>3, <2>4 DEF Phase
  <1> QED
    BY <1>2, <1>3, <1>4

\* What every step of an orderly thread does.
LEMMA NextTurn ==
    ASSUME OrderlyInv, Orderly, [Next]_vars
    PROVE  Turns /\ [F!Next]_Phase
  <1>1. CASE UNCHANGED vars
    <2>1. UNCHANGED <<data, payload, net, events, workers, opened, rounds, crashes>>
      BY <1>1 DEF vars, used
    <2>2. OneTurn' /\ OneClaim'
      BY <2>1 DEF OrderlyInv, OneTurn, OneClaim, InNet, InStore, InHand, Claims
    <2>3. Steps'
      BY <2>1, FitsStay DEF OrderlyInv, Steps, InNet, InStore, P
    <2>4. Waits'
      BY <2>1, QuietWaits
    <2> QED
      BY <2>1, <2>2, <2>3, <2>4, QuietTurn DEF Turns
  <1>2. CASE \E w \in Handlers : HandleOutbound(w)
    <2>1. UNCHANGED <<data, rounds>>
      BY <1>2 DEF HandleOutbound
    <2> QED
      BY <1>2, <2>1, HandleOutboundTurn, QuietTurn
  <1>3. ASSUME NEW a \in Agents, Receive(a) PROVE Turns /\ [F!Next]_Phase
    <2>1. UNCHANGED <<data, rounds>>
      BY <1>3 DEF Receive, HandleInbound
    <2> QED
      BY <1>3, <2>1, HandleInboundTurn, QuietTurn DEF Receive
  <1>4. ASSUME NEW a \in Agents, Answer(a) PROVE Turns /\ [F!Next]_Phase
    BY <1>4, AnswerTurn, AnswerIsQuiet DEF Answer
  <1>5. ASSUME NEW a \in Agents, Crash(a) PROVE Turns /\ [F!Next]_Phase
    <2>1. UNCHANGED <<data, rounds>>
      BY <1>5 DEF Crash
    <2> QED
      BY <1>5, <2>1, CrashTurn, QuietTurn
  <1>6. ASSUME NEW a \in Agents, NEW w \in Workers, Run(a, w) PROVE Turns /\ [F!Next]_Phase
    <2>1. CASE SaveInternalData(a, w)
      BY <2>1, SaveInternalDataTurn
    <2>2. CASE ~ SaveInternalData(a, w)
      <3>1. UNCHANGED <<data, rounds>>
        BY <1>6, <2>2 DEF Run, SaveTransitionalPayload, SendActionEvent, DeleteTransitionalPayload,
                          TakeCallback, SavePresentation, Execute, Act, used
      <3>2. Turns
        BY <1>6, <2>2, SavePayloadTurn, SendActionEventTurn, DeleteTurn, TakeCallbackTurn,
           ExecuteTurn, ActTurn DEF Run
      <3> QED
        BY <3>1, <3>2, QuietTurn
    <2> QED
      BY <2>1, <2>2
  <1>7. \A a \in Agents : (\A w \in Workers : ~ Fail(a, w)) /\ \A t \in Types : ~ Lose(a, t)
    BY LimitsAssumption DEF Orderly, Fail, Lose, OrderlyInv, TypeOK
  <1> QED
    BY <1>1, <1>2, <1>3, <1>4, <1>5, <1>6, <1>7 DEF Next

\* Every initial state has nobody's turn, and is open.
LEMMA InitTurn == Init => OrderlyInv /\ F!Init
  <1> SUFFICES ASSUME Init PROVE OrderlyInv /\ F!Init
    OBVIOUS
  <1>1. TypeOK
    BY InitInv DEF IInv
  <1>2. /\ \A a \in Agents : data[a] = [name |-> "start", ack |-> FALSE] /\ payload[a] = None
        /\ \A a \in Agents, t \in Types : net[a][t] = 0
        /\ \A a \in Agents, h \in Held : events[a][h] = 0
        /\ \A a \in Agents, w \in Workers : workers[a][w] = IdleWorker
        /\ rounds = 0
    BY DEF Init
  <1>3. IdleWorker.pc = "idle" /\ ~ Busy(IdleWorker) /\ ~ Trails(IdleWorker)
    BY DEF IdleWorker, Busy, Trails
  <1>4. OneTurn
    BY <1>2, <1>3 DEF OneTurn, InNet, InStore, InHand
  <1>5. OneClaim
    BY <1>2, <1>3, ListenerWorks DEF OneClaim, Claims
  <1>6. Steps
    BY <1>2, <1>3, IdleFits, Peers DEF Steps, InNet, InStore, P
  <1>7. Waits
    BY <1>2, Peers DEF Waits, P
  <1>8. F!Init
    BY <1>2, Peers DEF F!Init, Phase, Took, Over, Asked, Given
  <1> QED
    BY <1>1, <1>4, <1>5, <1>6, <1>7, <1>8 DEF OrderlyInv

\* Every step keeps the invariant.
LEMMA NextOrderly ==
    ASSUME Orderly PROVE IInv /\ OrderlyInv /\ [Next]_vars => (IInv /\ OrderlyInv)'
  BY NextTurn, NextInv DEF Turns, OrderlyInv, IInv

-----------------------------------------------------------------------------
\* Whoever is sent a message has stored a state that takes it, and so has whoever waits
\* for its client, through any number of counter-proposals and restarts; only a prover
\* that expects no ack may have gone to done before the report that it was not accepted.
THEOREM NobodyIsEverSurprised ==
    ASSUME Orderly PROVE Spec => []NobodyIsSurprised
  <1>1. OrderlyInv => NobodyIsSurprised
    <2> SUFFICES ASSUME OrderlyInv, NEW a \in Agents, NEW t \in Types,
                        \/ net[a][t] > 0 \/ payload[a].type = t
                        \/ \E w \in Workers : workers[a][w].pc = "payload" /\ workers[a][w].type = t
                 PROVE  Fits(a, t)
      BY FitsIsTaken DEF NobodyIsSurprised
    <2>1. CASE payload[a].type = t
      <3>1. payload[a] # None
        BY <2>1 DEF None, Types, Requests
      <3> QED
        BY <2>1, <3>1 DEF OrderlyInv, Steps, InStore
    <2> QED
      BY <2>1 DEF OrderlyInv, Steps, FitsWorker, InNet
  <1> QED
    BY <1>1, NextOrderly, InitTurn, InitInv, PTL DEF Spec

\* A prover that waits, and is not on its way to done, waits for a verifier that has
\* promised an ack or has given up: the promise travels with the request, the verifier
\* goes by the one in its last request, and no counter-proposal comes between them.
THEOREM PromisesAreKept ==
    ASSUME Orderly PROVE Spec => []PromiseIsKept
  <1>1. OrderlyInv => PromiseIsKept
    BY DEF OrderlyInv, TypeOK, Waits, PromiseIsKept, Trails, Busy, P, V
  <1> QED
    BY <1>1, NextOrderly, InitTurn, InitInv, PTL DEF Spec

\* The thread implements Fulfilment: every stored state is one of its steps, or none,
\* and a presentation is taken only after it was asked for and given.
THEOREM ProofFulfils ==
    ASSUME Orderly PROVE Spec => ImplementsFulfilment
  <1>1. IInv /\ OrderlyInv /\ [Next]_vars => [F!Next]_Phase
    BY NextTurn
  <1> QED
    BY <1>1, NextOrderly, InitTurn, InitInv, PTL DEF Spec, F!Spec, ImplementsFulfilment
=============================================================================
