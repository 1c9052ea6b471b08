------------------------ MODULE IssueCredentialProofs ------------------------
(***************************************************************************)
(* What holds of every thread of issue-credential: any number of goroutines, *)
(* duplicates, losses, failing calls and restarts, and clients that answer  *)
(* by event or by call, once or twice.                                      *)
(***************************************************************************)
EXTENDS IssueCredential, TLAPS

-----------------------------------------------------------------------------
(***************************************************************************)
(* The inductive invariant: an ack exists, in the network or in the hands   *)
(* of a goroutine about to send or handle it, only once the holder has      *)
(* accepted the credential; a goroutine that sends it has saved the         *)
(* credential, unless its client asked it not to.  Neither is ever undone.  *)
(***************************************************************************)
HasAck(me) == me.type = "ack" \/ me.out = "ack"

\* What a goroutine needs of a wallet.
Backed(me, kept) == /\ HasAck(me) => kept # "empty"
                    /\ me.out = "ack" /\ me.opt # "skip" => kept = "saved"

AckInv == /\ \A a \in Agents : net[a]["ack"] > 0 => wallet # "empty"
          /\ \A a \in Agents, w \in Workers : Backed(workers[a][w], wallet)

\* What has been accepted stays accepted, what has been saved stays saved.
WalletKept == /\ wallet # "empty" => wallet' # "empty"
              /\ wallet = "saved" => wallet' = "saved"

IInv == TypeOK /\ AckInv

\* What moving one worker to `x` needs for the worker's part of the invariant.
Moves(a, w, x) == Goto(a, w, x) /\ WorkerOK(w, x) /\ Backed(x, wallet')

WorkersTyped == /\ workers' \in [Agents -> [Workers -> Worker]]
                /\ \A a \in Agents, w \in Workers : WorkerOK(w, workers'[a][w])
WorkersAcked == \A a \in Agents, w \in Workers : Backed(workers'[a][w], wallet')

LEMMA MoveWorker ==
    ASSUME IInv, WalletKept,
           NEW a \in Agents, NEW w \in Workers, NEW x, Moves(a, w, x)
    PROVE  WorkersTyped /\ WorkersAcked
  <1>1. x \in Worker
    BY DEF Moves, WorkerOK
  <1>2. workers' \in [Agents -> [Workers -> Worker]]
    BY <1>1 DEF IInv, TypeOK, Moves, Goto
  <1>3. ASSUME NEW b \in Agents, NEW v \in Workers
        PROVE  workers'[b][v] = IF b = a /\ v = w THEN x ELSE workers[b][v]
    BY DEF IInv, TypeOK, Moves, Goto
  <1>4. WorkersTyped
    BY <1>2, <1>3 DEF WorkersTyped, IInv, TypeOK, Moves
  <1>5. \A b \in Agents, v \in Workers : Backed(workers[b][v], wallet')
    BY DEF IInv, AckInv, Backed, WalletKept
  <1> QED
    BY <1>3, <1>4, <1>5 DEF WorkersAcked, Moves

\* The idle worker is well typed and has no ack.
LEMMA IdleIsFine ==
    /\ IdleWorker \in Worker /\ ~ HasAck(IdleWorker)
    /\ \A w, kept : WorkerOK(w, IdleWorker) /\ Backed(IdleWorker, kept)
  BY DEF IdleWorker, Worker, WorkerOK, HasAck, Backed, PCs, Types, Options, StoredStates

LEMMA IdleMoves ==
    ASSUME NEW a, NEW w, Idle(a, w)
    PROVE  Moves(a, w, IdleWorker)
  BY IdleIsFine DEF Idle, Moves

\* What executing a state stores and sends is well typed; it is an ack only for a
\* credential.
LEMMA ExecuteType ==
    ASSUME NEW t \in Types, NEW opt \in Options
    PROVE  LET r == ExecuteInbound(NextState(t), opt)
           IN  /\ r.last \in StoredStates
               /\ r.out \in Types \cup {"none"}
               /\ r.out = "ack" => NextState(t) = "credential-received"
  BY DEF ExecuteInbound, NextState, Result, CannotGoOn, Types, Options, StoredStates

LEMMA AbandonedType ==
    ASSUME NEW t
    PROVE  /\ Abandoned(t).last = "done" /\ Abandoned(t).out \in {"none", "problem-report"}
  BY DEF Abandoned, Result

\* Setting one counter keeps the others.
LEMMA SetCount ==
    ASSUME NEW T, NEW f \in [Agents -> [T -> Nat]], NEW a \in Agents, NEW t \in T, NEW k \in Nat
    PROVE  LET g == [f EXCEPT ![a][t] = k]
           IN  /\ g \in [Agents -> [T -> Nat]]
               /\ \A b \in Agents, u \in T :
                     g[b][u] = IF b = a /\ u = t THEN k ELSE f[b][u]
  OBVIOUS

\* Both agents are agents.
LEMMA PeerType == ASSUME NEW a \in Agents PROVE Peer(a) \in Agents
  BY DEF Agents, Peer

-----------------------------------------------------------------------------
\* Every initial state satisfies the invariant.
LEMMA InitInv == Init => IInv
  <1> SUFFICES ASSUME Init PROVE IInv
    OBVIOUS
  <1>1. workers \in [Agents -> [Workers -> Worker]]
    BY IdleIsFine DEF Init
  <1>2. \A a \in Agents, w \in Workers : workers[a][w] = IdleWorker
    BY DEF Init
  <1>3. TypeOK
    BY <1>1, <1>2, IdleIsFine DEF Init, TypeOK, StoredStates
  <1>4. \A a \in Agents : net[a]["ack"] = 0
    BY DEF Init, Types
  <1> QED
    BY <1>2, <1>3, <1>4, IdleIsFine DEF IInv, AckInv

\* What every step has to show: the variables but the workers keep their types, the
\* wallet keeps the credential, an ack enters the network from a goroutine only.
OthersTyped ==
    /\ state'   \in [Agents -> StoredStates]
    /\ payload' \in [Agents -> EventTypes \cup {"none"}]
    /\ wallet'  \in {"empty", "skipped", "saved"}
    /\ net'     \in [Agents -> [Types -> Nat]]
    /\ events'  \in [Agents -> [EventTypes -> Nat]]
    /\ opened'  \in BOOLEAN
    /\ rounds' \in Nat /\ duplicates' \in Nat /\ doubles' \in Nat /\ failures' \in Nat /\ crashes' \in Nat
NetAcked == \A a \in Agents : net'[a]["ack"] > 0 => wallet' # "empty"

LEMMA StepInv ==
    ASSUME OthersTyped, NetAcked, WorkersTyped, WorkersAcked
    PROVE  IInv'
  BY DEF OthersTyped, NetAcked, WorkersTyped, WorkersAcked, IInv, TypeOK, AckInv

\* A step that sends nothing and leaves the wallet alone or fills it.
LEMMA QuietNet ==
    ASSUME IInv, UNCHANGED net, WalletKept
    PROVE  NetAcked
  BY DEF IInv, AckInv, NetAcked, WalletKept

LEMMA HandleOutboundInv ==
    ASSUME IInv, NEW w \in Handlers, HandleOutbound(w)
    PROVE  IInv'
  <1> DEFINE x == [IdleWorker EXCEPT !.pc = "save", !.last = OpeningState, !.out = Opening]
  <1>1. Opener \in Agents /\ w \in Workers
    BY DEF Opener, Agents, Workers
  <1>2. OpeningState \in StoredStates /\ Opening \in Types \ {"ack"}
    BY PartiesAssumption DEF OpeningState, StoredStates, Types
  <1>3. WorkerOK(w, x) /\ ~ HasAck(x)
    BY <1>2, IdleIsFine DEF WorkerOK, Worker, HasAck, Backed, IdleWorker, PCs
  <1>4. Moves(Opener, w, x)
    BY <1>3 DEF Moves, HandleOutbound, Backed, HasAck
  <1>5. WorkersTyped /\ WorkersAcked
    BY <1>1, <1>4, MoveWorker DEF WalletKept, HandleOutbound
  <1>6. OthersTyped
    BY DEF IInv, TypeOK, OthersTyped, HandleOutbound
  <1> QED
    BY <1>5, <1>6, QuietNet, StepInv DEF WalletKept, HandleOutbound

\* A copy of a message that is delivered was on its way; no new copy appears.
LEMMA DeliverNet ==
    ASSUME IInv, NEW a \in Agents, NEW t \in Types, Deliver(a, t)
    PROVE  /\ net' \in [Agents -> [Types -> Nat]] /\ duplicates' \in Nat
           /\ \A b \in Agents : net'[b]["ack"] > 0 => net[b]["ack"] > 0
           /\ net[a][t] > 0
  <1>1. net \in [Agents -> [Types -> Nat]] /\ duplicates \in Nat /\ "ack" \in Types
    BY DEF IInv, TypeOK, Types
  <1>2. CASE net' = [net EXCEPT ![a][t] = @ - 1] /\ UNCHANGED duplicates
    <2>1. net[a][t] \in Nat /\ net[a][t] > 0
      BY <1>1 DEF Deliver
    <2>2. net[a][t] - 1 \in Nat
      BY <2>1
    <2>3. net' = [net EXCEPT ![a][t] = net[a][t] - 1]
      BY <1>2
    <2> QED
      BY <1>1, <1>2, <2>1, <2>2, <2>3, SetCount
  <1>3. CASE duplicates' = duplicates + 1 /\ UNCHANGED net
    BY <1>1, <1>3 DEF Deliver
  <1> QED
    BY <1>2, <1>3 DEF Deliver

LEMMA HandleInboundInv ==
    ASSUME IInv, NEW a \in Agents, NEW w \in Handlers, NEW t \in Types, HandleInbound(a, w, t)
    PROVE  IInv'
  <1> DEFINE x == [IdleWorker EXCEPT !.pc = "payload", !.type = t]
             y == [IdleWorker EXCEPT !.pc = "save", !.type = t,
                                     !.last = ExecuteInbound(NextState(t), "none").last]
  <1>1. w \in Workers /\ wallet' = wallet
    BY DEF Workers, HandleInbound
  <1>2. NetAcked
    BY DeliverNet, <1>1 DEF HandleInbound, NetAcked, IInv, AckInv
  <1>3. OthersTyped
    BY DeliverNet DEF HandleInbound, OthersTyped, IInv, TypeOK
  <1>4. t = "ack" => wallet # "empty"
    BY DeliverNet DEF HandleInbound, IInv, AckInv
  <1>5. CASE UNCHANGED workers
    BY <1>1, <1>2, <1>3, <1>5, StepInv DEF WorkersTyped, WorkersAcked, IInv, TypeOK, AckInv
  <1>6. CASE Goto(a, w, x) /\ CanTriggerActionEvents(t)
    <2>1. WorkerOK(w, x) /\ Backed(x, wallet')
      BY <1>1, <1>4, <1>6, IdleIsFine
      DEF WorkerOK, Worker, HasAck, Backed, IdleWorker, PCs, EventTypes
    <2> QED
      BY <1>1, <1>2, <1>3, <1>6, <2>1, MoveWorker, StepInv DEF WalletKept, Moves
  <1>7. CASE Goto(a, w, y)
    <2>1. ExecuteInbound(NextState(t), "none").last \in StoredStates
      BY ExecuteType DEF Options
    <2>2. WorkerOK(w, y) /\ Backed(y, wallet')
      BY <1>1, <1>4, <2>1, IdleIsFine DEF WorkerOK, Worker, HasAck, Backed, IdleWorker, PCs
    <2> QED
      BY <1>1, <1>2, <1>3, <1>7, <2>2, MoveWorker, StepInv DEF WalletKept, Moves
  <1> QED
    BY <1>5, <1>6, <1>7 DEF HandleInbound

\* The goroutines before the listener: the payload, the event and the decision.
LEMMA ClientInv ==
    ASSUME IInv, NEW a \in Agents, NEW w \in Workers,
           \/ SaveTransitionalPayload(a, w) \/ SendActionEvent(a, w)
           \/ DeleteTransitionalPayload(a, w)
    PROVE  IInv'
  <1> DEFINE me == workers[a][w]
  <1>1. WorkerOK(w, me) /\ me \in Worker /\ Backed(me, wallet)
    BY DEF IInv, TypeOK, AckInv
  <1>2. UNCHANGED <<net, wallet, state, used>>
    BY DEF SaveTransitionalPayload, SendActionEvent, DeleteTransitionalPayload
  <1>3. NetAcked
    BY <1>2, QuietNet DEF WalletKept
  <1>4. OthersTyped
    <2>1. payload' \in [Agents -> EventTypes \cup {"none"}]
      BY <1>1 DEF SaveTransitionalPayload, SendActionEvent, DeleteTransitionalPayload,
                  IInv, TypeOK, WorkerOK
    <2>2. ASSUME SendActionEvent(a, w) PROVE events' \in [Agents -> [EventTypes -> Nat]]
      <3>1. me.type \in EventTypes
        BY <1>1, <2>2 DEF WorkerOK, SendActionEvent
      <3>2. events' = [events EXCEPT ![a][me.type] = events[a][me.type] + 1]
        BY <2>2 DEF SendActionEvent
      <3> QED
        BY <3>1, <3>2, SetCount DEF IInv, TypeOK
    <2>3. events' \in [Agents -> [EventTypes -> Nat]]
      BY <2>2 DEF SaveTransitionalPayload, DeleteTransitionalPayload, IInv, TypeOK
    <2> QED
      BY <1>2, <2>1, <2>3 DEF IInv, TypeOK, OthersTyped, used
  <1>5. ASSUME NEW p \in {"event", "push"}, me.type \in EventTypes
        PROVE  WorkerOK(w, [me EXCEPT !.pc = p]) /\ Backed([me EXCEPT !.pc = p], wallet)
    BY <1>1, <1>5 DEF WorkerOK, Worker, HasAck, Backed, PCs
  <1>6. \/ Moves(a, w, IdleWorker) \/ Moves(a, w, [me EXCEPT !.pc = "event"])
        \/ Moves(a, w, [me EXCEPT !.pc = "push"])
    BY <1>1, <1>2, <1>5, IdleMoves
    DEF Moves, SaveTransitionalPayload, SendActionEvent, DeleteTransitionalPayload, WorkerOK
  <1>7. WorkersTyped /\ WorkersAcked
    BY <1>2, <1>6, MoveWorker DEF WalletKept
  <1> QED
    BY <1>3, <1>4, <1>7, StepInv

LEMMA DecideInv ==
    ASSUME IInv, NEW a \in Agents, NEW w \in Handlers, NEW t \in EventTypes,
           Decide(a, w, t), events' \in [Agents -> [EventTypes -> Nat]], doubles' \in Nat
    PROVE  IInv'
  <1>1. PICK opt \in Options, stop \in BOOLEAN :
           /\ rounds' = IF opt = "propose" THEN rounds + 1 ELSE rounds
           /\ Goto(a, w, [IdleWorker EXCEPT !.pc = "delete", !.type = t,
                                            !.opt = opt, !.stop = stop])
    <2>1. Offers(t) \subseteq Options
      BY DEF Offers, Options
    <2> QED
      BY <2>1 DEF Decide
  <1> DEFINE x == [IdleWorker EXCEPT !.pc = "delete", !.type = t, !.opt = opt, !.stop = stop]
  <1>2. UNCHANGED <<state, payload, wallet, net, opened, duplicates, failures, crashes>>
    BY DEF Decide
  <1>3. w \in Workers
    BY DEF Workers
  <1>4. WorkerOK(w, x) /\ ~ HasAck(x)
    <2>1. t \in Types /\ t # "ack"
      BY DEF EventTypes, CanTriggerActionEvents
    <2> QED
      BY <2>1, IdleIsFine DEF WorkerOK, Worker, HasAck, Backed, IdleWorker, PCs
  <1>5. WorkersTyped /\ WorkersAcked
    BY <1>1, <1>2, <1>3, <1>4, MoveWorker DEF WalletKept, Moves, Backed, HasAck
  <1>6. OthersTyped
    BY <1>1, <1>2 DEF IInv, TypeOK, OthersTyped
  <1> QED
    BY <1>2, <1>5, <1>6, QuietNet, StepInv DEF WalletKept

LEMMA AnswerInv ==
    ASSUME IInv, NEW a \in Agents, NEW w \in Handlers,
           AnswerAction(a, w) \/ \E t \in EventTypes : AnswerEvent(a, w, t)
    PROVE  IInv'
  <1>0. events \in [Agents -> [EventTypes -> Nat]] /\ payload[a] \in EventTypes \cup {"none"}
    BY DEF IInv, TypeOK
  <1>1. CASE AnswerAction(a, w)
    <2>1. doubles' \in Nat
      BY <1>1 DEF AnswerAction, IInv, TypeOK
    <2> QED
      BY <1>0, <1>1, <2>1, DecideInv DEF AnswerAction
  <1>2. CASE \E t \in EventTypes : AnswerEvent(a, w, t)
    <2>1. PICK t \in EventTypes : AnswerEvent(a, w, t)
      BY <1>2
    <2>2. events' \in [Agents -> [EventTypes -> Nat]]
      <3>1. events[a][t] - 1 \in Nat
        BY <1>0, <2>1 DEF AnswerEvent
      <3> QED
        BY <1>0, <2>1, <3>1, SetCount DEF AnswerEvent
    <2>3. doubles' \in Nat
      BY <2>1 DEF AnswerEvent, IInv, TypeOK
    <2> QED
      BY <2>1, <2>2, <2>3, DecideInv DEF AnswerEvent
  <1> QED
    BY <1>1, <1>2

-----------------------------------------------------------------------------
(***************************************************************************)
(* The listener.                                                            *)
(***************************************************************************)
LEMMA TakeCallbackInv ==
    ASSUME IInv, NEW a \in Agents, NEW w \in Workers, TakeCallback(a, w)
    PROVE  IInv'
  <1> DEFINE me == workers[a][w]
             x  == [me EXCEPT !.pc = IF me.stop THEN "abandon" ELSE "handle"]
  <1>1. WorkerOK(w, me) /\ Backed(me, wallet) /\ me.pc = "push"
    BY DEF IInv, TypeOK, AckInv, TakeCallback
  <1>2. UNCHANGED <<state, payload, wallet, net, events, used>>
    BY DEF TakeCallback
  <1>3. WorkerOK(Listener, x) /\ Backed(x, wallet)
    BY <1>1 DEF WorkerOK, Worker, HasAck, Backed, PCs
  <1>4. x \in Worker /\ IdleWorker \in Worker /\ Listener \in Workers
    BY <1>3, IdleIsFine DEF WorkerOK, Workers
  <1>5. w # Listener
    BY DEF TakeCallback
  <1>6. workers' = [workers EXCEPT ![a][w] = IdleWorker, ![a][Listener] = x]
    BY DEF TakeCallback
  <1>7. workers \in [Agents -> [Workers -> Worker]]
    BY DEF IInv, TypeOK
  <1>8. workers' \in [Agents -> [Workers -> Worker]]
    BY <1>4, <1>6, <1>7
  <1>9. ASSUME NEW b \in Agents, NEW v \in Workers
        PROVE  workers'[b][v] = IF b = a /\ v = Listener THEN x
                                ELSE IF b = a /\ v = w THEN IdleWorker ELSE workers[b][v]
    BY <1>4, <1>5, <1>6, <1>7
  <1>10. WorkersTyped
    <2>1. ASSUME NEW b \in Agents, NEW v \in Workers PROVE WorkerOK(v, workers'[b][v])
      BY <1>3, <1>9, IdleIsFine DEF IInv, TypeOK
    <2> QED
      BY <1>8, <2>1 DEF WorkersTyped
  <1>11. WorkersAcked
    BY <1>2, <1>3, <1>9, IdleIsFine DEF WorkersAcked, IInv, AckInv
  <1>12. OthersTyped
    BY <1>2 DEF IInv, TypeOK, OthersTyped, used
  <1> QED
    BY <1>2, <1>10, <1>11, <1>12, QuietNet, StepInv DEF WalletKept

LEMMA ListenerInv ==
    ASSUME IInv, NEW a \in Agents, NEW w \in Workers,
           SaveCredential(a, w) \/ Execute(a, w) \/ Abandon(a, w)
    PROVE  IInv'
  <1> DEFINE me == workers[a][w]
  <1>1. WorkerOK(w, me) /\ Backed(me, wallet) /\ w = Listener
    BY DEF IInv, TypeOK, AckInv, SaveCredential, Execute, Abandon, WorkerOK
  <1>2. me.opt \in Options /\ me.type \in Types \cup {"none"}
    BY <1>1 DEF WorkerOK, Worker
  <1>3. UNCHANGED <<state, payload, net, events, used>> /\ WalletKept /\ wallet' \in {"empty", "skipped", "saved"}
    BY DEF SaveCredential, AcceptUnsaved, WalletKept, Execute, Abandon, IInv, TypeOK
  <1>4. OthersTyped
    BY <1>3 DEF IInv, TypeOK, OthersTyped, used
  <1>5. SUFFICES \E x : Moves(a, w, x)
    BY <1>3, <1>4, MoveWorker, QuietNet, StepInv DEF WalletKept
  <1> DEFINE z == [me EXCEPT !.pc = "abandon"]
  <1>6. WorkerOK(w, z) /\ Backed(z, wallet')
    BY <1>1, <1>3 DEF WorkerOK, Worker, HasAck, Backed, PCs, WalletKept
  <1>7. CASE SaveCredential(a, w)
    <2> DEFINE r == ExecuteInbound("credential-received", me.opt)
               x == [me EXCEPT !.pc = "save", !.last = r.last, !.out = r.out]
    <2>1. r = Result("done", "ack")
      BY DEF ExecuteInbound
    <2>2. r.last \in StoredStates /\ r.out \in Types \cup {"none"}
      BY <2>1 DEF Result, StoredStates, Types
    <2>3. CASE Conclude(a, w, r)
      <3>1. wallet' # "empty" /\ (me.opt # "skip" => wallet' = "saved")
        BY <1>7, <2>1, <2>3 DEF SaveCredential, AcceptUnsaved, Conclude
      <3>2. WorkerOK(w, x) /\ Backed(x, wallet')
        BY <1>1, <2>2, <3>1 DEF WorkerOK, Worker, HasAck, Backed, PCs
      <3> QED
        BY <2>3, <3>2 DEF Conclude, Moves
    <2>4. CASE Goto(a, w, z)
      BY <1>6, <2>4 DEF Moves
    <2> QED
      BY <1>7, <2>3, <2>4 DEF SaveCredential, AcceptUnsaved
  <1>8. CASE Execute(a, w)
    <2> DEFINE r == ExecuteInbound(NextState(me.type), me.opt)
               x == [me EXCEPT !.pc = "save", !.last = r.last, !.out = r.out]
    <2>1. me.type \in Types
      BY <1>1, <1>8 DEF Execute, WorkerOK, EventTypes
    <2>2. r.last \in StoredStates /\ r.out \in Types \cup {"none"} /\ r.out # "ack"
      BY <1>2, <1>8, <2>1, ExecuteType DEF Execute
    <2> HIDE DEF r
    <2>3. WorkerOK(w, x) /\ Backed(x, wallet')
      BY <1>1, <1>3, <2>2 DEF WorkerOK, Worker, HasAck, Backed, PCs, WalletKept
    <2>4. Goto(a, w, z) \/ Goto(a, w, x)
      BY <1>8 DEF Execute, Conclude, r
    <2> QED
      BY <1>6, <2>3, <2>4 DEF Moves
  <1>9. CASE Abandon(a, w)
    <2> DEFINE r == Abandoned(me.type)
               x == [me EXCEPT !.pc = "save", !.abandons = TRUE, !.last = r.last, !.out = r.out]
    <2>1. r.last \in StoredStates /\ r.out \in Types \cup {"none"} /\ r.out # "ack"
      BY AbandonedType DEF StoredStates, Types
    <2> HIDE DEF r
    <2>2. WorkerOK(w, x) /\ Backed(x, wallet')
      BY <1>1, <1>3, <2>1 DEF WorkerOK, Worker, HasAck, Backed, PCs, WalletKept
    <2>3. Goto(a, w, x)
      BY <1>9 DEF Abandon, r
    <2> QED
      BY <2>2, <2>3 DEF Moves
  <1> QED
    BY <1>7, <1>8, <1>9

LEMMA SaveStateNameInv ==
    ASSUME IInv, NEW a \in Agents, NEW w \in Workers, SaveStateName(a, w)
    PROVE  IInv'
  <1> DEFINE me == workers[a][w]
             x  == [me EXCEPT !.pc = "act"]
  <1>1. WorkerOK(w, me) /\ Backed(me, wallet) /\ me.last \in StoredStates
    BY DEF IInv, TypeOK, AckInv, WorkerOK, Worker
  <1>2. UNCHANGED <<payload, wallet, net, events, used>>
    BY DEF SaveStateName
  <1>3. OthersTyped
    BY <1>1, <1>2 DEF SaveStateName, IInv, TypeOK, OthersTyped, used
  <1>4. CASE me.out = "none"
    <2>1. Idle(a, w)
      BY <1>4 DEF SaveStateName
    <2> QED
      BY <1>2, <1>3, <2>1, IdleMoves, MoveWorker, QuietNet, StepInv DEF WalletKept
  <1>5. CASE me.out # "none"
    <2>1. WorkerOK(w, x) /\ Backed(x, wallet')
      BY <1>1, <1>2, <1>5 DEF WorkerOK, Worker, HasAck, Backed, PCs
    <2>2. Goto(a, w, x)
      BY <1>5 DEF SaveStateName
    <2> QED
      BY <1>2, <1>3, <2>1, <2>2, MoveWorker, QuietNet, StepInv DEF WalletKept, Moves
  <1> QED
    BY <1>4, <1>5

\* A goroutine that sends an ack has the credential in the wallet.
LEMMA SendNet ==
    ASSUME IInv, NEW a \in Agents, NEW t \in Types, Send(a, t), t = "ack" => wallet # "empty",
           UNCHANGED wallet
    PROVE  net' \in [Agents -> [Types -> Nat]] /\ NetAcked
  <1>1. Peer(a) \in Agents /\ "ack" \in Types
    BY PeerType DEF Types
  <1>2. net \in [Agents -> [Types -> Nat]] /\ net[Peer(a)][t] + 1 \in Nat
    BY <1>1 DEF IInv, TypeOK
  <1>3. net' = [net EXCEPT ![Peer(a)][t] = net[Peer(a)][t] + 1]
    BY DEF Send
  <1>4. \A b \in Agents : net'[b]["ack"] = net[b]["ack"] \/ t = "ack"
    BY <1>1, <1>2, <1>3, SetCount
  <1> QED
    BY <1>1, <1>2, <1>3, <1>4, SetCount DEF NetAcked, IInv, AckInv

LEMMA ActInv ==
    ASSUME IInv, NEW a \in Agents, NEW w \in Workers, Act(a, w)
    PROVE  IInv'
  <1> DEFINE me == workers[a][w]
  <1>1. WorkerOK(w, me) /\ Backed(me, wallet) /\ me.pc = "act"
    BY DEF IInv, TypeOK, AckInv, Act
  <1>2. me.out \in Types /\ (me.out = "ack" => wallet # "empty")
    BY <1>1 DEF WorkerOK, Worker, HasAck, Backed
  <1>3. net' \in [Agents -> [Types -> Nat]] /\ NetAcked
    BY <1>2, SendNet DEF Act
  <1>4. OthersTyped
    BY <1>3 DEF Act, IInv, TypeOK, OthersTyped, used
  <1>5. Idle(a, w) /\ WalletKept
    BY DEF Act, WalletKept
  <1> QED
    BY <1>3, <1>4, <1>5, IdleMoves, MoveWorker, StepInv DEF WalletKept

-----------------------------------------------------------------------------
(***************************************************************************)
(* Failures and restarts.                                                   *)
(***************************************************************************)
LEMMA FailInv ==
    ASSUME IInv, NEW a \in Agents, NEW w \in Workers, Fail(a, w)
    PROVE  IInv'
  <1> DEFINE me == workers[a][w]
             x  == [me EXCEPT !.pc = "abandon"]
             y  == [me EXCEPT !.pc = "push"]
  <1>1. WorkerOK(w, me) /\ Backed(me, wallet)
    BY DEF IInv, TypeOK, AckInv
  <1>2. UNCHANGED <<state, payload, wallet, events, opened, rounds, duplicates, doubles, crashes>>
    BY DEF Fail
  <1>3. net' \in [Agents -> [Types -> Nat]] /\ NetAcked
    <2>1. CASE UNCHANGED net
      BY <1>2, <2>1, QuietNet DEF WalletKept, IInv, TypeOK
    <2>2. CASE me.pc = "act" /\ Send(a, me.out)
      <3>1. me.out \in Types /\ (me.out = "ack" => wallet # "empty")
        BY <1>1, <2>2 DEF WorkerOK, Worker, HasAck, Backed
      <3> QED
        BY <1>2, <2>2, <3>1, SendNet
    <2> QED
      BY <2>1, <2>2 DEF Fail
  <1>4. OthersTyped
    BY <1>2, <1>3 DEF Fail, IInv, TypeOK, OthersTyped
  <1>5. CASE Idle(a, w)
    BY <1>2, <1>3, <1>4, <1>5, IdleMoves, MoveWorker, StepInv DEF WalletKept
  <1>6. CASE w = Listener /\ Goto(a, w, x)
    <2>1. WorkerOK(w, x) /\ Backed(x, wallet')
      BY <1>1, <1>2, <1>6 DEF WorkerOK, Worker, HasAck, Backed, PCs
    <2> QED
      BY <1>2, <1>3, <1>4, <1>6, <2>1, MoveWorker, StepInv DEF WalletKept, Moves
  <1>7. CASE me.pc = "delete" /\ Goto(a, w, y)
    <2>1. WorkerOK(w, y) /\ Backed(y, wallet')
      BY <1>1, <1>2, <1>7 DEF WorkerOK, Worker, HasAck, Backed, PCs
    <2> QED
      BY <1>2, <1>3, <1>4, <1>7, <2>1, MoveWorker, StepInv DEF WalletKept, Moves
  <1> QED
    BY <1>5, <1>6, <1>7 DEF Fail

LEMMA LoseInv ==
    ASSUME IInv, NEW a \in Agents, NEW t \in Types, Lose(a, t)
    PROVE  IInv'
  <1>1. net \in [Agents -> [Types -> Nat]] /\ net[a][t] - 1 \in Nat /\ "ack" \in Types
    BY DEF Lose, IInv, TypeOK, Types
  <1>2. net' = [net EXCEPT ![a][t] = net[a][t] - 1]
    BY DEF Lose
  <1>3. net' \in [Agents -> [Types -> Nat]]
    BY <1>1, <1>2, SetCount
  <1>4. \A b \in Agents : net'[b]["ack"] > 0 => net[b]["ack"] > 0
    BY <1>1, <1>2, SetCount
  <1>5. NetAcked
    BY <1>4 DEF NetAcked, Lose, IInv, AckInv
  <1>6. OthersTyped
    BY <1>3 DEF Lose, IInv, TypeOK, OthersTyped
  <1>7. WorkersTyped /\ WorkersAcked
    BY DEF Lose, IInv, TypeOK, AckInv, WorkersTyped, WorkersAcked
  <1> QED
    BY <1>5, <1>6, <1>7, StepInv

LEMMA CrashInv ==
    ASSUME IInv, NEW a \in Agents, Crash(a)
    PROVE  IInv'
  <1>1. UNCHANGED <<state, payload, wallet, net, opened, rounds, duplicates, doubles, failures>>
    BY DEF Crash
  <1>2. events' \in [Agents -> [EventTypes -> Nat]]
    BY DEF Crash, IInv, TypeOK
  <1>3. workers' \in [Agents -> [Workers -> Worker]]
    BY IdleIsFine DEF Crash, IInv, TypeOK
  <1>4. \A b \in Agents, v \in Workers : workers'[b][v] \in {IdleWorker, workers[b][v]}
    BY DEF Crash, IInv, TypeOK
  <1>5. WorkersTyped
    BY <1>3, <1>4, IdleIsFine DEF IInv, TypeOK, WorkersTyped
  <1>6. WorkersAcked
    BY <1>1, <1>4, IdleIsFine DEF IInv, AckInv, WorkersAcked
  <1>7. OthersTyped
    BY <1>1, <1>2 DEF Crash, IInv, TypeOK, OthersTyped
  <1> QED
    BY <1>1, <1>5, <1>6, <1>7, QuietNet, StepInv DEF WalletKept

-----------------------------------------------------------------------------
\* Every step keeps the invariant.
LEMMA NextInv == IInv /\ [Next]_vars => IInv'
  <1> SUFFICES ASSUME IInv, [Next]_vars PROVE IInv'
    OBVIOUS
  <1>1. CASE UNCHANGED vars
    BY <1>1 DEF vars, used, IInv, TypeOK, AckInv
  <1>2. CASE \E w \in Handlers : HandleOutbound(w)
    BY <1>2, HandleOutboundInv
  <1>3. ASSUME NEW a \in Agents, Receive(a) PROVE IInv'
    BY <1>3, HandleInboundInv DEF Receive
  <1>4. ASSUME NEW a \in Agents, Answer(a) PROVE IInv'
    BY <1>4, AnswerInv DEF Answer
  <1>5. ASSUME NEW a \in Agents, NEW w \in Workers, Run(a, w) PROVE IInv'
    BY <1>5, ClientInv, TakeCallbackInv, ListenerInv, SaveStateNameInv, ActInv DEF Run
  <1> QED
    BY <1>1, <1>2, <1>3, <1>4, <1>5, FailInv, LoseInv, CrashInv DEF Next

\* Every variable of every thread holds a value of its kind, for any constants.
THEOREM TypeCorrect == Spec => []TypeOK
  <1>1. IInv => TypeOK
    BY DEF IInv
  <1> QED
    BY <1>1, InitInv, NextInv, PTL DEF Spec

\* An issuer has an ack only for a credential the holder has accepted, and a goroutine
\* that is to send one has it in the verifiable store unless its client asked for it not
\* to be saved; whatever is repeated, answered twice, lost, failing or restarted.
THEOREM AckAfterSave == Spec => []AckMeansSaved
  <1>1. IInv => AckMeansSaved
    BY DEF IInv, AckInv, AckMeansSaved, HasAck, Backed, Agents
  <1> QED
    BY <1>1, InitInv, NextInv, PTL DEF Spec

-----------------------------------------------------------------------------
(***************************************************************************)
(* Threads in which each message is delivered once, each payload answered by *)
(* one call at a time and nothing fails, though agents may restart at any    *)
(* time.  There is one turn in such a thread: a message on its way, a stored *)
(* payload, or a goroutine between two of these.  Whoever has it knows what  *)
(* both agents have stored, since nobody else can have changed it.           *)
(***************************************************************************)
Orderly == MaxDuplicates = 0 /\ MaxDoubles = 0 /\ MaxFailures = 0

InNet(a, t)  == net[a][t] > 0
InStore(a)   == payload[a] # "none"
InHand(a, w) == workers[a][w].pc \in {"payload", "push", "handle", "abandon", "save", "act"}

\* No two places have the turn, and none does before the thread is opened.  A restart
\* may lose it.
OneTurn ==
    /\ \A a, b \in Agents, t, u \in Types : InNet(a, t) /\ InNet(b, u) => a = b /\ t = u
    /\ \A a \in Agents, t \in Types : net[a][t] <= 1
    /\ \A a, b \in Agents : InStore(a) /\ InStore(b) => a = b
    /\ \A a, b \in Agents, v, w \in Workers : InHand(a, v) /\ InHand(b, w) => a = b /\ v = w
    /\ \A a, b \in Agents, t \in Types : InNet(a, t) => ~ InStore(b)
    /\ \A a, b \in Agents, t \in Types, w \in Workers : InNet(a, t) => ~ InHand(b, w)
    /\ \A a, b \in Agents, w \in Workers : InStore(a) => ~ InHand(b, w)
    /\ ~ opened => \A a \in Agents : /\ ~ InStore(a)
                                     /\ \A t \in Types : ~ InNet(a, t)
                                     /\ \A w \in Workers : ~ InHand(a, w)

\* A stored payload is claimed by one goroutine or one event at most.
Claims(a, w) == \/ workers[a][w].pc = "delete"
                \/ a \in ByEvent /\ workers[a][w].pc = "event"
OneClaim == \A a \in Agents :
    /\ \A v, w \in Workers : Claims(a, v) /\ Claims(a, w) => v = w
    /\ \A w \in Workers : Claims(a, w) => payload[a] = workers[a][w].type
    /\ workers[a][Listener].pc \notin {"payload", "event", "delete", "push"}
    /\ a \in ByEvent => \A t \in EventTypes : events[a][t] > 0 =>
           events[a][t] = 1 /\ payload[a] = t /\ \A w \in Workers : ~ Claims(a, w)

\* What a message of type t needs of its receiver's state and leaves as its sender's,
\* and the states its sender comes from.
Receives(a, t) == CASE t \in {"propose", "request", "ack"} -> a = Issuer
                    [] t \in {"offer", "issue"}            -> a = Holder
                    [] t = "problem-report"                -> TRUE
Takes(t) == CASE t \in {"propose", "request"} -> {"start", "offer-sent"}
              [] t = "offer"                  -> {"start", "proposal-sent"}
              [] t = "issue"                  -> {"request-sent"}
              [] t = "ack"                    -> {"credential-issued"}
              [] t = "problem-report"         -> {"proposal-sent", "offer-sent", "request-sent",
                                                  "credential-issued"}
SentAs(t) == CASE t = "propose"                 -> "proposal-sent"
               [] t = "offer"                   -> "offer-sent"
               [] t = "request"                 -> "request-sent"
               [] t = "issue"                   -> "credential-issued"
               [] t \in {"ack", "problem-report"} -> "done"
Leaves(t) == CASE t \in {"propose", "request"} -> {"start", "proposal-sent"}
               [] t \in {"offer", "issue"}     -> {"start", "offer-sent"}
               [] t = "ack"                    -> {"request-sent"}
               [] OTHER                        -> StoredStates \ {"done"}

\* What is true of the stores when agent a is to take a message, ...
Fits(a, t) ==
    /\ Receives(a, t) /\ state[a] \in Takes(t) /\ state[Peer(a)] = SentAs(t)
    /\ wallet # "empty" => t = "ack"

\* ... when a goroutine is about to store what it has executed, ...
FitsSave(a, me) ==
    /\ state[a] \in Leaves(me.out)
    /\ IF me.out = "none"
       THEN me.last = "done" /\ state[Peer(a)] = "done" /\ (wallet # "empty" => a = Issuer)
       ELSE /\ Receives(Peer(a), me.out) /\ state[Peer(a)] \in Takes(me.out)
            /\ me.last = SentAs(me.out) /\ (wallet # "empty" => me.out = "ack")

\* ... and of every place the turn may be.
FitsWorker(a, me) ==
    /\ me.pc \in {"payload", "push", "handle", "abandon"} => me.type \in EventTypes /\ Fits(a, me.type)
    /\ me.pc = "save" => FitsSave(a, me)
    /\ me.pc = "act" => Fits(Peer(a), me.out)
Steps ==
    /\ \A a \in Agents, t \in Types : InNet(a, t) \/ payload[a] = t => Fits(a, t)
    /\ \A a \in Agents, w \in Workers : FitsWorker(a, workers[a][w])
    /\ ~ opened => wallet = "empty" /\ \A a \in Agents : state[a] = "start"

OrderlyInv == TypeOK /\ OneTurn /\ OneClaim /\ Steps

\* Moving one worker leaves the others where they are.
LEMMA MovedWorker ==
    ASSUME TypeOK, NEW a \in Agents, NEW w \in Workers, NEW x, Goto(a, w, x)
    PROVE  \A b \in Agents, v \in Workers :
              workers'[b][v] = IF b = a /\ v = w THEN x ELSE workers[b][v]
  BY DEF TypeOK, Goto

\* The listener is a goroutine of its own.
LEMMA ListenerWorks ==
    Listener \in Workers /\ \A w \in Handlers : w \in Workers /\ w # Listener
  BY PartiesAssumption DEF Workers

\* There are two agents, each the other's peer.
LEMMA Peers == \A a \in Agents : Peer(a) \in Agents /\ Peer(a) # a /\ Peer(Peer(a)) = a
                  /\ \A b \in Agents : b = a \/ b = Peer(a)
  BY PartiesAssumption DEF Peer, Agents

\* A step that stores no state name: what fitted fits, and the worker that moves and the
\* mail that is there afterwards have to fit.
LEMMA QuietSteps ==
    ASSUME OrderlyInv, UNCHANGED <<state, wallet>>, opened' \/ UNCHANGED opened,
           NEW a \in Agents, NEW w \in Workers, NEW x, Goto(a, w, x), FitsWorker(a, x),
           \A b \in Agents, t \in Types :
              net'[b][t] > 0 \/ payload'[b] = t => Fits(b, t)
    PROVE  Steps'
  <1>1. \A b, t : Fits(b, t)' <=> Fits(b, t)
    BY DEF Fits
  <1>2. \A b, me : FitsSave(b, me)' <=> FitsSave(b, me)
    BY DEF FitsSave
  <1>3. \A b, me : FitsWorker(b, me)' <=> FitsWorker(b, me)
    BY <1>1, <1>2 DEF FitsWorker
  <1>4. \A b \in Agents, v \in Workers : FitsWorker(b, workers'[b][v])
    BY MovedWorker DEF OrderlyInv, Steps
  <1> QED
    BY <1>1, <1>3, <1>4 DEF OrderlyInv, Steps, InNet

\* A step that sends and takes nothing keeps what the messages and payloads need.
LEMMA SameMail ==
    ASSUME OrderlyInv, UNCHANGED <<net, payload>>
    PROVE  \A b \in Agents, t \in Types : net'[b][t] > 0 \/ payload'[b] = t => Fits(b, t)
  BY DEF OrderlyInv, Steps, InNet

\* An idle worker fits everywhere.
LEMMA IdleFits == \A a : FitsWorker(a, IdleWorker)
  BY DEF FitsWorker, IdleWorker

\* One lemma per action: the turn is passed on, and what has it fits.
LEMMA HandleOutboundTurn ==
    ASSUME OrderlyInv, NEW w \in Handlers, HandleOutbound(w)
    PROVE  OneTurn' /\ OneClaim' /\ Steps'
  <1> DEFINE x == [IdleWorker EXCEPT !.pc = "save", !.last = OpeningState, !.out = Opening]
  <1>1. Opener \in Agents /\ w \in Workers
    BY DEF Opener, Agents, Workers
  <1>2. \A b \in Agents, v \in Workers :
              workers'[b][v] = IF b = Opener /\ v = w THEN x ELSE workers[b][v]
    BY <1>1, MovedWorker DEF HandleOutbound, OrderlyInv
  <1>3. UNCHANGED <<state, payload, wallet, net, events>> /\ opened' /\ ~opened
    BY DEF HandleOutbound
  <1>4. x.pc = "save" /\ x.out = Opening /\ x.last = OpeningState
    BY DEF IdleWorker
  <1>5. FitsWorker(Opener, x)
    <2>1. wallet = "empty" /\ state[Opener] = "start" /\ state[Peer(Opener)] = "start"
      BY <1>1, <1>3, Peers DEF OrderlyInv, Steps
    <2> QED
      BY <1>4, <2>1, PartiesAssumption
      DEF FitsWorker, FitsSave, Takes, SentAs, Receives, Leaves, Opener, OpeningState, Peer
  <1> HIDE DEF x
  <1>6. OneTurn'
    BY <1>1, <1>2, <1>3, <1>4 DEF OneTurn, OrderlyInv, InNet, InStore, InHand
  <1>7. OneClaim'
    BY <1>1, <1>2, <1>3, <1>4, ListenerWorks DEF OneClaim, OrderlyInv, Claims
  <1>8. Goto(Opener, w, x)
    BY DEF HandleOutbound, x
  <1>9. Steps'
    BY <1>1, <1>3, <1>5, <1>8, SameMail, QuietSteps
  <1> QED
    BY <1>6, <1>7, <1>9

\* A message that fits is one its receiver's state takes.
LEMMA FitsIsTaken ==
    ASSUME NEW a, NEW t \in Types, Fits(a, t)
    PROVE  CanTransitionTo(state[a], NextState(t))
  BY DEF Fits, Takes, CanTransitionTo, NextState, Types

LEMMA HandleInboundTurn ==
    ASSUME OrderlyInv, Orderly, NEW a \in Agents, NEW w \in Handlers, NEW t \in Types, HandleInbound(a, w, t)
    PROVE  OneTurn' /\ OneClaim' /\ Steps'
  <1> DEFINE x == [IdleWorker EXCEPT !.pc = "payload", !.type = t]
             y == [IdleWorker EXCEPT !.pc = "save", !.type = t,
                                     !.last = ExecuteInbound(NextState(t), "none").last]
  <1>1. w \in Workers /\ UNCHANGED <<state, payload, wallet, events, opened>>
        /\ workers[a][w].pc = "idle"
    BY DEF Workers, HandleInbound
  <1>2. net[a][t] > 0 /\ net' = [net EXCEPT ![a][t] = net[a][t] - 1]
    BY LimitsAssumption DEF HandleInbound, Deliver, Orderly, OrderlyInv, TypeOK
  <1>3. \A b \in Agents, u \in Types : net'[b][u] = 0
    <2>1. net[a][t] = 1 /\ net \in [Agents -> [Types -> Nat]]
      BY <1>2 DEF OrderlyInv, OneTurn, TypeOK
    <2>2. \A b \in Agents, u \in Types : net'[b][u] = IF b = a /\ u = t THEN 0 ELSE net[b][u]
      BY <1>2, <2>1
    <2>3. \A b \in Agents, u \in Types : net[b][u] > 0 => b = a /\ u = t
      BY <1>2 DEF OrderlyInv, OneTurn, InNet
    <2> QED
      BY <2>1, <2>2, <2>3
  <1>4. Fits(a, t) /\ opened
    BY <1>2 DEF OrderlyInv, OneTurn, Steps, InNet
  <1>5. \A b \in Agents : payload[b] = "none" /\ \A v \in Workers : ~ InHand(b, v)
    BY <1>2 DEF OrderlyInv, OneTurn, InNet, InStore
  <1>6. \E z : Goto(a, w, z) /\ FitsWorker(a, z) /\ z.pc \in {"payload", "save"}
    <2>1. CASE Goto(a, w, x) /\ CanTriggerActionEvents(t)
      <3>1. x.pc = "payload" /\ x.type = t
        BY DEF IdleWorker
      <3>2. FitsWorker(a, x)
        BY <1>4, <2>1, <3>1 DEF FitsWorker, EventTypes
      <3> QED
        BY <2>1, <3>1, <3>2
    <2>2. CASE Goto(a, w, y) /\ ~ CanTriggerActionEvents(t)
      <3>1. t = "ack" /\ ExecuteInbound(NextState(t), "none").last = "done"
        BY <2>2 DEF CanTriggerActionEvents, ExecuteInbound, NextState, Result
      <3>2. y.pc = "save" /\ y.last = "done" /\ y.out = "none"
        BY <3>1 DEF IdleWorker
      <3>3. state[a] = "credential-issued" /\ state[Peer(a)] = "done" /\ a = Issuer
        BY <1>4, <3>1 DEF Fits, Receives, Takes, SentAs
      <3>4. FitsWorker(a, y)
        BY <3>2, <3>3 DEF FitsWorker, FitsSave, Leaves, StoredStates
      <3> QED
        BY <2>2, <3>2, <3>4
    <2> QED
      BY <1>4, <2>1, <2>2, FitsIsTaken DEF HandleInbound
  <1>7. PICK z : Goto(a, w, z) /\ FitsWorker(a, z) /\ z.pc \in {"payload", "save"}
    BY <1>6
  <1>8. \A b \in Agents, v \in Workers :
              workers'[b][v] = IF b = a /\ v = w THEN z ELSE workers[b][v]
    BY <1>1, <1>7, MovedWorker DEF OrderlyInv
  <1>9. OneTurn'
    BY <1>1, <1>3, <1>4, <1>5, <1>7, <1>8 DEF OneTurn, InNet, InStore, InHand
  <1>10. OneClaim'
    BY <1>1, <1>7, <1>8, ListenerWorks DEF OneClaim, OrderlyInv, Claims
  <1>11. Steps'
    <2>1. \A b \in Agents, u \in Types : net'[b][u] > 0 \/ payload'[b] = u => Fits(b, u)
      BY <1>1, <1>3, <1>5 DEF Types
    <2> QED
      BY <1>1, <1>4, <1>7, <2>1, QuietSteps
  <1> QED
    BY <1>9, <1>10, <1>11

LEMMA SavePayloadTurn ==
    ASSUME OrderlyInv, NEW a \in Agents, NEW w \in Workers, SaveTransitionalPayload(a, w)
    PROVE  OneTurn' /\ OneClaim' /\ Steps'
  <1> DEFINE me == workers[a][w]
             x  == [me EXCEPT !.pc = "event"]
  <1>1. me.pc = "payload" /\ UNCHANGED <<state, wallet, net, events, opened>> /\ Goto(a, w, x)
        /\ payload' = [payload EXCEPT ![a] = me.type]
    BY DEF SaveTransitionalPayload, used
  <1>2. InHand(a, w)
    BY <1>1 DEF InHand
  <1>3. me \in Worker /\ me.type \in EventTypes
    BY <1>1 DEF OrderlyInv, TypeOK, WorkerOK
  <1>4. x.pc = "event" /\ x.type = me.type
    BY <1>3 DEF Worker
  <1>5. \A b \in Agents, v \in Workers :
              workers'[b][v] = IF b = a /\ v = w THEN x ELSE workers[b][v]
    BY <1>1, MovedWorker DEF OrderlyInv
  <1>6. \A b \in Agents : payload[b] = "none" /\ payload'[b] = IF b = a THEN me.type ELSE "none"
    BY <1>1, <1>2 DEF OrderlyInv, OneTurn, InStore, TypeOK
  <1>7. opened /\ (\A b \in Agents, t \in Types : ~ InNet(b, t))
        /\ (\A b \in Agents, v \in Workers : InHand(b, v) => b = a /\ v = w)
    BY <1>2 DEF OrderlyInv, OneTurn
  <1>8. \A b \in Agents, v \in Workers : ~ Claims(b, v)
    <2>1. "none" \notin EventTypes
      BY DEF EventTypes, Types
    <2>2. \A b \in Agents, v \in Workers : Claims(b, v) => workers[b][v].type \in EventTypes
      BY DEF OrderlyInv, TypeOK, WorkerOK, Claims
    <2> QED
      BY <1>6, <2>1, <2>2 DEF OrderlyInv, OneClaim
  <1>9. \A b \in ByEvent, t \in EventTypes : b \in Agents => ~ (events[b][t] > 0)
    BY <1>6 DEF OrderlyInv, OneClaim, EventTypes, Types
  <1> HIDE DEF x
  <1>13. w # Listener
    BY <1>1 DEF OrderlyInv, OneClaim
  <1>10. OneTurn' 
    BY <1>1, <1>4, <1>5, <1>6, <1>7 DEF OneTurn, OrderlyInv, InNet, InStore, InHand
  <1>11. OneClaim'
    BY <1>1, <1>4, <1>5, <1>6, <1>8, <1>9, <1>13, ListenerWorks DEF OneClaim, OrderlyInv, Claims
  <1>12. Steps'
    <2>1. FitsWorker(a, x)
      BY <1>4 DEF FitsWorker
    <2>2. Fits(a, me.type)
      BY <1>1 DEF OrderlyInv, Steps, FitsWorker
    <2>3. \A b \in Agents, u \in Types : net'[b][u] > 0 \/ payload'[b] = u => Fits(b, u)
      BY <1>1, <1>6, <1>7, <2>2 DEF InNet, Types
    <2> QED
      BY <1>1, <1>7, <2>1, <2>3, QuietSteps
  <1> QED
    BY <1>10, <1>11, <1>12

LEMMA SendActionEventTurn ==
    ASSUME OrderlyInv, NEW a \in Agents, NEW w \in Workers, SendActionEvent(a, w)
    PROVE  OneTurn' /\ OneClaim' /\ Steps'
  <1> DEFINE me == workers[a][w]
  <1>1. me.pc = "event" /\ UNCHANGED <<state, payload, wallet, net, opened>>
        /\ Goto(a, w, IdleWorker)
    BY DEF SendActionEvent, used, Idle
  <1>2. me.type \in EventTypes /\ w # Listener
    BY <1>1 DEF OrderlyInv, OneClaim, TypeOK, WorkerOK
  <1>3. \A b \in Agents, t \in EventTypes :
           events'[b][t] = IF b = a /\ t = me.type THEN events[a][t] + 1 ELSE events[b][t]
    BY <1>2 DEF SendActionEvent, OrderlyInv, TypeOK
  <1>4. \A b \in Agents, v \in Workers :
              workers'[b][v] = IF b = a /\ v = w THEN IdleWorker ELSE workers[b][v]
    BY <1>1, MovedWorker DEF OrderlyInv
  <1>5. OneTurn'
    BY <1>1, <1>4 DEF OneTurn, OrderlyInv, InNet, InStore, InHand, IdleWorker
  <1>6. OneClaim'
    <2>1. ASSUME a \in ByEvent
          PROVE  /\ payload[a] = me.type /\ \A t \in EventTypes : events[a][t] = 0
                 /\ \A v \in Workers : ~ Claims(a, v)'
      <3>1. Claims(a, w)
        BY <1>1, <2>1 DEF Claims
      <3>2. \A t \in EventTypes : events[a][t] \in Nat /\ ~ (events[a][t] > 0)
        BY <2>1, <3>1 DEF OrderlyInv, OneClaim, TypeOK
      <3> QED
        BY <1>4, <3>1, <3>2 DEF OrderlyInv, OneClaim, Claims, IdleWorker
    <2>2. \A b \in Agents, v \in Workers : Claims(b, v)' => Claims(b, v) /\ workers'[b][v] = workers[b][v]
      BY <1>4 DEF Claims, IdleWorker
    <2>3. \A b \in Agents :
             /\ \A v, u \in Workers : Claims(b, v)' /\ Claims(b, u)' => v = u
             /\ \A v \in Workers : Claims(b, v)' => payload'[b] = workers'[b][v].type
             /\ workers'[b][Listener].pc \notin {"payload", "event", "delete", "push"}
      BY <1>1, <1>4, <2>2, ListenerWorks DEF OrderlyInv, OneClaim, IdleWorker
    <2>4. ASSUME NEW b \in Agents, b \in ByEvent, NEW t \in EventTypes, events'[b][t] > 0
          PROVE  events'[b][t] = 1 /\ payload'[b] = t /\ \A v \in Workers : ~ Claims(b, v)'
      <3>1. CASE b = a
        BY <1>1, <1>3, <2>1, <2>4, <3>1
      <3>2. CASE b # a
        BY <1>1, <1>3, <2>2, <2>4, <3>2 DEF OrderlyInv, OneClaim
      <3> QED
        BY <3>1, <3>2
    <2> QED
      BY <2>3, <2>4 DEF OneClaim
  <1>7. Steps'
    BY <1>1, IdleFits, SameMail, QuietSteps
  <1> QED
    BY <1>5, <1>6, <1>7

LEMMA DeleteTurn ==
    ASSUME OrderlyInv, NEW a \in Agents, NEW w \in Workers, DeleteTransitionalPayload(a, w)
    PROVE  OneTurn' /\ OneClaim' /\ Steps'
  <1> DEFINE me == workers[a][w]
             x  == [me EXCEPT !.pc = "push"]
  <1>1. me.pc = "delete" /\ UNCHANGED <<state, wallet, net, events, opened>> /\ Goto(a, w, x)
        /\ payload' = [payload EXCEPT ![a] = "none"]
    BY DEF DeleteTransitionalPayload, used
  <1>2. Claims(a, w) /\ w # Listener
    BY <1>1 DEF Claims, OrderlyInv, OneClaim
  <1>3. me.type \in EventTypes /\ me.type \in Types /\ payload[a] = me.type
    BY <1>1, <1>2 DEF OrderlyInv, TypeOK, WorkerOK, OneClaim, EventTypes
  <1>4. x.pc = "push" /\ x.type = me.type
    BY DEF OrderlyInv, TypeOK, Worker
  <1>5. \A b \in Agents, v \in Workers :
              workers'[b][v] = IF b = a /\ v = w THEN x ELSE workers[b][v]
    BY <1>1, MovedWorker DEF OrderlyInv
  <1>6. InStore(a) /\ Fits(a, me.type)
    BY <1>3 DEF InStore, OrderlyInv, Steps, Types
  <1>7. opened /\ (\A b \in Agents, t \in Types : ~ InNet(b, t))
        /\ (\A b \in Agents, v \in Workers : ~ InHand(b, v))
        /\ \A b \in Agents : payload[b] = IF b = a THEN me.type ELSE "none"
    BY <1>3, <1>6 DEF OrderlyInv, OneTurn, InStore
  <1>8. \A b \in Agents : payload'[b] = "none"
    BY <1>1, <1>7 DEF OrderlyInv, TypeOK
  <1>9. \A b \in Agents, v \in Workers : Claims(b, v) => b = a /\ v = w
    <2>1. "none" \notin EventTypes
      BY DEF EventTypes, Types
    <2>2. \A b \in Agents, v \in Workers : Claims(b, v) => workers[b][v].type \in EventTypes
      BY DEF OrderlyInv, TypeOK, WorkerOK, Claims
    <2> QED
      BY <1>2, <1>7, <2>1, <2>2 DEF OrderlyInv, OneClaim
  <1> HIDE DEF x
  <1>10. OneTurn'
    BY <1>1, <1>4, <1>5, <1>7, <1>8 DEF OrderlyInv, OneTurn, InNet, InStore, InHand
  <1>11. OneClaim'
    <2>1. \A b \in Agents, v \in Workers : ~ Claims(b, v)'
      BY <1>4, <1>5, <1>9 DEF Claims
    <2>2. \A b \in Agents, t \in EventTypes : b \in ByEvent => ~ (events[b][t] > 0)
      BY <1>2, <1>7 DEF OrderlyInv, OneClaim, EventTypes, Types
    <2>3. \A b \in Agents : workers'[b][Listener].pc \notin {"payload", "event", "delete", "push"}
      BY <1>2, <1>5, ListenerWorks DEF OrderlyInv, OneClaim
    <2> QED
      BY <1>1, <2>1, <2>2, <2>3 DEF OneClaim
  <1>12. Steps'
    <2>1. FitsWorker(a, x)
      BY <1>3, <1>4, <1>6 DEF FitsWorker
    <2>2. \A b \in Agents, u \in Types : net'[b][u] > 0 \/ payload'[b] = u => Fits(b, u)
      BY <1>1, <1>7, <1>8 DEF InNet, Types
    <2> QED
      BY <1>1, <2>1, <2>2, QuietSteps
  <1> QED
    BY <1>10, <1>11, <1>12

\* Either answer takes the one claim there is, and leaves the payload where it is.
LEMMA AnswerTurn ==
    ASSUME OrderlyInv, Orderly, NEW a \in Agents, NEW w \in Handlers,
           AnswerAction(a, w) \/ \E t \in EventTypes : AnswerEvent(a, w, t)
    PROVE  OneTurn' /\ OneClaim' /\ Steps'
  <1>1. PICK t : /\ Decide(a, w, t) /\ t \in EventTypes /\ payload[a] = t
                 /\ \A v \in Workers : ~ Claims(a, v)
                 /\ \A b \in Agents, u \in EventTypes : b \in ByEvent => events'[b][u] =
                       IF b = a /\ u = t THEN 0 ELSE events[b][u]
    <2>1. CASE AnswerAction(a, w)
      <3>1. Decide(a, w, payload[a]) /\ payload[a] # "none" /\ a \notin ByEvent /\ UNCHANGED events
        BY <2>1 DEF AnswerAction
      <3>2. \A v \in Handlers : workers[a][v].pc # "delete"
        BY <2>1, LimitsAssumption DEF AnswerAction, Orderly, OrderlyInv, TypeOK
      <3>3. \A v \in Workers : ~ Claims(a, v)
        BY <3>1, <3>2 DEF Claims, Workers, OrderlyInv, OneClaim
      <3> QED
        BY <3>1, <3>3 DEF OrderlyInv, TypeOK
    <2>2. CASE \E t \in EventTypes : AnswerEvent(a, w, t)
      <3>1. PICK t \in EventTypes : AnswerEvent(a, w, t)
        BY <2>2
      <3>2. a \in ByEvent /\ events[a][t] > 0 /\ events' = [events EXCEPT ![a][t] = events[a][t] - 1]
            /\ Decide(a, w, t)
        BY <3>1 DEF AnswerEvent
      <3>3. events[a][t] = 1 /\ payload[a] = t /\ \A v \in Workers : ~ Claims(a, v)
        BY <3>2 DEF OrderlyInv, OneClaim
      <3>4. \A b \in Agents, u \in EventTypes : events'[b][u] = IF b = a /\ u = t THEN 0 ELSE events[b][u]
        BY <3>2, <3>3 DEF OrderlyInv, TypeOK
      <3> QED
        BY <3>2, <3>3, <3>4
    <2> QED
      BY <2>1, <2>2
  <1>2. PICK x : Goto(a, w, x) /\ x.pc = "delete" /\ x.type = t
    <2>1. PICK opt, stop : Goto(a, w, [IdleWorker EXCEPT !.pc = "delete", !.type = t,
                                                         !.opt = opt, !.stop = stop])
      BY <1>1 DEF Decide
    <2>2. [IdleWorker EXCEPT !.pc = "delete", !.type = t, !.opt = opt, !.stop = stop].pc = "delete"
      BY DEF IdleWorker
    <2>3. [IdleWorker EXCEPT !.pc = "delete", !.type = t, !.opt = opt, !.stop = stop].type = t
      BY DEF IdleWorker
    <2> QED
      BY <2>1, <2>2, <2>3
  <1>3. UNCHANGED <<state, payload, wallet, net, opened>> /\ workers[a][w].pc = "idle"
    BY <1>1 DEF Decide
  <1>4. \A b \in Agents, v \in Workers :
              workers'[b][v] = IF b = a /\ v = w THEN x ELSE workers[b][v]
    BY <1>2, MovedWorker, ListenerWorks DEF OrderlyInv
  <1>5. OneTurn'
    BY <1>2, <1>3, <1>4 DEF OneTurn, OrderlyInv, InNet, InStore, InHand
  <1>6. OneClaim'
    <2>1. \A v \in Workers : Claims(a, v)' => v = w
      BY <1>1, <1>4 DEF Claims
    <2>2. \A b \in Agents, v \in Workers :
              b # a => (Claims(b, v)' <=> Claims(b, v)) /\ workers'[b][v] = workers[b][v]
      BY <1>4 DEF Claims
    <2>3. \A b \in Agents : workers'[b][Listener].pc \notin {"payload", "event", "delete", "push"}
      BY <1>4, ListenerWorks DEF OrderlyInv, OneClaim
    <2>4. \A u \in EventTypes : a \in ByEvent => ~ (events'[a][u] > 0)
      BY <1>1 DEF OrderlyInv, OneClaim
    <2>5. ASSUME NEW b \in Agents
          PROVE  /\ \A v, u \in Workers : Claims(b, v)' /\ Claims(b, u)' => v = u
                 /\ \A v \in Workers : Claims(b, v)' => payload'[b] = workers'[b][v].type
                 /\ b \in ByEvent => \A u \in EventTypes : events'[b][u] > 0 =>
                       events'[b][u] = 1 /\ payload'[b] = u /\ \A v \in Workers : ~ Claims(b, v)'
      <3>1. CASE b = a
        BY <1>1, <1>2, <1>3, <1>4, <2>1, <2>4, <3>1, ListenerWorks
      <3>2. CASE b # a
        BY <1>1, <1>3, <2>2, <3>2 DEF OrderlyInv, OneClaim
      <3> QED
        BY <3>1, <3>2
    <2> QED
      BY <2>3, <2>5 DEF OneClaim
  <1>7. Steps'
    <2>1. FitsWorker(a, x)
      BY <1>2 DEF FitsWorker
    <2> QED
      BY <1>2, <1>3, <2>1, SameMail, QuietSteps, ListenerWorks
  <1> QED
    BY <1>5, <1>6, <1>7

LEMMA TakeCallbackTurn ==
    ASSUME OrderlyInv, NEW a \in Agents, NEW w \in Workers, TakeCallback(a, w)
    PROVE  OneTurn' /\ OneClaim' /\ Steps'
  <1> DEFINE me == workers[a][w]
             x  == [me EXCEPT !.pc = IF me.stop THEN "abandon" ELSE "handle"]
  <1>1. me.pc = "push" /\ w # Listener /\ workers[a][Listener].pc = "idle"
        /\ UNCHANGED <<state, payload, wallet, net, events, opened>>
    BY DEF TakeCallback, used
  <1>2. me \in Worker /\ x.pc \in {"abandon", "handle"} /\ x.type = me.type
    BY DEF OrderlyInv, TypeOK, Worker
  <1>3. \A b \in Agents, v \in Workers :
           workers'[b][v] = IF b = a /\ v = Listener THEN x
                            ELSE IF b = a /\ v = w THEN IdleWorker ELSE workers[b][v]
    BY <1>1, ListenerWorks DEF TakeCallback, OrderlyInv, TypeOK
  <1> HIDE DEF x
  <1>4. OneTurn'
    <2>1. InHand(a, w)
      BY <1>1 DEF InHand
    <2>2. \A b \in Agents, v \in Workers : InHand(b, v)' => b = a /\ v = Listener
      BY <1>3, <2>1 DEF OrderlyInv, OneTurn, InHand, IdleWorker
    <2> QED
      BY <1>1, <2>1, <2>2 DEF OrderlyInv, OneTurn, InNet, InStore
  <1>5. OneClaim'
    <2>1. \A b \in Agents, v \in Workers :
             Claims(b, v)' => Claims(b, v) /\ workers'[b][v] = workers[b][v]
      BY <1>2, <1>3 DEF Claims, IdleWorker
    <2>2. \A b \in Agents : workers'[b][Listener].pc \notin {"payload", "event", "delete", "push"}
      BY <1>2, <1>3, ListenerWorks DEF OrderlyInv, OneClaim
    <2> QED
      BY <1>1, <2>1, <2>2 DEF OrderlyInv, OneClaim
  <1>6. Steps'
    <2>1. \A b, t : Fits(b, t)' <=> Fits(b, t)
      BY <1>1 DEF Fits
    <2>2. \A b, y : FitsWorker(b, y)' <=> FitsWorker(b, y)
      BY <1>1, <2>1 DEF FitsWorker, FitsSave
    <2>3. FitsWorker(a, x)
      BY <1>1, <1>2 DEF OrderlyInv, Steps, FitsWorker
    <2>4. \A b \in Agents, v \in Workers : FitsWorker(b, workers'[b][v])
      BY <1>3, <2>3, IdleFits DEF OrderlyInv, Steps
    <2> QED
      BY <1>1, <2>1, <2>2, <2>4 DEF OrderlyInv, Steps, InNet
  <1> QED
    BY <1>4, <1>5, <1>6

\* A goroutine that goes on by itself, holding the turn.
LEMMA GoOn ==
    ASSUME OrderlyInv, NEW a \in Agents, NEW w \in Workers, NEW x, Goto(a, w, x), InHand(a, w),
           UNCHANGED <<payload, net, events, opened>>,
           x.pc \in {"idle", "abandon", "save", "act"}
    PROVE  OneTurn' /\ OneClaim'
  <1>1. \A b \in Agents, v \in Workers :
              workers'[b][v] = IF b = a /\ v = w THEN x ELSE workers[b][v]
    BY MovedWorker DEF OrderlyInv
  <1>2. OneTurn'
    BY <1>1 DEF OrderlyInv, OneTurn, InNet, InStore, InHand
  <1>3. \A b \in Agents, v \in Workers :
             Claims(b, v)' => Claims(b, v) /\ workers'[b][v] = workers[b][v]
    BY <1>1 DEF Claims
  <1>4. \A b \in Agents : workers'[b][Listener].pc \notin {"payload", "event", "delete", "push"}
    BY <1>1, ListenerWorks DEF OrderlyInv, OneClaim
  <1> QED
    BY <1>2, <1>3, <1>4 DEF OrderlyInv, OneClaim

\* What a message that fits makes the listener store and send fits, too.
LEMMA ExecuteFits ==
    ASSUME OrderlyInv, NEW a \in Agents, NEW t \in EventTypes, NEW opt \in Options, Fits(a, t),
           NEW r, r = ExecuteInbound(NextState(t), opt), r # CannotGoOn,
           NEW me, me.pc = "save", me.last = r.last, me.out = r.out
    PROVE  FitsSave(a, me) \/ t = "issue"
  <1>1. t \in {"propose", "offer", "request", "issue", "problem-report"}
    BY DEF EventTypes, CanTriggerActionEvents, Types
  <1>2. Peer(a) = IF a = Holder THEN Issuer ELSE Holder
    BY DEF Peer
  <1>3. CASE t = "propose"
    <2>1. r = Result("offer-sent", "offer")
      BY <1>3 DEF ExecuteInbound, NextState
    <2>2. me.last = "offer-sent" /\ me.out = "offer"
      BY <2>1 DEF Result
    <2> QED
      BY <1>2, <1>3, <2>2, PartiesAssumption
      DEF FitsSave, Fits, Takes, SentAs, Receives, Leaves
  <1>4. CASE t = "offer"
    <2>1. r = Result("proposal-sent", "propose") \/ r = Result("request-sent", "request")
      BY <1>4 DEF ExecuteInbound, NextState
    <2>2. \/ me.last = "proposal-sent" /\ me.out = "propose"
          \/ me.last = "request-sent" /\ me.out = "request"
      BY <2>1 DEF Result
    <2> QED
      BY <1>2, <1>4, <2>2, PartiesAssumption
      DEF FitsSave, Fits, Takes, SentAs, Receives, Leaves
  <1>5. CASE t = "request"
    <2>1. r = Result("credential-issued", "issue")
      BY <1>5 DEF ExecuteInbound, NextState
    <2>2. me.last = "credential-issued" /\ me.out = "issue"
      BY <2>1 DEF Result
    <2> QED
      BY <1>2, <1>5, <2>2, PartiesAssumption
      DEF FitsSave, Fits, Takes, SentAs, Receives, Leaves
  <1>6. CASE t = "problem-report"
    <2>1. r = Result("done", "none")
      BY <1>6 DEF ExecuteInbound, NextState
    <2>2. me.last = "done" /\ me.out = "none"
      BY <2>1 DEF Result
    <2> QED
      BY <1>2, <1>6, <2>2, PartiesAssumption
      DEF FitsSave, Fits, Takes, SentAs, Receives, Leaves, StoredStates
  <1> QED
    BY <1>1, <1>3, <1>4, <1>5, <1>6

\* Nobody else is concerned by what the goroutine with the turn does to the store.
LEMMA AloneSteps ==
    ASSUME OrderlyInv, NEW a \in Agents, NEW w \in Workers, NEW x, Goto(a, w, x), InHand(a, w),
           UNCHANGED <<payload, net, opened>>, FitsWorker(a, x)'
    PROVE  Steps'
  <1>1. \A b \in Agents, v \in Workers :
              workers'[b][v] = IF b = a /\ v = w THEN x ELSE workers[b][v]
    BY MovedWorker DEF OrderlyInv
  <1>2. \A b \in Agents, v \in Workers : InHand(b, v) => b = a /\ v = w
    BY DEF OrderlyInv, OneTurn
  <1>3. ASSUME NEW b \in Agents, NEW v \in Workers PROVE FitsWorker(b, workers[b][v])' 
    <2>1. CASE b = a /\ v = w
      BY <1>1, <2>1
    <2>2. CASE ~ (b = a /\ v = w)
      BY <1>1, <1>2, <2>2 DEF FitsWorker, InHand
    <2> QED
      BY <2>1, <2>2
  <1>4. opened /\ \A b \in Agents, t \in Types : ~ InNet(b, t) /\ payload[b] # t
    BY DEF OrderlyInv, OneTurn, InStore, Types
  <1> QED
    BY <1>3, <1>4 DEF Steps, InNet

LEMMA ListenerTurn ==
    ASSUME OrderlyInv, NEW a \in Agents, NEW w \in Workers,
           SaveCredential(a, w) \/ Execute(a, w) \/ Abandon(a, w)
    PROVE  /\ OneTurn' /\ OneClaim' /\ Steps'
           /\ UNCHANGED state /\ (wallet' # wallet => state[Holder] # "done")
  <1> DEFINE me == workers[a][w]
  <1>1. me.pc \in {"handle", "abandon"} /\ UNCHANGED <<state, payload, net, events, opened>>
    BY DEF SaveCredential, Execute, Abandon, used
  <1>2. me \in Worker /\ (me.pc = "handle" => me.type \in EventTypes) /\ me.opt \in Options
    BY DEF OrderlyInv, TypeOK, WorkerOK, Worker
  <1>3. InHand(a, w) /\ Fits(a, me.type) /\ me.type \in EventTypes
    BY <1>1 DEF InHand, OrderlyInv, Steps, FitsWorker
  <1>4. me.type \in Types /\ me.type # "ack"
    BY <1>3 DEF EventTypes, CanTriggerActionEvents
  <1>5. (wallet' # wallet => state[Holder] # "done")
    <2>1. UNCHANGED wallet \/ (SaveCredential(a, w) /\ me.type = "issue")
      BY <1>4 DEF SaveCredential, Execute, Abandon, NextState, Types
    <2> QED
      BY <1>3, <2>1 DEF Fits, Receives, Takes
  <1>6. SUFFICES \E x : Goto(a, w, x) /\ x.pc \in {"idle", "abandon", "save", "act"} /\ FitsWorker(a, x)'
    BY <1>1, <1>3, <1>5, GoOn, AloneSteps
  <1>12. PICK z : z = [me EXCEPT !.pc = "abandon"]
    OBVIOUS
  <1>7. z.pc = "abandon" /\ z.type = me.type
    BY <1>2, <1>12 DEF Worker
  <1>8. ASSUME UNCHANGED wallet PROVE FitsWorker(a, z)'
    BY <1>1, <1>3, <1>7, <1>8 DEF FitsWorker, Fits
  <1>9. CASE SaveCredential(a, w)
    <2> DEFINE r == ExecuteInbound("credential-received", me.opt)
    <2>1. me.type = "issue"
      BY <1>4, <1>9 DEF SaveCredential, NextState, Types
    <2>2. wallet = "empty" /\ a = Holder /\ state[a] = "request-sent" /\ state[Peer(a)] = "credential-issued"
      BY <1>3, <2>1 DEF Fits, Receives, Takes, SentAs
    <2>3. r.last = "done" /\ r.out = "ack"
      BY DEF ExecuteInbound, Result
    <2>7. PICK x : x = [me EXCEPT !.pc = "save", !.last = r.last, !.out = r.out]
      OBVIOUS
    <2>4. x.pc = "save" /\ x.last = "done" /\ x.out = "ack"
      BY <1>2, <2>3, <2>7 DEF Worker
    <2>5. Goto(a, w, x)
      BY <1>9, <2>2, <2>7 DEF SaveCredential, AcceptUnsaved, Conclude
    <2>6. FitsWorker(a, x)'
      BY <1>1, <2>2, <2>4, PartiesAssumption
      DEF FitsWorker, FitsSave, Leaves, Receives, Takes, SentAs, Peer
    <2> QED
      BY <2>4, <2>5, <2>6
  <1>10. CASE Execute(a, w)
    <2> DEFINE r == ExecuteInbound(NextState(me.type), me.opt)
    <2>1. me.type \in EventTypes /\ me.type # "issue" /\ UNCHANGED wallet
      BY <1>2, <1>10 DEF Execute, NextState, Types
    <2>5. PICK x : x = [me EXCEPT !.pc = "save", !.last = r.last, !.out = r.out]
      OBVIOUS
    <2>2. x.pc = "save" /\ x.last = r.last /\ x.out = r.out
      BY <1>2, <2>5 DEF Worker
    <2>3. CASE r = CannotGoOn
      BY <1>7, <1>8, <1>10, <1>12, <2>1, <2>3 DEF Execute
    <2>4. CASE r # CannotGoOn
      <3>1. Goto(a, w, x)
        BY <1>10, <2>4, <2>5 DEF Execute, Conclude
      <3>2. FitsSave(a, x)
        <4>1. FitsSave(a, x) \/ me.type = "issue"
          BY <1>2, <1>3, <2>1, <2>2, <2>4, ExecuteFits
        <4> QED
          BY <2>1, <4>1
      <3> HIDE DEF r
      <3>3. FitsWorker(a, x)'
        BY <1>1, <2>1, <2>2, <3>2 DEF FitsWorker, FitsSave
      <3> QED
        BY <2>2, <3>1, <3>3
    <2> QED
      BY <2>3, <2>4
  <1>11. CASE Abandon(a, w)
    <2> DEFINE r == Abandoned(me.type)
    <2>3. PICK x : x = [me EXCEPT !.pc = "save", !.abandons = TRUE, !.last = r.last, !.out = r.out]
      OBVIOUS
    <2>2. x.pc = "save" /\ x.last = "done"
          /\ x.out = IF me.type = "problem-report" THEN "none" ELSE "problem-report"
      BY <1>2, <2>3 DEF Worker, Abandoned, Result
    <2>1. Goto(a, w, x) /\ UNCHANGED wallet
      BY <1>11, <2>3 DEF Abandon
    <2>4. FitsWorker(a, x)'
      BY <1>1, <1>3, <1>4, <2>1, <2>2, Peers
      DEF FitsWorker, FitsSave, Fits, Takes, SentAs, Receives, Leaves, StoredStates, Types
    <2> QED
      BY <2>1, <2>2, <2>4
  <1> QED
    BY <1>9, <1>10, <1>11

\* Storing a state name is a step of Fulfilment, and never leaves done.
LEMMA SaveStateNameTurn ==
    ASSUME OrderlyInv, IInv, NEW a \in Agents, NEW w \in Workers, SaveStateName(a, w)
    PROVE  /\ OneTurn' /\ OneClaim' /\ Steps'
           /\ state[a] # "done" /\ \A b \in Agents : b # a => state'[b] = state[b]
           /\ [F!Next]_Phase
  <1> DEFINE me == workers[a][w]
  <1>1. me.pc = "save" /\ UNCHANGED <<payload, wallet, net, events, opened>> /\ me \in Worker
        /\ state' = [state EXCEPT ![a] = me.last]
    BY DEF SaveStateName, used, OrderlyInv, TypeOK
  <1>2. InHand(a, w) /\ FitsSave(a, me) /\ Peer(a) \in Agents /\ Peer(a) # a
        /\ \A b \in Agents : b = a \/ b = Peer(a)
    BY <1>1, Peers DEF InHand, OrderlyInv, Steps, FitsWorker
  <1>3. \A b \in Agents : state'[b] = IF b = a THEN me.last ELSE state[b]
    BY <1>1 DEF OrderlyInv, TypeOK
  <1>4. state[a] # "done"
    BY <1>2 DEF FitsSave, Leaves
  <1>5. PICK x : /\ Goto(a, w, x)
                 /\ IF me.out = "none" THEN x = IdleWorker ELSE x = [me EXCEPT !.pc = "act"]
    BY DEF SaveStateName, Idle
  <1>6. (me.out = "none" /\ x.pc = "idle") \/ (me.out # "none" /\ x.pc = "act" /\ x.out = me.out)
    BY <1>1, <1>5 DEF Worker, IdleWorker
  <1>7. FitsWorker(a, x)'
    BY <1>1, <1>2, <1>3, <1>6, Peers DEF FitsWorker, FitsSave, Fits
  <1>8. OneTurn' /\ OneClaim' /\ Steps'
    BY <1>1, <1>2, <1>5, <1>6, <1>7, GoOn, AloneSteps
  <1>9. [F!Next]_Phase
    <2>1. me.out = "ack" => wallet # "empty"
      BY DEF IInv, AckInv, HasAck, Backed
    <2>2. (Took' <=> wallet # "empty" /\ state'[Holder] = "done")
      BY <1>1 DEF Took
    <2>3. Over' <=> state'[a] = "done" \/ state'[Peer(a)] = "done"
      BY <1>2 DEF Over
    <2>4. Over <=> state[Peer(a)] = "done"
      BY <1>2, <1>4 DEF Over
    <2>5. state[a] \in StoredStates /\ state[Peer(a)] \in StoredStates
      BY <1>2 DEF OrderlyInv, TypeOK
    <2>6. CASE a = Holder
      BY <1>1, <1>2, <1>3, <1>4, <2>1, <2>2, <2>3, <2>4, <2>6
      DEF Phase, Took, Asked, Given, F!Next, F!Ask, F!Give, F!Take, F!Drop, FitsSave, Leaves,
          Takes, SentAs, Receives, Peer, Worker, Types
    <2>7. CASE a = Issuer
      BY <1>1, <1>2, <1>3, <1>4, <2>1, <2>2, <2>3, <2>4, <2>7, PartiesAssumption
      DEF Phase, Took, Asked, Given, F!Next, F!Ask, F!Give, F!Take, F!Drop, FitsSave, Leaves,
          Takes, SentAs, Receives, Peer, Worker, Types
    <2> QED
      BY <2>6, <2>7 DEF Agents
  <1> QED
    BY <1>3, <1>4, <1>8, <1>9

LEMMA ActTurn ==
    ASSUME OrderlyInv, NEW a \in Agents, NEW w \in Workers, Act(a, w)
    PROVE  OneTurn' /\ OneClaim' /\ Steps'
  <1> DEFINE t == workers[a][w].out
  <1>1. UNCHANGED <<state, payload, wallet, events, opened>> /\ Goto(a, w, IdleWorker)
        /\ net' = [net EXCEPT ![Peer(a)][t] = net[Peer(a)][t] + 1]
    BY DEF Act, Send, Idle, used
  <1>2. InHand(a, w) /\ t \in Types /\ Fits(Peer(a), t) /\ Peer(a) \in Agents
    BY Peers DEF InHand, Act, OrderlyInv, TypeOK, WorkerOK, Worker, Steps, FitsWorker
  <1>3. \A b \in Agents, u \in Types : net[b][u] = 0
    BY <1>2 DEF OrderlyInv, OneTurn, InNet, TypeOK
  <1>4. \A b \in Agents, u \in Types : net'[b][u] = IF b = Peer(a) /\ u = t THEN 1 ELSE 0
    BY <1>1, <1>2, <1>3 DEF OrderlyInv, TypeOK
  <1>5. opened /\ \A b \in Agents, v \in Workers : payload[b] = "none" /\ (InHand(b, v) => b = a /\ v = w)
    BY <1>2 DEF OrderlyInv, OneTurn, InStore
  <1>6. \A b \in Agents, v \in Workers :
              workers'[b][v] = IF b = a /\ v = w THEN IdleWorker ELSE workers[b][v]
    BY <1>1, MovedWorker DEF OrderlyInv
  <1>7. OneTurn'
    <2>1. \A b \in Agents, v \in Workers : ~ InHand(b, v)'
      BY <1>5, <1>6 DEF InHand, IdleWorker
    <2> QED
      BY <1>1, <1>4, <1>5, <2>1 DEF OneTurn, InNet, InStore
  <1>8. OneClaim'
    <2>1. \A b \in Agents, v \in Workers :
             Claims(b, v)' => Claims(b, v) /\ workers'[b][v] = workers[b][v]
      BY <1>6 DEF Claims, IdleWorker
    <2>2. \A b \in Agents : workers'[b][Listener].pc \notin {"payload", "event", "delete", "push"}
      BY <1>6, ListenerWorks DEF OrderlyInv, OneClaim, IdleWorker
    <2> QED
      BY <1>1, <2>1, <2>2 DEF OrderlyInv, OneClaim
  <1>9. Steps'
    <2>1. \A b \in Agents, u \in Types : net'[b][u] > 0 \/ payload'[b] = u => Fits(b, u)
      BY <1>1, <1>2, <1>4, <1>5 DEF Types
    <2> QED
      BY <1>1, <2>1, IdleFits, QuietSteps
  <1> QED
    BY <1>7, <1>8, <1>9

\* A restart takes the turn and the claim of its goroutines with it, and leaves messages
\* and payloads where they are.
LEMMA CrashTurn ==
    ASSUME OrderlyInv, NEW a \in Agents, Crash(a)
    PROVE  OneTurn' /\ OneClaim' /\ Steps'
  <1>1. UNCHANGED <<state, payload, wallet, net, opened>>
    BY DEF Crash
  <1>2. \A b \in Agents, v \in Workers :
           workers'[b][v] = IF b = a THEN IdleWorker ELSE workers[b][v]
    BY DEF Crash, OrderlyInv, TypeOK
  <1>3. \A b \in Agents, t \in EventTypes : events'[b][t] = IF b = a THEN 0 ELSE events[b][t]
    BY DEF Crash, OrderlyInv, TypeOK
  <1>4. OneTurn'
    BY <1>1, <1>2 DEF OrderlyInv, OneTurn, InNet, InStore, InHand, IdleWorker
  <1>5. OneClaim'
    <2>1. \A b \in Agents, v \in Workers :
             Claims(b, v)' => Claims(b, v) /\ workers'[b][v] = workers[b][v]
      BY <1>2 DEF Claims, IdleWorker
    <2>2. \A b \in Agents : workers'[b][Listener].pc \notin {"payload", "event", "delete", "push"}
      BY <1>2, ListenerWorks DEF OrderlyInv, OneClaim, IdleWorker
    <2> QED
      BY <1>1, <1>3, <2>1, <2>2 DEF OrderlyInv, OneClaim
  <1>6. Steps'
    <2>1. \A b, t : Fits(b, t)' <=> Fits(b, t)
      BY <1>1 DEF Fits
    <2>2. \A b, y : FitsWorker(b, y)' <=> FitsWorker(b, y)
      BY <1>1, <2>1 DEF FitsWorker, FitsSave
    <2>3. \A b \in Agents, v \in Workers : FitsWorker(b, workers'[b][v])
      BY <1>2, IdleFits DEF OrderlyInv, Steps
    <2> QED
      BY <1>1, <2>1, <2>2, <2>3 DEF OrderlyInv, Steps, InNet
  <1> QED
    BY <1>4, <1>5, <1>6

\* Only a step that stores a state name can move the thread.
LEMMA SamePhase ==
    ASSUME UNCHANGED state, wallet' # wallet => state[Holder] # "done"
    PROVE  Phase' = Phase
  BY DEF Phase, Took, Over, Asked, Given

OrderlyStep == /\ OneTurn' /\ OneClaim' /\ Steps'
         /\ [F!Next]_Phase
         /\ \A a \in Agents : state[a] = "done" => state'[a] = "done"

\* A step that stores no state name is no step of Fulfilment.
LEMMA QuietTurn ==
    ASSUME OneTurn' /\ OneClaim' /\ Steps', UNCHANGED state,
           wallet' # wallet => state[Holder] # "done"
    PROVE  OrderlyStep
  BY SamePhase DEF OrderlyStep

\* What every step of an orderly thread does.
LEMMA NextTurn == ASSUME OrderlyInv, IInv, Orderly, [Next]_vars PROVE OrderlyStep
  <1>1. CASE UNCHANGED vars
    <2>1. UNCHANGED <<state, payload, wallet, net, events, workers, opened>>
      BY <1>1 DEF vars, used
    <2>2. OneTurn' /\ OneClaim' /\ Steps'
      BY <2>1 DEF OrderlyInv, OneTurn, OneClaim, Steps, InNet, InStore, InHand, Claims, FitsWorker,
                  FitsSave, Fits
    <2> QED
      BY <2>1, <2>2, QuietTurn
  <1>2. CASE \E w \in Handlers : HandleOutbound(w)
    <2>1. UNCHANGED <<state, wallet>>
      BY <1>2 DEF HandleOutbound
    <2> QED
      BY <1>2, <2>1, HandleOutboundTurn, QuietTurn
  <1>3. ASSUME NEW a \in Agents, Receive(a) PROVE OrderlyStep
    <2>1. UNCHANGED <<state, wallet>>
      BY <1>3 DEF Receive, HandleInbound
    <2> QED
      BY <1>3, <2>1, HandleInboundTurn, QuietTurn DEF Receive
  <1>4. ASSUME NEW a \in Agents, Answer(a) PROVE OrderlyStep
    <2>1. UNCHANGED <<state, wallet>>
      BY <1>4 DEF Answer, AnswerAction, AnswerEvent, Decide
    <2> QED
      BY <1>4, <2>1, AnswerTurn, QuietTurn DEF Answer
  <1>5. ASSUME NEW a \in Agents, Crash(a) PROVE OrderlyStep
    <2>1. UNCHANGED <<state, wallet>>
      BY <1>5 DEF Crash
    <2> QED
      BY <1>5, <2>1, CrashTurn, QuietTurn
  <1>6. ASSUME NEW a \in Agents, NEW w \in Workers, Run(a, w) PROVE OrderlyStep
    <2>1. CASE SaveTransitionalPayload(a, w) \/ SendActionEvent(a, w)
               \/ DeleteTransitionalPayload(a, w) \/ TakeCallback(a, w) \/ Act(a, w)
      <3>1. UNCHANGED <<state, wallet>>
        BY <2>1 DEF SaveTransitionalPayload, SendActionEvent, DeleteTransitionalPayload,
                    TakeCallback, Act
      <3> QED
        BY <2>1, <3>1, SavePayloadTurn, SendActionEventTurn, DeleteTurn, TakeCallbackTurn, ActTurn, QuietTurn
    <2>2. CASE SaveCredential(a, w) \/ Execute(a, w) \/ Abandon(a, w)
      BY <2>2, ListenerTurn, QuietTurn
    <2>3. CASE SaveStateName(a, w)
      BY <2>3, SaveStateNameTurn DEF OrderlyStep
    <2> QED
      BY <1>6, <2>1, <2>2, <2>3 DEF Run
  <1>7. \A a \in Agents : (\A w \in Workers : ~ Fail(a, w)) /\ \A t \in Types : ~ Lose(a, t)
    BY LimitsAssumption DEF Orderly, Fail, Lose, OrderlyInv, TypeOK
  <1> QED
    BY <1>1, <1>2, <1>3, <1>4, <1>5, <1>6, <1>7 DEF Next

\* Every initial state has nobody's turn, and is open.
LEMMA InitTurn == Init => OrderlyInv /\ F!Init
  <1> SUFFICES ASSUME Init PROVE OrderlyInv /\ F!Init
    OBVIOUS
  <1>1. TypeOK
    BY InitInv DEF IInv
  <1>2. /\ \A a \in Agents : state[a] = "start" /\ payload[a] = "none"
        /\ \A a \in Agents, t \in Types : net[a][t] = 0
        /\ \A a \in Agents, t \in EventTypes : events[a][t] = 0
        /\ \A a \in Agents, w \in Workers : workers[a][w] = IdleWorker
        /\ wallet = "empty"
    BY DEF Init
  <1>3. OneTurn
    BY <1>2 DEF OneTurn, InNet, InStore, InHand, IdleWorker
  <1>4. OneClaim
    BY <1>2, ListenerWorks DEF OneClaim, Claims, IdleWorker
  <1>5. Steps
    BY <1>2, IdleFits DEF Steps, InNet, Types
  <1>6. F!Init
    BY <1>2 DEF F!Init, Phase, Took, Over, Asked, Given, Agents
  <1> QED
    BY <1>1, <1>3, <1>4, <1>5, <1>6 DEF OrderlyInv

\* Every step keeps the invariant.
LEMMA NextOrderly == ASSUME OrderlyInv, IInv, Orderly, [Next]_vars PROVE OrderlyInv'
  BY NextTurn, NextInv DEF OrderlyStep, OrderlyInv, IInv

-----------------------------------------------------------------------------
\* Whoever is sent a message has stored a state that takes it, and so has whoever waits
\* for its client, through any number of counter-proposals and restarts.
THEOREM NobodyIsEverSurprised ==
    ASSUME Orderly PROVE Spec => []NobodyIsSurprised
  <1>1. OrderlyInv => NobodyIsSurprised
    BY FitsIsTaken DEF OrderlyInv, Steps, FitsWorker, InNet, NobodyIsSurprised
  <1>2. IInv /\ OrderlyInv /\ [Next]_vars => (IInv /\ OrderlyInv)'
    BY NextOrderly, NextInv
  <1> QED
    BY <1>1, <1>2, InitTurn, InitInv, PTL DEF Spec

\* A thread that is done stays done: the goroutine that stores a state name without
\* another look at the store never finds it done.
THEOREM ThreadStaysDone ==
    ASSUME Orderly PROVE Spec => DoneIsFinal
  <1>1. IInv /\ OrderlyInv /\ [Next]_vars => (IInv /\ OrderlyInv)'
    BY NextOrderly, NextInv
  <1>2. IInv /\ OrderlyInv /\ [Next]_vars => [\A a \in Agents : state[a] = "done" => state'[a] = "done"]_vars
    BY NextTurn DEF OrderlyStep
  <1> QED
    BY <1>1, <1>2, InitTurn, InitInv, PTL DEF Spec, DoneIsFinal

\* The thread implements Fulfilment: every stored state name is one of its steps, or
\* none, and a credential is taken only after it was asked for and given.
THEOREM IssueFulfils ==
    ASSUME Orderly PROVE Spec => ImplementsFulfilment
  <1>1. IInv /\ OrderlyInv /\ [Next]_vars => (IInv /\ OrderlyInv)'
    BY NextOrderly, NextInv
  <1>2. IInv /\ OrderlyInv /\ [Next]_vars => [F!Next]_Phase
    BY NextTurn DEF OrderlyStep
  <1> QED
    BY <1>1, <1>2, InitTurn, InitInv, PTL DEF Spec, F!Spec, ImplementsFulfilment
=============================================================================
