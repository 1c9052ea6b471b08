-------------------------- MODULE DIDExchangeProofs --------------------------
(***************************************************************************)
(* What holds of every exchange, whatever the constants are: any number of  *)
(* goroutines, connections, retries, failures and restarts, with or without *)
(* duplicates, with a durable protocol state store or without.  Two parts   *)
(* have a hypothesis.  Agreement is about threads in which each message is  *)
(* delivered and each action event answered once (Once), which fail and     *)
(* restart as they like.  The last part, which ends in the refinement of    *)
(* Handshake, is about those in which besides no write fails and the        *)
(* protocol state store is durable (Orderly); they restart as they like.    *)
(***************************************************************************)
EXTENDS DIDExchange, TLAPS

-----------------------------------------------------------------------------
(***************************************************************************)
(* The inductive invariant.  Its parts are operators of what has happened   *)
(* so far, S the DIDs persisted and F the facts about the invitee, because  *)
(* both only grow: what a message, a record or a worker needs of them stays *)
(* true whatever anybody else does.                                         *)
(***************************************************************************)
InviteeStored == \E k \in Conns : permanent[Invitee][k].state = "completed"
InviteeKnows  == dids[Invitee] \cap ({Inviter} \X Nat) # {}
Facts == {f \in {"stored", "knows"} : IF f = "stored" THEN InviteeStored ELSE InviteeKnows}

Done(F) == {"stored", "knows"} \subseteq F

\* `d`, if it is a DID at all, is one the peer of `a` has persisted.
Known(S, a, d) == d # NoDID => d \in S /\ d \in {Peer(a)} \X Nat

\* A message `a` may be handling, and a record it may hold.
Genuine(S, F, a, m) ==
    /\ Receiver(m.type) = a
    /\ Known(S, a, m.did)
    /\ m.type = "response" => m.did # NoDID
    /\ m.type = "complete" => Done(F)

Sound(S, F, a, r) ==
    /\ Known(S, a, r.theirDID)
    /\ a = Inviter /\ r.state = "completed" => Done(F)

EventInv(S, F, a, e) ==
    /\ Genuine(S, F, a, e.msg) /\ Sound(S, F, a, e.rec)
    /\ a = Inviter /\ e.next = "completed" => Done(F)

Sending == {"persist", "mapping", "permanent", "did", "act"}

\* The message a worker is about to send: its DID is persisted before it is sent,
\* and a Complete only goes out after the invitee has stored everything.
OutInv(S, F, a, w) ==
    /\ Receiver(w.out.type) = Peer(a)
    /\ w.out.did # NoDID => /\ w.out.did \in {a} \X Nat
                            /\ IF w.pc = "persist" THEN w.rec.myDID = w.out.did
                                                   ELSE w.out.did \in S
    /\ w.out.type = "response" => w.out.did # NoDID
    /\ w.out.type = "complete" =>
          /\ w.next = "completed" /\ w.rec.theirDID # NoDID /\ w.rec.conn # NoConn
          /\ w.pc # "mapping"
          /\ w.pc \in {"did", "act"} => "stored" \in F
          /\ w.pc = "act" => "knows" \in F

WorkerInv(S, F, a, w) ==
    /\ w.pc # "idle" =>
          /\ Genuine(S, F, a, w.msg) /\ Sound(S, F, a, w.rec)
          /\ a = Inviter /\ w.next = "completed" => Done(F)
    /\ w.pc \in {"record", "execute"} => w.out = NoMsg
    /\ w.pc \in Sending => w.rec.state = w.next
    /\ w.pc = "permanent" => w.next = "completed"
    /\ w.pc = "mapping" => w.next # "completed"
    /\ w.pc \in Sending /\ w.out # NoMsg => OutInv(S, F, a, w)

StoresInv ==
    \A a \in Agents, c \in Conns :
        /\ Sound(saved, Facts, a, records[a][c]) /\ Sound(saved, Facts, a, permanent[a][c])
        /\ records[a][c].conn \in {NoConn, c}
        /\ records[a][c].conn = NoConn => records[a][c] = NoRec
        /\ permanent[a][c] # NoRec => permanent[a][c].state = "completed"

EventsInv ==
    \A a \in Agents :
        /\ \A c \in Conns : events[a][c] # NoEvent => EventInv(saved, Facts, a, events[a][c])
        /\ \A e \in actions[a] : EventInv(saved, Facts, a, e)
        /\ \A i \in DOMAIN callbacks[a] : EventInv(saved, Facts, a, callbacks[a][i].event)

SentInv    == \A m \in sent : Genuine(saved, Facts, Receiver(m.type), m)
WorkersInv == \A a \in Agents, w \in Workers : WorkerInv(saved, Facts, a, workers[a][w])

IInv == StoresInv /\ EventsInv /\ SentInv /\ WorkersInv

-----------------------------------------------------------------------------
(***************************************************************************)
(* Type correctness.                                                        *)
(***************************************************************************)
WorkerType == [pc : PCs, msg : Messages \cup {NoMsg}, next : States \cup {"noop"},
               rec : Records, out : Messages \cup {NoMsg}]

\* Moving one worker to a well-typed state keeps the workers well typed.
LEMMA GotoType ==
    ASSUME TypeOK, NEW a \in Agents, NEW w \in Workers, NEW x \in WorkerType,
           x.pc # "idle" => x.msg # NoMsg, Goto(a, w, x)
    PROVE  /\ workers' \in [Agents -> [Workers -> WorkerType]]
           /\ \A b \in Agents, v \in Workers :
                 workers'[b][v].pc # "idle" => workers'[b][v].msg # NoMsg
  BY DEF TypeOK, Goto, WorkerType

\* The absent values have their types.
LEMMA AbsentType ==
    /\ NoRec \in Records
    /\ IdleWorker \in WorkerType
    /\ \A a \in Agents : Peer(a) \in Agents
  BY DEF NoRec, Records, DIDs, States, IdleWorker, WorkerType, PCs, Agents, Peer

\* What a worker finds in the stores is a record.
LEMMA ReadType ==
    ASSUME TypeOK, NEW a \in Agents
    PROVE  /\ ThreadRecord(a) \in Records
           /\ \A c \in Conns : ConnectionRecord(a, c) \in Records
  BY AbsentType DEF TypeOK, ThreadRecord, ConnectionRecord, NoConn

\* The initial state is well typed.
LEMMA InitType == Init => TypeOK
  <1> SUFFICES ASSUME Init PROVE TypeOK
    OBVIOUS
  <1>1. sent \in SUBSET Messages
    BY AgentsAssumption DEF Init, Messages, MsgTypes, DIDs, Msg, Openings
  <1>2. workers \in [Agents -> [Workers -> WorkerType]]
    BY AbsentType DEF Init
  <1>3. callbacks \in [Agents -> Seq([event : EventData, stop : BOOLEAN])]
    BY DEF Init
  <1>4. /\ created \in [Agents -> 0 .. MaxConns]
        /\ minted \in [Agents -> Nat]
    BY BoundsAssumption DEF Init
  <1> QED
    BY <1>1, <1>2, <1>3, <1>4, AbsentType DEF Init, TypeOK, WorkerType, IdleWorker, NoConn

(***************************************************************************)
(* Every action keeps the types: one lemma per group of actions.            *)
(***************************************************************************)
LEMMA InboundType ==
    ASSUME TypeOK, NEW a \in Agents, NEW w \in Workers, NEW m \in sent,
           HandleInbound(a, w, m) \/ RejectInbound(a, w, m)
    PROVE  TypeOK'
  <1> USE DEF stores, client, net, used
  <1>1. CASE HandleInbound(a, w, m)
    <2> DEFINE x == [IdleWorker EXCEPT !.pc = "record", !.msg = m,
                                       !.next = StateFromMsgType(m.type)]
    <2>1. m \in Messages /\ m # NoMsg
      BY AbsentAssumption DEF TypeOK
    <2>2. x \in WorkerType
      BY <2>1, AbsentType DEF WorkerType, IdleWorker, PCs, StateFromMsgType, States,
                  Messages, MsgTypes, Invitations
    <2>3. x.msg # NoMsg /\ Goto(a, w, x)
      BY <1>1, <2>1 DEF HandleInbound, IdleWorker
    <2> HIDE DEF x
    <2> QED
      BY <1>1, <2>1, <2>2, <2>3, GotoType DEF HandleInbound, TypeOK, WorkerType
  <1>2. CASE RejectInbound(a, w, m)
    BY <1>2 DEF RejectInbound, TypeOK
  <1> QED
    BY <1>1, <1>2

LEMMA RecordType ==
    ASSUME TypeOK, NEW a \in Agents, NEW w \in Workers, NewRecord(a, w) \/ FetchRecord(a, w)
    PROVE  TypeOK'
  <1> USE DEF stores, client, net, used
  <1> DEFINE me == workers[a][w]
  <1>1. me \in WorkerType /\ (me.pc # "idle" => me.msg \in Messages)
    BY DEF TypeOK, WorkerType
  <1>2. CASE NewRecord(a, w)
    <2> DEFINE r == [conn |-> created[a] + 1, state |-> "null", myDID |-> NoDID,
                     theirDID |-> IF me.msg.type = "request" THEN me.msg.did ELSE NoDID]
               x == [me EXCEPT !.pc = "execute", !.rec = r]
    <2>1. r \in Records
      BY <1>1, <1>2 DEF NewRecord, Records, States, DIDs, Messages
    <2> HIDE DEF r
    <2>2. x \in WorkerType /\ x.msg # NoMsg
      BY <1>1, <1>2, <2>1 DEF NewRecord, WorkerType, PCs, TypeOK
    <2>3. /\ records' = [records EXCEPT ![a][created[a] + 1] = r]
          /\ created' = [created EXCEPT ![a] = created[a] + 1]
          /\ created[a] + 1 \in Conns
          /\ Goto(a, w, x)
      BY <1>2 DEF NewRecord, r
    <2> HIDE DEF x
    <2>4. /\ records' \in [Agents -> [Conns -> Records]]
          /\ created' \in [Agents -> 0 .. MaxConns]
      BY <2>1, <2>3, BoundsAssumption DEF TypeOK, Conns
    <2> QED
      BY <1>2, <2>2, <2>3, <2>4, GotoType DEF NewRecord, TypeOK, WorkerType
  <1>3. CASE FetchRecord(a, w)
    <2> DEFINE x == IF ThreadRecord(a) = NoRec THEN IdleWorker
                    ELSE [me EXCEPT !.pc = "execute", !.rec = ThreadRecord(a)]
    <2>1. x \in WorkerType /\ (x.pc # "idle" => x.msg # NoMsg)
      BY <1>1, <1>3, ReadType, AbsentType
      DEF FetchRecord, WorkerType, PCs, TypeOK, IdleWorker
    <2>2. Goto(a, w, x)
      BY <1>3 DEF FetchRecord, Idle
    <2> HIDE DEF x
    <2> QED
      BY <1>3, <2>1, <2>2, GotoType DEF FetchRecord, TypeOK, WorkerType
  <1> QED
    BY <1>2, <1>3

LEMMA ImplicitType ==
    ASSUME TypeOK, NEW w \in Workers, CreateImplicitInvitation(w)
    PROVE  TypeOK'
  <1> USE DEF stores, client, net, used
  <1> DEFINE r == [NoRec EXCEPT !.conn = 1]
             x == [IdleWorker EXCEPT !.pc = "execute", !.next = "requested",
                              !.msg = Msg("invitation", NoDID), !.rec = r]
  <1>1. Invitee \in Agents /\ 1 \in Conns /\ r \in Records
    BY DEF CreateImplicitInvitation, Agents, Records, NoRec, States, DIDs
  <1>2. Msg("invitation", NoDID) \in Messages /\ Msg("invitation", NoDID) # NoMsg
    BY AbsentAssumption DEF Msg, Messages, MsgTypes, DIDs
  <1>3. x \in WorkerType /\ x.msg # NoMsg
    BY <1>1, <1>2, AbsentType DEF WorkerType, IdleWorker, PCs, States
  <1>4. /\ Goto(Invitee, w, x)
        /\ records' = [records EXCEPT ![Invitee][1] = r]
        /\ threads' = [threads EXCEPT ![Invitee] = 1]
        /\ created' = [created EXCEPT ![Invitee] = 1]
    BY DEF CreateImplicitInvitation
  <1> HIDE DEF r, x
  <1>5. /\ records' \in [Agents -> [Conns -> Records]]
        /\ threads' \in [Agents -> Conns \cup {NoConn}]
        /\ created' \in [Agents -> 0 .. MaxConns]
    BY <1>1, <1>4, BoundsAssumption DEF TypeOK, Conns
  <1> QED
    BY <1>1, <1>3, <1>4, <1>5, GotoType DEF CreateImplicitInvitation, TypeOK, WorkerType

LEMMA ExecuteType ==
    ASSUME TypeOK, NEW a \in Agents, NEW w \in Workers, Execute(a, w)
    PROVE  TypeOK'
  <1> USE DEF stores, client, net, used
  <1> DEFINE me == workers[a][w]
             d  == <<a, minted[a] + 1>>
  <1>1. me \in WorkerType /\ (me.pc # "idle" => me.msg \in Messages /\ me.msg # NoMsg)
    BY DEF TypeOK, WorkerType
  <1>2. d \in DIDs /\ Msg("request", d) \in Messages /\ Msg("response", d) \in Messages
        /\ Msg("complete", NoDID) \in Messages
    BY DEF TypeOK, DIDs, Msg, Messages, MsgTypes
  <1>3. ASSUME Mint(a)
        PROVE  minted' \in [Agents -> Nat] /\ dids' \in [Agents -> SUBSET DIDs]
    <2>1. minted' \in [Agents -> Nat] /\ minted'[a] = minted[a] + 1
      BY <1>3 DEF Mint, TypeOK
    <2> QED
      BY <1>2, <1>3, <2>1 DEF Mint, TypeOK
  <1>4. CASE ExecutePlain(a, w)
    <2> DEFINE x == [me EXCEPT !.pc = "persist", !.rec.state = me.next]
    <2>1. x \in WorkerType /\ x.msg # NoMsg /\ Goto(a, w, x)
      BY <1>1, <1>4 DEF ExecutePlain, WorkerType, PCs, Records, States
    <2> HIDE DEF x
    <2> QED
      BY <1>4, <2>1, GotoType DEF ExecutePlain, TypeOK, WorkerType
  <1>5. CASE ExecuteInvitation(a, w)
    <2> DEFINE x == [me EXCEPT !.pc = "persist", !.out = Msg("request", d),
                               !.rec.state = "requested", !.rec.myDID = d]
    <2> HIDE DEF d
    <2>1. x \in WorkerType /\ x.msg # NoMsg
      BY <1>1, <1>2, <1>5 DEF ExecuteInvitation, WorkerType, PCs, Records, States
    <2>2. Goto(a, w, x)
      BY <1>5 DEF ExecuteInvitation, d
    <2> HIDE DEF x
    <2> QED
      BY <1>3, <1>5, <2>1, <2>2, GotoType DEF ExecuteInvitation, TypeOK, WorkerType
  <1>6. CASE ExecuteRequest(a, w)
    <2> DEFINE x == [me EXCEPT !.pc = "persist", !.out = Msg("response", d),
                               !.rec.state = "responded", !.rec.myDID = d,
                               !.rec.theirDID = me.msg.did]
    <2> HIDE DEF d
    <2>1. x \in WorkerType /\ x.msg # NoMsg
      BY <1>1, <1>2, <1>6 DEF ExecuteRequest, WorkerType, PCs, Records, States, Messages
    <2>2. Goto(a, w, x)
      BY <1>6 DEF ExecuteRequest, d
    <2> HIDE DEF x
    <2> QED
      BY <1>3, <1>6, <2>1, <2>2, GotoType DEF ExecuteRequest, TypeOK, WorkerType
  <1>7. CASE ExecuteResponse(a, w)
    <2> DEFINE r == ThreadRecord(a)
               x == IF r.myDID = NoDID THEN IdleWorker
                    ELSE [me EXCEPT !.pc = "persist", !.out = Msg("complete", NoDID),
                               !.rec = [r EXCEPT !.state = "completed",
                                                 !.theirDID = me.msg.did]]
    <2>1. x \in WorkerType /\ (x.pc # "idle" => x.msg # NoMsg)
      <3>1. r \in Records
        BY ReadType
      <3> HIDE DEF r
      <3> QED
        BY <1>1, <1>2, <1>7, <3>1, AbsentType
        DEF ExecuteResponse, WorkerType, PCs, Records, States, Messages, IdleWorker
    <2>2. Goto(a, w, x)
      BY <1>7 DEF ExecuteResponse, Idle
    <2> HIDE DEF x
    <2> QED
      BY <1>7, <2>1, <2>2, GotoType DEF ExecuteResponse, TypeOK, WorkerType
  <1> QED
    BY <1>4, <1>5, <1>6, <1>7 DEF Execute

LEMMA SaveType ==
    ASSUME TypeOK, NEW a \in Agents, NEW w \in Workers, Save(a, w)
    PROVE  TypeOK'
  <1> USE DEF stores, client, net, used
  <1> DEFINE me == workers[a][w]
             next == CASE SavesMapping(me.next, me.msg.type) -> "mapping"
                       [] me.next = "completed"              -> "permanent"
                       [] OTHER                              -> "act"
             x == [me EXCEPT !.pc = IF me.pc = "persist" THEN next ELSE
                                    IF me.pc = "permanent" THEN "did" ELSE "act"]
  <1>1. me \in WorkerType /\ me.rec \in Records
    BY DEF TypeOK, WorkerType
  <1>2. next \in {"mapping", "permanent", "act"}
    OBVIOUS
  <1>3. x \in WorkerType /\ x.msg # NoMsg
    BY <1>1, <1>2 DEF Save, Persist, SaveMapping, SavePermanent, SaveDID, WorkerType, PCs, TypeOK
  <1>4. Goto(a, w, x)
    BY DEF Save, Persist, SaveMapping, SavePermanent, SaveDID
  <1>5. /\ workers' \in [Agents -> [Workers -> WorkerType]]
        /\ \A b \in Agents, v \in Workers :
              workers'[b][v].pc # "idle" => workers'[b][v].msg # NoMsg
    <2> HIDE DEF x
    <2> QED
      BY <1>3, <1>4, GotoType
  <1> HIDE DEF x, next
  <1>6. CASE Persist(a, w)
    <2>1. records' \in [Agents -> [Conns -> Records]] /\ saved' \in SUBSET DIDs
      BY <1>1, <1>6 DEF Persist, TypeOK, Records
    <2> QED
      BY <1>5, <1>6, <2>1 DEF Persist, TypeOK, WorkerType
  <1>7. CASE SaveMapping(a, w)
    <2>1. threads' \in [Agents -> Conns \cup {NoConn}]
      BY <1>1, <1>7 DEF SaveMapping, TypeOK, Records
    <2> QED
      BY <1>5, <1>7, <2>1 DEF SaveMapping, TypeOK, WorkerType
  <1>8. CASE SavePermanent(a, w)
    <2>1. permanent' \in [Agents -> [Conns -> Records]]
      BY <1>1, <1>8 DEF SavePermanent, TypeOK
    <2> QED
      BY <1>5, <1>8, <2>1 DEF SavePermanent, TypeOK, WorkerType
  <1>9. CASE SaveDID(a, w)
    <2>1. dids' \in [Agents -> SUBSET DIDs]
      BY <1>1, <1>9 DEF SaveDID, TypeOK, Records
    <2> QED
      BY <1>5, <1>9, <2>1 DEF SaveDID, TypeOK, WorkerType
  <1> QED
    BY <1>6, <1>7, <1>8, <1>9 DEF Save

LEMMA ActType ==
    ASSUME TypeOK, NEW a \in Agents, NEW w \in Workers, Act(a, w) \/ SendActionEvent(a, w)
    PROVE  TypeOK'
  <1> USE DEF stores, client, net, used
  <1> DEFINE me == workers[a][w]
  <1>1. me \in WorkerType /\ (me.pc # "idle" => me.msg \in Messages /\ me.msg # NoMsg)
    BY DEF TypeOK, WorkerType
  <1>2. CASE Act(a, w)
    <2> DEFINE next == Followup(me.next, me.msg.type)
               halt == /\ me.msg.type # "oob-invitation"
                       /\ CanTriggerActionEvents(me.next, FindNamespace(me.msg.type))
               x == IF halt \/ next # "noop"
                    THEN [me EXCEPT !.next = next, !.out = NoMsg,
                                    !.pc = IF halt THEN "event" ELSE "execute"]
                    ELSE IdleWorker
    <2>1. next \in States \cup {"noop"}
      BY DEF Followup, States
    <2>2. Goto(a, w, x)
      BY <1>2 DEF Act, Idle
    <2>3. x \in WorkerType /\ (x.pc # "idle" => x.msg # NoMsg)
      <3> HIDE DEF next, halt
      <3> QED
        BY <1>1, <1>2, <2>1, AbsentType DEF Act, WorkerType, PCs, IdleWorker
    <2>4. sent' \in SUBSET Messages
      BY <1>1, <1>2 DEF Act, TypeOK, WorkerType
    <2> HIDE DEF x
    <2> QED
      BY <1>2, <2>2, <2>3, <2>4, GotoType DEF Act, TypeOK, WorkerType
  <1>3. CASE SendActionEvent(a, w)
    <2>1. Event(me) \in EventData
      BY <1>1, <1>3 DEF SendActionEvent, Event, EventData, WorkerType
    <2>2. /\ events' \in [Agents -> [Conns -> EventData \cup {NoEvent}]]
          /\ actions' \in [Agents -> SUBSET EventData]
      BY <1>3, <2>1 DEF SendActionEvent, TypeOK
    <2>3. Goto(a, w, IdleWorker)
      BY <1>3 DEF SendActionEvent, Idle
    <2> QED
      BY <1>3, <2>2, <2>3, AbsentType, GotoType
      DEF SendActionEvent, TypeOK, WorkerType, IdleWorker
  <1> QED
    BY <1>2, <1>3

\* What the callback channel is used for: appending, taking the first, the rest.
LEMMA SeqFacts ==
    ASSUME NEW T, NEW s \in Seq(T)
    PROVE  /\ << >> \in Seq(T)
           /\ \A t \in T : Append(s, t) \in Seq(T)
           /\ s # << >> => Head(s) \in T /\ Tail(s) \in Seq(T)
  OBVIOUS

LEMMA ClientType ==
    ASSUME TypeOK, NEW a \in Agents
    PROVE  /\ \A e \in actions[a] : Continue(a, e) \/ Stop(a, e) => TypeOK'
           /\ \A w \in Workers, c \in Conns : Accept(a, w, c) => TypeOK'
           /\ TakeCallback(a) => TypeOK'
  <1> USE DEF stores, client, net, used
  <1> DEFINE CB == [event : EventData, stop : BOOLEAN]
  <1>0. callbacks \in [Agents -> Seq(CB)]
    BY DEF TypeOK
  <1>1. ASSUME NEW e \in actions[a], NEW stop \in BOOLEAN, Answer(a, e, stop)
        PROVE  TypeOK'
    <2>1. [event |-> e, stop |-> stop] \in [event : EventData, stop : BOOLEAN]
      BY DEF TypeOK
    <2>2. callbacks' \in [Agents -> Seq(CB)]
      <3>1. Append(callbacks[a], [event |-> e, stop |-> stop]) \in Seq(CB)
        <4> HIDE DEF CB
        <4> QED
          BY <1>0, <2>1, SeqFacts DEF CB
      <3> HIDE DEF CB
      <3> QED
        BY <1>0, <1>1, <3>1 DEF Answer
    <2>3. /\ actions' \in [Agents -> SUBSET EventData]
          /\ answered' \in [Agents -> SUBSET (Conns \cup {NoConn})]
      <3>1. e.rec.conn \in Conns \cup {NoConn}
        BY DEF TypeOK, EventData, Records
      <3> QED
        BY <1>1, <3>1 DEF Answer, TypeOK
    <2> QED
      BY <1>1, <2>2, <2>3 DEF Answer, TypeOK
  <1>2. ASSUME NEW w \in Workers, NEW c \in Conns, Accept(a, w, c)
        PROVE  TypeOK'
    <2> DEFINE e == events[a][c]
               x == [pc |-> "execute", msg |-> e.msg, next |-> e.next,
                     rec |-> e.rec, out |-> NoMsg]
    <2>1. x \in WorkerType /\ x.msg # NoMsg /\ Goto(a, w, x)
      BY <1>2, AbsentAssumption DEF Accept, MayAccept, TypeOK, EventData, WorkerType, PCs
    <2>2. answered' \in [Agents -> SUBSET (Conns \cup {NoConn})] /\ accepts' \in Nat
      BY <1>2 DEF Accept, TypeOK
    <2> HIDE DEF x
    <2> QED
      BY <1>2, <2>1, <2>2, GotoType DEF Accept, TypeOK, WorkerType
  <1>3. ASSUME TakeCallback(a)
        PROVE  TypeOK'
    <2> DEFINE b == Head(callbacks[a])
               x == [pc |-> IF b.stop THEN "abandon" ELSE "execute",
                     msg |-> b.event.msg, next |-> b.event.next,
                     rec |-> b.event.rec, out |-> NoMsg]
    <2>1. b \in CB /\ Tail(callbacks[a]) \in Seq(CB)
      <3> HIDE DEF CB
      <3> QED
        BY <1>0, <1>3, SeqFacts DEF TakeCallback
    <2>2. Goto(a, Listener, x)
      BY <1>3 DEF TakeCallback
    <2>3. x \in WorkerType /\ x.msg # NoMsg
      <3> HIDE DEF b
      <3> QED
        BY <2>1, AbsentAssumption DEF EventData, WorkerType, PCs
    <2>4. callbacks' \in [Agents -> Seq(CB)]
      <3> HIDE DEF CB
      <3> QED
        BY <1>0, <1>3, <2>1 DEF TakeCallback
    <2>5. Listener \in Workers
      BY DEF Workers
    <2> HIDE DEF x
    <2> QED
      BY <1>3, <2>2, <2>3, <2>4, <2>5, GotoType DEF TakeCallback, TypeOK, WorkerType
  <1> QED
    BY <1>1, <1>2, <1>3 DEF Continue, Stop

LEMMA AbandonType ==
    ASSUME TypeOK, NEW a \in Agents, NEW w \in Workers, Abandon(a, w) \/ SaveAbandoned(a, w)
    PROVE  TypeOK'
  <1> USE DEF stores, client, net, used
  <1> DEFINE me == workers[a][w]
  <1>1. me \in WorkerType /\ (me.pc # "idle" => me.msg # NoMsg)
    BY DEF TypeOK, WorkerType
  <1>2. CASE Abandon(a, w)
    <2> DEFINE r == ThreadRecord(a)
               x == IF r = NoRec THEN IdleWorker
                    ELSE [me EXCEPT !.pc = "saveabandoned",
                                    !.rec = [r EXCEPT !.state = "abandoned"]]
    <2>1. r \in Records
      BY ReadType
    <2>2. Goto(a, w, x)
      BY <1>2 DEF Abandon, Idle
    <2>3. x \in WorkerType /\ (x.pc # "idle" => x.msg # NoMsg)
      <3> HIDE DEF r
      <3> QED
        BY <1>1, <1>2, <2>1, AbsentType DEF Abandon, WorkerType, PCs, Records, States, IdleWorker
    <2> HIDE DEF x
    <2> QED
      BY <1>2, <2>2, <2>3, GotoType DEF Abandon, TypeOK, WorkerType
  <1>3. CASE SaveAbandoned(a, w)
    <2>1. records' \in [Agents -> [Conns -> Records]]
      BY <1>1, <1>3 DEF SaveAbandoned, TypeOK, WorkerType
    <2>2. Goto(a, w, IdleWorker)
      BY <1>3 DEF SaveAbandoned, Idle
    <2> QED
      BY <1>3, <2>1, <2>2, AbsentType, GotoType
      DEF SaveAbandoned, TypeOK, WorkerType, IdleWorker
  <1> QED
    BY <1>2, <1>3

LEMMA FailureType ==
    ASSUME TypeOK, NEW a \in Agents
    PROVE  /\ \A w \in Workers : Fail(a, w) => TypeOK'
           /\ Crash(a) => TypeOK'
  <1> USE DEF stores, client, net, used
  <1>1. ASSUME NEW w \in Workers, Fail(a, w)
        PROVE  TypeOK'
    <2> DEFINE me == workers[a][w]
               x == IF w = Listener /\ me.pc \notin {"abandon", "saveabandoned"}
                    THEN [me EXCEPT !.pc = "abandon"] ELSE IdleWorker
    <2>1. me \in WorkerType /\ (me.pc # "idle" => me.msg # NoMsg)
      BY DEF TypeOK, WorkerType
    <2>2. x \in WorkerType /\ (x.pc # "idle" => x.msg # NoMsg) /\ Goto(a, w, x)
      BY <1>1, <2>1, AbsentType DEF Fail, Idle, WorkerType, PCs, IdleWorker
    <2>3. sent' \in SUBSET Messages /\ failures' \in Nat
      BY <1>1, <2>1 DEF Fail, TypeOK, WorkerType
    <2> HIDE DEF x
    <2> QED
      BY <1>1, <2>2, <2>3, GotoType DEF Fail, TypeOK, WorkerType
  <1>2. ASSUME Crash(a)
        PROVE  TypeOK'
    <2>1. /\ workers' \in [Agents -> [Workers -> WorkerType]]
          /\ \A b \in Agents, v \in Workers :
                workers'[b][v].pc # "idle" => workers'[b][v].msg # NoMsg
      BY <1>2, AbsentType DEF Crash, TypeOK, WorkerType, IdleWorker
    <2>2. /\ records' \in [Agents -> [Conns -> Records]]
          /\ threads' \in [Agents -> Conns \cup {NoConn}]
      <3> DEFINE none == [c \in Conns |-> NoRec]
      <3>1. none \in [Conns -> Records]
        BY AbsentType
      <3>2. \/ records' = records /\ threads' = threads
            \/ /\ records' = [records EXCEPT ![a] = none]
               /\ threads' = [threads EXCEPT ![a] = NoConn]
        BY <1>2 DEF Crash
      <3> HIDE DEF none
      <3> QED
        BY <3>1, <3>2 DEF TypeOK
    <2>4. events'  \in [Agents -> [Conns -> EventData \cup {NoEvent}]]
      <3> DEFINE E == EventData \cup {NoEvent}
                 none == [c \in Conns |-> NoEvent]
      <3>1. events \in [Agents -> [Conns -> E]] /\ none \in [Conns -> E]
        BY DEF TypeOK
      <3>2. events' = events \/ events' = [events EXCEPT ![a] = none]
        BY <1>2 DEF Crash
      <3> HIDE DEF E, none
      <3>3. events' \in [Agents -> [Conns -> E]]
        BY <3>1, <3>2
      <3> QED
        BY <3>3 DEF E
    <2>5. callbacks' \in [Agents -> Seq([event : EventData, stop : BOOLEAN])]
      <3> DEFINE CB == [event : EventData, stop : BOOLEAN]
      <3>1. callbacks \in [Agents -> Seq(CB)]
        BY DEF TypeOK
      <3> HIDE DEF CB
      <3>2. callbacks[a] \in Seq(CB) /\ << >> \in Seq(CB)
        BY <3>1, SeqFacts
      <3>3. callbacks' \in [Agents -> Seq(CB)]
        BY <1>2, <3>1, <3>2 DEF Crash
      <3> QED
        BY <3>3 DEF CB
    <2>3. /\ actions'   \in [Agents -> SUBSET EventData]
          /\ answered'  \in [Agents -> SUBSET (Conns \cup {NoConn})]
          /\ crashes' \in Nat
      BY <1>2 DEF Crash, TypeOK
    <2> QED
      BY <1>2, <2>1, <2>2, <2>3, <2>4, <2>5 DEF Crash, TypeOK, WorkerType
  <1> QED
    BY <1>1, <1>2

\* Every step keeps the types.
LEMMA NextType == TypeOK /\ [Next]_vars => TypeOK'
  <1> SUFFICES ASSUME TypeOK, [Next]_vars PROVE TypeOK'
    OBVIOUS
  <1> USE DEF Workers
  <1>1. CASE UNCHANGED vars
    BY <1>1 DEF vars, stores, client, net, used, TypeOK
  <1>2. ASSUME NEW w \in Handlers, CreateImplicitInvitation(w) PROVE TypeOK'
    BY <1>2, ImplicitType
  <1>3. ASSUME NEW a \in Agents, NEW w \in Workers, Run(a, w) PROVE TypeOK'
    BY <1>3, RecordType, ExecuteType, SaveType, ActType, AbandonType DEF Run
  <1> QED
    BY <1>1, <1>2, <1>3, InboundType, ClientType, FailureType DEF Next

(***************************************************************************)
(* TypeOK holds in every state of every exchange.                           *)
(***************************************************************************)
THEOREM TypeCorrect == Spec => []TypeOK
  <1> QED
    BY InitType, NextType, PTL DEF Spec

-----------------------------------------------------------------------------
(***************************************************************************)
(* The inductive invariant is kept.  First: S and F only grow, and growing  *)
(* never invalidates what was established.                                  *)
(***************************************************************************)
LEMMA Monotone ==
    ASSUME NEW S, NEW T, S \subseteq T, NEW F, NEW G, F \subseteq G, NEW a
    PROVE  /\ \A m : Genuine(S, F, a, m) => Genuine(T, G, a, m)
           /\ \A r : Sound(S, F, a, r) => Sound(T, G, a, r)
           /\ \A e : EventInv(S, F, a, e) => EventInv(T, G, a, e)
           /\ \A w : WorkerInv(S, F, a, w) => WorkerInv(T, G, a, w)
  <1>1. ASSUME NEW m, Genuine(S, F, a, m) PROVE Genuine(T, G, a, m)
    BY <1>1 DEF Genuine, Known, Done
  <1>2. ASSUME NEW r, Sound(S, F, a, r) PROVE Sound(T, G, a, r)
    BY <1>2 DEF Sound, Known, Done
  <1>3. ASSUME NEW e, EventInv(S, F, a, e) PROVE EventInv(T, G, a, e)
    BY <1>1, <1>2, <1>3 DEF EventInv, Done
  <1>4. ASSUME NEW w, OutInv(S, F, a, w) PROVE OutInv(T, G, a, w)
    BY <1>4 DEF OutInv
  <1>5. ASSUME NEW w, WorkerInv(S, F, a, w) PROVE WorkerInv(T, G, a, w)
    BY <1>1, <1>2, <1>4, <1>5 DEF WorkerInv, Done
  <1> QED
    BY <1>1, <1>2, <1>3, <1>5

Grows == saved \subseteq saved' /\ Facts \subseteq Facts'

\* A step that leaves the permanent store alone and forgets no DID loses no fact.
LEMMA StableFacts ==
    ASSUME permanent' = permanent, dids[Invitee] \subseteq dids'[Invitee]
    PROVE  Facts \subseteq Facts'
  <1>1. InviteeStored => InviteeStored'
    BY DEF InviteeStored
  <1>2. InviteeKnows => InviteeKnows'
    BY DEF InviteeKnows
  <1> QED
    BY <1>1, <1>2 DEF Facts

\* What a step does not touch keeps its part of the invariant.
LEMMA WorkersFrame ==
    ASSUME TypeOK, WorkersInv, Grows, NEW a \in Agents, NEW w \in Workers, NEW x,
           Goto(a, w, x), WorkerInv(saved', Facts', a, x)
    PROVE  WorkersInv'
  <1> SUFFICES ASSUME NEW b \in Agents, NEW v \in Workers
               PROVE  WorkerInv(saved', Facts', b, workers'[b][v])
    BY DEF WorkersInv
  <1>1. workers'[b][v] = IF b = a /\ v = w THEN x ELSE workers[b][v]
    BY DEF Goto, TypeOK
  <1>2. WorkerInv(saved', Facts', b, workers[b][v])
    BY Monotone DEF WorkersInv, Grows
  <1> QED
    BY <1>1, <1>2

LEMMA EventsFrame ==
    ASSUME EventsInv, Grows, UNCHANGED <<events, actions, callbacks>>
    PROVE  EventsInv'
  <1>1. ASSUME NEW a \in Agents, NEW e, EventInv(saved, Facts, a, e)
        PROVE  EventInv(saved', Facts', a, e)
    BY <1>1, Monotone DEF Grows
  <1> QED
    BY <1>1 DEF EventsInv

LEMMA SentFrame ==
    ASSUME SentInv, Grows, sent' = sent
    PROVE  SentInv'
  <1>1. ASSUME NEW m \in sent PROVE Genuine(saved', Facts', Receiver(m.type), m)
    BY Monotone DEF SentInv, Grows
  <1> QED
    BY <1>1 DEF SentInv

LEMMA StoresFrame ==
    ASSUME StoresInv, Grows, UNCHANGED <<records, permanent>>
    PROVE  StoresInv'
  <1>1. ASSUME NEW a \in Agents, NEW r, Sound(saved, Facts, a, r)
        PROVE  Sound(saved', Facts', a, r)
    BY <1>1, Monotone DEF Grows
  <1> QED
    BY <1>1 DEF StoresInv

\* A record written under its own connection id.
LEMMA RecordsFrame ==
    ASSUME TypeOK, StoresInv, Grows, NEW a \in Agents, NEW r \in Records,
           records' = [records EXCEPT ![a][r.conn] = r], permanent' = permanent,
           Sound(saved', Facts', a, r)
    PROVE  StoresInv'
  <1>1. ASSUME NEW b \in Agents, NEW s, Sound(saved, Facts, b, s)
        PROVE  Sound(saved', Facts', b, s)
    BY <1>1, Monotone DEF Grows
  <1>2. ASSUME NEW b \in Agents, NEW c \in Conns
        PROVE  records'[b][c] = IF b = a /\ c = r.conn THEN r ELSE records[b][c]
    BY DEF TypeOK
  <1>3. NoConn \notin Conns
    BY BoundsAssumption DEF Conns, NoConn
  <1> QED
    BY <1>1, <1>2, <1>3 DEF StoresInv

\* Every step only adds to what is saved and to the facts about the invitee.
LEMMA GrowsLemma == TypeOK /\ WorkersInv /\ [Next]_vars => Grows
  <1> SUFFICES ASSUME TypeOK, WorkersInv, [Next]_vars PROVE Grows
    OBVIOUS
  <1> USE DEF stores, client, net, used
  <1>1. ASSUME NEW a \in Agents, NEW w \in Workers, SavePermanent(a, w)
        PROVE  Grows
    <2>1. workers[a][w].rec.state = "completed"
      BY <1>1 DEF SavePermanent, WorkersInv, WorkerInv, Sending
    <2>2. ASSUME NEW k \in Conns, permanent[Invitee][k].state = "completed"
          PROVE  permanent'[Invitee][k].state = "completed"
      BY <1>1, <2>1, <2>2 DEF SavePermanent, TypeOK, Agents
    <2>3. InviteeStored => InviteeStored'
      BY <2>2 DEF InviteeStored
    <2>4. InviteeKnows' = InviteeKnows /\ saved' = saved
      BY <1>1 DEF SavePermanent, InviteeKnows
    <2> QED
      BY <2>3, <2>4 DEF Grows, Facts
  <1>2. ASSUME saved \subseteq saved', permanent' = permanent,
               \A b \in Agents : dids[b] \subseteq dids'[b]
        PROVE  Grows
    BY <1>2, StableFacts DEF Grows, Agents
  <1>3. ASSUME NEW a \in Agents, NEW w \in Workers, Execute(a, w)
        PROVE  Grows
    <2>1. Mint(a) => \A b \in Agents : dids[b] \subseteq dids'[b]
      BY DEF Mint, TypeOK
    <2> QED
      BY <1>2, <1>3, <2>1
      DEF Execute, ExecutePlain, ExecuteInvitation, ExecuteRequest, ExecuteResponse
  <1>4. ASSUME NEW a \in Agents, NEW w \in Workers, Save(a, w)
        PROVE  Grows
    <2>1. CASE Persist(a, w)
      BY <1>2, <2>1 DEF Persist
    <2>2. CASE SaveMapping(a, w)
      BY <1>2, <2>2 DEF SaveMapping
    <2>3. CASE SaveDID(a, w)
      BY <1>2, <2>3 DEF SaveDID, TypeOK
    <2> QED
      BY <1>1, <1>4, <2>1, <2>2, <2>3 DEF Save
  <1>5. ASSUME NEW a \in Agents, NEW w \in Workers, Run(a, w)
        PROVE  Grows
    BY <1>2, <1>3, <1>4, <1>5
    DEF Run, NewRecord, FetchRecord, Act, SendActionEvent, Abandon, SaveAbandoned
  <1>6. ASSUME NEW w \in Handlers, CreateImplicitInvitation(w)
        PROVE  Grows
    BY <1>2, <1>6 DEF CreateImplicitInvitation
  <1>7. ASSUME NEW a \in Agents
        PROVE  /\ \A w \in Handlers, m \in sent :
                      HandleInbound(a, w, m) \/ RejectInbound(a, w, m) => Grows
               /\ \A w \in Workers : Fail(a, w) => Grows
               /\ \A e \in actions[a] : Continue(a, e) \/ Stop(a, e) => Grows
               /\ \A w \in Handlers, c \in Conns : Accept(a, w, c) => Grows
               /\ TakeCallback(a) \/ Crash(a) => Grows
    BY <1>2 DEF HandleInbound, RejectInbound, Fail, Continue, Stop, Answer, Accept,
                TakeCallback, Crash
  <1>8. UNCHANGED vars => Grows
    BY <1>2 DEF vars
  <1> QED
    BY <1>5, <1>6, <1>7, <1>8 DEF Next

\* Idle goroutines and absent records owe nothing; a thread's record is sound,
\* and has an id of its own if it has a DID.
LEMMA NothingOwed ==
    ASSUME NEW S, NEW F, NEW a
    PROVE  WorkerInv(S, F, a, IdleWorker) /\ Sound(S, F, a, NoRec)
  BY DEF WorkerInv, IdleWorker, Sound, NoRec, Known, Sending

LEMMA ReadSound ==
    ASSUME TypeOK, StoresInv, NEW a \in Agents
    PROVE  /\ Sound(saved, Facts, a, ThreadRecord(a))
           /\ ThreadRecord(a).myDID # NoDID => ThreadRecord(a).conn # NoConn
  <1>1. CASE threads[a] = NoConn
    BY <1>1, NothingOwed DEF ThreadRecord, NoRec
  <1>2. CASE threads[a] \in Conns
    BY <1>2, BoundsAssumption DEF ThreadRecord, StoresInv, NoConn, Conns, NoRec
  <1> QED
    BY <1>1, <1>2 DEF TypeOK

\* The initial state satisfies the invariant.
LEMMA InitInv == Init => IInv
  <1> SUFFICES ASSUME Init PROVE IInv
    OBVIOUS
  <1>1. StoresInv
    BY NothingOwed DEF Init, StoresInv, NoRec
  <1>2. EventsInv
    BY DEF Init, EventsInv
  <1>3. SentInv
    BY AgentsAssumption
    DEF Init, SentInv, Genuine, Known, Msg, Receiver, Openings
  <1>4. WorkersInv
    BY NothingOwed DEF Init, WorkersInv
  <1> QED
    BY <1>1, <1>2, <1>3, <1>4 DEF IInv

(***************************************************************************)
(* Every action keeps the invariant: one lemma per group of actions.        *)
(***************************************************************************)
LEMMA InboundInv ==
    ASSUME TypeOK, IInv, Grows, NEW a \in Agents, NEW w \in Workers, NEW m \in sent,
           HandleInbound(a, w, m) \/ RejectInbound(a, w, m)
    PROVE  IInv'
  <1> USE DEF stores, client, net, used, IInv
  <1>0. StoresInv' /\ EventsInv' /\ SentInv'
    BY StoresFrame, EventsFrame, SentFrame DEF HandleInbound, RejectInbound
  <1>1. CASE HandleInbound(a, w, m)
    <2> DEFINE x == [IdleWorker EXCEPT !.pc = "record", !.msg = m,
                                       !.next = StateFromMsgType(m.type)]
    <2>1. Genuine(saved, Facts, a, m)
      BY <1>1 DEF HandleInbound, Deliverable, SentInv
    <2>2. m.type \in MsgTypes
      BY DEF TypeOK, Messages
    <2>3. a = Inviter /\ StateFromMsgType(m.type) = "completed" => Done(Facts)
      BY <2>1, <2>2 DEF Genuine, StateFromMsgType, MsgTypes, Invitations
    <2>4. WorkerInv(saved, Facts, a, x)
      BY <2>1, <2>3, NothingOwed DEF WorkerInv, IdleWorker, Sending
    <2>5. Goto(a, w, x) /\ WorkerInv(saved', Facts', a, x)
      <3>1. Goto(a, w, x)
        BY <1>1 DEF HandleInbound
      <3> HIDE DEF x
      <3> QED
        BY <2>4, <3>1, Monotone DEF Grows
    <2> HIDE DEF x
    <2> QED
      BY <1>0, <2>5, WorkersFrame
  <1>2. CASE RejectInbound(a, w, m)
    BY <1>0, <1>2, Monotone DEF RejectInbound, WorkersInv, Grows
  <1> QED
    BY <1>1, <1>2

\* A worker that owes only what has already happened.
LEMMA WorkersStep ==
    ASSUME TypeOK, WorkersInv, Grows, NEW a \in Agents, NEW w \in Workers, NEW x,
           Goto(a, w, x), WorkerInv(saved, Facts, a, x)
    PROVE  WorkersInv'
  <1>1. WorkerInv(saved', Facts', a, x)
    BY Monotone DEF Grows
  <1> QED
    BY <1>1, WorkersFrame

LEMMA RecordInv ==
    ASSUME TypeOK, IInv, Grows, NEW a \in Agents, NEW w \in Workers,
           NewRecord(a, w) \/ FetchRecord(a, w)
    PROVE  IInv'
  <1> USE DEF stores, client, net, used, IInv
  <1> DEFINE me == workers[a][w]
  <1>0. EventsInv' /\ SentInv'
    BY EventsFrame, SentFrame DEF NewRecord, FetchRecord
  <1>1. /\ Genuine(saved, Facts, a, me.msg)
        /\ a = Inviter /\ me.next = "completed" => Done(Facts)
        /\ me.out = NoMsg /\ me \in WorkerType /\ me.msg \in Messages
    BY DEF NewRecord, FetchRecord, WorkersInv, WorkerInv, TypeOK, WorkerType
  <1>2. CASE NewRecord(a, w)
    <2> DEFINE r == [conn |-> created[a] + 1, state |-> "null", myDID |-> NoDID,
                     theirDID |-> IF me.msg.type = "request" THEN me.msg.did ELSE NoDID]
               x == [me EXCEPT !.pc = "execute", !.rec = r]
    <2>1. r \in Records
      BY <1>1, <1>2 DEF NewRecord, Records, States, DIDs, Messages
    <2>2. Sound(saved, Facts, a, r)
      BY <1>1 DEF Sound, Genuine, Known
    <2>3. records' = [records EXCEPT ![a][r.conn] = r] /\ Goto(a, w, x)
      BY <1>2 DEF NewRecord
    <2> HIDE DEF r
    <2>4. WorkerInv(saved, Facts, a, x)
      BY <1>1, <2>2 DEF WorkerInv, WorkerType, Sending
    <2> HIDE DEF x
    <2>5. Sound(saved', Facts', a, r)
      BY <2>2, Monotone DEF Grows
    <2>6. StoresInv'
      BY <1>2, <2>1, <2>3, <2>5, RecordsFrame DEF NewRecord
    <2> QED
      BY <1>0, <2>3, <2>4, <2>6, WorkersStep
  <1>3. CASE FetchRecord(a, w)
    <2> DEFINE x == IF ThreadRecord(a) = NoRec THEN IdleWorker
                    ELSE [me EXCEPT !.pc = "execute", !.rec = ThreadRecord(a)]
    <2>1. Goto(a, w, x)
      BY <1>3 DEF FetchRecord, Idle
    <2>2. WorkerInv(saved, Facts, a, x)
      BY <1>1, ReadSound, NothingOwed DEF WorkerInv, WorkerType, Sending
    <2> HIDE DEF x
    <2> QED
      BY <1>0, <1>3, <2>1, <2>2, StoresFrame, WorkersStep DEF FetchRecord
  <1> QED
    BY <1>2, <1>3

LEMMA ImplicitInv ==
    ASSUME TypeOK, IInv, Grows, NEW w \in Workers, CreateImplicitInvitation(w)
    PROVE  IInv'
  <1> USE DEF stores, client, net, used, IInv
  <1> DEFINE r == [NoRec EXCEPT !.conn = 1]
             x == [IdleWorker EXCEPT !.pc = "execute", !.next = "requested",
                              !.msg = Msg("invitation", NoDID), !.rec = r]
  <1>0. EventsInv' /\ SentInv'
    BY EventsFrame, SentFrame DEF CreateImplicitInvitation
  <1>1. Invitee \in Agents /\ r \in Records
    BY DEF CreateImplicitInvitation, Agents, Records, NoRec, States, DIDs
  <1>2. /\ Sound(saved, Facts, Invitee, r) /\ Sound(saved', Facts', Invitee, r)
    BY AgentsAssumption DEF Sound, NoRec, Known
  <1>3. /\ Goto(Invitee, w, x)
        /\ records' = [records EXCEPT ![Invitee][r.conn] = r]
        /\ permanent' = permanent
    BY DEF CreateImplicitInvitation, NoRec
  <1> HIDE DEF r
  <1>4. WorkerInv(saved, Facts, Invitee, x)
    BY <1>2, AgentsAssumption
    DEF WorkerInv, IdleWorker, Sending, Genuine, Known, Msg, Receiver
  <1> HIDE DEF x
  <1>5. StoresInv'
    BY <1>1, <1>2, <1>3, RecordsFrame
  <1> QED
    BY <1>0, <1>1, <1>3, <1>4, <1>5, WorkersStep

LEMMA ExecuteInv ==
    ASSUME TypeOK, IInv, Grows, NEW a \in Agents, NEW w \in Workers, Execute(a, w)
    PROVE  IInv'
  <1> USE DEF stores, client, net, used, IInv
  <1> DEFINE me == workers[a][w]
             d  == <<a, minted[a] + 1>>
  <1>0. StoresInv' /\ EventsInv' /\ SentInv'
    BY StoresFrame, EventsFrame, SentFrame
    DEF Execute, ExecutePlain, ExecuteInvitation, ExecuteRequest, ExecuteResponse
  <1>1. me.pc = "execute"
    BY DEF Execute, ExecutePlain, ExecuteInvitation, ExecuteRequest, ExecuteResponse
  <1>2. /\ Genuine(saved, Facts, a, me.msg) /\ Sound(saved, Facts, a, me.rec)
        /\ a = Inviter /\ me.next = "completed" => Done(Facts)
        /\ me.out = NoMsg /\ me \in WorkerType /\ me.msg \in Messages /\ me.rec \in Records
    BY <1>1 DEF WorkersInv, WorkerInv, TypeOK, WorkerType
  <1>3. d \in {a} \X Nat /\ d # NoDID
    BY AbsentAssumption DEF TypeOK
  <1>4. CASE ExecutePlain(a, w)
    <2> DEFINE x == [me EXCEPT !.pc = "persist", !.rec.state = me.next]
    <2>1. Goto(a, w, x)
      BY <1>4 DEF ExecutePlain
    <2>2. x.rec.state = me.next /\ x.rec.theirDID = me.rec.theirDID
      BY <1>2 DEF WorkerType, Records
    <2>3. Sound(saved, Facts, a, x.rec)
      BY <1>2, <2>2 DEF Sound
    <2>4. x.pc = "persist" /\ x.next = me.next /\ x.out = NoMsg /\ x.msg = me.msg
      BY <1>2 DEF WorkerType
    <2> HIDE DEF x
    <2>5. WorkerInv(saved, Facts, a, x)
      BY <1>2, <2>2, <2>3, <2>4 DEF WorkerInv
    <2> QED
      BY <1>0, <2>1, <2>5, WorkersStep
  <1>5. CASE ExecuteInvitation(a, w)
    <2> DEFINE x == [me EXCEPT !.pc = "persist", !.out = Msg("request", d),
                               !.rec.state = "requested", !.rec.myDID = d]
    <2>1. Goto(a, w, x)
      BY <1>5 DEF ExecuteInvitation
    <2> HIDE DEF d
    <2>2. /\ x.rec.state = "requested" /\ x.rec.theirDID = me.rec.theirDID /\ x.rec.myDID = d
          /\ x.pc = "persist" /\ x.next = "requested" /\ x.out = Msg("request", d)
          /\ x.msg = me.msg
      BY <1>2, <1>5 DEF WorkerType, Records, ExecuteInvitation
    <2> HIDE DEF x
    <2>3. Sound(saved, Facts, a, x.rec)
      BY <1>2, <2>2 DEF Sound
    <2>4. a = Invitee
      BY <1>2, <1>5 DEF ExecuteInvitation, Invitations, Genuine, Receiver
    <2>5. OutInv(saved, Facts, a, x)
      BY <1>3, <2>2, <2>4 DEF OutInv, Msg, Receiver, Peer
    <2>6. WorkerInv(saved, Facts, a, x)
      BY <1>2, <2>2, <2>3, <2>5 DEF WorkerInv
    <2> QED
      BY <1>0, <2>1, <2>6, WorkersStep
  <1>6. CASE ExecuteRequest(a, w)
    <2> DEFINE x == [me EXCEPT !.pc = "persist", !.out = Msg("response", d),
                               !.rec.state = "responded", !.rec.myDID = d,
                               !.rec.theirDID = me.msg.did]
    <2>1. Goto(a, w, x)
      BY <1>6 DEF ExecuteRequest
    <2> HIDE DEF d
    <2>2. /\ x.rec.state = "responded" /\ x.rec.theirDID = me.msg.did /\ x.rec.myDID = d
          /\ x.pc = "persist" /\ x.next = "responded" /\ x.out = Msg("response", d)
          /\ x.msg = me.msg
      BY <1>2, <1>6 DEF WorkerType, Records, ExecuteRequest
    <2> HIDE DEF x
    <2>3. Sound(saved, Facts, a, x.rec)
      BY <1>2, <2>2 DEF Sound, Genuine
    <2>4. a = Inviter
      BY <1>2, <1>6 DEF ExecuteRequest, Genuine, Receiver
    <2>5. OutInv(saved, Facts, a, x)
      BY <1>3, <2>2, <2>4, AgentsAssumption DEF OutInv, Msg, Receiver, Peer
    <2>6. WorkerInv(saved, Facts, a, x)
      BY <1>2, <2>2, <2>3, <2>5 DEF WorkerInv
    <2> QED
      BY <1>0, <2>1, <2>6, WorkersStep
  <1>7. CASE ExecuteResponse(a, w)
    <2> DEFINE r == ThreadRecord(a)
               x == [me EXCEPT !.pc = "persist", !.out = Msg("complete", NoDID),
                               !.rec = [r EXCEPT !.state = "completed",
                                                 !.theirDID = me.msg.did]]
    <2>1. CASE r.myDID = NoDID
      BY <1>0, <1>7, <2>1, NothingOwed, WorkersStep DEF ExecuteResponse, Idle
    <2>2. CASE r.myDID # NoDID
      <3>1. Goto(a, w, x)
        BY <1>7, <2>2 DEF ExecuteResponse
      <3>2. r \in Records /\ r.conn # NoConn
        BY <2>2, ReadType, ReadSound
      <3> HIDE DEF r
      <3>3. /\ x.rec.state = "completed" /\ x.rec.theirDID = me.msg.did /\ x.rec.conn = r.conn
            /\ x.pc = "persist" /\ x.next = "completed" /\ x.out = Msg("complete", NoDID)
            /\ x.msg = me.msg
        BY <1>2, <1>7, <3>2 DEF WorkerType, Records, ExecuteResponse
      <3> HIDE DEF x
      <3>4. a = Invitee /\ me.msg.did # NoDID
        BY <1>2, <1>7 DEF ExecuteResponse, Genuine, Receiver
      <3>5. Sound(saved, Facts, a, x.rec)
        BY <1>2, <3>3, <3>4, AgentsAssumption DEF Sound, Genuine
      <3>6. OutInv(saved, Facts, a, x)
        BY <3>2, <3>3, <3>4 DEF OutInv, Msg, Receiver, Peer
      <3>7. WorkerInv(saved, Facts, a, x)
        BY <1>2, <3>3, <3>4, <3>5, <3>6, AgentsAssumption DEF WorkerInv
      <3> QED
        BY <1>0, <3>1, <3>7, WorkersStep
    <2> QED
      BY <2>1, <2>2
  <1> QED
    BY <1>4, <1>5, <1>6, <1>7 DEF Execute

LEMMA SaveInv ==
    ASSUME TypeOK, IInv, Grows, NEW a \in Agents, NEW w \in Workers, Save(a, w)
    PROVE  IInv'
  <1> USE DEF stores, client, net, used, IInv
  <1> DEFINE me == workers[a][w]
  <1>0. EventsInv' /\ SentInv'
    BY EventsFrame, SentFrame DEF Save, Persist, SaveMapping, SavePermanent, SaveDID
  <1>1. me.pc \in {"persist", "mapping", "permanent", "did"}
    BY DEF Save, Persist, SaveMapping, SavePermanent, SaveDID
  <1>2. /\ WorkerInv(saved, Facts, a, me) /\ WorkerInv(saved', Facts', a, me)
        /\ me \in WorkerType /\ me.rec \in Records
    <2>1. WorkerInv(saved, Facts, a, me)
      BY DEF WorkersInv
    <2>2. WorkerInv(saved', Facts', a, me)
      BY <2>1, Monotone DEF Grows
    <2>3. me \in WorkerType /\ me.rec \in Records
      BY DEF TypeOK, WorkerType
    <2> QED
      BY <2>1, <2>2, <2>3
  <1>3. Sound(saved', Facts', a, me.rec) /\ me.rec.state = me.next
    BY <1>1, <1>2 DEF WorkerInv, Sending
  \* Moving on to pc `p` leaves only the obligations of the message to prove.
  <1>4. ASSUME NEW p \in {"mapping", "permanent", "did", "act"},
               Goto(a, w, [me EXCEPT !.pc = p]),
               p = "permanent" => me.next = "completed",
               p = "mapping" => me.next # "completed",
               me.out # NoMsg => OutInv(saved', Facts', a, [me EXCEPT !.pc = p])
        PROVE  WorkersInv'
    <2> DEFINE x == [me EXCEPT !.pc = p]
    <2>1. /\ x.pc = p /\ x.msg = me.msg /\ x.next = me.next /\ x.rec = me.rec
          /\ x.out = me.out
      BY <1>2 DEF WorkerType
    <2>2. Goto(a, w, x) /\ (x.out # NoMsg => OutInv(saved', Facts', a, x))
      BY <1>4, <2>1
    <2> HIDE DEF x
    <2>3. WorkerInv(saved', Facts', a, x)
      BY <1>1, <1>2, <1>4, <2>1, <2>2 DEF WorkerInv, Sending
    <2> QED
      BY <2>2, <2>3, WorkersFrame
  <1>5. CASE Persist(a, w)
    <2> DEFINE p == CASE SavesMapping(me.next, me.msg.type) -> "mapping"
                      [] me.next = "completed"              -> "permanent"
                      [] OTHER                              -> "act"
               x == [me EXCEPT !.pc = p]
    <2>1. StoresInv'
      BY <1>2, <1>3, <1>5, RecordsFrame DEF Persist
    <2>2. /\ p \in {"mapping", "permanent", "act"}
          /\ p = "permanent" => me.next = "completed"
          /\ p # "permanent" => me.next # "completed"
      BY DEF SavesMapping
    <2>3. Goto(a, w, x)
      BY <1>5 DEF Persist
    <2> HIDE DEF p
    <2>4. ASSUME me.out # NoMsg PROVE OutInv(saved', Facts', a, x)
      <3>1. OutInv(saved', Facts', a, me) /\ me.pc = "persist"
        BY <1>2, <1>5, <2>4 DEF WorkerInv, Sending, Persist
      <3>2. me.out.did # NoDID => me.out.did \in saved'
        BY <1>5, <3>1 DEF OutInv, Persist
      <3>3. /\ x.pc = p /\ x.next = me.next /\ x.rec = me.rec /\ x.out = me.out
        BY <1>2 DEF WorkerType
      <3> HIDE DEF x
      <3> QED
        BY <2>2, <3>1, <3>2, <3>3 DEF OutInv
    <2> QED
      BY <1>0, <1>4, <2>1, <2>2, <2>3, <2>4
  <1>6. CASE SaveMapping(a, w)
    <2>1. StoresInv' /\ Goto(a, w, [me EXCEPT !.pc = "act"])
      BY <1>6, StoresFrame DEF SaveMapping
    <2>2. ASSUME me.out # NoMsg PROVE OutInv(saved', Facts', a, [me EXCEPT !.pc = "act"])
      <3>1. OutInv(saved', Facts', a, me) /\ me.pc = "mapping"
        BY <1>2, <1>6, <2>2 DEF WorkerInv, Sending, SaveMapping
      <3> QED
        BY <1>2, <3>1 DEF OutInv, WorkerType
    <2> QED
      BY <1>0, <1>4, <2>1, <2>2
  <1>7. CASE SavePermanent(a, w)
    <2>1. me.next = "completed"
      BY <1>2, <1>7 DEF WorkerInv, SavePermanent
    <2>2. StoresInv'
      <3>1. ASSUME NEW b \in Agents, NEW s, Sound(saved, Facts, b, s)
            PROVE  Sound(saved', Facts', b, s)
        BY <3>1, Monotone DEF Grows
      <3>2. ASSUME NEW b \in Agents, NEW c \in Conns
            PROVE  permanent'[b][c] = IF b = a /\ c = me.rec.conn THEN me.rec
                                                                  ELSE permanent[b][c]
        BY <1>7 DEF SavePermanent, TypeOK
      <3>3. records' = records
        BY <1>7 DEF SavePermanent
      <3> QED
        BY <1>3, <2>1, <3>1, <3>2, <3>3 DEF StoresInv
    <2>3. ASSUME me.out # NoMsg PROVE OutInv(saved', Facts', a, [me EXCEPT !.pc = "did"])
      <3>1. OutInv(saved', Facts', a, me) /\ me.pc = "permanent"
        BY <1>2, <1>7, <2>3 DEF WorkerInv, Sending, SavePermanent
      <3>2. ASSUME me.out.type = "complete" PROVE "stored" \in Facts'
        <4>1. a = Invitee /\ me.rec.conn \in Conns
          BY <1>2, <3>1, <3>2, AgentsAssumption DEF OutInv, Receiver, Peer, Agents, Records
        <4>2. permanent'[Invitee][me.rec.conn].state = "completed"
          BY <1>3, <1>7, <2>1, <4>1 DEF SavePermanent, TypeOK
        <4> QED
          BY <4>1, <4>2 DEF Facts, InviteeStored
      <3> QED
        BY <1>2, <3>1, <3>2 DEF OutInv, WorkerType
    <2> QED
      BY <1>0, <1>4, <1>7, <2>2, <2>3 DEF SavePermanent
  <1>8. CASE SaveDID(a, w)
    <2>1. StoresInv' /\ Goto(a, w, [me EXCEPT !.pc = "act"])
      BY <1>8, StoresFrame DEF SaveDID
    <2>2. ASSUME me.out # NoMsg PROVE OutInv(saved', Facts', a, [me EXCEPT !.pc = "act"])
      <3>1. OutInv(saved', Facts', a, me) /\ me.pc = "did"
        BY <1>2, <1>8, <2>2 DEF WorkerInv, Sending, SaveDID
      <3>2. ASSUME me.out.type = "complete" PROVE "knows" \in Facts'
        <4>1. a = Invitee /\ me.rec.theirDID # NoDID
          BY <3>1, <3>2, AgentsAssumption DEF OutInv, Receiver, Peer, Agents
        <4>2. me.rec.theirDID \in {Inviter} \X Nat
          BY <1>3, <4>1 DEF Sound, Known, Peer
        <4>3. me.rec.theirDID \in dids'[Invitee]
          BY <1>8, <4>1 DEF SaveDID, TypeOK
        <4> QED
          BY <4>2, <4>3 DEF Facts, InviteeKnows
      <3> QED
        BY <1>2, <3>1, <3>2 DEF OutInv, WorkerType
    <2> QED
      BY <1>0, <1>4, <2>1, <2>2
  <1> QED
    BY <1>5, <1>6, <1>7, <1>8 DEF Save

\* What is sent owes nothing any more: its DID is persisted, and a Complete
\* follows the invitee's last store.
LEMMA SendStep ==
    ASSUME TypeOK, SentInv, WorkersInv, Grows, NEW a \in Agents, NEW w \in Workers,
           workers[a][w].pc = "act", workers[a][w].out # NoMsg,
           sent' = sent \cup {workers[a][w].out}
    PROVE  SentInv'
  <1> DEFINE me == workers[a][w]
  <1>1. OutInv(saved, Facts, a, me)
    BY DEF WorkersInv, WorkerInv, Sending
  <1>2. Receiver(me.out.type) = Peer(a) /\ Peer(Peer(a)) = a
    BY <1>1, AgentsAssumption DEF OutInv, Peer, Agents
  <1>3. Genuine(saved, Facts, Receiver(me.out.type), me.out)
    BY <1>1, <1>2 DEF Genuine, OutInv, Known, Done
  <1>4. ASSUME NEW m \in sent' PROVE Genuine(saved, Facts, Receiver(m.type), m)
    BY <1>3 DEF SentInv
  <1>5. ASSUME NEW m \in sent' PROVE Genuine(saved', Facts', Receiver(m.type), m)
    BY <1>4, Monotone DEF Grows
  <1> QED
    BY <1>5 DEF SentInv

LEMMA ActInv ==
    ASSUME TypeOK, IInv, Grows, NEW a \in Agents, NEW w \in Workers,
           Act(a, w) \/ SendActionEvent(a, w)
    PROVE  IInv'
  <1> USE DEF stores, client, net, used, IInv
  <1> DEFINE me == workers[a][w]
  <1>0. StoresInv'
    BY StoresFrame DEF Act, SendActionEvent
  <1>1. /\ Genuine(saved, Facts, a, me.msg) /\ Sound(saved, Facts, a, me.rec)
        /\ a = Inviter /\ me.next = "completed" => Done(Facts)
        /\ me \in WorkerType /\ me.msg \in Messages
    BY DEF Act, SendActionEvent, WorkersInv, WorkerInv, TypeOK, WorkerType
  <1>2. CASE Act(a, w)
    <2> DEFINE next == Followup(me.next, me.msg.type)
               halt == /\ me.msg.type # "oob-invitation"
                       /\ CanTriggerActionEvents(me.next, FindNamespace(me.msg.type))
               x == [me EXCEPT !.next = next, !.out = NoMsg,
                               !.pc = IF halt THEN "event" ELSE "execute"]
    <2>1. SentInv'
      BY <1>2, SendStep, SentFrame DEF Act
    <2>2. EventsInv'
      BY <1>2, EventsFrame DEF Act
    <2>3. a = Inviter /\ next = "completed" => Done(Facts)
      BY <1>1, AgentsAssumption DEF Followup, Genuine, Receiver
    <2>4. Goto(a, w, x) \/ Goto(a, w, IdleWorker)
      BY <1>2 DEF Act, Idle
    <2> HIDE DEF next, halt
    <2>5. /\ x.pc \in {"event", "execute"} /\ x.next = next /\ x.out = NoMsg
          /\ x.msg = me.msg /\ x.rec = me.rec
      BY <1>1 DEF WorkerType
    <2> HIDE DEF x
    <2>6. WorkerInv(saved, Facts, a, x)
      BY <1>1, <2>3, <2>5 DEF WorkerInv, Sending
    <2> QED
      BY <1>0, <2>1, <2>2, <2>4, <2>6, NothingOwed, WorkersStep
  <1>3. CASE SendActionEvent(a, w)
    <2> DEFINE e == Event(me)
    <2>1. WorkersInv' /\ SentInv'
      BY <1>3, NothingOwed, WorkersStep, SentFrame DEF SendActionEvent, Idle
    <2>2. EventInv(saved', Facts', a, e)
      <3>1. EventInv(saved, Facts, a, e)
        BY <1>1 DEF EventInv, Event
      <3> QED
        BY <3>1, Monotone DEF Grows
    <2>3. ASSUME NEW b \in Agents, NEW f, EventInv(saved, Facts, b, f)
          PROVE  EventInv(saved', Facts', b, f)
      BY <2>3, Monotone DEF Grows
    <2>4. ASSUME NEW b \in Agents, NEW c \in Conns
          PROVE  events'[b][c] = events[b][c] \/ (b = a /\ events'[b][c] = e)
      BY <1>3 DEF SendActionEvent, TypeOK
    <2>5. ASSUME NEW b \in Agents, NEW f \in actions'[b]
          PROVE  f \in actions[b] \/ (b = a /\ f = e)
      BY <1>3, <2>5 DEF SendActionEvent, TypeOK
    <2>6. callbacks' = callbacks
      BY <1>3 DEF SendActionEvent
    <2> HIDE DEF e
    <2>7. EventsInv'
      BY <2>2, <2>3, <2>4, <2>5, <2>6 DEF EventsInv
    <2> QED
      BY <1>0, <2>1, <2>7
  <1> QED
    BY <1>2, <1>3

\* A client's answer puts a sound event on the callback channel.
LEMMA AnswerInv ==
    ASSUME TypeOK, IInv, Grows, NEW a \in Agents, NEW e \in actions[a],
           NEW stop \in BOOLEAN, Answer(a, e, stop)
    PROVE  IInv'
  <1> USE DEF stores, client, net, used, IInv
  <1> DEFINE CB == [event : EventData, stop : BOOLEAN]
             b  == [event |-> e, stop |-> stop]
  <1>1. StoresInv' /\ SentInv' /\ WorkersInv'
    BY StoresFrame, SentFrame, Monotone DEF Answer, WorkersInv, Grows
  <1>2. ASSUME NEW d \in Agents, NEW f, EventInv(saved, Facts, d, f)
        PROVE  EventInv(saved', Facts', d, f)
    BY <1>2, Monotone DEF Grows
  <1>3. b \in CB /\ b.event = e /\ callbacks \in [Agents -> Seq(CB)]
    BY DEF TypeOK
  <1> HIDE DEF CB
  <1>4. ASSUME NEW d \in Agents, NEW i \in DOMAIN callbacks'[d]
        PROVE  \/ i \in DOMAIN callbacks[d] /\ callbacks'[d][i] = callbacks[d][i]
               \/ d = a /\ callbacks'[d][i] = b
    <2>1. callbacks' = [callbacks EXCEPT ![a] = Append(@, b)]
      BY DEF Answer
    <2> HIDE DEF b
    <2> QED
      BY <1>3, <2>1
  <1>5. EventInv(saved, Facts, a, e)
    BY DEF EventsInv
  <1>6. ASSUME NEW d \in Agents
        PROVE  actions'[d] \subseteq actions[d] /\ events' = events
    BY DEF Answer, TypeOK
  <1> HIDE DEF b
  <1>7. EventsInv'
    BY <1>2, <1>3, <1>4, <1>5, <1>6 DEF EventsInv
  <1> QED
    BY <1>1, <1>7

LEMMA ResumeInv ==
    ASSUME TypeOK, IInv, Grows, NEW a \in Agents
    PROVE  /\ \A w \in Workers, c \in Conns : Accept(a, w, c) => IInv'
           /\ TakeCallback(a) => IInv'
  <1> USE DEF stores, client, net, used, IInv
  \* A worker that starts from the data of a sound event.
  <1>1. ASSUME NEW p \in {"execute", "abandon"}, NEW e, EventInv(saved, Facts, a, e)
        PROVE  WorkerInv(saved, Facts, a, [pc |-> p, msg |-> e.msg, next |-> e.next,
                                           rec |-> e.rec, out |-> NoMsg])
    BY <1>1 DEF WorkerInv, EventInv, Sending
  <1>2. ASSUME NEW w \in Workers, NEW c \in Conns, Accept(a, w, c)
        PROVE  IInv'
    <2> DEFINE e == events[a][c]
               x == [pc |-> "execute", msg |-> e.msg, next |-> e.next,
                     rec |-> e.rec, out |-> NoMsg]
    <2>1. EventInv(saved, Facts, a, e)
      BY <1>2 DEF Accept, MayAccept, EventsInv
    <2>2. Goto(a, w, x) /\ WorkerInv(saved, Facts, a, x)
      BY <1>1, <1>2, <2>1 DEF Accept
    <2> HIDE DEF x
    <2> QED
      BY <1>2, <2>2, WorkersStep, StoresFrame, EventsFrame, SentFrame DEF Accept
  <1>3. ASSUME TakeCallback(a)
        PROVE  IInv'
    <2> DEFINE CB == [event : EventData, stop : BOOLEAN]
               b  == Head(callbacks[a])
               p  == IF b.stop THEN "abandon" ELSE "execute"
               x  == [pc |-> p, msg |-> b.event.msg, next |-> b.event.next,
                      rec |-> b.event.rec, out |-> NoMsg]
    <2>0. callbacks \in [Agents -> Seq(CB)] /\ callbacks[a] # << >>
      BY <1>3 DEF TypeOK, TakeCallback
    <2>1. ASSUME NEW i \in DOMAIN Tail(callbacks[a])
          PROVE  /\ i + 1 \in DOMAIN callbacks[a]
                 /\ Tail(callbacks[a])[i] = callbacks[a][i + 1]
      <3> HIDE DEF CB
      <3> QED
        BY <2>0, <2>1
    <2>2. 1 \in DOMAIN callbacks[a] /\ b = callbacks[a][1]
      <3> HIDE DEF CB
      <3> QED
        BY <2>0
    <2>3. EventInv(saved, Facts, a, b.event)
      BY <2>2 DEF EventsInv
    <2>4. Goto(a, Listener, x) /\ WorkerInv(saved, Facts, a, x) /\ Listener \in Workers
      BY <1>1, <1>3, <2>3 DEF TakeCallback, Workers
    <2> HIDE DEF x
    <2>5. ASSUME NEW d \in Agents, NEW f, EventInv(saved, Facts, d, f)
          PROVE  EventInv(saved', Facts', d, f)
      BY <2>5, Monotone DEF Grows
    <2>6. /\ events' = events /\ actions' = actions
          /\ callbacks' = [callbacks EXCEPT ![a] = Tail(callbacks[a])]
      BY <1>3 DEF TakeCallback
    <2>7. ASSUME NEW d \in Agents, NEW i \in DOMAIN callbacks'[d]
          PROVE  EventInv(saved, Facts, d, callbacks'[d][i].event)
      <3>1. CASE d = a
        BY <2>0, <2>1, <2>6, <2>7, <3>1 DEF EventsInv
      <3>2. CASE d # a
        BY <2>0, <2>6, <2>7, <3>2 DEF EventsInv
      <3> QED
        BY <3>1, <3>2
    <2>8. EventsInv'
      BY <2>5, <2>6, <2>7 DEF EventsInv
    <2> QED
      BY <1>3, <2>4, <2>8, WorkersStep, StoresFrame, SentFrame DEF TakeCallback
  <1> QED
    BY <1>2, <1>3

LEMMA AbandonInv ==
    ASSUME TypeOK, IInv, Grows, NEW a \in Agents, NEW w \in Workers,
           Abandon(a, w) \/ SaveAbandoned(a, w)
    PROVE  IInv'
  <1> USE DEF stores, client, net, used, IInv
  <1> DEFINE me == workers[a][w]
  <1>0. EventsInv' /\ SentInv'
    BY EventsFrame, SentFrame DEF Abandon, SaveAbandoned
  <1>1. /\ Genuine(saved, Facts, a, me.msg) /\ Sound(saved, Facts, a, me.rec)
        /\ a = Inviter /\ me.next = "completed" => Done(Facts)
        /\ me \in WorkerType
    BY DEF Abandon, SaveAbandoned, WorkersInv, WorkerInv, TypeOK, WorkerType
  <1>2. CASE Abandon(a, w)
    <2> DEFINE r == ThreadRecord(a)
               x == [me EXCEPT !.pc = "saveabandoned",
                               !.rec = [r EXCEPT !.state = "abandoned"]]
    <2>1. Goto(a, w, x) \/ Goto(a, w, IdleWorker)
      BY <1>2 DEF Abandon, Idle
    <2>2. r \in Records /\ Sound(saved, Facts, a, r)
      BY ReadType, ReadSound
    <2> HIDE DEF r
    <2>3. /\ x.pc = "saveabandoned" /\ x.msg = me.msg /\ x.next = me.next
          /\ x.rec.state = "abandoned" /\ x.rec.theirDID = r.theirDID
      BY <1>1, <2>2 DEF WorkerType, Records
    <2> HIDE DEF x
    <2>4. WorkerInv(saved, Facts, a, x)
      BY <1>1, <2>2, <2>3 DEF WorkerInv, Sound, Sending
    <2> QED
      BY <1>0, <1>2, <2>1, <2>4, NothingOwed, WorkersStep, StoresFrame DEF Abandon
  <1>3. CASE SaveAbandoned(a, w)
    <2>1. Sound(saved', Facts', a, me.rec) /\ me.rec \in Records
      BY <1>1, Monotone DEF Grows, WorkerType
    <2>2. StoresInv'
      BY <1>3, <2>1, RecordsFrame DEF SaveAbandoned
    <2> QED
      BY <1>0, <1>3, <2>2, NothingOwed, WorkersStep DEF SaveAbandoned, Idle
  <1> QED
    BY <1>2, <1>3

LEMMA FailureInv ==
    ASSUME TypeOK, IInv, Grows, NEW a \in Agents
    PROVE  /\ \A w \in Workers : Fail(a, w) => IInv'
           /\ Crash(a) => IInv'
  <1> USE DEF stores, client, net, used, IInv
  <1>1. ASSUME NEW w \in Workers, Fail(a, w)
        PROVE  IInv'
    <2> DEFINE me == workers[a][w]
               x  == [me EXCEPT !.pc = "abandon"]
    <2>1. SentInv'
      BY <1>1, SendStep, SentFrame DEF Fail
    <2>2. Goto(a, w, x) \/ Goto(a, w, IdleWorker)
      BY <1>1 DEF Fail, Idle
    <2>3. WorkerInv(saved, Facts, a, me) /\ me.pc # "idle" /\ me \in WorkerType
      BY <1>1 DEF Fail, WorkersInv, TypeOK, WorkerType
    <2>4. WorkerInv(saved, Facts, a, x)
      BY <2>3 DEF WorkerInv, WorkerType, Sending
    <2> HIDE DEF x
    <2> QED
      BY <1>1, <2>1, <2>2, <2>4, NothingOwed, WorkersStep, StoresFrame, EventsFrame DEF Fail
  <1>2. ASSUME Crash(a)
        PROVE  IInv'
    <2>1. SentInv'
      BY <1>2, SentFrame DEF Crash
    <2>2. ASSUME NEW b \in Agents
          PROVE  /\ \A m : Genuine(saved, Facts, b, m) => Genuine(saved', Facts', b, m)
                 /\ \A r : Sound(saved, Facts, b, r) => Sound(saved', Facts', b, r)
                 /\ \A e : EventInv(saved, Facts, b, e) => EventInv(saved', Facts', b, e)
                 /\ \A v : WorkerInv(saved, Facts, b, v) => WorkerInv(saved', Facts', b, v)
      BY Monotone DEF Grows
    <2>3. ASSUME NEW b \in Agents, NEW v \in Workers
          PROVE  workers'[b][v] = workers[b][v] \/ workers'[b][v] = IdleWorker
      BY <1>2 DEF Crash, TypeOK
    <2>4. WorkersInv'
      BY <2>2, <2>3, NothingOwed DEF WorkersInv
    <2>5. ASSUME NEW b \in Agents, NEW c \in Conns
          PROVE  /\ records'[b][c] = records[b][c] \/ records'[b][c] = NoRec
                 /\ events'[b][c] = events[b][c] \/ events'[b][c] = NoEvent
      <3>1. \/ records' = records
            \/ records' = [records EXCEPT ![a] = [k \in Conns |-> NoRec]]
        BY <1>2 DEF Crash
      <3>2. \/ events' = events
            \/ events' = [events EXCEPT ![a] = [k \in Conns |-> NoEvent]]
        BY <1>2 DEF Crash
      <3>3. /\ DOMAIN records = Agents /\ records = [d \in Agents |-> records[d]]
            /\ DOMAIN events = Agents /\ events = [d \in Agents |-> events[d]]
        BY DEF TypeOK
      <3> HIDE DEF IInv
      <3>4. records'[b][c] = records[b][c] \/ records'[b][c] = NoRec
        BY <3>1, <3>3
      <3>5. events'[b][c] = events[b][c] \/ events'[b][c] = NoEvent
        BY <3>2, <3>3
      <3> QED
        BY <3>4, <3>5
    <2>6. StoresInv'
      BY <1>2, <2>2, <2>5, NothingOwed DEF StoresInv, Crash, NoRec
    <2>7. ASSUME NEW b \in Agents
          PROVE  /\ actions'[b] = actions[b] \/ actions'[b] = {}
                 /\ callbacks'[b] = callbacks[b] \/ callbacks'[b] = << >>
      <3> HIDE DEF IInv
      <3> QED
        BY <1>2 DEF Crash, TypeOK
    <2>8. EventsInv'
      BY <2>2, <2>5, <2>7 DEF EventsInv
    <2> QED
      BY <2>1, <2>4, <2>6, <2>8
  <1> QED
    BY <1>1, <1>2

\* Every step keeps the invariant.
LEMMA NextInv == TypeOK /\ IInv /\ [Next]_vars => IInv'
  <1> SUFFICES ASSUME TypeOK, IInv, [Next]_vars PROVE IInv'
    OBVIOUS
  <1> USE DEF Workers
  <1>0. Grows
    BY GrowsLemma DEF IInv
  <1>1. CASE UNCHANGED vars
    BY <1>1 DEF vars, stores, client, net, used, IInv, StoresInv, EventsInv, SentInv,
                WorkersInv, Facts, InviteeStored, InviteeKnows
  <1>2. ASSUME NEW w \in Handlers, CreateImplicitInvitation(w) PROVE IInv'
    BY <1>0, <1>2, ImplicitInv
  <1>3. ASSUME NEW a \in Agents, NEW w \in Workers, Run(a, w) PROVE IInv'
    BY <1>0, <1>3, RecordInv, ExecuteInv, SaveInv, ActInv, AbandonInv DEF Run
  <1>4. ASSUME NEW a \in Agents, NEW e \in actions[a], Continue(a, e) \/ Stop(a, e)
        PROVE  IInv'
    BY <1>0, <1>4, AnswerInv DEF Continue, Stop
  <1> QED
    BY <1>0, <1>1, <1>2, <1>3, <1>4, InboundInv, ResumeInv, FailureInv DEF Next

(***************************************************************************)
(* The safety theorems.                                                     *)
(***************************************************************************)
\* The inductive invariant holds in every state of every exchange.
THEOREM Inductive == Spec => [](TypeOK /\ IInv)
  <1> QED
    BY InitType, InitInv, NextType, NextInv, PTL DEF Spec

\* Persist before send: whatever an agent has learned of its peer, the peer had
\* persisted before (ExecuteInvitation and ExecuteRequest go through Persist
\* before Act).
THEOREM PersistBeforeSend == Spec => []LearnedIsPersisted
  <1>1. TypeOK /\ IInv => LearnedIsPersisted
    BY DEF IInv, StoresInv, Sound, Known, LearnedIsPersisted
  <1> QED
    BY <1>1, Inductive, PTL

\* The inviter completes last: only when the invitee's record and DID keys are in
\* its permanent stores, because Complete is the last thing the invitee sends.
THEOREM CompletionOrder == Spec => []InviterCompletesLast
  <1>1. TypeOK /\ IInv => InviterCompletesLast
    <2>1. Inviter \in Agents
      BY DEF Agents
    <2>2. Done(Facts) => InviteeStored /\ InviteeKnows
      BY DEF Done, Facts
    <2> QED
      BY <2>1, <2>2 DEF IInv, StoresInv, Sound, InviterCompletesLast,
                        InviteeStored, InviteeKnows
  <1> QED
    BY <1>1, Inductive, PTL

-----------------------------------------------------------------------------
(***************************************************************************)
(* Nobody waits for an answer that cannot come.  The state a client is      *)
(* asked about is stored before the data of the event is, so between the    *)
(* two there must be a goroutine on its way from one to the other.          *)
(***************************************************************************)
\* The state in which a client of `a` is asked whether to go on.
FirstState(a) == IF a = Invitee THEN "invited" ELSE "requested"

\* Only the message that opens the thread brings an agent to its first state.
NextFits(a, m, next) ==
    /\ next = "invited" => m.type \in Invitations
    /\ a = Inviter /\ next = "requested" => m.type = "request"

NextsInv ==
    \A a \in Agents :
        /\ \A w \in Workers :
              /\ workers[a][w].pc # "idle" => NextFits(a, workers[a][w].msg, workers[a][w].next)
              /\ workers[a][w].pc = "saveabandoned" => workers[a][w].rec.state = "abandoned"
        /\ \A c \in Conns :
              events[a][c] # NoEvent => NextFits(a, events[a][c].msg, events[a][c].next)
        /\ \A e \in actions[a] : NextFits(a, e.msg, e.next)
        /\ \A i \in DOMAIN callbacks[a] :
              NextFits(a, callbacks[a][i].event.msg, callbacks[a][i].event.next)

\* A goroutine on its way from storing the first state under `c` to saving its event,
\* or, with an out-of-band invitation, to the state after it.
Raises(a, me, c) ==
    /\ me.rec.conn = c
    /\ \/ me.pc \in {"mapping", "act"} /\ me.next = FirstState(a)
       \/ me.pc = "event"
       \/ /\ a = Invitee /\ me.msg.type = "oob-invitation"
          /\ me.pc \in {"execute", "persist"} /\ me.next = "requested"

WaitingInv == failures + crashes = 0 =>
    \A a \in Agents, c \in Conns :
        records[a][c].state = FirstState(a) =>
            events[a][c] # NoEvent \/ \E w \in Workers : Raises(a, workers[a][w], c)

\* Followup brings nobody back to a first state.
LEMMA FollowupFits ==
    ASSUME NEW a \in Agents, NEW m \in Messages, NEW next \in States \cup {"noop"},
           Receiver(m.type) = a, NextFits(a, m, next)
    PROVE  NextFits(a, m, Followup(next, m.type))
  BY AgentsAssumption DEF NextFits, Followup, Receiver, Invitations, States, Messages, MsgTypes

\* The other goroutines' states fit as before.
LEMMA NextsFrame ==
    ASSUME TypeOK, NextsInv, NEW a \in Agents, NEW w \in Workers, NEW x, Goto(a, w, x),
           x.pc = "idle" \/ NextFits(a, x.msg, x.next),
           x.pc = "saveabandoned" => x.rec.state = "abandoned",
           UNCHANGED <<events, actions, callbacks>>
    PROVE  NextsInv'
  <1>1. \A b \in Agents, v \in Workers :
            workers'[b][v] = IF b = a /\ v = w THEN x ELSE workers[b][v]
    BY DEF Goto, TypeOK
  <1> QED
    BY <1>1 DEF NextsInv

\* A step of one goroutine that stores no first state without raising its event, and
\* does not let go of the one it is raising.
LEMMA WaitingFrame ==
    ASSUME TypeOK, WaitingInv, NEW a \in Agents, NEW w \in Workers, NEW x, Goto(a, w, x),
           failures' + crashes' = 0 => failures + crashes = 0,
           \A b \in Agents, c \in Conns : events[b][c] # NoEvent => events'[b][c] # NoEvent,
           \A b \in Agents, c \in Conns : records'[b][c].state = FirstState(b) =>
               records[b][c].state = FirstState(b) \/ (b = a /\ Raises(a, x, c)),
           \A c \in Conns : Raises(a, workers[a][w], c) =>
               \/ Raises(a, x, c) \/ events'[a][c] # NoEvent
               \/ records'[a][c].state # FirstState(a)
    PROVE  WaitingInv'
  <1>1. \A b \in Agents, v \in Workers :
            workers'[b][v] = IF b = a /\ v = w THEN x ELSE workers[b][v]
    BY DEF Goto, TypeOK
  <1> SUFFICES ASSUME failures' + crashes' = 0, NEW b \in Agents, NEW c \in Conns,
                      records'[b][c].state = FirstState(b)
               PROVE  events'[b][c] # NoEvent \/ \E v \in Workers : Raises(b, workers'[b][v], c)
    BY DEF WaitingInv, FirstState, Raises
  <1>2. CASE b = a /\ Raises(a, x, c)
    BY <1>1, <1>2
  <1>3. CASE records[b][c].state = FirstState(b)
    <2>1. events[b][c] # NoEvent \/ \E v \in Workers : Raises(b, workers[b][v], c)
      BY <1>3 DEF WaitingInv
    <2>2. ASSUME NEW v \in Workers, Raises(b, workers[b][v], c)
          PROVE  events'[b][c] # NoEvent \/ \E u \in Workers : Raises(b, workers'[b][u], c)
      <3>1. CASE b = a /\ v = w
        BY <1>1, <2>2, <3>1
      <3>2. CASE ~ (b = a /\ v = w)
        <4>1. workers'[b][v] = workers[b][v]
          BY <1>1, <3>2
        <4> QED
          BY <2>2, <4>1
      <3> QED
        BY <3>1, <3>2
    <2> QED
      BY <2>1, <2>2
  <1> QED
    BY <1>2, <1>3

Answerable == NextsInv /\ WaitingInv

LEMMA InitAnswerable == Init => Answerable
  BY DEF Init, Answerable, NextsInv, WaitingInv, NoRec, IdleWorker, FirstState

-----------------------------------------------------------------------------
LEMMA StartAnswerable ==
    ASSUME TypeOK, IInv, Answerable, NEW a \in Agents, NEW w \in Workers
    PROVE  /\ \A m \in sent : HandleInbound(a, w, m) => Answerable'
           /\ NewRecord(a, w) \/ FetchRecord(a, w) => Answerable'
  <1> USE DEF stores, client, net, used
  <1> DEFINE me == workers[a][w]
  <1>1. ASSUME NEW m \in sent, HandleInbound(a, w, m) PROVE Answerable'
    <2>1. PICK x : x = [IdleWorker EXCEPT !.pc = "record", !.msg = m,
                                          !.next = StateFromMsgType(m.type)]
      OBVIOUS
    <2>2. /\ Goto(a, w, x) /\ me.pc = "idle"
          /\ UNCHANGED <<records, events, actions, callbacks, failures, crashes>>
      BY <1>1, <2>1 DEF HandleInbound
    <2>3. /\ x.pc = "record" /\ x.msg = m /\ x.next = StateFromMsgType(m.type)
          /\ m.type \in MsgTypes /\ Receiver(m.type) = a
      BY <1>1, <2>1 DEF IdleWorker, HandleInbound, Deliverable, TypeOK, Messages
    <2>4. NextFits(a, x.msg, x.next)
      BY <2>3, AgentsAssumption
      DEF NextFits, StateFromMsgType, MsgTypes, Invitations, Receiver
    <2>5. NextsInv'
      BY <2>2, <2>3, <2>4, NextsFrame DEF Answerable
    <2>6. \A c \in Conns : ~ Raises(a, me, c)
      BY <2>2 DEF Raises
    <2>7. WaitingInv'
      BY <2>2, <2>6, WaitingFrame DEF Answerable
    <2> QED
      BY <2>5, <2>7 DEF Answerable
  <1>2. ASSUME NewRecord(a, w) PROVE Answerable'
    <2>1. PICK r : r = [conn |-> created[a] + 1, state |-> "null", myDID |-> NoDID,
                        theirDID |-> IF me.msg.type = "request" THEN me.msg.did ELSE NoDID]
      OBVIOUS
    <2>2. PICK x : x = [me EXCEPT !.pc = "execute", !.rec = r]
      OBVIOUS
    <2>3. /\ Goto(a, w, x) /\ me.pc = "record"
          /\ records' = [records EXCEPT ![a][created[a] + 1] = r]
          /\ UNCHANGED <<events, actions, callbacks, failures, crashes>>
      BY <1>2, <2>1, <2>2 DEF NewRecord
    <2>4. x.msg = me.msg /\ x.next = me.next /\ x.pc = "execute"
      BY <2>2 DEF TypeOK
    <2>5. NextsInv'
      BY <2>3, <2>4, NextsFrame DEF Answerable, NextsInv
    <2>6. \A b \in Agents, c \in Conns :
              records'[b][c] = records[b][c] \/ records'[b][c].state = "null"
      BY <2>1, <2>3 DEF TypeOK
    <2>7. \A c \in Conns : ~ Raises(a, me, c)
      BY <2>3 DEF Raises
    <2>8. WaitingInv'
      BY <2>3, <2>6, <2>7, WaitingFrame DEF Answerable, FirstState
    <2> QED
      BY <2>5, <2>8 DEF Answerable
  <1>3. ASSUME FetchRecord(a, w) PROVE Answerable'
    <2>1. PICK x : x = IF ThreadRecord(a) = NoRec THEN IdleWorker
                       ELSE [me EXCEPT !.pc = "execute", !.rec = ThreadRecord(a)]
      OBVIOUS
    <2>2. /\ Goto(a, w, x) /\ me.pc = "record"
          /\ UNCHANGED <<records, events, actions, callbacks, failures, crashes>>
      BY <1>3, <2>1 DEF FetchRecord, Idle
    <2>3. x.pc = "idle" \/ (x.pc = "execute" /\ x.msg = me.msg /\ x.next = me.next)
      BY <2>1 DEF TypeOK, IdleWorker
    <2>4. NextsInv'
      BY <2>2, <2>3, NextsFrame DEF Answerable, NextsInv
    <2>5. \A c \in Conns : ~ Raises(a, me, c)
      BY <2>2 DEF Raises
    <2>6. WaitingInv'
      BY <2>2, <2>5, WaitingFrame DEF Answerable
    <2> QED
      BY <2>4, <2>6 DEF Answerable
  <1> QED
    BY <1>1, <1>2, <1>3

LEMMA ImplicitAnswerable ==
    ASSUME TypeOK, IInv, Answerable, NEW w \in Workers, CreateImplicitInvitation(w)
    PROVE  Answerable'
  <1> USE DEF stores, client, net, used
  <1>1. PICK r : r = [NoRec EXCEPT !.conn = 1]
    OBVIOUS
  <1>2. PICK x : x = [IdleWorker EXCEPT !.pc = "execute", !.next = "requested",
                              !.msg = Msg("invitation", NoDID), !.rec = r]
    OBVIOUS
  <1>3. /\ Goto(Invitee, w, x) /\ workers[Invitee][w].pc = "idle" /\ Invitee \in Agents
        /\ records' = [records EXCEPT ![Invitee][1] = r]
        /\ UNCHANGED <<events, actions, callbacks, failures, crashes>>
    BY <1>1, <1>2 DEF CreateImplicitInvitation, Agents
  <1>4. NextFits(Invitee, x.msg, x.next) /\ x.pc = "execute"
    BY <1>2, AgentsAssumption DEF NextFits, IdleWorker
  <1>5. NextsInv'
    BY <1>3, <1>4, NextsFrame DEF Answerable
  <1>6. \A b \in Agents, c \in Conns :
            records'[b][c] = records[b][c] \/ records'[b][c].state = "null"
    BY <1>1, <1>3 DEF TypeOK, NoRec
  <1>7. \A c \in Conns : ~ Raises(Invitee, workers[Invitee][w], c)
    BY <1>3 DEF Raises
  <1>8. WaitingInv'
    BY <1>3, <1>6, <1>7, WaitingFrame DEF Answerable, FirstState
  <1> QED
    BY <1>5, <1>8 DEF Answerable

LEMMA ExecuteAnswerable ==
    ASSUME TypeOK, IInv, Answerable, NEW a \in Agents, NEW w \in Workers, Execute(a, w)
    PROVE  Answerable'
  <1> USE DEF stores, client, net, used
  <1> DEFINE me == workers[a][w]
  <1>1. /\ me.pc = "execute" /\ me \in WorkerType
        /\ UNCHANGED <<records, events, actions, callbacks, failures, crashes>>
    BY DEF Execute, ExecutePlain, ExecuteInvitation, ExecuteRequest, ExecuteResponse,
           TypeOK, WorkerType
  \* It is enough that the goroutine keeps its message and, with an out-of-band
  \* invitation on its way to the request, the connection.
  <1>2. ASSUME NEW x, Goto(a, w, x),
               x.pc = "idle" \/ (x.pc = "persist" /\ x.msg = me.msg /\ x.next = me.next),
               \A c \in Conns : Raises(a, me, c) => Raises(a, x, c)
        PROVE  Answerable'
    <2>1. NextsInv'
      BY <1>1, <1>2, NextsFrame DEF Answerable, NextsInv
    <2>2. WaitingInv'
      BY <1>1, <1>2, WaitingFrame DEF Answerable
    <2> QED
      BY <2>1, <2>2 DEF Answerable
  <1>3. CASE ExecutePlain(a, w)
    <2>1. PICK x : x = [me EXCEPT !.pc = "persist", !.rec.state = me.next]
      OBVIOUS
    <2>2. Goto(a, w, x) /\ x.msg = me.msg /\ x.next = me.next /\ x.pc = "persist"
      BY <1>1, <1>3, <2>1 DEF ExecutePlain, WorkerType
    <2>3. \A c \in Conns : ~ Raises(a, me, c)
      BY <1>1, <1>3 DEF Raises, ExecutePlain
    <2> QED
      BY <1>2, <2>2, <2>3
  <1>4. CASE ExecuteInvitation(a, w)
    <2>0. PICK d : d = <<a, minted[a] + 1>>
      OBVIOUS
    <2>1. PICK x : x = [me EXCEPT !.pc = "persist", !.out = Msg("request", d),
                                  !.rec.state = "requested", !.rec.myDID = d]
      OBVIOUS
    <2>2. Goto(a, w, x)
      BY <1>4, <2>0, <2>1 DEF ExecuteInvitation
    <2>3. x.msg = me.msg /\ x.next = me.next /\ x.pc = "persist" /\ x.rec.conn = me.rec.conn
      BY <1>1, <2>1 DEF WorkerType, Records
    <2>4. \A c \in Conns : Raises(a, me, c) => Raises(a, x, c)
      BY <1>1, <2>3 DEF Raises
    <2> QED
      BY <1>2, <2>2, <2>3, <2>4
  <1>5. CASE ExecuteRequest(a, w)
    <2>0. PICK d : d = <<a, minted[a] + 1>>
      OBVIOUS
    <2>1. PICK x : x = [me EXCEPT !.pc = "persist", !.out = Msg("response", d),
                               !.rec.state = "responded", !.rec.myDID = d,
                               !.rec.theirDID = me.msg.did]
      OBVIOUS
    <2>2. Goto(a, w, x)
      BY <1>5, <2>0, <2>1 DEF ExecuteRequest
    <2>3. x.msg = me.msg /\ x.next = me.next /\ x.pc = "persist"
      BY <1>1, <2>1 DEF WorkerType, Records
    <2>4. \A c \in Conns : ~ Raises(a, me, c)
      BY <1>1, <1>5 DEF Raises, ExecuteRequest
    <2> QED
      BY <1>2, <2>2, <2>3, <2>4
  <1>6. CASE ExecuteResponse(a, w)
    <2>1. PICK x : x = [me EXCEPT !.pc = "persist", !.out = Msg("complete", NoDID),
                          !.rec = [ThreadRecord(a) EXCEPT !.state = "completed",
                                                          !.theirDID = me.msg.did]]
      OBVIOUS
    <2>2. Goto(a, w, x) \/ Goto(a, w, IdleWorker)
      BY <1>6, <2>1 DEF ExecuteResponse, Idle
    <2>3. /\ x.pc = "persist" /\ x.msg = me.msg /\ x.next = me.next
          /\ IdleWorker.pc = "idle"
      BY <1>1, <2>1 DEF WorkerType, IdleWorker
    <2>4. \A c \in Conns : ~ Raises(a, me, c)
      BY <1>1, <1>6 DEF Raises, ExecuteResponse
    <2>5. CASE Goto(a, w, x)
      BY <1>2, <2>3, <2>4, <2>5
    <2>6. CASE Goto(a, w, IdleWorker)
      <3> HIDE DEF me
      <3> QED
        BY <1>2, <2>3, <2>4, <2>6
    <2> QED
      BY <2>2, <2>5, <2>6
  <1> QED
    BY <1>3, <1>4, <1>5, <1>6 DEF Execute
LEMMA SaveAnswerable ==
    ASSUME TypeOK, IInv, Answerable, NEW a \in Agents, NEW w \in Workers, Save(a, w)
    PROVE  Answerable'
  <1> USE DEF stores, client, net, used
  <1> DEFINE me == workers[a][w]
  <1>1. /\ me \in WorkerType
        /\ UNCHANGED <<events, actions, callbacks, failures, crashes>>
    BY DEF Save, Persist, SaveMapping, SavePermanent, SaveDID, TypeOK, WorkerType
  <1>2. CASE Persist(a, w)
    <2>1. PICK x : x = [me EXCEPT !.pc =
               CASE SavesMapping(me.next, me.msg.type) -> "mapping"
                 [] me.next = "completed"              -> "permanent"
                 [] OTHER                              -> "act"]
      OBVIOUS
    <2>2. /\ Goto(a, w, x) /\ me.pc = "persist" /\ me.rec.state = me.next
          /\ records' = [records EXCEPT ![a][me.rec.conn] = me.rec]
      BY <1>2, <2>1, Zenon DEF Persist, Answerable, IInv, WorkersInv, WorkerInv, Sending
    <2>3. /\ x.msg = me.msg /\ x.next = me.next /\ x.rec = me.rec
          /\ x.pc \in {"mapping", "permanent", "act"}
      BY <1>1, <2>1 DEF WorkerType
    <2>4. NextsInv'
      BY <1>1, <2>2, <2>3, NextsFrame DEF Answerable, NextsInv
    <2>5. NextFits(a, me.msg, me.next) /\ Receiver(me.msg.type) = a
      BY <2>2 DEF Answerable, NextsInv, IInv, WorkersInv, WorkerInv, Genuine
    <2>6. me.next = FirstState(a) => x.pc = "mapping"
      BY <1>1, <2>1, <2>5 DEF NextFits, FirstState, SavesMapping, WorkerType, Agents
    <2>7. ASSUME NEW b \in Agents, NEW c \in Conns
          PROVE  records'[b][c] = IF b = a /\ c = me.rec.conn THEN me.rec ELSE records[b][c]
      BY <2>2 DEF TypeOK
    <2>8. ASSUME NEW b \in Agents, NEW c \in Conns, records'[b][c].state = FirstState(b)
          PROVE  records[b][c].state = FirstState(b) \/ (b = a /\ Raises(a, x, c))
      BY <2>2, <2>3, <2>6, <2>7, <2>8 DEF Raises
    <2>9. ASSUME NEW c \in Conns, Raises(a, me, c)
          PROVE  records'[a][c].state # FirstState(a)
      BY <2>2, <2>7, <2>9 DEF Raises, FirstState
    <2>10. WaitingInv'
      BY <1>1, <2>2, <2>8, <2>9, WaitingFrame DEF Answerable
    <2> QED
      BY <2>4, <2>10 DEF Answerable
  <1>3. ASSUME NEW p, NEW x, x = [me EXCEPT !.pc = p], Goto(a, w, x), records' = records,
               me.pc \in {"mapping", "permanent", "did"}, p \in {"did", "act"},
               me.pc = "mapping" => p = "act"
        PROVE  Answerable'
    <2>1. x.msg = me.msg /\ x.next = me.next /\ x.rec = me.rec /\ x.pc = p
      BY <1>1, <1>3 DEF WorkerType
    <2>2. NextsInv'
      BY <1>1, <1>3, <2>1, NextsFrame DEF Answerable, NextsInv
    <2>3. \A c \in Conns : Raises(a, me, c) => Raises(a, x, c)
      BY <1>3, <2>1 DEF Raises
    <2>4. WaitingInv'
      BY <1>1, <1>3, <2>3, WaitingFrame DEF Answerable
    <2> QED
      BY <2>2, <2>4 DEF Answerable
  <1>4. CASE SaveMapping(a, w)
    BY <1>3, <1>4 DEF SaveMapping
  <1>5. CASE SavePermanent(a, w)
    BY <1>3, <1>5 DEF SavePermanent
  <1>6. CASE SaveDID(a, w)
    BY <1>3, <1>6 DEF SaveDID
  <1> QED
    BY <1>2, <1>4, <1>5, <1>6 DEF Save

LEMMA ActAnswerable ==
    ASSUME TypeOK, IInv, Answerable, NEW a \in Agents, NEW w \in Workers, Act(a, w)
    PROVE  Answerable'
  <1> USE DEF stores, client, net, used
  <1> DEFINE me == workers[a][w]
  <1>1. /\ me \in WorkerType /\ me.pc = "act" /\ me.msg \in Messages
        /\ UNCHANGED <<records, events, actions, callbacks, failures, crashes>>
    BY DEF Act, TypeOK, WorkerType
  <1>2. NextFits(a, me.msg, me.next) /\ Receiver(me.msg.type) = a
    BY <1>1 DEF Answerable, NextsInv, IInv, WorkersInv, WorkerInv, Genuine
  <1>3. PICK halt \in BOOLEAN :
            halt = (/\ me.msg.type # "oob-invitation"
                    /\ CanTriggerActionEvents(me.next, FindNamespace(me.msg.type)))
    BY DEF CanTriggerActionEvents
  <1>4. PICK x : x = [me EXCEPT !.next = Followup(me.next, me.msg.type), !.out = NoMsg,
                                !.pc = IF halt THEN "event" ELSE "execute"]
    OBVIOUS
  <1>5. IF halt \/ Followup(me.next, me.msg.type) # "noop"
        THEN Goto(a, w, x) ELSE Goto(a, w, IdleWorker)
    BY <1>3, <1>4 DEF Act, Idle
  <1>6. /\ x.msg = me.msg /\ x.next = Followup(me.next, me.msg.type) /\ x.rec = me.rec
        /\ x.pc = IF halt THEN "event" ELSE "execute"
    BY <1>1, <1>4 DEF WorkerType
  <1>7. NextFits(a, x.msg, x.next)
    BY <1>1, <1>2, <1>6, FollowupFits DEF WorkerType
  \* After the first state comes an event, or the request.
  <1>8. ASSUME me.next = FirstState(a)
        PROVE  /\ Followup(me.next, me.msg.type) # "noop"
               /\ ~ halt => /\ a = Invitee /\ me.msg.type = "oob-invitation"
                            /\ x.next = "requested"
    BY <1>1, <1>2, <1>3, <1>6, <1>8, AgentsAssumption
    DEF FirstState, NextFits, Followup, CanTriggerActionEvents, FindNamespace,
        Invitations, Agents
  <1>9. CASE Goto(a, w, x)
    <2>1. NextsInv'
      BY <1>1, <1>6, <1>7, <1>9, NextsFrame DEF Answerable
    <2>2. \A c \in Conns : Raises(a, me, c) => Raises(a, x, c)
      BY <1>1, <1>6, <1>8 DEF Raises
    <2>3. WaitingInv'
      BY <1>1, <1>9, <2>2, WaitingFrame DEF Answerable
    <2> QED
      BY <2>1, <2>3 DEF Answerable
  <1>10. CASE me.next # FirstState(a) /\ Goto(a, w, IdleWorker)
    <2>1. NextsInv'
      BY <1>1, <1>10, NextsFrame DEF Answerable, IdleWorker
    <2>2. \A c \in Conns : ~ Raises(a, me, c)
      BY <1>1, <1>10 DEF Raises
    <2>3. WaitingInv'
      BY <1>1, <1>10, <2>2, WaitingFrame DEF Answerable
    <2> QED
      BY <2>1, <2>3 DEF Answerable
  <1> QED
    BY <1>5, <1>8, <1>9, <1>10

LEMMA EventAnswerable ==
    ASSUME TypeOK, IInv, Answerable, NEW a \in Agents, NEW w \in Workers,
           SendActionEvent(a, w)
    PROVE  Answerable'
  <1> USE DEF stores, client, net, used
  <1> DEFINE me == workers[a][w]
  <1>1. PICK e : e = Event(me)
    OBVIOUS
  <1>2. /\ me \in WorkerType /\ me.pc = "event" /\ me.msg \in Messages
        /\ events' = [events EXCEPT ![a][me.rec.conn] = e]
        /\ Goto(a, w, IdleWorker)
        /\ UNCHANGED <<records, callbacks, failures, crashes>>
    BY <1>1 DEF SendActionEvent, Idle, TypeOK, WorkerType
  <1>3. e.msg = me.msg /\ e.next = me.next /\ e # NoEvent
    BY <1>1, <1>2, AbsentAssumption DEF Event, NoEvent
  <1>4. NextFits(a, e.msg, e.next)
    BY <1>2, <1>3 DEF Answerable, NextsInv
  <1>5. \A b \in Agents, c \in Conns :
            events'[b][c] = IF b = a /\ c = me.rec.conn THEN e ELSE events[b][c]
    BY <1>2 DEF TypeOK
  <1>6. \A b \in Agents : \A f \in actions'[b] : f \in actions[b] \/ (b = a /\ f = e)
    BY <1>1 DEF SendActionEvent, TypeOK
  <1>7. \A b \in Agents, v \in Workers :
            workers'[b][v] = workers[b][v] \/ workers'[b][v].pc = "idle"
    BY <1>2 DEF Goto, TypeOK, IdleWorker
  <1>8. NextsInv'
    BY <1>2, <1>4, <1>5, <1>6, <1>7 DEF Answerable, NextsInv
  <1>9. \A c \in Conns : Raises(a, me, c) => events'[a][c] # NoEvent
    BY <1>3, <1>5 DEF Raises
  <1>10. \A b \in Agents, c \in Conns : events[b][c] # NoEvent => events'[b][c] # NoEvent
    BY <1>3, <1>5
  <1>11. WaitingInv'
    BY <1>2, <1>9, <1>10, WaitingFrame DEF Answerable
  <1> QED
    BY <1>8, <1>11 DEF Answerable

LEMMA AnswerAnswerable ==
    ASSUME TypeOK, IInv, Answerable, NEW a \in Agents, NEW e \in actions[a],
           NEW stop \in BOOLEAN, Answer(a, e, stop)
    PROVE  Answerable'
  <1> USE DEF stores, client, net, used
  <1> DEFINE CB == [event : EventData, stop : BOOLEAN]
  <1>1. PICK b : b = [event |-> e, stop |-> stop]
    OBVIOUS
  <1>2. /\ b \in CB /\ b.event = e /\ callbacks \in [Agents -> Seq(CB)]
        /\ callbacks' = [callbacks EXCEPT ![a] = Append(@, b)]
    BY <1>1 DEF TypeOK, Answer
  <1> HIDE DEF CB
  <1>3. ASSUME NEW d \in Agents, NEW i \in DOMAIN callbacks'[d]
        PROVE  \/ i \in DOMAIN callbacks[d] /\ callbacks'[d][i] = callbacks[d][i]
               \/ d = a /\ callbacks'[d][i] = b
    BY <1>2
  <1>4. \A d \in Agents : actions'[d] \subseteq actions[d]
    BY DEF Answer, TypeOK
  <1>5. NextsInv'
    BY <1>2, <1>3, <1>4 DEF Answer, Answerable, NextsInv
  <1>6. WaitingInv'
    BY DEF Answer, Answerable, WaitingInv
  <1> QED
    BY <1>5, <1>6 DEF Answerable

LEMMA ResumeAnswerable ==
    ASSUME TypeOK, IInv, Answerable, NEW a \in Agents
    PROVE  /\ \A w \in Workers, c \in Conns : Accept(a, w, c) => Answerable'
           /\ TakeCallback(a) => Answerable'
  <1> USE DEF stores, client, net, used
  <1>1. ASSUME NEW w \in Workers, NEW c \in Conns, Accept(a, w, c) PROVE Answerable'
    <2>1. PICK e : e = events[a][c]
      OBVIOUS
    <2>2. PICK x : x = [pc |-> "execute", msg |-> e.msg, next |-> e.next,
                        rec |-> e.rec, out |-> NoMsg]
      OBVIOUS
    <2>3. /\ Goto(a, w, x) /\ workers[a][w].pc = "idle" /\ e # NoEvent
          /\ UNCHANGED <<records, events, actions, callbacks, failures, crashes>>
      BY <1>1, <2>1, <2>2 DEF Accept, MayAccept
    <2>4. NextFits(a, x.msg, x.next) /\ x.pc = "execute"
      BY <2>1, <2>2, <2>3 DEF Answerable, NextsInv
    <2>5. NextsInv'
      BY <2>3, <2>4, NextsFrame DEF Answerable
    <2>6. \A k \in Conns : ~ Raises(a, workers[a][w], k)
      BY <2>3 DEF Raises
    <2>7. WaitingInv'
      BY <2>3, <2>6, WaitingFrame DEF Answerable
    <2> QED
      BY <2>5, <2>7 DEF Answerable
  <1>2. ASSUME TakeCallback(a) PROVE Answerable'
    <2> DEFINE CB == [event : EventData, stop : BOOLEAN]
    <2>0. callbacks \in [Agents -> Seq(CB)] /\ callbacks[a] # << >>
      BY <1>2 DEF TypeOK, TakeCallback
    <2> HIDE DEF CB
    <2>1. PICK b : b = Head(callbacks[a])
      OBVIOUS
    <2>2. PICK x : x = [pc |-> IF b.stop THEN "abandon" ELSE "execute",
                        msg |-> b.event.msg, next |-> b.event.next,
                        rec |-> b.event.rec, out |-> NoMsg]
      OBVIOUS
    <2>3. /\ Goto(a, Listener, x) /\ workers[a][Listener].pc = "idle" /\ Listener \in Workers
          /\ callbacks' = [callbacks EXCEPT ![a] = Tail(callbacks[a])]
          /\ UNCHANGED <<records, events, actions, failures, crashes>>
      BY <1>2, <2>1, <2>2 DEF TakeCallback, Workers
    <2>4. 1 \in DOMAIN callbacks[a] /\ b = callbacks[a][1]
      BY <2>0, <2>1
    <2>5. NextFits(a, x.msg, x.next) /\ x.pc \in {"execute", "abandon"}
      BY <2>2, <2>4 DEF Answerable, NextsInv
    <2>6. ASSUME NEW d \in Agents, NEW i \in DOMAIN callbacks'[d]
          PROVE  \E j \in DOMAIN callbacks[d] : callbacks'[d][i] = callbacks[d][j]
      <3>1. ASSUME NEW k \in DOMAIN Tail(callbacks[a])
            PROVE  /\ k + 1 \in DOMAIN callbacks[a]
                   /\ Tail(callbacks[a])[k] = callbacks[a][k + 1]
        BY <2>0
      <3>2. CASE d = a
        BY <2>0, <2>3, <2>6, <3>1, <3>2
      <3>3. CASE d # a
        BY <2>0, <2>3, <2>6, <3>3
      <3> QED
        BY <3>2, <3>3
    <2>7. \A d \in Agents, v \in Workers :
              workers'[d][v] = IF d = a /\ v = Listener THEN x ELSE workers[d][v]
      BY <2>3 DEF Goto, TypeOK
    <2>8. NextsInv'
      BY <2>3, <2>5, <2>6, <2>7 DEF Answerable, NextsInv
    <2>9. \A k \in Conns : ~ Raises(a, workers[a][Listener], k)
      BY <2>3 DEF Raises
    <2>10. WaitingInv'
      BY <2>3, <2>9, WaitingFrame DEF Answerable
    <2> QED
      BY <2>8, <2>10 DEF Answerable
  <1> QED
    BY <1>1, <1>2

LEMMA AbandonAnswerable ==
    ASSUME TypeOK, IInv, Answerable, NEW a \in Agents, NEW w \in Workers,
           Abandon(a, w) \/ SaveAbandoned(a, w)
    PROVE  Answerable'
  <1> USE DEF stores, client, net, used
  <1> DEFINE me == workers[a][w]
  <1>1. me.pc \in {"abandon", "saveabandoned"} /\ me \in WorkerType
    BY DEF Abandon, SaveAbandoned, TypeOK, WorkerType
  <1>2. \A c \in Conns : ~ Raises(a, me, c)
    BY <1>1 DEF Raises
  <1>3. CASE Abandon(a, w)
    <2>1. PICK x : x = IF ThreadRecord(a) = NoRec THEN IdleWorker
                       ELSE [me EXCEPT !.pc = "saveabandoned",
                                !.rec = [ThreadRecord(a) EXCEPT !.state = "abandoned"]]
      OBVIOUS
    <2>2. /\ Goto(a, w, x)
          /\ UNCHANGED <<records, events, actions, callbacks, failures, crashes>>
      BY <1>3, <2>1 DEF Abandon, Idle
    <2>3. \/ x.pc = "idle"
          \/ /\ x.pc = "saveabandoned" /\ x.rec.state = "abandoned"
             /\ x.msg = me.msg /\ x.next = me.next
      BY <1>1, <2>1, ReadType DEF WorkerType, IdleWorker, Records
    <2>4. NextsInv'
      BY <1>1, <2>2, <2>3, NextsFrame DEF Answerable, NextsInv
    <2>5. WaitingInv'
      BY <1>2, <2>2, WaitingFrame DEF Answerable
    <2> QED
      BY <2>4, <2>5 DEF Answerable
  <1>4. CASE SaveAbandoned(a, w)
    <2>1. /\ Goto(a, w, IdleWorker) /\ me.pc = "saveabandoned"
          /\ records' = [records EXCEPT ![a][me.rec.conn] = me.rec]
          /\ UNCHANGED <<events, actions, callbacks, failures, crashes>>
      BY <1>4 DEF SaveAbandoned, Idle
    <2>2. me.rec.state = "abandoned"
      BY <2>1 DEF Answerable, NextsInv
    <2>3. NextsInv'
      BY <2>1, NextsFrame DEF Answerable, IdleWorker
    <2>4. \A b \in Agents, c \in Conns : records'[b][c].state = FirstState(b) =>
              records[b][c].state = FirstState(b)
      BY <2>1, <2>2 DEF TypeOK, FirstState
    <2>5. WaitingInv'
      BY <1>2, <2>1, <2>4, WaitingFrame DEF Answerable
    <2> QED
      BY <2>3, <2>5 DEF Answerable
  <1> QED
    BY <1>3, <1>4

LEMMA FailureAnswerable ==
    ASSUME TypeOK, IInv, Answerable, NEW a \in Agents
    PROVE  /\ \A w \in Workers : Fail(a, w) => Answerable'
           /\ Crash(a) => Answerable'
  <1> USE DEF stores, client, net, used
  <1>1. ASSUME NEW w \in Workers, Fail(a, w) PROVE Answerable'
    <2> DEFINE me == workers[a][w]
    <2>1. PICK x : x = IF w = Listener /\ me.pc \notin {"abandon", "saveabandoned"}
                       THEN [me EXCEPT !.pc = "abandon"] ELSE IdleWorker
      OBVIOUS
    <2>2. /\ Goto(a, w, x) /\ me.pc # "idle"
          /\ UNCHANGED <<records, events, actions, callbacks, crashes>>
      BY <1>1, <2>1 DEF Fail, Idle
    <2>3. x.pc = "idle" \/ (x.pc = "abandon" /\ x.msg = me.msg /\ x.next = me.next)
      BY <2>1 DEF TypeOK, IdleWorker
    <2>4. NextsInv'
      BY <2>2, <2>3, NextsFrame DEF Answerable, NextsInv
    <2>5. failures' + crashes' # 0
      BY <1>1 DEF Fail, TypeOK
    <2> QED
      BY <2>4, <2>5 DEF Answerable, WaitingInv
  <1>2. ASSUME Crash(a) PROVE Answerable'
    <2>1. failures' + crashes' # 0
      BY <1>2 DEF Crash, TypeOK
    <2>2. \A b \in Agents, v \in Workers :
              workers'[b][v] = workers[b][v] \/ workers'[b][v].pc = "idle"
      BY <1>2 DEF Crash, TypeOK, IdleWorker
    <2>3. \A b \in Agents : actions'[b] \subseteq actions[b]
      BY <1>2 DEF Crash, TypeOK
    <2>4. \A b \in Agents : callbacks'[b] = callbacks[b] \/ callbacks'[b] = << >>
      BY <1>2 DEF Crash, TypeOK
    <2>5. \A b \in Agents, c \in Conns : events'[b][c] = events[b][c] \/ events'[b][c] = NoEvent
      <3>1. \/ events' = events
            \/ events' = [events EXCEPT ![a] = [k \in Conns |-> NoEvent]]
        BY <1>2 DEF Crash
      <3>2. DOMAIN events = Agents /\ events = [d \in Agents |-> events[d]]
        BY DEF TypeOK
      <3> QED
        BY <3>1, <3>2
    <2>6. NextsInv'
      BY <2>2, <2>3, <2>4, <2>5 DEF Answerable, NextsInv
    <2> QED
      BY <2>1, <2>6 DEF Answerable, WaitingInv
  <1> QED
    BY <1>1, <1>2

\* Every step keeps a waiting thread answerable.
LEMMA NextAnswerable == TypeOK /\ IInv /\ Answerable /\ [Next]_vars => Answerable'
  <1> SUFFICES ASSUME TypeOK, IInv, Answerable, [Next]_vars PROVE Answerable'
    OBVIOUS
  <1> USE DEF Workers
  <1>1. CASE UNCHANGED vars
    BY <1>1 DEF vars, stores, client, net, used, Answerable, NextsInv, WaitingInv
  <1>2. ASSUME NEW a \in Agents, NEW w \in Workers, Run(a, w) PROVE Answerable'
    BY <1>2, StartAnswerable, ExecuteAnswerable, SaveAnswerable, ActAnswerable,
       EventAnswerable, AbandonAnswerable DEF Run
  <1>3. ASSUME NEW a \in Agents, NEW w \in Handlers, NEW m \in sent, RejectInbound(a, w, m)
        PROVE  Answerable'
    BY <1>3 DEF RejectInbound, stores, client, used, Answerable, NextsInv, WaitingInv
  <1>4. ASSUME NEW a \in Agents, NEW e \in actions[a], Continue(a, e) \/ Stop(a, e)
        PROVE  Answerable'
    BY <1>4, AnswerAnswerable DEF Continue, Stop
  <1> QED
    BY <1>1, <1>2, <1>3, <1>4, StartAnswerable, ImplicitAnswerable, ResumeAnswerable,
       FailureAnswerable DEF Next

\* A thread that waits for its client, and that no goroutine is working on, has the
\* event data that AcceptInvitation and AcceptExchangeRequest read, with any number of
\* duplicates and of answers, as long as nothing failed and nobody restarted.
THEOREM WaitingThreadsAreAnswerable == Spec => []WaitingIsAnswerable
  <1>1. ASSUME TypeOK, Answerable PROVE WaitingIsAnswerable
    <2> SUFFICES ASSUME failures + crashes = 0, NEW a \in Agents,
                        \/ a = Invitee /\ ThreadRecord(a).state = "invited"
                        \/ a = Inviter /\ ThreadRecord(a).state = "requested",
                        ~ \E w \in Workers : /\ workers[a][w].pc # "idle"
                                             /\ workers[a][w].rec.conn = threads[a]
                 PROVE  events[a][threads[a]] # NoEvent
      BY DEF WaitingIsAnswerable
    <2>1. ThreadRecord(a).state = FirstState(a)
      BY AgentsAssumption DEF FirstState
    <2>2. threads[a] \in Conns /\ records[a][threads[a]].state = FirstState(a)
      BY <1>1, <2>1 DEF TypeOK, ThreadRecord, NoRec, FirstState
    <2>3. \A w \in Workers : ~ Raises(a, workers[a][w], threads[a])
      BY DEF Raises
    <2> QED
      BY <1>1, <2>2, <2>3 DEF Answerable, WaitingInv
  <1> QED
    BY <1>1, Inductive, InitAnswerable, NextAnswerable, PTL DEF Spec

-----------------------------------------------------------------------------
(***************************************************************************)
(* Threads in which each message is delivered once and each action event    *)
(* answered once, though anything may fail and anyone may restart.  Each    *)
(* agent is led to its one request or response by a single claim: the       *)
(* message that opens its thread, the goroutine that handles it, the        *)
(* client's event, its callback.  Whoever has the claim is the only one to  *)
(* choose a DID, and nothing is sent before it is chosen.                   *)
(***************************************************************************)
Once == ~ Duplicates /\ ~ AnswerTwice

\* What `a` sends with its own DID, and the state it stores with it.
ReplyType(a)  == IF a = Invitee THEN "request" ELSE "response"
ReplyState(a) == IF a = Invitee THEN "requested" ELSE "responded"
Own(a) == {m \in sent : m.type = ReplyType(a)}

Opens(a, m) == CreatesRecord(m.type) /\ Receiver(m.type) = a
InClaim(a, me) == me.pc # "idle" /\ CreatesRecord(me.msg.type)

Untouched(a) ==
    /\ created[a] = 0 /\ threads[a] = NoConn
    /\ actions[a] = {} /\ callbacks[a] = << >>
    /\ \A c \in Conns : records[a][c] = NoRec /\ events[a][c] = NoEvent

\* The client of `a` may answer: it has an event, or its data is in the store.
Asked(a) ==
    \/ \E e \in actions[a] : e.rec.conn \notin answered[a]
    \/ \E c \in Conns : /\ c \notin answered[a] /\ events[a][c] # NoEvent
                        /\ records[a][c].state = FirstState(a)

Claims(a) ==
    {<<"message", m>> : m \in {m \in sent \ delivered : Opens(a, m)}}
    \cup {<<"goroutine", w>> : w \in {w \in Workers : InClaim(a, workers[a][w])}}
    \cup {<<"callback", i>> : i \in DOMAIN callbacks[a]}
    \cup {x \in {<<"client", 0>>} : Asked(a)}
    \cup {x \in {<<"start", 0>>} : a = Invitee /\ Opening = "implicit" /\ created[a] = 0}

Leaves == {"abandon", "saveabandoned"}

\* No two claims, and none but to give up once the agent's DID is out.
ClaimsOf(a) ==
    /\ \A x, y \in Claims(a) : x = y
    /\ \A x \in Claims(a) : Own(a) # {} =>
          \E w \in Workers : x = <<"goroutine", w>> /\ workers[a][w].pc \in Leaves

\* The DID of the peer in a record came in a message.
Sourced(a, r) ==
    /\ a = Inviter => Msg("request", r.theirDID) \in sent
    /\ a = Invitee /\ r.state = "completed" => Msg("response", r.theirDID) \in sent

\* A record of `a` holds the DID that `a` has sent.
Chosen(a, r) == \A m \in Own(a) : r.myDID = m.did

RecordsOf(a) ==
    /\ created[a] \in {0, 1}
    /\ created[a] = 0 => Untouched(a) /\ Own(a) = {}
    /\ \A m \in sent \ delivered : Opens(a, m) => created[a] = 0
    /\ \A m \in Own(a) : m.did # NoDID
    /\ \A c \in Conns \ {1} : records[a][c] = NoRec /\ events[a][c] = NoEvent
    /\ \A c \in Conns : records[a][c] # NoRec =>
          /\ Sourced(a, records[a][c]) /\ Chosen(a, records[a][c])
          /\ records[a][c].state \in {"null", FirstState(a)} => records[a][c].myDID = NoDID

EventFits(a, e) ==
    /\ CreatesRecord(e.msg.type) /\ e.next = ReplyState(a)
    /\ a = Inviter => e.msg \in sent
    /\ e.rec.conn = 1 /\ e.rec.myDID = NoDID /\ e.rec.state \in {"null", FirstState(a)}
    /\ Sourced(a, e.rec)

EventsOf(a) ==
    /\ \A c \in Conns : events[a][c] # NoEvent => EventFits(a, events[a][c])
    /\ \A e \in actions[a] : EventFits(a, e)
    /\ \A i \in DOMAIN callbacks[a] : EventFits(a, callbacks[a][i].event)

\* The goroutine that has the claim: it chooses its DID only to store and send it.
FitsClaim(a, me) ==
    /\ me.pc \in {"record", "execute", "persist", "mapping", "act", "event"} \cup Leaves
    /\ a = Inviter => me.msg \in sent
    /\ me.next \in {FirstState(a), ReplyState(a)}
    /\ me.pc = "record" => me.next = FirstState(a) /\ created[a] = 0
    /\ me.next = FirstState(a) => \A c \in Conns : events[a][c] = NoEvent
    /\ me.pc \notin Leaves \cup {"record"} =>
          created[a] = 1 /\ me.rec.conn = 1 /\ Sourced(a, me.rec)
    /\ me.pc = "mapping" => me.next = FirstState(a)
    /\ me.pc = "event" => me.next = ReplyState(a)
    /\ IF me.next = ReplyState(a) /\ me.pc \in {"persist", "act"}
       THEN me.out = Msg(ReplyType(a), me.rec.myDID) /\ me.rec.myDID # NoDID
       ELSE me.pc \notin Leaves \cup {"record"} =>
            /\ me.out = NoMsg /\ me.rec.myDID = NoDID
            /\ me.rec.state \in {"null", FirstState(a)}
    /\ me.next = ReplyState(a) /\ me.pc = "act" =>
          \A c \in Conns : records[a][c] # NoRec => records[a][c].myDID = me.rec.myDID

\* The other goroutines: they handle the answer to what `a` has sent.
FitsAnswer(a, me) ==
    /\ me.msg \in sent /\ Own(a) # {}
    /\ me.next \in {"responded", "completed"}
    /\ me.pc \notin Leaves \cup {"record"} =>
          me.rec.conn = 1 /\ Chosen(a, me.rec) /\ Sourced(a, me.rec)
    /\ me.pc \in Sending /\ me.out # NoMsg => me.out.type = "complete"
    /\ me.pc \notin {"mapping", "event"}

\* A record of the thread that is about to be abandoned.
FitsLeave(a, me) ==
    /\ created[a] = 1 /\ me.rec.conn = 1
    /\ Chosen(a, me.rec) /\ Sourced(a, me.rec) /\ me.rec.state = "abandoned"

Fits(a, me) ==
    /\ InClaim(a, me) => FitsClaim(a, me)
    /\ me.pc # "idle" /\ ~ InClaim(a, me) => FitsAnswer(a, me)
    /\ me.pc = "saveabandoned" => FitsLeave(a, me)

WorkersOf(a) == \A w \in Workers : Fits(a, workers[a][w])

AgentInv(a) == ClaimsOf(a) /\ RecordsOf(a) /\ EventsOf(a) /\ WorkersOf(a)

\* Who has an answer has asked, and nobody is asked before there is a request.
SentFits ==
    /\ Own(Inviter) # {} => Own(Invitee) # {}
    /\ \A m \in sent : m.type = "complete" => Own(Inviter) # {}
    /\ Own(Invitee) = {} => created[Inviter] = 0

OnceInv == (\A a \in Agents : AgentInv(a)) /\ SentFits

-----------------------------------------------------------------------------
\* A step of one agent does nothing to the other, unless it sends the other what opens
\* its thread.
Same(b) == UNCHANGED <<records[b], threads[b], events[b], actions[b], callbacks[b],
                       answered[b], created[b], workers[b]>>

LEMMA OtherOnce ==
    ASSUME NEW b, AgentInv(b), Same(b), sent \subseteq sent', delivered \subseteq delivered',
           \A m \in sent' \ sent : m.type # ReplyType(b) /\ ~ Opens(b, m)
    PROVE  AgentInv(b)'
  <1>1. Own(b)' = Own(b)
    BY DEF Own, ReplyType
  <1>2. \A r : (Sourced(b, r) => Sourced(b, r)') /\ (Chosen(b, r)' <=> Chosen(b, r))
    BY <1>1 DEF Sourced, Chosen
  <1>3. Asked(b)' <=> Asked(b)
    BY DEF Asked, Same, FirstState
  <1>4. Claims(b)' \subseteq Claims(b)
    BY <1>3 DEF Claims, Opens, InClaim, Same
  <1>5. ClaimsOf(b)'
    BY <1>1, <1>4 DEF AgentInv, ClaimsOf, Same
  <1>6. Untouched(b) => Untouched(b)'
    BY DEF Untouched, Same
  <1>7. RecordsOf(b)'
    BY <1>1, <1>2, <1>6 DEF AgentInv, RecordsOf, Same, Opens, FirstState
  <1>8. \A e : EventFits(b, e) => EventFits(b, e)'
    BY <1>2 DEF EventFits, FirstState, ReplyState
  <1>9. EventsOf(b)'
    BY <1>8 DEF AgentInv, EventsOf, Same
  <1>10. \A me : Fits(b, me) => Fits(b, me)'
    BY <1>1, <1>2
    DEF Fits, FitsClaim, FitsAnswer, FitsLeave, InClaim, FirstState, ReplyState, ReplyType, Same
  <1>11. WorkersOf(b)'
    BY <1>10 DEF AgentInv, WorkersOf, Same
  <1> QED
    BY <1>5, <1>7, <1>9, <1>11 DEF AgentInv

\* A step of one goroutine that touches neither the client nor the records of the
\* protocol, and sends no DID.
Quiet(a) ==
    /\ UNCHANGED <<records, events, actions, callbacks, answered, created>>
    /\ sent \subseteq sent'
    /\ \A m \in sent' \ sent : m.type = "complete" /\ Own(Inviter) # {}
    /\ delivered \subseteq delivered'
    /\ threads' = threads \/ (created[a] # 0 /\ \E c : threads' = [threads EXCEPT ![a] = c])

LEMMA QuietSends ==
    ASSUME NEW a \in Agents, Quiet(a)
    PROVE  /\ \A b : Own(b)' = Own(b)
           /\ \A m \in sent' \ sent : \A b : ~ Opens(b, m) /\ m.type # ReplyType(b)
           /\ \A b : \A r : (Sourced(b, r)' <=> Sourced(b, r)) /\ (Chosen(b, r)' <=> Chosen(b, r))
  <1>1. \A b : Own(b)' = Own(b)
    BY DEF Quiet, Own, ReplyType
  <1>2. \A m \in sent' \ sent : \A b : ~ Opens(b, m) /\ m.type # ReplyType(b)
    BY DEF Quiet, Opens, CreatesRecord, Invitations, ReplyType
  <1>3. \A t, d : t # "complete" => (Msg(t, d) \in sent' <=> Msg(t, d) \in sent)
    BY DEF Quiet, Msg
  <1> QED
    BY <1>1, <1>2, <1>3 DEF Sourced, Chosen

LEMMA QuietOnce ==
    ASSUME TypeOK, OnceInv, NEW a \in Agents, NEW w \in Workers, NEW x, Goto(a, w, x),
           Quiet(a), ClaimsOf(a)', Fits(a, x)
    PROVE  OnceInv'
  <1>1. ASSUME NEW b \in Agents, b # a PROVE AgentInv(b)'
    <2>1. Same(b)
      BY <1>1 DEF Quiet, Same, Goto, TypeOK
    <2> QED
      BY <2>1, QuietSends, OtherOnce DEF Quiet, OnceInv
  <1>2. \A v \in Workers : workers'[a][v] = IF v = w THEN x ELSE workers[a][v]
    BY DEF Goto, TypeOK
  <1>3. Untouched(a) => Untouched(a)'
    BY DEF Untouched, Quiet
  <1>4. RecordsOf(a)'
    BY <1>3, QuietSends DEF OnceInv, AgentInv, RecordsOf, Quiet, FirstState, Opens
  <1>5. EventsOf(a)'
    BY QuietSends DEF OnceInv, AgentInv, EventsOf, EventFits, Quiet, FirstState, ReplyState
  <1>6. \A me : Fits(a, me) => Fits(a, me)'
    BY QuietSends DEF Fits, FitsClaim, FitsAnswer, FitsLeave, InClaim, FirstState, ReplyState,
                      ReplyType, Quiet
  <1>7. WorkersOf(a)'
    BY <1>2, <1>6 DEF OnceInv, AgentInv, WorkersOf
  <1>8. SentFits'
    BY QuietSends DEF OnceInv, SentFits, Quiet
  <1> QED
    BY <1>1, <1>4, <1>5, <1>7, <1>8 DEF OnceInv, AgentInv

\* A goroutine that makes no new claim.
LEMMA KeepsClaims ==
    ASSUME TypeOK, OnceInv, NEW a \in Agents, NEW w \in Workers, NEW x, Goto(a, w, x),
           Quiet(a),
           InClaim(a, x) => /\ InClaim(a, workers[a][w])
                            /\ workers[a][w].pc \in Leaves => x.pc \in Leaves
    PROVE  ClaimsOf(a)'
  <1>1. \A v \in Workers : workers'[a][v] = IF v = w THEN x ELSE workers[a][v]
    BY DEF Goto, TypeOK
  <1>2. Asked(a)' <=> Asked(a)
    BY DEF Asked, Quiet, FirstState
  <1>3. \A v \in Workers : InClaim(a, workers[a][v])' =>
            /\ InClaim(a, workers[a][v])
            /\ workers[a][v].pc \in Leaves => workers'[a][v].pc \in Leaves
    BY <1>1 DEF InClaim
  <1>4. Claims(a)' \subseteq Claims(a)
    BY <1>2, <1>3, QuietSends DEF Claims, Opens, Quiet
  <1>5. Own(a)' = Own(a)
    BY QuietSends
  <1>6. ASSUME NEW v \in Workers, <<"goroutine", v>> \in Claims(a)'
        PROVE  InClaim(a, workers[a][v])'
    BY <1>6 DEF Claims
  <1> QED
    BY <1>3, <1>4, <1>5, <1>6 DEF OnceInv, AgentInv, ClaimsOf

\* What a goroutine that has started has in its hands.
LEMMA InHands ==
    ASSUME TypeOK, IInv, OnceInv, NEW a \in Agents, NEW w \in Workers,
           workers[a][w].pc # "idle"
    PROVE  LET me == workers[a][w]
           IN  /\ me \in WorkerType /\ me.msg \in Messages /\ me.rec \in Records
               /\ Receiver(me.msg.type) = a /\ Fits(a, me)
               /\ me.pc \in Sending => me.rec.state = me.next
               /\ me.pc \in {"record", "execute"} => me.out = NoMsg
  BY DEF IInv, WorkersInv, WorkerInv, Genuine, TypeOK, WorkerType, OnceInv, AgentInv, WorkersOf

\* Idle goroutines claim nothing.
LEMMA IdleOnce == \A a : ~ InClaim(a, IdleWorker) /\ Fits(a, IdleWorker)
  BY DEF InClaim, Fits, IdleWorker

\* The one claim of an agent passes from whoever had it to a goroutine.
LEMMA PassesClaim ==
    ASSUME TypeOK, NEW a \in Agents, NEW w \in Workers, NEW x, Goto(a, w, x),
           ClaimsOf(a), NEW y \in Claims(a), Own(a)' = {}, ~ InClaim(a, workers[a][w]),
           \A z \in Claims(a)' \ Claims(a) : z = <<"goroutine", w>>,
           y \notin Claims(a)'
    PROVE  ClaimsOf(a)'
  <1>1. Claims(a) \subseteq {y}
    BY DEF ClaimsOf
  <1>2. \A z \in Claims(a)' : z = <<"goroutine", w>>
    BY <1>1
  <1> QED
    BY <1>2 DEF ClaimsOf

(***************************************************************************)
(* Every action keeps the invariant.                                        *)
(***************************************************************************)
LEMMA InboundOnce ==
    ASSUME Once, TypeOK, IInv, OnceInv, NEW a \in Agents, NEW w \in Workers, NEW m \in sent
    PROVE  /\ HandleInbound(a, w, m) => OnceInv'
           /\ RejectInbound(a, w, m) => OnceInv'
  <1> USE DEF stores, client, net, used
  <1>1. ASSUME HandleInbound(a, w, m) PROVE OnceInv'
    <2>1. PICK x : x = [IdleWorker EXCEPT !.pc = "record", !.msg = m,
                                          !.next = StateFromMsgType(m.type)]
      OBVIOUS
    <2>2. /\ Goto(a, w, x) /\ Quiet(a) /\ workers[a][w].pc = "idle"
          /\ m \in sent \ delivered /\ delivered' = delivered \cup {m}
      BY <1>1, <2>1 DEF HandleInbound, Quiet, Once, Deliverable
    <2>3. /\ x.pc = "record" /\ x.msg = m /\ x.next = StateFromMsgType(m.type)
          /\ m.type \in MsgTypes /\ Receiver(m.type) = a
      BY <1>1, <2>1 DEF IdleWorker, HandleInbound, Deliverable, TypeOK, Messages
    <2>4. CASE CreatesRecord(m.type)
      <3>1. Opens(a, m) /\ <<"message", m>> \in Claims(a)
        BY <2>2, <2>3, <2>4 DEF Opens, Claims
      <3>2. Own(a)' = {}
        BY <2>2, <3>1 DEF OnceInv, AgentInv, ClaimsOf, Own, Quiet, ReplyType
      <3>3. \A v \in Workers : v # w => workers'[a][v] = workers[a][v]
        BY <2>2 DEF Goto, TypeOK
      <3>4. Asked(a)' <=> Asked(a)
        BY <2>2 DEF Asked, Quiet, FirstState
      <3>5. \A z \in Claims(a)' \ Claims(a) : z = <<"goroutine", w>>
        BY <2>2, <3>3, <3>4, QuietSends DEF Claims, Quiet, Opens, InClaim
      <3>6. <<"message", m>> \notin Claims(a)'
        BY <2>2 DEF Claims
      <3>7. ClaimsOf(a)'
        BY <2>2, <3>1, <3>2, <3>5, <3>6, PassesClaim DEF OnceInv, AgentInv, InClaim
      <3>8. created[a] = 0 /\ \A c \in Conns : events[a][c] = NoEvent
        BY <2>2, <3>1 DEF OnceInv, AgentInv, RecordsOf, Untouched
      <3>9. x.next = FirstState(a)
        BY <2>3, <2>4, AgentsAssumption
        DEF CreatesRecord, StateFromMsgType, FirstState, Receiver, Invitations
      <3>10. Fits(a, x)
        BY <2>3, <2>4, <3>8, <3>9 DEF Fits, FitsClaim, InClaim, Leaves
      <3> QED
        BY <2>2, <3>7, <3>10, QuietOnce
    <2>5. CASE ~ CreatesRecord(m.type)
      <3>1. ~ InClaim(a, x)
        BY <2>3, <2>5 DEF InClaim
      <3>2. Own(a) # {}
        BY <2>3, <2>5, AgentsAssumption
        DEF CreatesRecord, MsgTypes, Invitations, Receiver, OnceInv, SentFits, Own, ReplyType
      <3>3. x.next \in {"responded", "completed"}
        BY <2>3, <2>5 DEF CreatesRecord, MsgTypes, Invitations, StateFromMsgType
      <3>4. Fits(a, x)
        BY <2>3, <3>1, <3>2, <3>3 DEF Fits, FitsAnswer, Leaves, Sending
      <3> QED
        BY <2>2, <3>1, <3>4, KeepsClaims, QuietOnce
    <2> QED
      BY <2>4, <2>5
  <1>2. ASSUME RejectInbound(a, w, m) PROVE OnceInv'
    <2>1. PICK x : x = workers[a][w]
      OBVIOUS
    <2>2. Goto(a, w, x) /\ Quiet(a)
      <3>1. workers = [b \in Agents |-> [v \in Workers |-> workers[b][v]]]
        BY DEF TypeOK
      <3> QED
        BY <1>2, <2>1, <3>1 DEF RejectInbound, Quiet, Goto
    <2>3. Fits(a, x)
      BY <2>1 DEF OnceInv, AgentInv, WorkersOf
    <2> QED
      BY <2>1, <2>2, <2>3, KeepsClaims, QuietOnce
  <1> QED
    BY <1>1, <1>2

\* The record of the thread holds the DID its agent has sent.
LEMMA ThreadOnce ==
    ASSUME TypeOK, IInv, OnceInv, NEW a \in Agents, ThreadRecord(a) # NoRec
    PROVE  LET r == ThreadRecord(a)
           IN  /\ r \in Records /\ r.conn = 1 /\ Sourced(a, r) /\ Chosen(a, r)
               /\ created[a] = 1 /\ threads[a] = 1 /\ r = records[a][1] /\ 1 \in Conns
  <1>1. threads[a] \in Conns /\ ThreadRecord(a) = records[a][threads[a]]
    BY DEF ThreadRecord, TypeOK
  <1>2. threads[a] = 1
    BY <1>1 DEF OnceInv, AgentInv, RecordsOf
  <1>3. records[a][1].conn = 1
    BY <1>1, <1>2 DEF IInv, StoresInv
  <1>4. created[a] = 1
    BY <1>1, <1>2 DEF OnceInv, AgentInv, RecordsOf, Untouched
  <1> QED
    BY <1>1, <1>2, <1>3, <1>4, ReadType DEF OnceInv, AgentInv, RecordsOf

LEMMA FetchOnce ==
    ASSUME TypeOK, IInv, OnceInv, NEW a \in Agents, NEW w \in Workers, FetchRecord(a, w)
    PROVE  OnceInv'
  <1> USE DEF stores, client, net, used
  <1> DEFINE me == workers[a][w]
  <1>1. PICK r : r = ThreadRecord(a)
    OBVIOUS
  <1>2. PICK x : x = IF r = NoRec THEN IdleWorker ELSE [me EXCEPT !.pc = "execute", !.rec = r]
    OBVIOUS
  <1>3. Goto(a, w, x) /\ Quiet(a) /\ me.pc = "record" /\ ~ InClaim(a, me)
    BY <1>1, <1>2 DEF FetchRecord, Idle, Quiet, InClaim
  <1>4. CASE r = NoRec
    BY <1>2, <1>3, <1>4, IdleOnce, KeepsClaims, QuietOnce
  <1>5. CASE r # NoRec
    <2>1. /\ x.pc = "execute" /\ x.msg = me.msg /\ x.next = me.next /\ x.rec = r
          /\ x.out = me.out
      BY <1>2, <1>5 DEF TypeOK
    <2>2. FitsAnswer(a, me)
      BY <1>3, InHands DEF Fits
    <2>3. ~ InClaim(a, x)
      BY <1>3, <2>1 DEF InClaim
    <2>4. FitsAnswer(a, x)
      BY <1>1, <1>5, <2>1, <2>2, ThreadOnce DEF FitsAnswer, Sending
    <2>5. Fits(a, x)
      BY <2>1, <2>3, <2>4 DEF Fits
    <2> QED
      BY <1>3, <2>3, <2>5, KeepsClaims, QuietOnce
  <1> QED
    BY <1>4, <1>5

LEMMA PlainOnce ==
    ASSUME TypeOK, IInv, OnceInv, NEW a \in Agents, NEW w \in Workers, ExecutePlain(a, w)
    PROVE  OnceInv'
  <1> USE DEF stores, client, net, used
  <1> DEFINE me == workers[a][w]
  <1>1. PICK x : x = [me EXCEPT !.pc = "persist", !.rec.state = me.next]
    OBVIOUS
  <1>2. Goto(a, w, x) /\ Quiet(a) /\ me.pc = "execute"
    BY <1>1 DEF ExecutePlain, Quiet
  <1>3. /\ me \in WorkerType /\ Fits(a, me) /\ Receiver(me.msg.type) = a /\ me.out = NoMsg
        /\ me.rec \in Records /\ me.msg \in Messages
    BY <1>2, InHands
  <1>4. /\ x.pc = "persist" /\ x.msg = me.msg /\ x.next = me.next /\ x.out = NoMsg
        /\ x.rec.state = me.next /\ x.rec.conn = me.rec.conn
        /\ x.rec.myDID = me.rec.myDID /\ x.rec.theirDID = me.rec.theirDID
    BY <1>1, <1>3 DEF WorkerType, Records
  <1>5. InClaim(a, x) <=> InClaim(a, me)
    BY <1>2, <1>4 DEF InClaim
  <1>6. ~ (a = Invitee /\ me.next = "completed")
    BY <1>3, AgentsAssumption DEF ExecutePlain, Receiver
  <1>7. Chosen(a, x.rec) <=> Chosen(a, me.rec)
    BY <1>4 DEF Chosen
  <1>8. Sourced(a, me.rec) => Sourced(a, x.rec)
    BY <1>4, <1>6 DEF Sourced
  <1>9. CASE InClaim(a, me)
    <2>1. me.next = FirstState(a) /\ me.next # ReplyState(a)
      BY <1>2, <1>3, <1>9, AgentsAssumption
      DEF Fits, FitsClaim, InClaim, ExecutePlain, FirstState, ReplyState, Receiver,
          CreatesRecord, Invitations, Agents
    <2>2. FitsClaim(a, x)
      BY <1>2, <1>3, <1>4, <1>8, <1>9, <2>1 DEF Fits, FitsClaim, Leaves
    <2>3. Fits(a, x)
      BY <1>4, <1>5, <1>9, <2>2 DEF Fits
    <2> QED
      BY <1>2, <1>5, <2>3, KeepsClaims, QuietOnce DEF Leaves
  <1>10. CASE ~ InClaim(a, me)
    <2>1. FitsAnswer(a, x)
      BY <1>2, <1>3, <1>4, <1>7, <1>8, <1>10 DEF Fits, FitsAnswer, Leaves
    <2>2. Fits(a, x)
      BY <1>4, <1>5, <1>10, <2>1 DEF Fits
    <2> QED
      BY <1>2, <1>5, <1>10, <2>2, KeepsClaims, QuietOnce
  <1> QED
    BY <1>9, <1>10

LEMMA ChooseOnce ==
    ASSUME TypeOK, IInv, OnceInv, NEW a \in Agents, NEW w \in Workers,
           ExecuteInvitation(a, w) \/ ExecuteRequest(a, w)
    PROVE  OnceInv'
  <1> USE DEF stores, client, net, used
  <1> DEFINE me == workers[a][w]
  <1>0. PICK d : d = <<a, minted[a] + 1>>
    OBVIOUS
  <1>1. d # NoDID /\ me.pc = "execute" /\ Quiet(a) /\ CreatesRecord(me.msg.type)
    BY <1>0, AbsentAssumption
    DEF TypeOK, ExecuteInvitation, ExecuteRequest, Quiet, CreatesRecord
  <1>2. /\ me \in WorkerType /\ Fits(a, me) /\ Receiver(me.msg.type) = a
        /\ me.rec \in Records /\ me.msg \in Messages /\ InClaim(a, me)
    BY <1>1, InHands DEF InClaim
  <1>3. ASSUME NEW x, Goto(a, w, x), x.pc = "persist", x.msg = me.msg, x.next = me.next,
               x.next = ReplyState(a), x.out = Msg(ReplyType(a), d), x.rec.myDID = d,
               x.rec.conn = me.rec.conn, Sourced(a, x.rec)
        PROVE  OnceInv'
    <2>1. FitsClaim(a, me)
      BY <1>2 DEF Fits
    <2>2. FitsClaim(a, x)
      BY <1>1, <1>3, <2>1 DEF FitsClaim, Leaves
    <2>3. Fits(a, x)
      BY <1>1, <1>3, <2>2 DEF Fits, InClaim
    <2> QED
      BY <1>1, <1>2, <1>3, <2>3, KeepsClaims, QuietOnce DEF Leaves
  <1>4. CASE ExecuteInvitation(a, w)
    <2>1. PICK x : x = [me EXCEPT !.pc = "persist", !.out = Msg("request", d),
                                  !.rec.state = "requested", !.rec.myDID = d]
      OBVIOUS
    <2>2. Goto(a, w, x)
      BY <1>0, <1>4, <2>1 DEF ExecuteInvitation
    <2>3. /\ x.pc = "persist" /\ x.msg = me.msg /\ x.next = me.next
          /\ x.out = Msg("request", d) /\ x.rec.myDID = d /\ x.rec.conn = me.rec.conn
          /\ x.rec.state = "requested"
      BY <1>2, <2>1 DEF WorkerType, Records
    <2>4. a = Invitee /\ me.next = "requested"
      BY <1>2, <1>4 DEF ExecuteInvitation, Receiver, Invitations
    <2>5. Sourced(a, x.rec)
      BY <2>3, <2>4, AgentsAssumption DEF Sourced
    <2> QED
      BY <1>3, <2>2, <2>3, <2>4, <2>5 DEF ReplyState, ReplyType
  <1>5. CASE ExecuteRequest(a, w)
    <2>1. PICK x : x = [me EXCEPT !.pc = "persist", !.out = Msg("response", d),
                                  !.rec.state = "responded", !.rec.myDID = d,
                                  !.rec.theirDID = me.msg.did]
      OBVIOUS
    <2>2. Goto(a, w, x)
      BY <1>0, <1>5, <2>1 DEF ExecuteRequest
    <2>3. /\ x.pc = "persist" /\ x.msg = me.msg /\ x.next = me.next
          /\ x.out = Msg("response", d) /\ x.rec.myDID = d /\ x.rec.conn = me.rec.conn
          /\ x.rec.theirDID = me.msg.did
      BY <1>2, <2>1 DEF WorkerType, Records
    <2>4. /\ a = Inviter /\ me.next = "responded" /\ me.msg.type = "request"
          /\ me.msg \in sent
      BY <1>2, <1>5 DEF ExecuteRequest, Receiver, Fits, FitsClaim
    <2>5. me.msg = Msg("request", me.msg.did)
      BY <1>2, <2>4 DEF Messages, Msg
    <2>6. Sourced(a, x.rec)
      BY <2>3, <2>4, <2>5, AgentsAssumption DEF Sourced
    <2> QED
      BY <1>3, <2>2, <2>3, <2>4, <2>6, AgentsAssumption DEF ReplyState, ReplyType
  <1> QED
    BY <1>4, <1>5

LEMMA ResponseOnce ==
    ASSUME TypeOK, IInv, OnceInv, NEW a \in Agents, NEW w \in Workers, ExecuteResponse(a, w)
    PROVE  OnceInv'
  <1> USE DEF stores, client, net, used
  <1> DEFINE me == workers[a][w]
  <1>1. PICK r : r = ThreadRecord(a)
    OBVIOUS
  <1>2. PICK x : x = IF r.myDID = NoDID THEN IdleWorker
                     ELSE [me EXCEPT !.pc = "persist", !.out = Msg("complete", NoDID),
                               !.rec = [r EXCEPT !.state = "completed",
                                                 !.theirDID = me.msg.did]]
    OBVIOUS
  <1>3. /\ Goto(a, w, x) /\ Quiet(a) /\ me.pc = "execute" /\ me.msg.type = "response"
        /\ me.next = "completed"
    BY <1>1, <1>2 DEF ExecuteResponse, Idle, Quiet
  <1>4. CASE r.myDID = NoDID
    BY <1>2, <1>3, <1>4, IdleOnce, KeepsClaims, QuietOnce
  <1>5. CASE r.myDID # NoDID
    <2>1. r # NoRec /\ me \in WorkerType /\ me.msg \in Messages /\ Fits(a, me) /\ a = Invitee
      BY <1>3, <1>5, InHands DEF NoRec, Receiver
    <2>2. /\ r \in Records /\ r.conn = 1 /\ Sourced(a, r) /\ Chosen(a, r)
      BY <1>1, <2>1, ThreadOnce
    <2>3. /\ x.pc = "persist" /\ x.msg = me.msg /\ x.next = me.next
          /\ x.out = Msg("complete", NoDID) /\ x.rec.conn = 1 /\ x.rec.myDID = r.myDID
          /\ x.rec.theirDID = me.msg.did
      BY <1>2, <1>5, <2>1, <2>2 DEF WorkerType, Records
    <2>4. ~ InClaim(a, x) /\ ~ InClaim(a, me)
      BY <1>3, <2>3 DEF InClaim, CreatesRecord, Invitations
    <2>5. FitsAnswer(a, me) /\ me.msg = Msg("response", me.msg.did)
      BY <1>3, <2>1, <2>4 DEF Fits, Messages, Msg
    <2>6. Sourced(a, x.rec) /\ Chosen(a, x.rec)
      BY <2>1, <2>2, <2>3, <2>5, AgentsAssumption DEF Sourced, Chosen, FitsAnswer
    <2>7. FitsAnswer(a, x)
      BY <1>3, <2>3, <2>5, <2>6 DEF FitsAnswer, Msg
    <2>8. Fits(a, x)
      BY <2>3, <2>4, <2>7 DEF Fits
    <2> QED
      BY <1>3, <2>4, <2>8, KeepsClaims, QuietOnce
  <1> QED
    BY <1>4, <1>5

\* What follows the record into the other stores.
LEMMA FollowOnce ==
    ASSUME TypeOK, IInv, OnceInv, NEW a \in Agents, NEW w \in Workers,
           SaveMapping(a, w) \/ SavePermanent(a, w) \/ SaveDID(a, w)
    PROVE  OnceInv'
  <1> USE DEF stores, client, net, used
  <1> DEFINE me == workers[a][w]
  <1>1. PICK x : x = [me EXCEPT !.pc = IF me.pc = "permanent" THEN "did" ELSE "act"]
    OBVIOUS
  <1>2. Goto(a, w, x) /\ me.pc \in {"mapping", "permanent", "did"}
    BY <1>1 DEF SaveMapping, SavePermanent, SaveDID
  <1>3. me \in WorkerType /\ Fits(a, me)
    BY <1>2, InHands
  <1>4. /\ x.pc = (IF me.pc = "permanent" THEN "did" ELSE "act") /\ x.msg = me.msg
        /\ x.next = me.next /\ x.out = me.out /\ x.rec = me.rec
    BY <1>1, <1>3 DEF WorkerType
  <1>5. InClaim(a, x) <=> InClaim(a, me)
    BY <1>2, <1>4 DEF InClaim
  <1>6. InClaim(a, me) => me.pc = "mapping" /\ me.next = FirstState(a) /\ created[a] = 1
    BY <1>2, <1>3 DEF Fits, FitsClaim, Leaves
  <1>7. me.pc = "mapping" => InClaim(a, me)
    BY <1>2, <1>3 DEF Fits, FitsAnswer
  <1>8. Quiet(a)
    BY <1>6, <1>7 DEF SaveMapping, SavePermanent, SaveDID, Quiet
  <1>9. FirstState(a) # ReplyState(a)
    BY DEF FirstState, ReplyState
  <1>10. InClaim(a, me) => FitsClaim(a, x)
    BY <1>2, <1>3, <1>4, <1>6, <1>9 DEF Fits, FitsClaim, Leaves
  <1>11. ~ InClaim(a, me) => FitsAnswer(a, x)
    BY <1>2, <1>3, <1>4 DEF Fits, FitsAnswer, Leaves, Sending
  <1>12. Fits(a, x)
    BY <1>4, <1>5, <1>10, <1>11 DEF Fits
  <1> QED
    BY <1>2, <1>5, <1>8, <1>12, KeepsClaims, QuietOnce DEF Leaves

LEMMA AbandonOnce ==
    ASSUME TypeOK, IInv, OnceInv, NEW a \in Agents, NEW w \in Workers, Abandon(a, w)
    PROVE  OnceInv'
  <1> USE DEF stores, client, net, used
  <1> DEFINE me == workers[a][w]
  <1>1. PICK r : r = ThreadRecord(a)
    OBVIOUS
  <1>2. PICK x : x = IF r = NoRec THEN IdleWorker
                     ELSE [me EXCEPT !.pc = "saveabandoned",
                                     !.rec = [r EXCEPT !.state = "abandoned"]]
    OBVIOUS
  <1>3. Goto(a, w, x) /\ Quiet(a) /\ me.pc = "abandon"
    BY <1>1, <1>2 DEF Abandon, Idle, Quiet
  <1>4. CASE r = NoRec
    BY <1>2, <1>3, <1>4, IdleOnce, KeepsClaims, QuietOnce
  <1>5. CASE r # NoRec
    <2>1. me \in WorkerType /\ Fits(a, me)
      BY <1>3, InHands
    <2>2. /\ r \in Records /\ r.conn = 1 /\ Sourced(a, r) /\ Chosen(a, r) /\ created[a] = 1
      BY <1>1, <1>5, ThreadOnce
    <2>3. /\ x.pc = "saveabandoned" /\ x.msg = me.msg /\ x.next = me.next
          /\ x.rec.conn = 1 /\ x.rec.myDID = r.myDID /\ x.rec.theirDID = r.theirDID
          /\ x.rec.state = "abandoned"
      BY <1>2, <1>5, <2>1, <2>2 DEF WorkerType, Records
    <2>4. InClaim(a, x) <=> InClaim(a, me)
      BY <1>3, <2>3 DEF InClaim
    <2>5. FitsLeave(a, x)
      BY <2>2, <2>3 DEF FitsLeave, Sourced, Chosen
    <2>6. InClaim(a, me) => FitsClaim(a, x)
      BY <1>3, <2>1, <2>3 DEF Fits, FitsClaim, Leaves
    <2>7. ~ InClaim(a, me) => FitsAnswer(a, x)
      BY <1>3, <2>1, <2>3 DEF Fits, FitsAnswer, Leaves, Sending
    <2>8. Fits(a, x)
      BY <2>4, <2>5, <2>6, <2>7 DEF Fits
    <2> QED
      BY <1>3, <2>3, <2>4, <2>8, KeepsClaims, QuietOnce DEF Leaves
  <1> QED
    BY <1>4, <1>5

\* Beside a goroutine that has not given up, only those that have may hold the claim.
LEMMA AloneOnce ==
    ASSUME OnceInv, NEW a \in Agents, NEW w \in Workers, workers[a][w].pc # "idle",
           NEW v \in Workers, v # w, InClaim(a, workers[a][v])
    PROVE  workers[a][v].pc \in Leaves /\ ~ InClaim(a, workers[a][w])
  <1>1. <<"goroutine", v>> \in Claims(a)
    BY DEF Claims
  <1>2. ~ InClaim(a, workers[a][w])
    <2>1. SUFFICES ASSUME InClaim(a, workers[a][w]) PROVE FALSE
      OBVIOUS
    <2>2. <<"goroutine", w>> \in Claims(a)
      BY <2>1 DEF Claims
    <2>3. <<"goroutine", w>> = <<"goroutine", v>>
      BY <1>1, <2>2 DEF OnceInv, AgentInv, ClaimsOf
    <2> QED
      BY <2>3
  <1>3. Own(a) # {}
    BY <1>2 DEF OnceInv, AgentInv, WorkersOf, Fits, FitsAnswer
  <1>4. PICK u \in Workers : <<"goroutine", v>> = <<"goroutine", u>> /\ workers[a][u].pc \in Leaves
    BY <1>1, <1>3 DEF OnceInv, AgentInv, ClaimsOf
  <1> QED
    BY <1>2, <1>4

\* A goroutine that stores a record of the thread.
LEMMA WriteOnce ==
    ASSUME TypeOK, OnceInv, NEW a \in Agents, NEW w \in Workers, NEW x, Goto(a, w, x),
           NEW r, records' = [records EXCEPT ![a][1] = r],
           UNCHANGED <<sent, delivered, events, actions, callbacks, answered, created, threads>>,
           workers[a][w].pc # "idle", created[a] # 0, Sourced(a, r), Chosen(a, r),
           r.state \in {"null", FirstState(a)} => r.myDID = NoDID,
           r.state = FirstState(a) => \A c \in Conns : events[a][c] = NoEvent,
           InClaim(a, x) => InClaim(a, workers[a][w]), x.pc \notin Leaves,
           workers[a][w].pc \in Leaves => ~ InClaim(a, x),
           Fits(a, x)'
    PROVE  OnceInv'
  <1>0. \A b \in Agents : \A c \in Conns :
            records'[b][c] = IF b = a /\ c = 1 THEN r ELSE records[b][c]
    BY DEF TypeOK
  <1>1. ASSUME NEW b \in Agents, b # a PROVE AgentInv(b)'
    <2>1. Same(b)
      BY <1>1 DEF Same, Goto, TypeOK
    <2> QED
      BY <2>1, OtherOnce DEF OnceInv
  <1>2. \A v \in Workers : workers'[a][v] = IF v = w THEN x ELSE workers[a][v]
    BY DEF Goto, TypeOK
  <1>3. \A s : (Sourced(a, s)' <=> Sourced(a, s)) /\ (Chosen(a, s)' <=> Chosen(a, s))
    BY DEF Sourced, Chosen, Own, ReplyType
  <1>4. RecordsOf(a)'
    <2>1. \A c \in Conns \ {1} : records'[a][c] = NoRec /\ events'[a][c] = NoEvent
      BY <1>0 DEF OnceInv, AgentInv, RecordsOf
    <2>2. ASSUME NEW c \in Conns, records'[a][c] # NoRec
          PROVE  \E s : /\ s = records'[a][c] /\ Sourced(a, s)' /\ Chosen(a, s)'
                        /\ s.state \in {"null", FirstState(a)} => s.myDID = NoDID
      <3>1. PICK s : s = records'[a][c]
        OBVIOUS
      <3> QED
        BY <1>0, <1>3, <2>1, <2>2, <3>1 DEF OnceInv, AgentInv, RecordsOf
    <2>3. \A c \in Conns : records'[a][c] # NoRec =>
              /\ Sourced(a, records[a][c])' /\ Chosen(a, records[a][c])'
              /\ records'[a][c].state \in {"null", FirstState(a)} => records'[a][c].myDID = NoDID
      BY <2>2 DEF Sourced, Chosen, Own
    <2> QED
      BY <2>1, <2>3 DEF OnceInv, AgentInv, RecordsOf, Opens, FirstState, Own, ReplyType
  <1>5. EventsOf(a)'
    BY <1>3 DEF OnceInv, AgentInv, EventsOf, EventFits, FirstState, ReplyState
  <1>6. WorkersOf(a)'
    <2>1. ASSUME NEW v \in Workers, v # w PROVE Fits(a, workers[a][v])'
      <3>1. PICK me : me = workers[a][v]
        OBVIOUS
      <3>2. Fits(a, me) /\ (InClaim(a, me) => me.pc \in Leaves) /\ workers'[a][v] = me
        BY <1>2, <2>1, <3>1, AloneOnce DEF OnceInv, AgentInv, WorkersOf
      <3>3. FitsClaim(a, me) /\ me.pc \in Leaves => FitsClaim(a, me)'
        BY <1>3 DEF FitsClaim, FirstState, ReplyState, ReplyType, Leaves
      <3>4. FitsAnswer(a, me) => FitsAnswer(a, me)'
        BY <1>3 DEF FitsAnswer, Own, ReplyType
      <3>5. FitsLeave(a, me) => FitsLeave(a, me)'
        BY <1>3 DEF FitsLeave
      <3>6. Fits(a, me)'
        BY <3>2, <3>3, <3>4, <3>5 DEF Fits, InClaim
      <3> QED
        BY <3>2, <3>6
    <2> QED
      BY <1>2, <2>1 DEF WorkersOf
  <1>7. SentFits'
    BY DEF OnceInv, SentFits, Own, ReplyType
  <1>8. Asked(a)' => Asked(a)
    BY <1>0 DEF Asked, FirstState, OnceInv, AgentInv, RecordsOf
  <1>9. ASSUME NEW v \in Workers, InClaim(a, workers'[a][v])
        PROVE  InClaim(a, workers[a][v]) /\ (v = w => workers[a][w].pc \notin Leaves)
    BY <1>2, <1>9
  <1>10. Claims(a)' \subseteq Claims(a)
    BY <1>8, <1>9 DEF Claims, Opens, InClaim
  <1>11. ASSUME NEW z \in Claims(a)', Own(a)' # {}
         PROVE  \E v \in Workers : z = <<"goroutine", v>> /\ workers'[a][v].pc \in Leaves
    <2>1. z \in Claims(a) /\ Own(a) # {}
      BY <1>10, <1>11 DEF Own, ReplyType
    <2>2. PICK v \in Workers : z = <<"goroutine", v>> /\ workers[a][v].pc \in Leaves
      BY <2>1 DEF OnceInv, AgentInv, ClaimsOf
    <2>3. InClaim(a, workers'[a][v])
      BY <1>11, <2>2 DEF Claims, InClaim
    <2>4. v # w
      BY <1>9, <2>2, <2>3
    <2> QED
      BY <1>2, <2>2, <2>4
  <1>12. ClaimsOf(a)'
    BY <1>10, <1>11 DEF OnceInv, AgentInv, ClaimsOf
  <1> QED
    BY <1>1, <1>4, <1>5, <1>6, <1>7, <1>12 DEF OnceInv, AgentInv

LEMMA PersistOnce ==
    ASSUME TypeOK, IInv, OnceInv, NEW a \in Agents, NEW w \in Workers, Persist(a, w)
    PROVE  OnceInv'
  <1> USE DEF stores, client, net, used
  <1> DEFINE me == workers[a][w]
  <1>1. PICK x : x = [me EXCEPT !.pc =
               CASE SavesMapping(me.next, me.msg.type) -> "mapping"
                 [] me.next = "completed"              -> "permanent"
                 [] OTHER                              -> "act"]
    OBVIOUS
  <1>2. /\ Goto(a, w, x) /\ me.pc = "persist"
        /\ records' = [records EXCEPT ![a][me.rec.conn] = me.rec]
        /\ UNCHANGED <<sent, delivered, events, actions, callbacks, answered, created, threads>>
    BY <1>1, Zenon DEF Persist
  <1>3. /\ me \in WorkerType /\ Fits(a, me) /\ Receiver(me.msg.type) = a
        /\ me.msg \in Messages /\ me.rec.state = me.next
    BY <1>2, InHands DEF Sending
  <1>4. /\ x.msg = me.msg /\ x.next = me.next /\ x.rec = me.rec /\ x.out = me.out
        /\ x.pc \in {"mapping", "permanent", "act"}
        /\ (x.pc = "mapping") <=> SavesMapping(me.next, me.msg.type)
        /\ x.pc = "permanent" => me.next = "completed"
    BY <1>1, <1>3 DEF WorkerType, SavesMapping
  <1>5. InClaim(a, x) <=> InClaim(a, me)
    BY <1>2, <1>4 DEF InClaim
  <1>6. \A s : (Sourced(a, s)' <=> Sourced(a, s)) /\ (Chosen(a, s)' <=> Chosen(a, s))
    BY <1>2 DEF Sourced, Chosen, Own, ReplyType
  <1>7. me.rec.conn = 1 /\ Sourced(a, me.rec)
    BY <1>2, <1>3 DEF Fits, FitsClaim, FitsAnswer, InClaim, Leaves
  <1>8. CASE InClaim(a, me)
    <2>1. FitsClaim(a, me) /\ FirstState(a) # ReplyState(a) /\ created[a] = 1
      BY <1>2, <1>3, <1>8 DEF Fits, FirstState, ReplyState, FitsClaim, Leaves
    <2>2. Own(a) = {}
      <3>1. SUFFICES ASSUME Own(a) # {} PROVE FALSE
        OBVIOUS
      <3>2. <<"goroutine", w>> \in Claims(a)
        BY <1>8 DEF Claims
      <3>3. PICK v \in Workers : /\ <<"goroutine", w>> = <<"goroutine", v>>
                                 /\ workers[a][v].pc \in Leaves
        BY <3>1, <3>2 DEF OnceInv, AgentInv, ClaimsOf
      <3> QED
        BY <1>2, <3>3 DEF Leaves
    <2>3. /\ x.pc = "mapping" => me.next = FirstState(a)
          /\ x.pc # "permanent"
      BY <1>3, <1>4, <1>8, <2>1, AgentsAssumption
      DEF FitsClaim, SavesMapping, FirstState, ReplyState, InClaim, CreatesRecord, Receiver,
          Invitations, Agents
    <2>4. ASSUME me.next = ReplyState(a), NEW c \in Conns, records'[a][c] # NoRec
          PROVE  records'[a][c].myDID = me.rec.myDID
      BY <1>2, <1>7, <2>4 DEF OnceInv, AgentInv, RecordsOf, TypeOK
    <2>5. FitsClaim(a, x)'
      BY <1>2, <1>4, <1>6, <1>7, <2>1, <2>3, <2>4
      DEF FitsClaim, Leaves, FirstState, ReplyState, ReplyType
    <2>6. Fits(a, x)'
      BY <1>4, <1>5, <1>8, <2>5 DEF Fits, InClaim
    <2>7. Chosen(a, me.rec)
      BY <2>2 DEF Chosen
    <2>8. me.rec.state = FirstState(a) => \A c \in Conns : events[a][c] = NoEvent
      BY <1>3, <2>1 DEF FitsClaim
    <2>9. me.rec.state \in {"null", FirstState(a)} => me.rec.myDID = NoDID
      BY <1>2, <1>3, <2>1 DEF FitsClaim, Leaves, ReplyState
    <2>10. x.pc \notin Leaves /\ me.pc \notin Leaves
      BY <1>2, <1>4 DEF Leaves
    <2>11. records' = [records EXCEPT ![a][1] = me.rec] /\ created[a] # 0
      BY <1>2, <1>7, <2>1
    <2> HIDE DEF me
    <2> QED
      BY <1>2, <1>5, <1>7, <2>6, <2>7, <2>8, <2>9, <2>10, <2>11, WriteOnce DEF me
  <1>9. CASE ~ InClaim(a, me)
    <2>1. FitsAnswer(a, me) /\ me.next \notin {"null", FirstState(a)}
      BY <1>2, <1>3, <1>9 DEF Fits, FitsAnswer, FirstState
    <2>2. x.pc # "mapping"
      BY <1>4, <2>1, <1>9, <1>2 DEF SavesMapping, FitsAnswer
    <2>3. FitsAnswer(a, x)'
      BY <1>2, <1>4, <1>6, <2>1, <2>2 DEF FitsAnswer, Leaves, Sending, Own, ReplyType
    <2>4. Fits(a, x)'
      BY <1>4, <1>5, <1>9, <2>3 DEF Fits, InClaim
    <2>5. Chosen(a, me.rec)
      BY <1>2, <2>1 DEF FitsAnswer, Leaves
    <2>6. created[a] # 0
      BY <2>1 DEF FitsAnswer, OnceInv, AgentInv, RecordsOf
    <2>7. x.pc \notin Leaves /\ me.pc \notin Leaves
      BY <1>2, <1>4 DEF Leaves
    <2> QED
      BY <1>2, <1>3, <1>5, <1>7, <2>1, <2>4, <2>5, <2>6, <2>7, WriteOnce
  <1> QED
    BY <1>8, <1>9

LEMMA SaveAbandonedOnce ==
    ASSUME TypeOK, IInv, OnceInv, NEW a \in Agents, NEW w \in Workers, SaveAbandoned(a, w)
    PROVE  OnceInv'
  <1> USE DEF stores, client, net, used
  <1> DEFINE me == workers[a][w]
  <1>1. PICK x : x = IdleWorker
    OBVIOUS
  <1>2. /\ Goto(a, w, x) /\ me.pc = "saveabandoned"
        /\ records' = [records EXCEPT ![a][me.rec.conn] = me.rec]
        /\ UNCHANGED <<sent, delivered, events, actions, callbacks, answered, created, threads>>
    BY <1>1 DEF SaveAbandoned, Idle
  <1>3. FitsLeave(a, me)
    BY <1>2, InHands DEF Fits
  <1>4. PICK r : r = me.rec
    OBVIOUS
  <1>5. /\ records' = [records EXCEPT ![a][1] = r] /\ created[a] # 0
        /\ Sourced(a, r) /\ Chosen(a, r) /\ r.state \notin {"null", FirstState(a)}
    BY <1>2, <1>3, <1>4 DEF FitsLeave, FirstState
  <1>6. x.pc = "idle" /\ Fits(a, x)' /\ ~ InClaim(a, x)
    BY <1>1 DEF IdleWorker, Fits, InClaim
  <1> QED
    BY <1>2, <1>5, <1>6, WriteOnce DEF Leaves

\* While an agent has an opening claim, nobody works on an answer, and the goroutine
\* that has the claim, if it is one, is alone.
LEMMA OpeningAlone ==
    ASSUME OnceInv, NEW a \in Agents, Own(a) = {}, NEW v \in Workers,
           workers[a][v].pc # "idle"
    PROVE  InClaim(a, workers[a][v]) /\ <<"goroutine", v>> \in Claims(a)
  BY DEF OnceInv, AgentInv, WorkersOf, Fits, FitsAnswer, Claims

\* The first record of a thread.
LEMMA FirstRecordOnce ==
    ASSUME TypeOK, OnceInv, NEW a \in Agents, NEW w \in Workers, NEW x, Goto(a, w, x),
           NEW y \in Claims(a), y = <<"goroutine", w>> \/ y = <<"start", 0>>,
           created[a] = 0, created' = [created EXCEPT ![a] = 1],
           NEW r, records' = [records EXCEPT ![a][1] = r], r.myDID = NoDID, Sourced(a, r),
           \E t : threads' = [threads EXCEPT ![a] = t],
           UNCHANGED <<sent, delivered, events, actions, callbacks, answered>>,
           a = Inviter => Own(Invitee) # {},
           x.pc = "execute", InClaim(a, x), FitsClaim(a, x)'
    PROVE  OnceInv'
  <1>1. Own(a) = {} /\ Untouched(a)
    BY DEF OnceInv, AgentInv, RecordsOf
  <1>2. \A z \in Claims(a) : z = y
    BY DEF OnceInv, AgentInv, ClaimsOf
  <1>3. ASSUME NEW b \in Agents, b # a PROVE AgentInv(b)'
    <2>1. Same(b)
      BY <1>3 DEF Same, Goto, TypeOK
    <2> QED
      BY <2>1, OtherOnce DEF OnceInv
  <1>4. \A v \in Workers : workers'[a][v] = IF v = w THEN x ELSE workers[a][v]
    BY DEF Goto, TypeOK
  <1>5. ASSUME NEW v \in Workers, v # w PROVE workers[a][v].pc = "idle"
    <2>1. SUFFICES ASSUME workers[a][v].pc # "idle" PROVE FALSE
      OBVIOUS
    <2>2. <<"goroutine", v>> = y
      BY <1>1, <1>2, <2>1, OpeningAlone
    <2> QED
      BY <1>5, <2>2
  <1>6. \A b : Own(b)' = Own(b)
    BY DEF Own, ReplyType
  <1>7. created'[a] = 1
    BY DEF TypeOK
  <1>8. ~ Asked(a)'
    BY <1>1 DEF Asked, Untouched
  <1>9. \A m \in sent \ delivered : ~ Opens(a, m)
    <2>1. ASSUME NEW m \in sent \ delivered, Opens(a, m) PROVE FALSE
      <3>0. <<"message", m>> \in Claims(a)
        BY <2>1 DEF Claims
      <3>1. <<"message", m>> = y
        BY <1>2, <3>0
      <3>2. CASE y = <<"goroutine", w>>
        BY <3>1, <3>2
      <3>3. CASE y = <<"start", 0>>
        BY <3>1, <3>3
      <3> QED
        BY <3>2, <3>3
    <2> QED
      BY <2>1
  <1>10. ASSUME NEW z \in Claims(a)' PROVE z = <<"goroutine", w>>
    <2>1. \A m \in (sent \ delivered)' : ~ Opens(a, m)'
      BY <1>9 DEF Opens
    <2>2. \A v \in Workers : InClaim(a, workers[a][v])' => v = w
      BY <1>4, <1>5 DEF InClaim
    <2>3. callbacks'[a] = << >>
      BY <1>1 DEF Untouched
    <2> QED
      BY <1>7, <1>8, <1>10, <2>1, <2>2, <2>3 DEF Claims
  <1>11. ClaimsOf(a)'
    BY <1>1, <1>6, <1>10 DEF ClaimsOf
  <1>12. \A c \in Conns : records'[a][c] = IF c = 1 THEN r ELSE NoRec
    BY <1>1 DEF TypeOK, Untouched
  <1>13. RecordsOf(a)'
    <2>1. Sourced(a, r)' /\ Chosen(a, r)'
      BY <1>1, <1>6 DEF Sourced, Chosen
    <2>2. ASSUME NEW c \in Conns, records'[a][c] # NoRec
          PROVE  records'[a][c] = r
      BY <1>12, <2>2
    <2>3. \A c \in Conns : records'[a][c] # NoRec =>
              Sourced(a, records[a][c])' /\ Chosen(a, records[a][c])'
      BY <2>1, <2>2 DEF Sourced, Chosen, Own
    <2> QED
      BY <1>1, <1>6, <1>7, <1>9, <1>12, <2>2, <2>3 DEF RecordsOf, Untouched, Opens
  <1>14. EventsOf(a)'
    BY <1>1 DEF EventsOf, Untouched
  <1>15. WorkersOf(a)'
    <2>1. Fits(a, x)'
      BY DEF Fits, InClaim
    <2>2. \A v \in Workers : v # w => Fits(a, workers[a][v])'
      BY <1>4, <1>5 DEF Fits, InClaim
    <2> QED
      BY <1>4, <2>1, <2>2 DEF WorkersOf
  <1>16. SentFits'
    BY <1>6 DEF OnceInv, SentFits, TypeOK
  <1> QED
    BY <1>3, <1>11, <1>13, <1>14, <1>15, <1>16 DEF OnceInv, AgentInv

LEMMA NewRecordOnce ==
    ASSUME TypeOK, IInv, OnceInv, NEW a \in Agents, NEW w \in Workers, NewRecord(a, w)
    PROVE  OnceInv'
  <1> USE DEF stores, client, net, used
  <1> DEFINE me == workers[a][w]
  <1>1. me.pc = "record" /\ CreatesRecord(me.msg.type) /\ InClaim(a, me)
    BY DEF NewRecord, InClaim
  <1>2. /\ me \in WorkerType /\ FitsClaim(a, me) /\ Receiver(me.msg.type) = a
        /\ me.msg \in Messages /\ me.out = NoMsg
    BY <1>1, InHands DEF Fits
  <1>3. /\ created[a] = 0 /\ me.next = FirstState(a)
        /\ \A c \in Conns : events[a][c] = NoEvent
        /\ a = Inviter => me.msg \in sent
    BY <1>1, <1>2 DEF FitsClaim
  <1>4. PICK r : r = [conn |-> 1, state |-> "null", myDID |-> NoDID,
                      theirDID |-> IF me.msg.type = "request" THEN me.msg.did ELSE NoDID]
    OBVIOUS
  <1>5. PICK x : x = [me EXCEPT !.pc = "execute", !.rec = r]
    OBVIOUS
  <1>6. /\ Goto(a, w, x) /\ created' = [created EXCEPT ![a] = 1]
        /\ records' = [records EXCEPT ![a][1] = r]
        /\ UNCHANGED <<sent, delivered, events, actions, callbacks, answered, threads>>
    BY <1>3, <1>4, <1>5 DEF NewRecord
  <1>7. \E t : threads' = [threads EXCEPT ![a] = t]
    BY <1>6 DEF TypeOK
  <1>8. /\ x.pc = "execute" /\ x.msg = me.msg /\ x.next = me.next /\ x.rec = r
        /\ x.out = NoMsg
    BY <1>2, <1>5 DEF WorkerType
  <1>9. a = Inviter => me.msg = Msg("request", r.theirDID) /\ me.msg.type = "request"
    BY <1>1, <1>2, <1>4, AgentsAssumption
    DEF Messages, Msg, CreatesRecord, Receiver, Invitations
  <1>10. Sourced(a, r)
    BY <1>3, <1>4, <1>9 DEF Sourced
  <1>11. a = Inviter => Own(Invitee) # {}
    BY <1>3, <1>9, AgentsAssumption DEF Own, ReplyType
  <1>12. <<"goroutine", w>> \in Claims(a)
    BY <1>1 DEF Claims
  <1>13. FirstState(a) # ReplyState(a) /\ created'[a] = 1
    BY <1>6 DEF FirstState, ReplyState, TypeOK
  <1>14. Sourced(a, x.rec)'
    BY <1>6, <1>8, <1>10 DEF Sourced
  <1>15. FitsClaim(a, x)'
    BY <1>3, <1>4, <1>6, <1>8, <1>13, <1>14 DEF FitsClaim, Leaves, FirstState, ReplyState
  <1>16. InClaim(a, x)
    BY <1>1, <1>8 DEF InClaim
  <1>17. r.myDID = NoDID
    BY <1>4
  <1> QED
    BY <1>3, <1>6, <1>7, <1>8, <1>10, <1>11, <1>12, <1>15, <1>16, <1>17, FirstRecordOnce

LEMMA ImplicitOnce ==
    ASSUME TypeOK, IInv, OnceInv, NEW w \in Workers, CreateImplicitInvitation(w)
    PROVE  OnceInv'
  <1> USE DEF stores, client, net, used
  <1>1. PICK r : r = [NoRec EXCEPT !.conn = 1]
    OBVIOUS
  <1>2. PICK x : x = [IdleWorker EXCEPT !.pc = "execute", !.next = "requested",
                              !.msg = Msg("invitation", NoDID), !.rec = r]
    OBVIOUS
  <1>3. /\ Goto(Invitee, w, x) /\ created[Invitee] = 0 /\ Opening = "implicit"
        /\ created' = [created EXCEPT ![Invitee] = 1]
        /\ records' = [records EXCEPT ![Invitee][1] = r]
        /\ threads' = [threads EXCEPT ![Invitee] = 1] /\ Invitee \in Agents
        /\ UNCHANGED <<sent, delivered, events, actions, callbacks, answered>>
    BY <1>1, <1>2 DEF CreateImplicitInvitation, Agents
  <1>4. r.myDID = NoDID /\ r.state = "null" /\ r.conn = 1
    BY <1>1 DEF NoRec
  <1>5. /\ x.pc = "execute" /\ x.msg = Msg("invitation", NoDID) /\ x.next = "requested"
        /\ x.rec = r /\ x.out = NoMsg
    BY <1>2 DEF IdleWorker
  <1>6. Sourced(Invitee, r) /\ Sourced(Invitee, x.rec)'
    BY <1>4, <1>5, AgentsAssumption DEF Sourced
  <1>7. <<"start", 0>> \in Claims(Invitee)
    BY <1>3 DEF Claims
  <1>8. InClaim(Invitee, x)
    BY <1>5 DEF InClaim, CreatesRecord, Invitations, Msg
  <1>9. created'[Invitee] = 1
    BY <1>3 DEF TypeOK
  <1>10. FitsClaim(Invitee, x)'
    BY <1>4, <1>5, <1>6, <1>9, AgentsAssumption
    DEF FitsClaim, Leaves, FirstState, ReplyState
  <1> QED
    BY <1>3, <1>4, <1>5, <1>6, <1>7, <1>8, <1>10, AgentsAssumption, FirstRecordOnce

\* The message that holds an agent's DID goes out: the claim is spent, and when it is the
\* request, the inviter's claim comes into being.
LEMMA ReplyOnce ==
    ASSUME TypeOK, IInv, OnceInv, NEW a \in Agents, NEW w \in Workers, NEW x, Goto(a, w, x),
           workers[a][w].pc = "act", InClaim(a, workers[a][w]),
           workers[a][w].next = ReplyState(a),
           NEW m, m = workers[a][w].out, sent' = sent \cup {m},
           UNCHANGED <<records, threads, events, actions, callbacks, answered, created,
                       delivered>>,
           InClaim(a, x) => x.pc \in Leaves, Fits(a, x)'
    PROVE  OnceInv'
  <1> DEFINE me == workers[a][w]
  <1>1. /\ me.msg \in Messages /\ Receiver(me.msg.type) = a /\ FitsClaim(a, me)
    BY InHands DEF Fits
  <1>2. /\ m = Msg(ReplyType(a), me.rec.myDID) /\ me.rec.myDID # NoDID /\ created[a] = 1
        /\ \A c \in Conns : records[a][c] # NoRec => records[a][c].myDID = me.rec.myDID
        /\ a = Inviter => me.msg \in sent
    BY <1>1 DEF FitsClaim, Leaves
  <1>3. m.type = ReplyType(a) /\ m.did = me.rec.myDID /\ m.type \notin {"complete"}
    BY <1>2 DEF Msg, ReplyType
  <1>4. <<"goroutine", w>> \in Claims(a)
    BY DEF Claims
  <1>5. Own(a) = {}
    <2>1. SUFFICES ASSUME Own(a) # {} PROVE FALSE
      OBVIOUS
    <2>2. PICK v \in Workers : /\ <<"goroutine", w>> = <<"goroutine", v>>
                               /\ workers[a][v].pc \in Leaves
      BY <1>4, <2>1 DEF OnceInv, AgentInv, ClaimsOf
    <2> QED
      BY <2>2 DEF Leaves
  <1>6. ASSUME NEW v \in Workers, v # w PROVE workers[a][v].pc = "idle"
    <2>1. SUFFICES ASSUME workers[a][v].pc # "idle" PROVE FALSE
      OBVIOUS
    <2>2. <<"goroutine", v>> = <<"goroutine", w>>
      BY <1>4, <1>5, <2>1, OpeningAlone DEF OnceInv, AgentInv, ClaimsOf
    <2> QED
      BY <1>6, <2>2
  <1>7. /\ Own(a)' = {m}
        /\ \A b \in Agents : b # a => Own(b)' = Own(b)
    BY <1>3, <1>5, AgentsAssumption DEF Own, ReplyType, Agents
  <1>8. \A v \in Workers : workers'[a][v] = IF v = w THEN x ELSE workers[a][v]
    BY DEF Goto, TypeOK
  <1>9. ~ Opens(a, m)
    BY <1>3, AgentsAssumption DEF Opens, CreatesRecord, Invitations, ReplyType, Receiver
  <1>10. \A b \in Agents : \A r : Sourced(b, r) => Sourced(b, r)'
    BY DEF Sourced
  <1>11. Asked(a)' <=> Asked(a)
    BY DEF Asked
  <1>12. \A v \in Workers : InClaim(a, workers[a][v])' => v = w
    BY <1>6, <1>8 DEF InClaim
  <1>13. Claims(a)' \subseteq Claims(a)
    <2>1. \A k \in (sent \ delivered)' : Opens(a, k)' => k \in sent \ delivered /\ Opens(a, k)
      BY <1>9 DEF Opens
    <2>2. \A v \in Workers : InClaim(a, workers[a][v])' => InClaim(a, workers[a][v])
      BY <1>12
    <2> QED
      BY <1>11, <2>1, <2>2 DEF Claims
  <1>14. ClaimsOf(a)'
    <2>1. \A z \in Claims(a)' : z = <<"goroutine", w>>
      BY <1>4, <1>13 DEF OnceInv, AgentInv, ClaimsOf
    <2>2. ASSUME NEW z \in Claims(a)' PROVE z = <<"goroutine", w>> /\ workers'[a][w].pc \in Leaves
      <3>1. PICK y : y = <<"goroutine", w>>
        OBVIOUS
      <3>2. y \in Claims(a)' /\ y = <<"goroutine", w>>
        BY <2>1, <3>1
      <3>3. InClaim(a, workers[a][w])'
        BY <3>2 DEF Claims
      <3> QED
        BY <1>8, <2>1, <3>3 DEF InClaim
    <2> QED
      BY <2>1, <2>2 DEF ClaimsOf
  <1>15. RecordsOf(a)'
    <2>1. \A c \in Conns : records[a][c] # NoRec => Chosen(a, records[a][c])'
      BY <1>2, <1>3, <1>7 DEF Chosen
    <2>2. \A k \in (sent \ delivered)' : Opens(a, k)' => created'[a] = 0
      BY <1>9 DEF OnceInv, AgentInv, RecordsOf, Opens
    <2> QED
      BY <1>2, <1>3, <1>7, <1>10, <2>1, <2>2 DEF OnceInv, AgentInv, RecordsOf, FirstState
  <1>16. \A b \in Agents : \A e : EventFits(b, e) => EventFits(b, e)'
    BY <1>10 DEF EventFits, FirstState, ReplyState
  <1>17. \A b \in Agents : EventsOf(b)'
    BY <1>16 DEF OnceInv, AgentInv, EventsOf
  <1>18. WorkersOf(a)'
    BY <1>6, <1>8 DEF WorkersOf, Fits, InClaim
  <1>19. AgentInv(a)'
    BY <1>14, <1>15, <1>17, <1>18 DEF AgentInv
  <1>20. \A b \in Agents : b # a => Same(b)
    BY DEF Same, Goto, TypeOK
  <1>21. CASE a = Inviter
    <2>1. ASSUME NEW b \in Agents, b # a PROVE AgentInv(b)'
      <3>1. b = Invitee /\ m.type = "response"
        BY <1>3, <1>21, <2>1, AgentsAssumption DEF Agents, ReplyType
      <3>2. m.type # ReplyType(b) /\ ~ Opens(b, m)
        BY <3>1 DEF ReplyType, Opens, CreatesRecord, Invitations
      <3> QED
        BY <1>20, <2>1, <3>2, OtherOnce DEF OnceInv
    <2>2. me.msg.type = "request"
      BY <1>1, <1>21, AgentsAssumption DEF InClaim, CreatesRecord, Receiver, Invitations
    <2>3. Own(Invitee) # {} /\ Own(Invitee)' = Own(Invitee)
      BY <1>2, <1>7, <1>21, <2>2, AgentsAssumption DEF Own, ReplyType, Agents
    <2>4. SentFits'
      BY <1>7, <1>21, <2>3 DEF SentFits
    <2> QED
      BY <1>19, <2>1, <2>4 DEF OnceInv
  <1>22. CASE a = Invitee
    <2>1. /\ created[Inviter] = 0 /\ Own(Inviter) = {} /\ Untouched(Inviter)
          /\ Own(Inviter)' = {} /\ Inviter \in Agents /\ Inviter # Invitee
      BY <1>5, <1>7, <1>22, AgentsAssumption DEF OnceInv, SentFits, AgentInv, RecordsOf, Agents
    <2>2. ASSUME NEW v \in Workers PROVE workers[Inviter][v].pc = "idle"
      <3>1. SUFFICES ASSUME workers[Inviter][v].pc # "idle" PROVE FALSE
        OBVIOUS
      <3>2. PICK you : you = workers[Inviter][v]
        OBVIOUS
      <3>3. InClaim(Inviter, you)
        BY <2>1, <3>1, <3>2, OpeningAlone
      <3>4. /\ you.msg \in sent /\ Receiver(you.msg.type) = Inviter /\ you.msg \in Messages
        BY <2>1, <3>1, <3>2, <3>3, InHands DEF Fits, FitsClaim
      <3>5. you.msg.type = "request"
        BY <3>3, <3>4, AgentsAssumption DEF InClaim, CreatesRecord, Receiver, Invitations
      <3> QED
        BY <1>5, <1>22, <3>4, <3>5 DEF Own, ReplyType
    <2>3. UNCHANGED <<workers[Inviter], records[Inviter], threads[Inviter], events[Inviter],
                      actions[Inviter], callbacks[Inviter], created[Inviter]>>
      BY <1>20, <1>22, <2>1 DEF Same
    <2>4. ASSUME NEW z \in Claims(Inviter)' PROVE z = <<"message", m>>
      <3>1. \A k \in (sent \ delivered)' : Opens(Inviter, k)' => k = m
        BY <1>5, <1>22, <2>1
        DEF Opens, CreatesRecord, Receiver, Invitations, Own, ReplyType
      <3>2. \A v \in Workers : ~ InClaim(Inviter, workers[Inviter][v])'
        BY <2>2, <2>3 DEF InClaim
      <3>3. ~ Asked(Inviter)' /\ callbacks'[Inviter] = << >>
        BY <2>1, <2>3 DEF Asked, Untouched
      <3> QED
        BY <2>1, <2>4, <3>1, <3>2, <3>3 DEF Claims
    <2>5. ClaimsOf(Inviter)'
      BY <2>1, <2>4 DEF ClaimsOf
    <2>6. RecordsOf(Inviter)'
      BY <2>1, <2>3 DEF RecordsOf, Untouched
    <2>7. WorkersOf(Inviter)'
      BY <2>2, <2>3 DEF WorkersOf, Fits, InClaim
    <2>8. AgentInv(Inviter)'
      BY <1>17, <2>1, <2>5, <2>6, <2>7 DEF AgentInv
    <2>9. \A k \in sent' : k.type # "complete" \/ k \in sent
      BY <1>3
    <2>10. SentFits'
      BY <1>7, <1>22, <2>1, <2>9 DEF SentFits, OnceInv
    <2> QED
      BY <1>19, <1>22, <2>8, <2>10 DEF OnceInv, Agents
  <1> QED
    BY <1>21, <1>22 DEF Agents

LEMMA ActOnce ==
    ASSUME TypeOK, IInv, OnceInv, NEW a \in Agents, NEW w \in Workers, Act(a, w)
    PROVE  OnceInv'
  <1> USE DEF stores, client, net, used
  <1> DEFINE me == workers[a][w]
  <1>0. PICK next, halt : /\ next = Followup(me.next, me.msg.type)
                          /\ halt = (/\ me.msg.type # "oob-invitation"
                                     /\ CanTriggerActionEvents(me.next, FindNamespace(me.msg.type)))
    OBVIOUS
  <1>1. PICK x : x = IF halt \/ next # "noop"
                     THEN [me EXCEPT !.next = next, !.out = NoMsg,
                                     !.pc = IF halt THEN "event" ELSE "execute"]
                     ELSE IdleWorker
    OBVIOUS
  <1>2. /\ Goto(a, w, x) /\ me.pc = "act"
        /\ sent' = IF me.out = NoMsg THEN sent ELSE sent \cup {me.out}
        /\ UNCHANGED <<records, threads, events, actions, callbacks, answered, created, delivered>>
    BY <1>0, <1>1 DEF Act, Idle
  <1>3. /\ me \in WorkerType /\ Fits(a, me) /\ Receiver(me.msg.type) = a /\ me.msg \in Messages
    BY <1>2, InHands
  <1>4. CASE InClaim(a, me)
    <2>1. /\ FitsClaim(a, me) /\ me.pc \notin Leaves
          /\ FirstState(a) # ReplyState(a)
      BY <1>2, <1>3, <1>4 DEF Fits, Leaves, FirstState, ReplyState
    <2>2. CASE me.next = FirstState(a)
      <3>1. next = ReplyState(a)
        BY <1>0, <1>3, <1>4, <2>2, AgentsAssumption
        DEF Followup, FirstState, ReplyState, InClaim, CreatesRecord, Receiver, Invitations, Agents
      <3>2. /\ x.next = ReplyState(a) /\ x.out = NoMsg /\ x.pc \in {"event", "execute"}
            /\ x.msg = me.msg /\ x.rec = me.rec
        BY <1>1, <1>3, <3>1 DEF WorkerType, ReplyState
      <3>3. me.out = NoMsg
        BY <1>2, <2>1, <2>2 DEF FitsClaim, Leaves
      <3>4. Quiet(a)
        BY <1>2, <3>3 DEF Quiet
      <3>5. InClaim(a, x) /\ FitsClaim(a, x)
        BY <1>2, <1>4, <2>1, <2>2, <3>2 DEF FitsClaim, Leaves, InClaim
      <3>6. Fits(a, x)
        BY <3>2, <3>5 DEF Fits
      <3> QED
        BY <1>2, <1>4, <2>1, <3>4, <3>6, KeepsClaims, QuietOnce
    <2>3. CASE me.next = ReplyState(a)
      <3>1. next = "noop" /\ ~ halt
        BY <1>0, <1>3, <1>4, <2>3, AgentsAssumption
        DEF Followup, FirstState, ReplyState, InClaim, CreatesRecord, Receiver, Invitations, Agents,
            CanTriggerActionEvents, FindNamespace
      <3>2. x = IdleWorker
        BY <1>1, <3>1
      <3>3. me.out = Msg(ReplyType(a), me.rec.myDID)
        BY <1>2, <2>1, <2>3 DEF FitsClaim
      <3>4. me.out # NoMsg
        BY <1>3, <3>3, AbsentAssumption DEF WorkerType, Messages, Msg, ReplyType, MsgTypes, Records
      <3>5. Fits(a, x)' /\ ~ InClaim(a, x)
        BY <3>2 DEF IdleWorker, Fits, InClaim
      <3> QED
        BY <1>2, <1>4, <2>3, <3>4, <3>5, ReplyOnce
    <2> QED
      BY <2>1, <2>2, <2>3 DEF FitsClaim
  <1>5. CASE ~ InClaim(a, me)
    <2>1. FitsAnswer(a, me)
      BY <1>2, <1>3, <1>5 DEF Fits
    <2>2. ~ halt /\ next \in {"completed", "noop"}
      BY <1>0, <2>1 DEF FitsAnswer, CanTriggerActionEvents, Followup
    <2>3. x = IdleWorker \/ /\ x.pc = "execute" /\ x.next = "completed" /\ x.out = NoMsg
                            /\ x.msg = me.msg /\ x.rec = me.rec
      BY <1>1, <1>3, <2>2 DEF WorkerType
    <2>4. Own(Inviter) # {}
      BY <1>2, <1>3, <1>5, <2>1, AgentsAssumption
      DEF FitsAnswer, InClaim, CreatesRecord, Receiver, Invitations, Own, ReplyType, Agents,
          Messages, MsgTypes
    <2>5. Quiet(a)
      BY <1>2, <2>1, <2>4 DEF Quiet, FitsAnswer, Sending
    <2>6. ~ InClaim(a, x)
      BY <1>2, <1>5, <2>3, IdleOnce DEF InClaim
    <2>7. FitsAnswer(a, x) \/ x = IdleWorker
      BY <1>2, <2>1, <2>3 DEF FitsAnswer, Leaves, Sending
    <2>8. Fits(a, x)
      BY <2>3, <2>6, <2>7, IdleOnce DEF Fits
    <2> QED
      BY <1>2, <2>5, <2>6, <2>8, KeepsClaims, QuietOnce
  <1> QED
    BY <1>4, <1>5

\* An error ends a goroutine, or makes the listener give up; its message may be out.
LEMMA FailOnce ==
    ASSUME TypeOK, IInv, OnceInv, NEW a \in Agents, NEW w \in Workers, Fail(a, w)
    PROVE  OnceInv'
  <1> USE DEF stores, client, net, used
  <1> DEFINE me == workers[a][w]
  <1>1. PICK x : x = IF w = Listener /\ me.pc \notin {"abandon", "saveabandoned"}
                     THEN [me EXCEPT !.pc = "abandon"] ELSE IdleWorker
    OBVIOUS
  <1>2. /\ Goto(a, w, x) /\ me.pc # "idle"
        /\ sent' = sent \/ (me.pc = "act" /\ me.out # NoMsg /\ sent' = sent \cup {me.out})
        /\ UNCHANGED <<records, threads, events, actions, callbacks, answered, created, delivered>>
    BY <1>1 DEF Fail, Idle
  <1>3. /\ me \in WorkerType /\ Fits(a, me) /\ Receiver(me.msg.type) = a /\ me.msg \in Messages
    BY <1>2, InHands
  <1>4. x = IdleWorker \/ /\ x.pc = "abandon" /\ x.next = me.next /\ x.out = me.out
                          /\ x.msg = me.msg /\ x.rec = me.rec
    BY <1>1, <1>3 DEF WorkerType
  <1>5. InClaim(a, x) => InClaim(a, me) /\ x.pc \in Leaves
    BY <1>2, <1>4, IdleOnce DEF InClaim, Leaves
  <1>6. InClaim(a, me) /\ x # IdleWorker => FitsClaim(a, x) /\ InClaim(a, x)
    BY <1>2, <1>3, <1>4 DEF Fits, FitsClaim, Leaves, InClaim
  <1>7. ~ InClaim(a, me) /\ x # IdleWorker => FitsAnswer(a, x) /\ ~ InClaim(a, x)
    BY <1>2, <1>3, <1>4 DEF Fits, FitsAnswer, Leaves, Sending, InClaim
  <1>8. Fits(a, x)
    BY <1>4, <1>5, <1>6, <1>7, IdleOnce DEF Fits
  <1>9. CASE sent' = sent
    <2>1. Quiet(a)
      BY <1>2, <1>9 DEF Quiet
    <2> QED
      BY <1>2, <1>5, <1>8, <2>1, KeepsClaims, QuietOnce
  <1>10. CASE me.pc = "act" /\ me.out # NoMsg /\ sent' = sent \cup {me.out}
    <2>1. CASE InClaim(a, me)
      <3>1. me.next = ReplyState(a)
        BY <1>3, <1>10, <2>1 DEF Fits, FitsClaim, Leaves
      <3>2. FitsClaim(a, x) => FitsClaim(a, x)'
        BY <1>2, <1>5, <1>10 DEF FitsClaim, Sourced
      <3>3. Fits(a, x)'
        BY <1>4, <1>5, <1>6, <1>8, <2>1, <3>2, IdleOnce DEF Fits, InClaim, IdleWorker
      <3> QED
        BY <1>2, <1>5, <1>10, <2>1, <3>1, <3>3, ReplyOnce
    <2>2. CASE ~ InClaim(a, me)
      <3>1. FitsAnswer(a, me)
        BY <1>2, <1>3, <2>2 DEF Fits
      <3>2. Own(Inviter) # {}
        BY <1>2, <1>3, <2>2, <3>1, AgentsAssumption
        DEF FitsAnswer, InClaim, CreatesRecord, Receiver, Invitations, Own, ReplyType, Agents,
            Messages, MsgTypes
      <3>3. Quiet(a)
        BY <1>2, <1>10, <3>1, <3>2 DEF Quiet, FitsAnswer, Sending
      <3> QED
        BY <1>2, <1>5, <1>8, <3>3, KeepsClaims, QuietOnce
    <2> QED
      BY <2>1, <2>2
  <1> QED
    BY <1>2, <1>9, <1>10
(***************************************************************************)
(* The client's part: between the goroutine that raises the action event    *)
(* and the one that goes on, the claim is with the client or its callback.  *)
(***************************************************************************)
LEMMA ClientStep ==
    ASSUME TypeOK, OnceInv, NEW a \in Agents, created[a] # 0,
           UNCHANGED <<records, threads, created, sent, delivered>>,
           \A b \in Agents : b # a =>
               UNCHANGED <<events[b], actions[b], callbacks[b], answered[b], workers[b]>>,
           \A c \in Conns \ {1} : events'[a][c] = NoEvent,
           ClaimsOf(a)', EventsOf(a)', WorkersOf(a)'
    PROVE  OnceInv'
  <1>1. ASSUME NEW b \in Agents, b # a PROVE AgentInv(b)'
    BY <1>1, OtherOnce DEF OnceInv, Same
  <1>2. \A b : Own(b)' = Own(b)
    BY DEF Own, ReplyType
  <1>3. \A r : (Sourced(a, r)' <=> Sourced(a, r)) /\ (Chosen(a, r)' <=> Chosen(a, r))
    BY <1>2 DEF Sourced, Chosen
  <1>4. RecordsOf(a)'
    BY <1>2, <1>3 DEF OnceInv, AgentInv, RecordsOf, Opens, FirstState
  <1>5. SentFits'
    BY <1>2 DEF OnceInv, SentFits
  <1> QED
    BY <1>1, <1>4, <1>5 DEF OnceInv, AgentInv

\* While the client or its callback has the claim, nothing else of the agent moves.
LEMMA ClientAlone ==
    ASSUME TypeOK, OnceInv, NEW a \in Agents, NEW y \in Claims(a),
           y = <<"client", 0>> \/ y = <<"callback", 1>>
    PROVE  /\ Own(a) = {}
           /\ \A v \in Workers : workers[a][v].pc = "idle"
           /\ \A m \in sent \ delivered : ~ Opens(a, m)
           /\ \A i \in DOMAIN callbacks[a] : y = <<"callback", 1>> /\ i = 1
           /\ Asked(a) => y = <<"client", 0>>
           /\ created[a] # 0
  <1>1. \A z \in Claims(a) : z = y
    BY DEF OnceInv, AgentInv, ClaimsOf
  <1>2. ASSUME NEW v \in Workers PROVE y # <<"goroutine", v>>
    <2>1. CASE y = <<"client", 0>>
      BY <2>1
    <2>2. CASE y = <<"callback", 1>>
      BY <2>2
    <2> QED
      BY <2>1, <2>2
  <1>3. Own(a) = {}
    <2>1. ASSUME Own(a) # {} PROVE \E v \in Workers : y = <<"goroutine", v>>
      BY <2>1 DEF OnceInv, AgentInv, ClaimsOf
    <2> QED
      BY <1>2, <2>1
  <1>4. ASSUME NEW v \in Workers PROVE workers[a][v].pc = "idle"
    <2>1. SUFFICES ASSUME workers[a][v].pc # "idle" PROVE FALSE
      OBVIOUS
    <2>2. <<"goroutine", v>> \in Claims(a)
      BY <1>3, <2>1, OpeningAlone
    <2> QED
      BY <1>1, <1>2, <2>2
  <1>5. ASSUME NEW m \in sent \ delivered, Opens(a, m) PROVE FALSE
    <2>1. <<"message", m>> \in Claims(a)
      BY <1>5 DEF Claims
    <2>2. <<"message", m>> = y
      BY <1>1, <2>1
    <2>3. CASE y = <<"client", 0>>
      BY <2>2, <2>3
    <2>4. CASE y = <<"callback", 1>>
      BY <2>2, <2>4
    <2> QED
      BY <2>3, <2>4
  <1>6. ASSUME NEW i \in DOMAIN callbacks[a] PROVE y = <<"callback", 1>> /\ i = 1
    <2>1. <<"callback", i>> \in Claims(a)
      BY DEF Claims
    <2>2. <<"callback", i>> = y
      BY <1>1, <2>1
    <2>3. CASE y = <<"client", 0>>
      BY <2>2, <2>3
    <2>4. CASE y = <<"callback", 1>>
      BY <2>2, <2>4
    <2> QED
      BY <2>3, <2>4
  <1>7. Asked(a) => y = <<"client", 0>>
    BY <1>1 DEF Claims
  <1>8. created[a] # 0
    <2>1. SUFFICES ASSUME created[a] = 0 PROVE FALSE
      OBVIOUS
    <2>2. callbacks[a] = << >> /\ ~ Asked(a)
      BY <2>1 DEF OnceInv, AgentInv, RecordsOf, Untouched, Asked
    <2>3. CASE y = <<"client", 0>>
      BY <2>2, <2>3 DEF Claims
    <2>4. CASE y = <<"callback", 1>>
      BY <2>2, <2>4 DEF Claims
    <2> QED
      BY <2>3, <2>4
  <1> QED
    BY <1>3, <1>4, <1>5, <1>6, <1>7, <1>8

\* The claim has gone to the one place named.
LEMMA OnlyClaim ==
    ASSUME NEW a \in Agents, NEW y, Own(a)' = {}, \A z \in Claims(a)' : z = y
    PROVE  ClaimsOf(a)'
  BY DEF ClaimsOf

LEMMA SendEventOnce ==
    ASSUME TypeOK, IInv, OnceInv, NEW a \in Agents, NEW w \in Workers, SendActionEvent(a, w)
    PROVE  OnceInv'
  <1> USE DEF stores, client, net, used
  <1> DEFINE me == workers[a][w]
  <1>1. me.pc = "event" /\ Goto(a, w, IdleWorker)
    BY DEF SendActionEvent, Idle
  <1>2. InClaim(a, me) /\ FitsClaim(a, me)
    BY <1>1, InHands DEF Fits, FitsAnswer
  <1>3. PICK e : e = Event(me)
    OBVIOUS
  <1>4. /\ events' = [events EXCEPT ![a][1] = e]
        /\ actions' = IF a \in Listening
                      THEN [actions EXCEPT ![a] = @ \cup {e}] ELSE actions
        /\ UNCHANGED <<records, threads, callbacks, answered, created, sent, delivered>>
        /\ created[a] # 0 /\ me.pc \notin Leaves
    <2>1. me.rec.conn = 1 /\ created[a] # 0 /\ me.pc \notin Leaves
      BY <1>1, <1>2 DEF FitsClaim, Leaves
    <2>2. events' = [events EXCEPT ![a][me.rec.conn] = e]
      BY <1>3 DEF SendActionEvent
    <2> QED
      BY <1>3, <2>1, <2>2 DEF SendActionEvent
  <1>5. EventFits(a, e)
    BY <1>1, <1>2, <1>3 DEF EventFits, FitsClaim, Leaves, InClaim, Event, ReplyState, FirstState
  <1>6. EventFits(a, e)' /\ \A f : EventFits(a, f) => EventFits(a, f)'
    BY <1>4, <1>5 DEF EventFits, Sourced, ReplyState, FirstState
  <1>7. <<"goroutine", w>> \in Claims(a)
    BY <1>2 DEF Claims
  <1>8. \A z \in Claims(a) : z = <<"goroutine", w>>
    BY <1>7 DEF OnceInv, AgentInv, ClaimsOf
  <1>9. Own(a) = {}
    <2>1. SUFFICES ASSUME Own(a) # {} PROVE FALSE
      OBVIOUS
    <2>2. PICK v \in Workers : /\ <<"goroutine", w>> = <<"goroutine", v>>
                               /\ workers[a][v].pc \in Leaves
      BY <1>7, <2>1 DEF OnceInv, AgentInv, ClaimsOf
    <2> QED
      BY <1>4, <2>2
  <1>10. ASSUME NEW v \in Workers PROVE workers'[a][v] = IdleWorker \/ workers'[a][v].pc = "idle"
    <2>1. CASE v = w
      BY <1>1, <2>1 DEF Goto, TypeOK
    <2>2. CASE v # w
      <3>1. workers'[a][v] = workers[a][v]
        BY <1>1, <2>2 DEF Goto, TypeOK
      <3>2. workers[a][v].pc # "idle" => <<"goroutine", v>> = <<"goroutine", w>>
        BY <1>8, <1>9, OpeningAlone
      <3> QED
        BY <2>2, <3>1, <3>2
    <2> QED
      BY <2>1, <2>2
  <1>11. \A v \in Workers : workers'[a][v].pc = "idle"
    BY <1>10 DEF IdleWorker
  <1>12. ASSUME NEW z \in Claims(a)' PROVE z = <<"client", 0>>
    <2>1. ASSUME z \in Claims(a), z # <<"client", 0>> PROVE FALSE
      <3>1. z = <<"goroutine", w>>
        BY <1>8, <2>1
      <3>2. <<"goroutine", w>> \in Claims(a)'
        BY <1>12, <3>1
      <3>3. InClaim(a, workers[a][w])'
        BY <3>2 DEF Claims
      <3> QED
        BY <1>11, <3>3 DEF InClaim
    <2>2. \A v \in Workers : ~ InClaim(a, workers[a][v])'
      BY <1>11 DEF InClaim
    <2>3. /\ \A m \in (sent \ delivered)' : Opens(a, m)' => m \in sent \ delivered /\ Opens(a, m)
          /\ callbacks'[a] = callbacks[a] /\ created'[a] = created[a]
      BY <1>4 DEF Opens
    <2>4. z \in Claims(a) \/ z = <<"client", 0>>
      BY <1>12, <2>2, <2>3 DEF Claims
    <2> QED
      BY <2>1, <2>4
  <1>13. Own(a)' = {}
    BY <1>4, <1>9 DEF Own, ReplyType
  <1>14. ClaimsOf(a)'
    BY <1>12, <1>13, OnlyClaim
  <1>15. EventsOf(a)'
    <2>1. \A c \in Conns : events'[a][c] = e \/ events'[a][c] = events[a][c]
      BY <1>4 DEF TypeOK
    <2>2. \A f \in actions'[a] : f = e \/ f \in actions[a]
      BY <1>4 DEF TypeOK
    <2> QED
      BY <1>4, <1>6, <2>1, <2>2 DEF OnceInv, AgentInv, EventsOf, EventFits
  <1>16. WorkersOf(a)'
    BY <1>11 DEF WorkersOf, Fits, InClaim
  <1>17. \A c \in Conns \ {1} : events'[a][c] = NoEvent
    BY <1>4 DEF TypeOK, OnceInv, AgentInv, RecordsOf
  <1>18. \A b \in Agents : b # a =>
             UNCHANGED <<events[b], actions[b], callbacks[b], answered[b], workers[b]>>
    BY <1>1, <1>4 DEF TypeOK, Goto
  <1> QED
    BY <1>4, <1>14, <1>15, <1>16, <1>17, <1>18, ClientStep

\* Short sequences.
LEMMA ShortSeq ==
    ASSUME NEW T, NEW s \in Seq(T)
    PROVE  /\ (\A i \in DOMAIN s : FALSE) => s = << >>
           /\ s # << >> => 1 \in DOMAIN s /\ Head(s) = s[1]
           /\ s # << >> /\ (\A i \in DOMAIN s : i = 1) => Tail(s) = << >>
  <1>1. DOMAIN s = 1 .. Len(s) /\ Len(s) \in Nat
    OBVIOUS
  <1>2. \A t \in Seq(T) : (\A i \in DOMAIN t : FALSE) => t = << >>
    OBVIOUS
  <1>3. s # << >> => 1 \in DOMAIN s /\ Head(s) = s[1]
    OBVIOUS
  <1>4. ASSUME s # << >>, \A i \in DOMAIN s : i = 1 PROVE Tail(s) = << >>
    <2>1. Len(s) = 1
      <3>1. SUFFICES ASSUME Len(s) # 1 PROVE FALSE
        OBVIOUS
      <3>2. Len(s) >= 2
        BY <1>1, <1>3, <1>4, <3>1
      <3>3. 2 \in DOMAIN s
        BY <1>1, <3>2
      <3> QED
        BY <1>4, <3>3
    <2>2. PICK t : t = Tail(s)
      OBVIOUS
    <2>3. t \in Seq(T)
      BY <1>4, <2>2
    <2>4. Len(t) = 0
      BY <1>4, <2>1, <2>2
    <2>5. t = << >>
      BY <2>3, <2>4
    <2> QED
      BY <2>2, <2>5
  <1> QED
    BY <1>2, <1>3, <1>4

LEMMA AnswerOnce ==
    ASSUME Once, TypeOK, OnceInv, NEW a \in Agents, NEW e \in actions[a],
           Continue(a, e) \/ Stop(a, e)
    PROVE  OnceInv'
  <1> USE DEF stores, client, net, used
  <1>1. PICK stop \in BOOLEAN : Answer(a, e, stop)
    BY DEF Continue, Stop
  <1>2. PICK b : b = [event |-> e, stop |-> stop]
    OBVIOUS
  <1>3. /\ e.rec.conn \notin answered[a]
        /\ actions' = [actions EXCEPT ![a] = @ \ {e}]
        /\ answered' = [answered EXCEPT ![a] = @ \cup {e.rec.conn}]
        /\ callbacks' = [callbacks EXCEPT ![a] = Append(@, b)]
        /\ UNCHANGED <<records, threads, events, created, sent, delivered, workers>>
    BY <1>1, <1>2 DEF Answer, MayAnswer, Once
  <1>4. EventFits(a, e) /\ b.event = e
    BY <1>2 DEF OnceInv, AgentInv, EventsOf
  <1>5. <<"client", 0>> \in Claims(a)
    BY <1>3 DEF Claims, Asked
  <1>6. PICK y : y = <<"client", 0>>
    OBVIOUS
  <1>7. /\ Own(a) = {} /\ created[a] # 0
        /\ \A v \in Workers : workers[a][v].pc = "idle"
        /\ \A m \in sent \ delivered : ~ Opens(a, m)
        /\ \A i \in DOMAIN callbacks[a] : y = <<"callback", 1>> /\ i = 1
    BY <1>5, <1>6, ClientAlone
  <1>8. callbacks[a] = << >>
    <2>1. \A i \in DOMAIN callbacks[a] : FALSE
      BY <1>6, <1>7
    <2>2. callbacks[a] \in Seq([event : EventData, stop : BOOLEAN])
      BY DEF TypeOK
    <2> QED
      BY <2>1, <2>2, ShortSeq
  <1>9. callbacks'[a] = <<b>>
    BY <1>3, <1>8 DEF TypeOK
  <1>10. \A c \in Conns : events'[a][c] # NoEvent => c = 1 /\ c \in answered'[a]
    BY <1>3, <1>4 DEF OnceInv, AgentInv, RecordsOf, TypeOK, EventFits
  <1>11. \A f \in actions'[a] : f \in actions[a] /\ f.rec.conn \in answered'[a]
    BY <1>3, <1>4 DEF OnceInv, AgentInv, EventsOf, TypeOK, EventFits
  <1>12. ASSUME NEW z \in Claims(a)' PROVE z = <<"callback", 1>>
    <2>1. \A m \in (sent \ delivered)' : ~ Opens(a, m)'
      BY <1>3, <1>7 DEF Opens
    <2>2. \A v \in Workers : ~ InClaim(a, workers[a][v])'
      BY <1>3, <1>7 DEF InClaim
    <2>3. ~ Asked(a)'
      BY <1>10, <1>11 DEF Asked
    <2>4. \A i \in DOMAIN callbacks'[a] : i = 1
      BY <1>9
    <2>5. created'[a] # 0
      BY <1>3, <1>7
    <2> QED
      BY <1>12, <2>1, <2>2, <2>3, <2>4, <2>5 DEF Claims
  <1>13. Own(a)' = {}
    BY <1>3, <1>7 DEF Own, ReplyType
  <1>14. ClaimsOf(a)'
    BY <1>12, <1>13, OnlyClaim
  <1>15. \A f : EventFits(a, f) => EventFits(a, f)'
    BY <1>3 DEF EventFits, Sourced, ReplyState, FirstState
  <1>16. EventsOf(a)'
    <2>1. \A i \in DOMAIN callbacks'[a] : callbacks'[a][i].event = e
      BY <1>4, <1>9
    <2> QED
      BY <1>3, <1>4, <1>11, <1>15, <2>1 DEF OnceInv, AgentInv, EventsOf, EventFits
  <1>17. WorkersOf(a)'
    BY <1>3, <1>7 DEF WorkersOf, Fits, InClaim
  <1>18. \A c \in Conns \ {1} : events'[a][c] = NoEvent
    BY <1>3 DEF OnceInv, AgentInv, RecordsOf
  <1>19. \A d \in Agents : d # a =>
             UNCHANGED <<events[d], actions[d], callbacks[d], answered[d], workers[d]>>
    BY <1>3 DEF TypeOK
  <1> QED
    BY <1>3, <1>7, <1>14, <1>16, <1>17, <1>18, <1>19, ClientStep

\* The goroutine that takes the client's claim up.
LEMMA ResumeOnce ==
    ASSUME TypeOK, OnceInv, NEW a \in Agents, NEW w \in Workers, NEW x, Goto(a, w, x),
           NEW y \in Claims(a), y = <<"client", 0>> \/ y = <<"callback", 1>>,
           NEW e, EventFits(a, e), NEW p,
           x = [pc |-> p, msg |-> e.msg, next |-> e.next, rec |-> e.rec, out |-> NoMsg],
           p \in {"execute", "abandon"},
           UNCHANGED <<records, threads, events, created, sent, delivered>>,
           \A f \in actions'[a] : f \in actions[a], ~ Asked(a)', callbacks'[a] = << >>,
           \A d \in Agents : d # a => UNCHANGED <<actions[d], callbacks[d], answered[d]>>
    PROVE  OnceInv'
  <1>1. /\ Own(a) = {} /\ created[a] # 0
        /\ \A v \in Workers : workers[a][v].pc = "idle"
        /\ \A m \in sent \ delivered : ~ Opens(a, m)
    BY ClientAlone
  <1>2. \A v \in Workers : workers'[a][v] = IF v = w THEN x ELSE workers[a][v]
    BY DEF Goto, TypeOK
  <1>3. x.pc = p /\ x.msg = e.msg /\ x.next = e.next /\ x.rec = e.rec /\ x.out = NoMsg
    OBVIOUS
  <1>4. created[a] = 1
    BY <1>1 DEF OnceInv, AgentInv, RecordsOf
  <1>5. Sourced(a, x.rec)'
    BY <1>3 DEF EventFits, Sourced
  <1>6. InClaim(a, x) /\ FirstState(a) # ReplyState(a)
    BY <1>3 DEF InClaim, EventFits, FirstState, ReplyState
  <1>7. FitsClaim(a, x)'
    BY <1>3, <1>4, <1>5, <1>6 DEF EventFits, FitsClaim, Leaves, FirstState, ReplyState
  <1>8. Fits(a, x)'
    BY <1>6, <1>7 DEF Fits, InClaim
  <1>9. WorkersOf(a)'
    BY <1>1, <1>2, <1>8 DEF WorkersOf, Fits, InClaim
  <1>10. ASSUME NEW z \in Claims(a)' PROVE z = <<"goroutine", w>>
    <2>1. \A m \in (sent \ delivered)' : ~ Opens(a, m)'
      BY <1>1 DEF Opens
    <2>2. \A v \in Workers : InClaim(a, workers[a][v])' => v = w
      BY <1>1, <1>2 DEF InClaim
    <2>3. created'[a] # 0 /\ DOMAIN callbacks'[a] = {}
      BY <1>1
    <2> QED
      BY <1>10, <2>1, <2>2, <2>3 DEF Claims
  <1>11. Own(a)' = {}
    BY <1>1 DEF Own, ReplyType
  <1>12. ClaimsOf(a)'
    BY <1>10, <1>11, OnlyClaim
  <1>13. \A f : EventFits(a, f) => EventFits(a, f)'
    BY DEF EventFits, Sourced, ReplyState, FirstState
  <1>14. EventsOf(a)'
    BY <1>13 DEF OnceInv, AgentInv, EventsOf, EventFits
  <1>15. \A d \in Agents : d # a =>
             UNCHANGED <<events[d], actions[d], callbacks[d], answered[d], workers[d]>>
    BY DEF Goto, TypeOK
  <1>16. \A c \in Conns \ {1} : events'[a][c] = NoEvent
    BY DEF OnceInv, AgentInv, RecordsOf
  <1> QED
    BY <1>1, <1>9, <1>12, <1>14, <1>15, <1>16, ClientStep

LEMMA AcceptOnce ==
    ASSUME Once, TypeOK, IInv, OnceInv, NEW a \in Agents, NEW w \in Workers, NEW c \in Conns,
           Accept(a, w, c)
    PROVE  OnceInv'
  <1> USE DEF stores, client, net, used
  <1>1. PICK e : e = events[a][c]
    OBVIOUS
  <1>2. PICK x : x = [pc |-> "execute", msg |-> e.msg, next |-> e.next,
                      rec |-> e.rec, out |-> NoMsg]
    OBVIOUS
  <1>3. /\ Goto(a, w, x) /\ MayAccept(a, c) /\ c \notin answered[a]
        /\ answered' = [answered EXCEPT ![a] = @ \cup {c}]
        /\ UNCHANGED <<records, threads, events, created, sent, delivered, actions, callbacks>>
    BY <1>1, <1>2 DEF Accept, MayAnswer, Once
  <1>4. e # NoEvent /\ EventFits(a, e) /\ c = 1
    BY <1>1, <1>3 DEF MayAccept, OnceInv, AgentInv, EventsOf, RecordsOf
  <1>5. AwaitedState(e) = FirstState(a)
    BY <1>4, AgentsAssumption DEF AwaitedState, EventFits, ReplyState, FirstState, Agents
  <1>6. records[a][c].state = FirstState(a)
    BY <1>1, <1>3, <1>5 DEF MayAccept, ConnectionRecord, IInv, StoresInv, FirstState
  <1>7. <<"client", 0>> \in Claims(a)
    BY <1>1, <1>3, <1>4, <1>6 DEF Claims, Asked
  <1>8. PICK y : y = <<"client", 0>>
    OBVIOUS
  <1>9. \A i \in DOMAIN callbacks[a] : y = <<"callback", 1>>
    BY <1>7, <1>8, ClientAlone
  <1>10. callbacks'[a] = << >>
    <2>1. \A i \in DOMAIN callbacks[a] : FALSE
      BY <1>8, <1>9
    <2>2. callbacks[a] \in Seq([event : EventData, stop : BOOLEAN])
      BY DEF TypeOK
    <2> QED
      BY <1>3, <2>1, <2>2, ShortSeq
  <1>11. ~ Asked(a)'
    BY <1>3, <1>4 DEF Asked, OnceInv, AgentInv, RecordsOf, EventsOf, EventFits, TypeOK
  <1>12. \A d \in Agents : d # a => UNCHANGED <<actions[d], callbacks[d], answered[d]>>
    BY <1>3 DEF TypeOK
  <1> QED
    BY <1>3, <1>4, <1>7, <1>8, <1>10, <1>11, <1>12, <1>2, ResumeOnce

LEMMA CallbackOnce ==
    ASSUME TypeOK, OnceInv, NEW a \in Agents, TakeCallback(a)
    PROVE  OnceInv'
  <1> USE DEF stores, client, net, used
  <1>1. PICK b : b = Head(callbacks[a])
    OBVIOUS
  <1>2. PICK e : e = b.event
    OBVIOUS
  <1>3. PICK p : p = IF b.stop THEN "abandon" ELSE "execute"
    OBVIOUS
  <1>4. PICK x : x = [pc |-> p, msg |-> e.msg,
                       next |-> e.next, rec |-> e.rec, out |-> NoMsg]
    OBVIOUS
  <1>5. /\ Goto(a, Listener, x) /\ callbacks[a] # << >>
        /\ callbacks' = [callbacks EXCEPT ![a] = Tail(@)]
        /\ UNCHANGED <<records, threads, events, created, sent, delivered, actions, answered>>
    BY <1>1, <1>2, <1>3, <1>4 DEF TakeCallback
  <1>6. PICK q : q = callbacks[a]
    OBVIOUS
  <1>7. q \in Seq([event : EventData, stop : BOOLEAN]) /\ 1 \in DOMAIN q /\ b = q[1]
    <2>1. q \in Seq([event : EventData, stop : BOOLEAN]) /\ q # << >> /\ b = Head(q)
      BY <1>1, <1>5, <1>6 DEF TypeOK
    <2> QED
      BY <2>1, ShortSeq
  <1>8. EventFits(a, e)
    BY <1>2, <1>6, <1>7 DEF OnceInv, AgentInv, EventsOf
  <1>9. PICK y : y = <<"callback", 1>>
    OBVIOUS
  <1>10. y \in Claims(a)
    BY <1>6, <1>7, <1>9 DEF Claims
  <1>11. /\ \A i \in DOMAIN q : i = 1
         /\ Asked(a) => y = <<"client", 0>>
    BY <1>6, <1>9, <1>10, ClientAlone
  <1>12. Tail(q) = << >>
    BY <1>5, <1>6, <1>7, <1>11, ShortSeq
  <1>13. callbacks'[a] = << >>
    BY <1>5, <1>6, <1>12 DEF TypeOK
  <1>14. ~ Asked(a)
    BY <1>9, <1>11
  <1>15. ~ Asked(a)'
    BY <1>5, <1>14 DEF Asked, FirstState
  <1>16. \A d \in Agents : d # a => UNCHANGED <<actions[d], callbacks[d], answered[d]>>
    BY <1>5 DEF TypeOK
  <1> QED
    BY <1>3, <1>5, <1>8, <1>9, <1>10, <1>13, <1>15, <1>16, <1>4, ResumeOnce DEF Workers
(***************************************************************************)
(* A restart takes the claim from its goroutine, but as long as no DID is   *)
(* chosen, the store may still hold what the client needs to claim it again. *)
(***************************************************************************)
LEMMA CrashOnce ==
    ASSUME TypeOK, OnceInv, NEW a \in Agents, Crash(a)
    PROVE  OnceInv'
  <1> USE DEF stores, client, net, used
  <1>1. /\ UNCHANGED <<created, sent, delivered>>
        /\ workers' = [workers EXCEPT ![a] = [w \in Workers |-> IdleWorker]]
        /\ actions' = [actions EXCEPT ![a] = {}]
        /\ callbacks' = [callbacks EXCEPT ![a] = << >>]
        /\ answered' = [answered EXCEPT ![a] = {}]
    BY DEF Crash
  <1>2. \/ UNCHANGED <<records, threads, events>>
        \/ /\ records' = [records EXCEPT ![a] = [c \in Conns |-> NoRec]]
           /\ threads' = [threads EXCEPT ![a] = NoConn]
           /\ events'  = [events EXCEPT ![a] = [c \in Conns |-> NoEvent]]
    BY DEF Crash
  <1>3. ASSUME NEW b \in Agents, b # a PROVE AgentInv(b)'
    <2>1. Same(b)
      BY <1>1, <1>2, <1>3 DEF Same, TypeOK
    <2> QED
      BY <1>1, <2>1, OtherOnce DEF OnceInv
  <1>4. \A b : Own(b)' = Own(b)
    BY <1>1 DEF Own, ReplyType
  <1>5. \A r : (Sourced(a, r)' <=> Sourced(a, r)) /\ (Chosen(a, r)' <=> Chosen(a, r))
    BY <1>1, <1>4 DEF Sourced, Chosen
  <1>6. /\ \A w \in Workers : workers'[a][w] = IdleWorker
        /\ actions'[a] = {} /\ callbacks'[a] = << >> /\ answered'[a] = {}
    BY <1>1 DEF TypeOK
  <1>7. \/ UNCHANGED <<records[a], threads[a], events[a]>>
        \/ /\ \A c \in Conns : records'[a][c] = NoRec /\ events'[a][c] = NoEvent
           /\ threads'[a] = NoConn
    BY <1>2 DEF TypeOK
  <1>8. Untouched(a) => Untouched(a)'
    BY <1>1, <1>6, <1>7 DEF Untouched
  <1>9. RecordsOf(a)'
    <2>1. ASSUME UNCHANGED <<records[a], threads[a], events[a]>> PROVE RecordsOf(a)'
      BY <1>1, <1>4, <1>5, <1>8, <2>1 DEF OnceInv, AgentInv, RecordsOf, Opens, FirstState
    <2>2. ASSUME \A c \in Conns : records'[a][c] = NoRec /\ events'[a][c] = NoEvent
          PROVE  RecordsOf(a)'
      BY <1>1, <1>4, <1>8, <2>2 DEF OnceInv, AgentInv, RecordsOf, Opens
    <2> QED
      BY <1>7, <2>1, <2>2
  <1>10. \A f : EventFits(a, f) => EventFits(a, f)'
    BY <1>1, <1>5 DEF EventFits, ReplyState, FirstState, Sourced
  <1>11. EventsOf(a)'
    BY <1>1, <1>6, <1>7, <1>10 DEF OnceInv, AgentInv, EventsOf, EventFits
  <1>12. WorkersOf(a)'
    BY <1>6 DEF WorkersOf, Fits, InClaim, IdleWorker
  <1>13. \A v \in Workers : ~ InClaim(a, workers[a][v])'
    BY <1>6 DEF InClaim, IdleWorker
  <1>14. CASE created[a] = 0
    <2>1. ~ Asked(a)'
      BY <1>6, <1>8, <1>14 DEF OnceInv, AgentInv, RecordsOf, Untouched, Asked
    <2>2. /\ \A m \in (sent \ delivered)' : Opens(a, m)' => m \in sent \ delivered /\ Opens(a, m)
          /\ DOMAIN callbacks'[a] = {} /\ created'[a] = created[a]
      BY <1>1, <1>6 DEF Opens
    <2>3. Claims(a)' \subseteq Claims(a)
      BY <1>13, <2>1, <2>2 DEF Claims
    <2>4. ClaimsOf(a)'
      BY <1>4, <1>14, <2>3 DEF OnceInv, AgentInv, ClaimsOf, RecordsOf
    <2> QED
      BY <1>3, <1>4, <1>1, <1>9, <1>11, <1>12, <2>4 DEF OnceInv, AgentInv, SentFits
  <1>15. CASE created[a] # 0
    <2>1. /\ \A m \in (sent \ delivered)' : ~ Opens(a, m)'
          /\ DOMAIN callbacks'[a] = {} /\ created'[a] # 0
      BY <1>1, <1>6, <1>15 DEF Opens, OnceInv, AgentInv, RecordsOf
    <2>2. \A z \in Claims(a)' : z = <<"client", 0>> /\ Asked(a)'
      BY <1>13, <2>1 DEF Claims
    <2>3. Own(a) # {} => ~ Asked(a)'
      <3>1. SUFFICES ASSUME Own(a) # {}, NEW c \in Conns, records'[a][c].state = FirstState(a)
                     PROVE  FALSE
        BY <1>6 DEF Asked, FirstState
      <3>2. PICK m \in Own(a) : TRUE
        BY <3>1
      <3>3. records'[a][c] # NoRec
        BY <3>1 DEF NoRec, FirstState
      <3>4. PICK r : r = records[a][c] /\ r = records'[a][c]
        BY <1>7, <3>3
      <3>5. Chosen(a, r) /\ r.myDID = NoDID
        BY <3>1, <3>3, <3>4 DEF OnceInv, AgentInv, RecordsOf
      <3>6. m.did = NoDID
        BY <3>2, <3>5 DEF Chosen
      <3> QED
        BY <3>2, <3>6 DEF OnceInv, AgentInv, RecordsOf
    <2>4. ClaimsOf(a)'
      BY <1>4, <2>2, <2>3 DEF ClaimsOf
    <2> QED
      BY <1>3, <1>4, <1>1, <1>9, <1>11, <1>12, <2>4 DEF OnceInv, AgentInv, SentFits
  <1> QED
    BY <1>14, <1>15

LEMMA InitOnce == Init => OnceInv
  <1> SUFFICES ASSUME Init PROVE OnceInv
    OBVIOUS
  <1>1. \A m \in sent : m = Msg(Opening, NoDID) /\ m.type = Opening /\ Opening # "implicit"
    BY DEF Init, Msg
  <1>2. \A b : Own(b) = {}
    BY <1>1, AgentsAssumption DEF Own, ReplyType, Openings
  <1>4. ASSUME NEW a \in Agents PROVE AgentInv(a)
    <2>1. /\ Untouched(a) /\ created[a] = 0 /\ callbacks[a] = << >>
          /\ \A w \in Workers : workers[a][w].pc = "idle"
      BY <1>4 DEF Init, Untouched, IdleWorker
    <2>2. ~ Asked(a) /\ \A v \in Workers : ~ InClaim(a, workers[a][v])
      BY <2>1 DEF Untouched, Asked, InClaim
    <2>3. ClaimsOf(a)
      <3>1. CASE Opening = "implicit"
        <4>1. \A z \in Claims(a) : z = <<"start", 0>>
          BY <1>1, <2>1, <2>2, <3>1 DEF Claims
        <4> QED
          BY <1>2, <4>1 DEF ClaimsOf
      <3>2. CASE Opening # "implicit"
        <4>1. \A z \in Claims(a) : z = <<"message", Msg(Opening, NoDID)>>
          BY <1>1, <2>1, <2>2, <3>2 DEF Claims
        <4> QED
          BY <1>2, <4>1 DEF ClaimsOf
      <3> QED
        BY <3>1, <3>2
    <2>4. RecordsOf(a)
      BY <1>2, <2>1 DEF RecordsOf, Untouched
    <2>5. EventsOf(a)
      BY <2>1 DEF EventsOf, Untouched
    <2>6. WorkersOf(a)
      BY <2>1 DEF WorkersOf, Fits, InClaim
    <2> QED
      BY <2>3, <2>4, <2>5, <2>6 DEF AgentInv
  <1>5. SentFits
    <2>1. \A m \in sent : m.type # "complete"
      BY <1>1, AgentsAssumption DEF Openings
    <2> QED
      BY <1>2, <1>4, <2>1 DEF SentFits, Init, Agents
  <1> QED
    BY <1>4, <1>5 DEF OnceInv

LEMMA NextOnce == Once /\ TypeOK /\ IInv /\ OnceInv /\ [Next]_vars => OnceInv'
  <1> SUFFICES ASSUME Once, TypeOK, IInv, OnceInv, [Next]_vars PROVE OnceInv'
    OBVIOUS
  <1>1. ASSUME NEW w \in Handlers, CreateImplicitInvitation(w) PROVE OnceInv'
    BY <1>1, ImplicitOnce DEF Workers
  <1>2. ASSUME NEW a \in Agents, NEW w \in Handlers, NEW m \in sent,
               HandleInbound(a, w, m) \/ RejectInbound(a, w, m)
        PROVE  OnceInv'
    BY <1>2, InboundOnce DEF Workers
  <1>3. ASSUME NEW a \in Agents, NEW w \in Workers, Run(a, w) PROVE OnceInv'
    BY <1>3, NewRecordOnce, FetchOnce, PlainOnce, ChooseOnce, ResponseOnce, PersistOnce,
       FollowOnce, ActOnce, SendEventOnce, AbandonOnce, SaveAbandonedOnce
    DEF Run, Execute, Save
  <1>4. ASSUME NEW a \in Agents, NEW w \in Workers, Fail(a, w) PROVE OnceInv'
    BY <1>4, FailOnce
  <1>5. ASSUME NEW a \in Agents, NEW e \in actions[a], Continue(a, e) \/ Stop(a, e)
        PROVE  OnceInv'
    BY <1>5, AnswerOnce
  <1>6. ASSUME NEW a \in Agents, NEW w \in Handlers, NEW c \in Conns, Accept(a, w, c)
        PROVE  OnceInv'
    BY <1>6, AcceptOnce DEF Workers
  <1>7. ASSUME NEW a \in Agents, TakeCallback(a) \/ Crash(a) PROVE OnceInv'
    BY <1>7, CallbackOnce, CrashOnce
  <1>8. ASSUME UNCHANGED vars PROVE OnceInv'
    <2> USE DEF vars, stores, client, net, used
    <2>1. \A b \in Agents : Same(b)
      BY <1>8 DEF Same
    <2>2. \A b \in Agents : AgentInv(b)'
      BY <1>8, <2>1, OtherOnce DEF OnceInv
    <2>3. SentFits'
      BY <1>8 DEF OnceInv, SentFits, Own, ReplyType
    <2> QED
      BY <2>2, <2>3 DEF OnceInv
  <1> QED
    BY <1>1, <1>2, <1>3, <1>4, <1>5, <1>6, <1>7, <1>8 DEF Next

\* Two completed agents hold the same pair of DIDs, whatever fails and whoever restarts.
LEMMA OnceAgree == TypeOK /\ IInv /\ OnceInv => Agreement
  <1> SUFFICES ASSUME TypeOK, IInv, OnceInv, NEW i \in Conns, NEW r \in Conns,
                      records[Invitee][i].state = "completed",
                      records[Inviter][r].state = "completed"
               PROVE  /\ records[Invitee][i].theirDID = records[Inviter][r].myDID
                      /\ records[Inviter][r].theirDID = records[Invitee][i].myDID
    BY DEF Agreement
  <1>1. PICK x, y : x = records[Invitee][i] /\ y = records[Inviter][r]
    OBVIOUS
  <1>2. x # NoRec /\ y # NoRec
    BY <1>1 DEF NoRec
  <1>3. /\ Sourced(Invitee, x) /\ Chosen(Invitee, x)
        /\ Sourced(Inviter, y) /\ Chosen(Inviter, y)
    BY <1>1, <1>2 DEF OnceInv, AgentInv, RecordsOf, Agents
  <1>4. Msg("response", x.theirDID) \in Own(Inviter)
    BY <1>1, <1>3, AgentsAssumption DEF Sourced, Own, ReplyType, Msg
  <1>5. Msg("request", y.theirDID) \in Own(Invitee)
    BY <1>3, AgentsAssumption DEF Sourced, Own, ReplyType, Msg
  <1>6. y.myDID = x.theirDID /\ x.myDID = y.theirDID
    BY <1>3, <1>4, <1>5 DEF Chosen, Msg
  <1> QED
    BY <1>1, <1>6

\* Agreement, for any number of goroutines, records, failures and restarts, with a store
\* that survives them or not: a message is handled once and an event answered once.
THEOREM CompletedAgentsAgree ==
    ASSUME Once
    PROVE  Spec => []Agreement
  <1>1. Init => TypeOK /\ IInv /\ OnceInv
    BY InitType, InitInv, InitOnce
  <1>2. TypeOK /\ IInv /\ OnceInv /\ [Next]_vars => (TypeOK /\ IInv /\ OnceInv)'
    BY NextType, NextInv, NextOnce
  <1> QED
    BY <1>1, <1>2, OnceAgree, PTL DEF Spec
-----------------------------------------------------------------------------
(***************************************************************************)
(* Threads that nothing but restarts disturbs: besides, no write fails, and *)
(* the protocol state store is durable.  Now the two agents take turns.  An *)
(* agent has its claim until its DID is out; the answers then go back and   *)
(* forth one at a time.  So the record a goroutine of the thread has in its *)
(* hands is the one in the store, until the goroutine itself replaces it.   *)
(***************************************************************************)
Orderly == Once /\ Durable /\ MaxFailures = 0

\* The answers of the thread, on the wire or in a goroutine's hands.
Replies ==
    {<<"message", m>> : m \in {m \in sent \ delivered : ~ CreatesRecord(m.type)}}
    \cup {<<"goroutine", p>> : p \in {p \in Agents \X Workers :
             /\ workers[p[1]][p[2]].pc # "idle"
             /\ ~ InClaim(p[1], workers[p[1]][p[2]])}}

\* The invitee learns the DID of the inviter only when it completes.
Fresh(a, r) == a = Invitee /\ r.state # "completed" => r.theirDID = NoDID

Early(a) == {"null", FirstState(a)}
Waiting(a)  == {ReplyState(a), "responded"}

\* The client has been asked and has not been answered for yet.
Pending(a) == Asked(a) \/ DOMAIN callbacks[a] # {}

\* The record of the thread tells how far the agent is, and its thread leads to it.
Stored(a) ==
    LET r == records[a][1]
    IN  /\ created[a] = 1 =>
              /\ IF Own(a) = {} THEN r.state \in Early(a) \cup {ReplyState(a), "abandoned"}
                                ELSE r.state \in Waiting(a) \cup {"completed"}
              /\ r.state \notin Early(a) => threads[a] = 1
              /\ Fresh(a, r)
              /\ r.state = "abandoned" => r.myDID = NoDID
              /\ Pending(a) => r.state \in Early(a)
        /\ \A c \in Conns :
              permanent[a][c] # NoRec =>
                  /\ c = 1 /\ created[a] = 1
                  /\ r = permanent[a][c] /\ r.state = "completed"

\* An action event is raised for a record that its thread leads to.
Raised(a, e) == threads[a] = 1 /\ Fresh(a, e.rec)

RaisedBy(a) ==
    /\ \A c \in Conns : events[a][c] # NoEvent => Raised(a, events[a][c])
    /\ \A e \in actions[a] : Raised(a, e)
    /\ \A i \in DOMAIN callbacks[a] : Raised(a, callbacks[a][i].event)

\* What a goroutine knows of the record in the store.
SteadyClaim(a, me) ==
    LET r == records[a][1]
    IN  /\ me.pc \in Leaves => Own(a) = {} /\ threads[a] = 1
        /\ me.pc # "record" =>
              /\ created[a] = 1
              /\ IF me.next = ReplyState(a) /\ me.pc = "act" THEN r.state = ReplyState(a)
                                                             ELSE r.state \in Early(a)
        /\ me.next = ReplyState(a) \/ me.pc = "act" => threads[a] = 1
        /\ a = Invitee => me.rec.theirDID = NoDID
        /\ me.pc = "saveabandoned" => me.rec.myDID = NoDID

SteadyAnswer(a, me) ==
    LET r == records[a][1]
    IN  /\ me.pc \notin Leaves
        /\ IF me.next = "completed" /\ me.pc \in {"permanent", "did", "act"}
           THEN r.state = "completed" /\ (me.pc = "permanent" => me.rec = r)
           ELSE r.state \in Waiting(a)
        /\ Fresh(a, me.rec)
        /\ me.pc = "execute" => me.rec.state # "completed"

Steady(a, me) ==
    me.pc # "idle" => IF InClaim(a, me) THEN SteadyClaim(a, me) ELSE SteadyAnswer(a, me)

Paired == created[Invitee] = 1 /\ records[Invitee][1].state = "completed"

AgentSteady(a) == Stored(a) /\ RaisedBy(a) /\ \A w \in Workers : Steady(a, workers[a][w])

OneReply == \A x, y \in Replies : x = y

CompleteSent == \A m \in sent : m.type = "complete" => Paired

OrderlyInv == (\A a \in Agents : AgentSteady(a)) /\ OneReply /\ CompleteSent
-----------------------------------------------------------------------------
\* A goroutine that handles an answer follows a response.
LEMMA AnswersFollow ==
    ASSUME TypeOK, IInv, OnceInv
    PROVE  /\ \A a \in Agents, w \in Workers :
                  workers[a][w].pc # "idle" /\ ~ InClaim(a, workers[a][w]) => Own(Inviter) # {}
           /\ Replies # {} => Own(Inviter) # {}
  <1>1. ASSUME NEW a \in Agents, NEW w \in Workers, workers[a][w].pc # "idle",
               ~ InClaim(a, workers[a][w])
        PROVE  Own(Inviter) # {}
    <2>1. PICK me : me = workers[a][w]
      OBVIOUS
    <2>2. FitsAnswer(a, me) /\ Receiver(me.msg.type) = a /\ me.msg \in Messages
      BY <1>1, <2>1, InHands DEF Fits
    <2> QED
      BY <1>1, <2>1, <2>2, AgentsAssumption
      DEF FitsAnswer, InClaim, CreatesRecord, Receiver, Invitations, Own, ReplyType, Agents,
          Messages, MsgTypes
  <1>2. ASSUME NEW m \in sent \ delivered, ~ CreatesRecord(m.type) PROVE Own(Inviter) # {}
    <2>1. m.type \in MsgTypes
      BY DEF TypeOK, Messages
    <2> QED
      BY <1>2, <2>1, AgentsAssumption
      DEF OnceInv, SentFits, CreatesRecord, Invitations, MsgTypes, Own, ReplyType
  <1>3. Replies # {} => Own(Inviter) # {}
    BY <1>1, <1>2 DEF Replies
  <1> QED
    BY <1>1, <1>3

\* An agent that has sent its DID has no claim.
LEMMA OwnClaimsNothing ==
    ASSUME OnceInv, OrderlyInv, NEW a \in Agents, Own(a) # {}
    PROVE  Claims(a) = {} /\ ~ Pending(a)
  <1>1. ASSUME NEW y \in Claims(a) PROVE FALSE
    <2>1. PICK w \in Workers : y = <<"goroutine", w>> /\ workers[a][w].pc \in Leaves
      BY <1>1 DEF OnceInv, AgentInv, ClaimsOf
    <2>2. <<"goroutine", w>> \in Claims(a)
      BY <2>1
    <2>3. InClaim(a, workers[a][w])
      BY <2>2 DEF Claims
    <2> QED
      BY <2>1, <2>3 DEF OrderlyInv, AgentSteady, Steady, SteadyClaim, Leaves
  <1>2. ~ Asked(a)
    BY <1>1 DEF Claims
  <1>3. \A i \in DOMAIN callbacks[a] : FALSE
    BY <1>1 DEF Claims
  <1> QED
    BY <1>1, <1>2, <1>3 DEF Pending

\* A claim in a goroutine's hands is with nobody else.
LEMMA BusyNotPending ==
    ASSUME OnceInv, NEW a \in Agents, NEW w \in Workers, InClaim(a, workers[a][w])
    PROVE  ~ Pending(a)
  <1>1. PICK y : y = <<"goroutine", w>>
    OBVIOUS
  <1>2. \A z \in Claims(a) : z = y
    BY <1>1 DEF Claims, OnceInv, AgentInv, ClaimsOf
  <1>3. <<"client", 0>> \notin Claims(a)
    <2>1. <<"client", 0>> # y
      BY <1>1
    <2> QED
      BY <1>2, <2>1
  <1>4. ASSUME NEW i \in DOMAIN callbacks[a] PROVE FALSE
    <2>1. <<"callback", i>> # y
      BY <1>1
    <2>2. <<"callback", i>> \in Claims(a)
      BY DEF Claims
    <2> QED
      BY <1>2, <2>1, <2>2
  <1>5. ~ Asked(a)
    BY <1>3 DEF Claims
  <1> QED
    BY <1>4, <1>5 DEF Pending

\* An agent has at most one goroutine at work.
LEMMA OneGoroutine ==
    ASSUME TypeOK, IInv, OnceInv, OrderlyInv, NEW a \in Agents, NEW w \in Workers,
           workers[a][w].pc # "idle", NEW v \in Workers, v # w
    PROVE  workers[a][v].pc = "idle"
  <1> SUFFICES ASSUME workers[a][v].pc # "idle" PROVE FALSE
    OBVIOUS
  <1>1. \A u \in Workers : workers[a][u].pc # "idle" /\ ~ InClaim(a, workers[a][u]) => Own(a) # {}
    BY DEF OnceInv, AgentInv, WorkersOf, Fits, FitsAnswer
  <1>2. Own(a) # {} => \A u \in Workers : ~ InClaim(a, workers[a][u])
    BY OwnClaimsNothing DEF Claims
  <1>3. CASE Own(a) # {}
    <2>1. PICK p, q : p = <<a, w>> /\ q = <<a, v>>
      OBVIOUS
    <2>2. <<"goroutine", p>> \in Replies /\ <<"goroutine", q>> \in Replies
      <3>1. p \in Agents \X Workers /\ q \in Agents \X Workers
        BY <2>1
      <3> QED
        BY <1>2, <1>3, <2>1, <3>1 DEF Replies
    <2>3. <<"goroutine", p>> = <<"goroutine", q>>
      BY <2>2 DEF OrderlyInv, OneReply
    <2> QED
      BY <2>1, <2>3
  <1>4. CASE Own(a) = {}
    <2>1. <<"goroutine", w>> \in Claims(a) /\ <<"goroutine", v>> \in Claims(a)
      BY <1>4, OpeningAlone
    <2>2. <<"goroutine", w>> = <<"goroutine", v>>
      BY <2>1 DEF OnceInv, AgentInv, ClaimsOf
    <2> QED
      BY <2>2
  <1> QED
    BY <1>3, <1>4

\* An agent that does nothing is as steady as before.
LEMMA OtherSteady ==
    ASSUME NEW b, AgentSteady(b), Same(b), permanent'[b] = permanent[b], Own(b)' = Own(b)
    PROVE  AgentSteady(b)'
  <1>1. Stored(b)'
    <2>1. Pending(b)' <=> Pending(b)
      BY DEF Pending, Asked, Same, FirstState
    <2> QED
      BY <2>1 DEF AgentSteady, Stored, Same, Early, Waiting, FirstState, ReplyState, Fresh
  <1>2. RaisedBy(b)'
    BY DEF AgentSteady, RaisedBy, Raised, Fresh, Same
  <1>3. \A w \in Workers : Steady(b, workers[b][w])'
    BY DEF AgentSteady, Steady, SteadyClaim, SteadyAnswer, InClaim, Same, Early, Waiting,
           FirstState, ReplyState, Fresh
  <1> QED
    BY <1>1, <1>2, <1>3 DEF AgentSteady

\* Answers that were there before.
LEMMA KeepsReplies ==
    ASSUME TypeOK, NEW a \in Agents, NEW w \in Workers, NEW x, Goto(a, w, x),
           \A m \in (sent \ delivered)' : CreatesRecord(m.type) \/ m \in sent \ delivered,
           x.pc # "idle" /\ ~ InClaim(a, x) =>
               workers[a][w].pc # "idle" /\ ~ InClaim(a, workers[a][w])
    PROVE  Replies' \subseteq Replies
  <1>1. \A b \in Agents, v \in Workers :
            workers'[b][v] = IF b = a /\ v = w THEN x ELSE workers[b][v]
    BY DEF Goto, TypeOK
  <1>2. ASSUME NEW p \in Agents \X Workers, workers'[p[1]][p[2]].pc # "idle",
               ~ InClaim(p[1], workers[p[1]][p[2]])'
        PROVE  workers[p[1]][p[2]].pc # "idle" /\ ~ InClaim(p[1], workers[p[1]][p[2]])
    <2>1. PICK b \in Agents, v \in Workers : p = <<b, v>>
      OBVIOUS
    <2>2. p[1] = b /\ p[2] = v
      BY <2>1
    <2> QED
      BY <1>1, <1>2, <2>2 DEF InClaim
  <1> QED
    BY <1>2 DEF Replies

\* A goroutine that leaves the stores and the client alone.
LEMMA SteadyStep ==
    ASSUME TypeOK, OrderlyInv, NEW a \in Agents, NEW w \in Workers, NEW x, Goto(a, w, x),
           UNCHANGED <<records, threads, events, permanent, actions, callbacks, answered,
                       created>>,
           \A b \in Agents : Own(b)' = Own(b),
           \A m \in sent' \ sent : m.type = "complete" => Paired,
           Steady(a, x), OneReply'
    PROVE  OrderlyInv'
  <1>1. \A b \in Agents : b # a => Same(b)
    BY DEF Same, Goto, TypeOK
  <1>2. \A b \in Agents : b # a => AgentSteady(b)'
    BY <1>1, OtherSteady DEF OrderlyInv
  <1>3. Pending(a)' <=> Pending(a)
    BY DEF Pending, Asked, FirstState
  <1>4. Stored(a)'
    BY <1>3 DEF OrderlyInv, AgentSteady, Stored, Early, Waiting, FirstState, ReplyState, Fresh
  <1>5. RaisedBy(a)'
    BY DEF OrderlyInv, AgentSteady, RaisedBy, Raised, Fresh
  <1>6. \A me : Steady(a, me) => Steady(a, me)'
    BY DEF Steady, SteadyClaim, SteadyAnswer, InClaim, Early, Waiting, FirstState, ReplyState,
           Fresh
  <1>7. \A v \in Workers : workers'[a][v] = IF v = w THEN x ELSE workers[a][v]
    BY DEF Goto, TypeOK
  <1>8. \A v \in Workers : Steady(a, workers[a][v])'
    BY <1>6, <1>7 DEF OrderlyInv, AgentSteady
  <1>9. CompleteSent'
    BY DEF OrderlyInv, CompleteSent, Paired
  <1> QED
    BY <1>2, <1>4, <1>5, <1>8, <1>9 DEF OrderlyInv, AgentSteady

\* What a goroutine knows and does, in one place.
LEMMA AtWork ==
    ASSUME TypeOK, IInv, OnceInv, OrderlyInv, NEW a \in Agents, NEW w \in Workers,
           workers[a][w].pc # "idle"
    PROVE  LET me == workers[a][w]
           IN  /\ me \in WorkerType /\ me.msg \in Messages /\ me.rec \in Records
               /\ Receiver(me.msg.type) = a
               /\ me.pc \in Sending => me.rec.state = me.next
               /\ me.pc \in {"record", "execute"} => me.out = NoMsg
               /\ InClaim(a, me) => FitsClaim(a, me) /\ SteadyClaim(a, me) /\ ~ Pending(a)
               /\ ~ InClaim(a, me) => FitsAnswer(a, me) /\ SteadyAnswer(a, me)
  BY InHands, BusyNotPending DEF Fits, OrderlyInv, AgentSteady, Steady

LEMMA InboundSteady ==
    ASSUME Once, TypeOK, IInv, OnceInv, OrderlyInv, NEW a \in Agents, NEW w \in Workers,
           NEW m \in sent
    PROVE  /\ HandleInbound(a, w, m) => OrderlyInv'
           /\ RejectInbound(a, w, m) => OrderlyInv'
  <1> USE DEF stores, client, net, used
  <1>1. ASSUME HandleInbound(a, w, m) PROVE OrderlyInv'
    <2>1. PICK x : x = [IdleWorker EXCEPT !.pc = "record", !.msg = m,
                                          !.next = StateFromMsgType(m.type)]
      OBVIOUS
    <2>2. /\ Goto(a, w, x) /\ workers[a][w].pc = "idle" /\ delivered' = delivered \cup {m}
          /\ UNCHANGED <<records, threads, events, permanent, actions, callbacks, answered,
                         created, sent>>
          /\ m \notin delivered /\ Receiver(m.type) = a /\ m.type \in MsgTypes
          /\ CanTransitionTo(CurrentState(a), StateFromMsgType(m.type))
      BY <1>1, <2>1 DEF HandleInbound, Once, Deliverable, TypeOK, Messages
    <2>3. /\ x.pc = "record" /\ x.msg = m /\ x.next = StateFromMsgType(m.type) /\ x.rec = NoRec
      BY <2>1 DEF IdleWorker
    <2>4. \A b \in Agents : Own(b)' = Own(b)
      BY <2>2 DEF Own, ReplyType
    <2>5. CASE CreatesRecord(m.type)
      <3>1. InClaim(a, x) /\ x.next = FirstState(a) /\ FirstState(a) # ReplyState(a)
        BY <2>2, <2>3, <2>5, AgentsAssumption
        DEF InClaim, CreatesRecord, StateFromMsgType, FirstState, ReplyState, Receiver, Invitations
      <3>2. Steady(a, x)
        BY <2>3, <3>1 DEF Steady, SteadyClaim, Leaves, NoRec
      <3>3. Replies' \subseteq Replies
        BY <2>2, <3>1, KeepsReplies
      <3> QED
        BY <2>2, <2>4, <3>2, <3>3, SteadyStep DEF OrderlyInv, OneReply
    <2>6. CASE ~ CreatesRecord(m.type)
      <3>1. ~ InClaim(a, x)
        BY <2>3, <2>6 DEF InClaim
      <3>2. CurrentState(a) \in Waiting(a)
        BY <2>2, <2>6, AgentsAssumption
        DEF CanTransitionTo, StateFromMsgType, CreatesRecord, MsgTypes, Invitations, Receiver,
            Waiting, ReplyState
      <3>3. ThreadRecord(a) # NoRec
        BY <3>2 DEF CurrentState, Waiting, ReplyState, NoRec
      <3>4. records[a][1].state \in Waiting(a)
        BY <3>2, <3>3, ThreadOnce DEF CurrentState
      <3>5. Steady(a, x)
        BY <2>3, <3>1, <3>4 DEF Steady, SteadyAnswer, Leaves, NoRec, Fresh
      <3>6. <<"message", m>> \in Replies
        BY <2>2, <2>6 DEF Replies
      <3>7. PICK y : y = <<"message", m>>
        OBVIOUS
      <3>8. \A z \in Replies : z = y
        BY <3>6, <3>7 DEF OrderlyInv, OneReply
      <3>9. ASSUME NEW k \in (sent \ delivered)', ~ CreatesRecord(k.type) PROVE FALSE
        <4>1. <<"message", k>> \in Replies /\ k # m
          BY <2>2, <3>9 DEF Replies
        <4> QED
          BY <3>7, <3>8, <4>1
      <3>10. ASSUME NEW p \in Agents \X Workers, workers'[p[1]][p[2]].pc # "idle",
                    ~ InClaim(p[1], workers[p[1]][p[2]])'
             PROVE  p = <<a, w>>
        <4>1. PICK b \in Agents, v \in Workers : p = <<b, v>>
          OBVIOUS
        <4>2. SUFFICES ASSUME b # a \/ v # w PROVE FALSE
          BY <4>1
        <4>3. workers'[b][v] = workers[b][v]
          BY <2>2, <4>2 DEF Goto, TypeOK
        <4>4. p \in Agents \X Workers /\ p[1] = b /\ p[2] = v
          BY <4>1
        <4>5. <<"goroutine", p>> \in Replies
          BY <3>10, <4>3, <4>4 DEF Replies, InClaim
        <4> QED
          BY <3>7, <3>8, <4>5
      <3>11. \A z \in Replies' : z = <<"goroutine", <<a, w>>>>
        BY <3>9, <3>10 DEF Replies
      <3>12. OneReply'
        BY <3>11 DEF OneReply
      <3> QED
        BY <2>2, <2>4, <3>5, <3>12, SteadyStep
    <2> QED
      BY <2>5, <2>6
  <1>2. ASSUME RejectInbound(a, w, m) PROVE OrderlyInv'
    <2>1. PICK x : x = workers[a][w]
      OBVIOUS
    <2>2. /\ Goto(a, w, x) /\ delivered' = delivered \cup {m}
          /\ UNCHANGED <<records, threads, events, permanent, actions, callbacks, answered,
                         created, sent>>
      <3>1. workers = [b \in Agents |-> [v \in Workers |-> workers[b][v]]]
        BY DEF TypeOK
      <3> QED
        BY <1>2, <2>1, <3>1 DEF RejectInbound, Goto
    <2>3. \A b \in Agents : Own(b)' = Own(b)
      BY <2>2 DEF Own, ReplyType
    <2>4. Replies' \subseteq Replies
      BY <2>1, <2>2, KeepsReplies
    <2>5. Steady(a, x)
      BY <2>1 DEF OrderlyInv, AgentSteady
    <2> QED
      BY <2>2, <2>3, <2>4, <2>5, SteadyStep DEF OrderlyInv, OneReply
  <1> QED
    BY <1>1, <1>2

LEMMA FetchSteady ==
    ASSUME TypeOK, IInv, OnceInv, OrderlyInv, NEW a \in Agents, NEW w \in Workers,
           FetchRecord(a, w)
    PROVE  OrderlyInv'
  <1> USE DEF stores, client, net, used
  <1> DEFINE me == workers[a][w]
  <1>1. PICK r : r = ThreadRecord(a)
    OBVIOUS
  <1>2. PICK x : x = IF r = NoRec THEN IdleWorker ELSE [me EXCEPT !.pc = "execute", !.rec = r]
    OBVIOUS
  <1>3. /\ Goto(a, w, x) /\ me.pc = "record" /\ ~ InClaim(a, me)
        /\ UNCHANGED <<records, threads, events, permanent, actions, callbacks, answered,
                       created, sent, delivered>>
    BY <1>1, <1>2 DEF FetchRecord, Idle, InClaim
  <1>4. \A b \in Agents : Own(b)' = Own(b)
    BY <1>3 DEF Own, ReplyType
  <1>5. Replies' \subseteq Replies
    BY <1>3, KeepsReplies
  <1>6. me \in WorkerType /\ SteadyAnswer(a, me)
    BY <1>3, AtWork
  <1>7. x = IdleWorker \/ /\ r # NoRec /\ x.pc = "execute" /\ x.msg = me.msg
                          /\ x.next = me.next /\ x.rec = r
    BY <1>2, <1>6 DEF WorkerType
  <1>8. r # NoRec => Fresh(a, r) /\ r = records[a][1]
    BY <1>1, ThreadOnce DEF OrderlyInv, AgentSteady, Stored
  <1>9. r # NoRec => r.state # "completed"
    BY <1>3, <1>6, <1>8 DEF SteadyAnswer, Waiting, ReplyState
  <1>10. x # IdleWorker => ~ InClaim(a, x) /\ SteadyAnswer(a, x)
    BY <1>3, <1>6, <1>7, <1>8, <1>9 DEF SteadyAnswer, Leaves, InClaim
  <1>11. Steady(a, x)
    BY <1>10 DEF Steady, IdleWorker
  <1> QED
    BY <1>3, <1>4, <1>5, <1>11, SteadyStep DEF OrderlyInv, OneReply

LEMMA PlainSteady ==
    ASSUME TypeOK, IInv, OnceInv, OrderlyInv, NEW a \in Agents, NEW w \in Workers,
           ExecutePlain(a, w)
    PROVE  OrderlyInv'
  <1> USE DEF stores, client, net, used
  <1> DEFINE me == workers[a][w]
  <1>1. PICK x : x = [me EXCEPT !.pc = "persist", !.rec.state = me.next]
    OBVIOUS
  <1>2. /\ Goto(a, w, x) /\ me.pc = "execute"
        /\ UNCHANGED <<records, threads, events, permanent, actions, callbacks, answered,
                       created, sent, delivered>>
    BY <1>1 DEF ExecutePlain
  <1>3. /\ me \in WorkerType /\ me.rec \in Records /\ Receiver(me.msg.type) = a
        /\ InClaim(a, me) => SteadyClaim(a, me)
        /\ ~ InClaim(a, me) => SteadyAnswer(a, me)
    BY <1>2, AtWork
  <1>4. /\ x.pc = "persist" /\ x.msg = me.msg /\ x.next = me.next
        /\ x.rec.state = me.next /\ x.rec.theirDID = me.rec.theirDID
    BY <1>1, <1>3 DEF WorkerType, Records
  <1>5. InClaim(a, x) <=> InClaim(a, me)
    BY <1>2, <1>4 DEF InClaim
  <1>6. InClaim(a, me) => SteadyClaim(a, x)
    BY <1>2, <1>3, <1>4 DEF SteadyClaim, Leaves
  <1>7. ~ InClaim(a, me) => SteadyAnswer(a, x)
    BY <1>2, <1>3, <1>4 DEF SteadyAnswer, Leaves, Fresh
  <1>8. Steady(a, x)
    BY <1>5, <1>6, <1>7 DEF Steady
  <1>9. Replies' \subseteq Replies
    BY <1>2, <1>5, KeepsReplies
  <1>10. \A b \in Agents : Own(b)' = Own(b)
    BY <1>2 DEF Own, ReplyType
  <1> QED
    BY <1>2, <1>8, <1>9, <1>10, SteadyStep DEF OrderlyInv, OneReply

LEMMA ChooseSteady ==
    ASSUME TypeOK, IInv, OnceInv, OrderlyInv, NEW a \in Agents, NEW w \in Workers,
           ExecuteInvitation(a, w) \/ ExecuteRequest(a, w)
    PROVE  OrderlyInv'
  <1> USE DEF stores, client, net, used
  <1> DEFINE me == workers[a][w]
  <1>1. /\ me.pc = "execute" /\ InClaim(a, me)
        /\ UNCHANGED <<records, threads, events, permanent, actions, callbacks, answered,
                       created, sent, delivered>>
    BY DEF ExecuteInvitation, ExecuteRequest, InClaim, CreatesRecord
  <1>2. me \in WorkerType /\ me.rec \in Records /\ SteadyClaim(a, me) /\ Receiver(me.msg.type) = a
    BY <1>1, AtWork
  <1>3. PICK x : /\ Goto(a, w, x) /\ x.pc = "persist" /\ x.msg = me.msg /\ x.next = me.next
                 /\ a = Invitee => x.rec.theirDID = me.rec.theirDID
    <2>1. CASE ExecuteInvitation(a, w)
      <3>1. PICK d : d = <<a, minted[a] + 1>>
        OBVIOUS
      <3>2. PICK x : x = [me EXCEPT !.pc = "persist", !.out = Msg("request", d),
                                    !.rec.state = "requested", !.rec.myDID = d]
        OBVIOUS
      <3>3. Goto(a, w, x)
        BY <2>1, <3>1, <3>2 DEF ExecuteInvitation
      <3>4. /\ x.pc = "persist" /\ x.msg = me.msg /\ x.next = me.next
            /\ x.rec.theirDID = me.rec.theirDID
        BY <1>2, <3>2 DEF WorkerType, Records
      <3> QED
        BY <3>3, <3>4
    <2>2. CASE ExecuteRequest(a, w)
      <3>1. PICK d : d = <<a, minted[a] + 1>>
        OBVIOUS
      <3>2. PICK x : x = [me EXCEPT !.pc = "persist", !.out = Msg("response", d),
                                    !.rec.state = "responded", !.rec.myDID = d,
                                    !.rec.theirDID = me.msg.did]
        OBVIOUS
      <3>3. Goto(a, w, x)
        BY <2>2, <3>1, <3>2 DEF ExecuteRequest
      <3>4. a # Invitee
        BY <1>2, <2>2, AgentsAssumption DEF ExecuteRequest, Receiver
      <3>5. x.pc = "persist" /\ x.msg = me.msg /\ x.next = me.next
        BY <1>2, <3>2 DEF WorkerType
      <3> QED
        BY <3>3, <3>4, <3>5
    <2> QED
      BY <2>1, <2>2
  <1>4. InClaim(a, x) /\ SteadyClaim(a, x)
    BY <1>1, <1>2, <1>3 DEF SteadyClaim, Leaves, InClaim
  <1>5. Steady(a, x)
    BY <1>4 DEF Steady
  <1>6. Replies' \subseteq Replies
    BY <1>1, <1>3, <1>4, KeepsReplies
  <1>7. \A b \in Agents : Own(b)' = Own(b)
    BY <1>1 DEF Own, ReplyType
  <1> QED
    BY <1>1, <1>3, <1>5, <1>6, <1>7, SteadyStep DEF OrderlyInv, OneReply

LEMMA ResponseSteady ==
    ASSUME TypeOK, IInv, OnceInv, OrderlyInv, NEW a \in Agents, NEW w \in Workers,
           ExecuteResponse(a, w)
    PROVE  OrderlyInv'
  <1> USE DEF stores, client, net, used
  <1> DEFINE me == workers[a][w]
  <1>1. PICK r : r = ThreadRecord(a)
    OBVIOUS
  <1>2. PICK x : x = IF r.myDID = NoDID THEN IdleWorker
                     ELSE [me EXCEPT !.pc = "persist", !.out = Msg("complete", NoDID),
                               !.rec = [r EXCEPT !.state = "completed",
                                                 !.theirDID = me.msg.did]]
    OBVIOUS
  <1>3. /\ Goto(a, w, x) /\ me.pc = "execute" /\ ~ InClaim(a, me)
        /\ UNCHANGED <<records, threads, events, permanent, actions, callbacks, answered,
                       created, sent, delivered>>
    BY <1>1, <1>2 DEF ExecuteResponse, Idle, InClaim, CreatesRecord, Invitations
  <1>4. me \in WorkerType /\ SteadyAnswer(a, me) /\ r \in Records
    BY <1>1, <1>3, AtWork, ReadType
  <1>5. x = IdleWorker \/ /\ x.pc = "persist" /\ x.msg = me.msg /\ x.next = me.next
                          /\ x.rec.state = "completed"
    BY <1>2, <1>4 DEF WorkerType, Records
  <1>6. x # IdleWorker => ~ InClaim(a, x) /\ SteadyAnswer(a, x)
    BY <1>3, <1>4, <1>5 DEF SteadyAnswer, Leaves, InClaim, Fresh
  <1>7. Steady(a, x)
    BY <1>6 DEF Steady, IdleWorker
  <1>8. Replies' \subseteq Replies
    BY <1>3, KeepsReplies
  <1>9. \A b \in Agents : Own(b)' = Own(b)
    BY <1>3 DEF Own, ReplyType
  <1> QED
    BY <1>3, <1>7, <1>8, <1>9, SteadyStep DEF OrderlyInv, OneReply

\* A goroutine that writes to the stores, while the others of its agent are idle.
LEMMA StoreStep ==
    ASSUME TypeOK, IInv, OnceInv, OrderlyInv, NEW a \in Agents, NEW w \in Workers, NEW x,
           Goto(a, w, x), workers[a][w].pc # "idle",
           UNCHANGED <<events, actions, callbacks, answered, sent, delivered, created>>,
           \A b \in Agents : b # a =>
               UNCHANGED <<records[b], threads[b], permanent[b]>>,
           threads'[a] \in {threads[a], 1},
           x.pc # "idle" => (InClaim(a, x) <=> InClaim(a, workers[a][w])),
           Stored(a)', Steady(a, x)', CompleteSent'
    PROVE  OrderlyInv'
  <1>1. ASSUME NEW b \in Agents, b # a PROVE AgentSteady(b)'
    <2>1. Same(b) /\ permanent'[b] = permanent[b]
      BY <1>1 DEF Same, Goto, TypeOK
    <2>2. Own(b)' = Own(b)
      BY DEF Own, ReplyType
    <2> QED
      BY <2>1, <2>2, OtherSteady DEF OrderlyInv
  <1>2. \A v \in Workers : workers'[a][v] = IF v = w THEN x ELSE workers[a][v]
    BY DEF Goto, TypeOK
  <1>3. \A v \in Workers : v # w => workers[a][v].pc = "idle"
    BY OneGoroutine
  <1>4. \A v \in Workers : Steady(a, workers[a][v])'
    BY <1>2, <1>3 DEF Steady, SteadyClaim, SteadyAnswer, InClaim
  <1>5. RaisedBy(a)'
    BY DEF OrderlyInv, AgentSteady, RaisedBy, Raised, Fresh
  <1>6. Replies' \subseteq Replies
    BY KeepsReplies DEF InClaim
  <1>7. AgentSteady(a)'
    BY <1>4, <1>5 DEF AgentSteady
  <1> QED
    BY <1>1, <1>6, <1>7 DEF OrderlyInv, OneReply

LEMMA FollowSteady ==
    ASSUME TypeOK, IInv, OnceInv, OrderlyInv, NEW a \in Agents, NEW w \in Workers,
           SaveMapping(a, w) \/ SavePermanent(a, w) \/ SaveDID(a, w)
    PROVE  OrderlyInv'
  <1> USE DEF stores, client, net, used
  <1> DEFINE me == workers[a][w]
  <1>1. PICK x : x = [me EXCEPT !.pc = IF me.pc = "permanent" THEN "did" ELSE "act"]
    OBVIOUS
  <1>2. /\ Goto(a, w, x) /\ me.pc \in {"mapping", "permanent", "did"}
        /\ UNCHANGED <<events, actions, callbacks, answered, sent, delivered, created, records>>
    BY <1>1 DEF SaveMapping, SavePermanent, SaveDID
  <1>3. me \in WorkerType /\ me.rec \in Records
    BY <1>2, AtWork
  <1>4. /\ x.pc = (IF me.pc = "permanent" THEN "did" ELSE "act") /\ x.msg = me.msg
        /\ x.next = me.next /\ x.rec = me.rec
    BY <1>1, <1>3 DEF WorkerType
  <1>5. InClaim(a, x) <=> InClaim(a, me)
    BY <1>2, <1>4 DEF InClaim
  <1>6. \A b \in Agents : Own(b)' = Own(b)
    BY <1>2 DEF Own, ReplyType
  <1>7. CompleteSent'
    BY <1>2 DEF OrderlyInv, CompleteSent, Paired
  <1>8. Pending(a)' <=> Pending(a)
    BY <1>2 DEF Pending, Asked, FirstState
  <1>9. CASE me.pc = "mapping"
    <2>1. SaveMapping(a, w)
      BY <1>9 DEF SaveMapping, SavePermanent, SaveDID
    <2>2. InClaim(a, me) /\ SteadyClaim(a, me) /\ FitsClaim(a, me)
      BY <1>9, AtWork DEF FitsAnswer
    <2>3. me.next = FirstState(a) /\ FirstState(a) # ReplyState(a) /\ me.rec.conn = 1
      BY <1>9, <2>2 DEF FitsClaim, FirstState, ReplyState, Leaves
    <2>4. threads' = [threads EXCEPT ![a] = 1] /\ permanent' = permanent
      BY <2>1, <2>3 DEF SaveMapping
    <2>5. /\ threads'[a] = 1
          /\ \A b \in Agents : b # a => UNCHANGED <<records[b], threads[b], permanent[b]>>
      BY <1>2, <2>4 DEF TypeOK
    <2>6. Stored(a)'
      BY <1>2, <1>6, <1>8, <2>4, <2>5
      DEF OrderlyInv, AgentSteady, Stored, Early, Waiting, FirstState, ReplyState, Fresh
    <2>7. SteadyClaim(a, x)'
      BY <1>2, <1>4, <1>6, <1>9, <2>2, <2>3, <2>5
      DEF SteadyClaim, Leaves, Early, FirstState, ReplyState
    <2>8. Steady(a, x)'
      BY <1>4, <1>5, <2>2, <2>7 DEF Steady, InClaim
    <2> QED
      BY <1>2, <1>5, <1>7, <2>5, <2>6, <2>8, StoreStep
  <1>10. CASE me.pc = "permanent"
    <2>1. SavePermanent(a, w)
      BY <1>10 DEF SaveMapping, SavePermanent, SaveDID
    <2>2. ~ InClaim(a, me) /\ SteadyAnswer(a, me) /\ FitsAnswer(a, me)
      BY <1>10, AtWork DEF FitsClaim, Leaves
    <2>3. me.next = "completed"
      BY <1>10 DEF IInv, WorkersInv, WorkerInv
    <2>4. me.rec.conn = 1 /\ me.rec = records[a][1] /\ records[a][1].state = "completed"
      BY <1>10, <2>2, <2>3 DEF SteadyAnswer, FitsAnswer, Leaves
    <2>5. permanent' = [permanent EXCEPT ![a][1] = me.rec] /\ threads' = threads
      BY <2>1, <2>4 DEF SavePermanent
    <2>6. created[a] = 1
      BY <2>2 DEF FitsAnswer, OnceInv, AgentInv, RecordsOf
    <2>7. /\ \A b \in Agents : b # a => UNCHANGED <<records[b], threads[b], permanent[b]>>
          /\ \A c \in Conns : permanent'[a][c] = IF c = 1 THEN me.rec ELSE permanent[a][c]
      BY <1>2, <2>5 DEF TypeOK
    <2>8. \A c \in Conns : permanent'[a][c] # NoRec =>
                  /\ c = 1 /\ created[a] = 1
                  /\ records[a][1] = permanent'[a][c] /\ records[a][1].state = "completed"
      BY <2>4, <2>6, <2>7 DEF OrderlyInv, AgentSteady, Stored
    <2>9. Stored(a)'
      BY <1>2, <1>6, <1>8, <2>5, <2>8
      DEF OrderlyInv, AgentSteady, Stored, Early, Waiting, FirstState, ReplyState, Fresh
    <2>10. SteadyAnswer(a, x)'
      BY <1>2, <1>4, <1>10, <2>2, <2>3, <2>4 DEF SteadyAnswer, Leaves, Waiting, ReplyState, Fresh
    <2>11. Steady(a, x)'
      BY <1>4, <1>5, <2>2, <2>10 DEF Steady, InClaim
    <2> QED
      BY <1>2, <1>5, <1>7, <2>5, <2>7, <2>9, <2>11, StoreStep
  <1>11. CASE me.pc = "did"
    <2>1. SaveDID(a, w)
      BY <1>11 DEF SaveMapping, SavePermanent, SaveDID
    <2>2. ~ InClaim(a, me) /\ SteadyAnswer(a, me)
      BY <1>11, AtWork DEF FitsClaim, Leaves
    <2>3. SteadyAnswer(a, x)
      BY <1>4, <1>11, <2>2 DEF SteadyAnswer, Leaves
    <2>4. Steady(a, x)
      BY <1>5, <2>2, <2>3 DEF Steady
    <2>5. threads' = threads /\ permanent' = permanent
      BY <2>1 DEF SaveDID
    <2>6. Replies' \subseteq Replies
      BY <1>2, <1>5, KeepsReplies
    <2> QED
      BY <1>2, <1>6, <2>4, <2>5, <2>6, SteadyStep DEF OrderlyInv, OneReply
  <1> QED
    BY <1>2, <1>9, <1>10, <1>11

\* A goroutine that replaces the record of the thread, which was not completed.
LEMMA WriteSteady ==
    ASSUME TypeOK, IInv, OnceInv, OrderlyInv, NEW a \in Agents, NEW w \in Workers, NEW x,
           Goto(a, w, x), workers[a][w].pc # "idle",
           NEW r, records' = [records EXCEPT ![a][1] = r],
           UNCHANGED <<events, actions, callbacks, answered, sent, delivered, created, threads,
                       permanent>>,
           created[a] = 1, records[a][1].state # "completed",
           IF Own(a) = {} THEN r.state \in Early(a) \cup {ReplyState(a), "abandoned"}
                          ELSE r.state \in Waiting(a) \cup {"completed"},
           r.state \notin Early(a) => threads[a] = 1,
           ~ Pending(a),
           r.state = FirstState(a) => \A c \in Conns : events[a][c] = NoEvent,
           Fresh(a, r), r.state = "abandoned" => r.myDID = NoDID,
           x.pc # "idle" => (InClaim(a, x) <=> InClaim(a, workers[a][w])), Steady(a, x)'
    PROVE  OrderlyInv'
  <1>1. \A b \in Agents : Own(b)' = Own(b)
    BY DEF Own, ReplyType
  <1>2. \A b \in Agents : \A c \in Conns :
            records'[b][c] = IF b = a /\ c = 1 THEN r ELSE records[b][c]
    BY DEF TypeOK
  <1>3. 1 \in Conns
    BY BoundsAssumption DEF TypeOK, Conns
  <1>4. records'[a][1] = r
    BY <1>2, <1>3
  <1>5. ~ Pending(a)'
    BY <1>2 DEF Pending, Asked, FirstState, OnceInv, AgentInv, RecordsOf
  <1>6. \A c \in Conns : permanent[a][c] = NoRec
    BY DEF OrderlyInv, AgentSteady, Stored
  <1>7. Stored(a)'
    BY <1>1, <1>4, <1>5, <1>6 DEF Stored, Early, Waiting, FirstState, ReplyState, Fresh
  <1>8. \A b \in Agents : b # a => UNCHANGED <<records[b], threads[b], permanent[b]>>
    BY DEF TypeOK
  <1>9. CompleteSent'
    <2>1. CASE a = Invitee
      BY <2>1 DEF OrderlyInv, CompleteSent, Paired
    <2>2. CASE a # Invitee
      BY <1>8, <2>2 DEF OrderlyInv, CompleteSent, Paired, Agents
    <2> QED
      BY <2>1, <2>2
  <1> QED
    BY <1>7, <1>8, <1>9, StoreStep

LEMMA PersistSteady ==
    ASSUME TypeOK, IInv, OnceInv, OrderlyInv, NEW a \in Agents, NEW w \in Workers, Persist(a, w)
    PROVE  OrderlyInv'
  <1> USE DEF stores, client, net, used
  <1> DEFINE me == workers[a][w]
  <1>1. PICK x : x = [me EXCEPT !.pc =
               CASE SavesMapping(me.next, me.msg.type) -> "mapping"
                 [] me.next = "completed"              -> "permanent"
                 [] OTHER                              -> "act"]
    OBVIOUS
  <1>2. /\ Goto(a, w, x) /\ me.pc = "persist"
        /\ records' = [records EXCEPT ![a][me.rec.conn] = me.rec]
        /\ UNCHANGED <<events, actions, callbacks, answered, sent, delivered, created, threads,
                       permanent>>
    BY <1>1, Zenon DEF Persist
  <1>3. PICK r : r = me.rec
    OBVIOUS
  <1>4. /\ me \in WorkerType /\ Receiver(me.msg.type) = a /\ me.msg \in Messages
        /\ r.state = me.next
        /\ InClaim(a, me) => FitsClaim(a, me) /\ SteadyClaim(a, me) /\ ~ Pending(a)
        /\ ~ InClaim(a, me) => FitsAnswer(a, me) /\ SteadyAnswer(a, me)
    BY <1>2, <1>3, AtWork DEF Sending
  <1>5. /\ x.msg = me.msg /\ x.next = me.next /\ x.rec = me.rec
        /\ (x.pc = "mapping") <=> SavesMapping(me.next, me.msg.type)
        /\ x.pc = "permanent" <=> me.next = "completed" /\ x.pc # "mapping"
        /\ x.pc \in {"mapping", "permanent", "act"}
    BY <1>1, <1>4 DEF WorkerType, SavesMapping
  <1>6. InClaim(a, x) <=> InClaim(a, me)
    BY <1>2, <1>5 DEF InClaim
  <1>7. r.conn = 1
    BY <1>2, <1>3, <1>4 DEF FitsClaim, FitsAnswer, Leaves
  <1>8. records' = [records EXCEPT ![a][1] = r]
    BY <1>2, <1>3, <1>7
  <1>9. Own(a)' = Own(a)
    BY <1>2 DEF Own, ReplyType
  <1>10. CASE InClaim(a, me)
    <2>1. FitsClaim(a, me) /\ SteadyClaim(a, me) /\ ~ Pending(a)
      BY <1>4, <1>10
    <2>2. Own(a) = {}
      <3>1. <<"goroutine", w>> \in Claims(a)
        BY <1>10 DEF Claims
      <3> QED
        BY <3>1, OwnClaimsNothing
    <2>3. /\ created[a] = 1 /\ me.next \in {FirstState(a), ReplyState(a)}
          /\ records[a][1].state \in Early(a)
          /\ a = Invitee => r.theirDID = NoDID
          /\ FirstState(a) # ReplyState(a)
          /\ me.next = FirstState(a) => \A c \in Conns : events[a][c] = NoEvent
          /\ me.next = ReplyState(a) => threads[a] = 1
      BY <1>2, <1>3, <2>1 DEF FitsClaim, SteadyClaim, FirstState, ReplyState, Leaves
    <2>4. me.next = ReplyState(a) => x.pc = "act"
      BY <1>4, <1>5, <1>10, AgentsAssumption
      DEF SavesMapping, ReplyState, InClaim, CreatesRecord, Receiver, Invitations, Agents
    <2>5. me.next = FirstState(a) => x.pc = "mapping"
      BY <1>4, <1>5, <1>10, AgentsAssumption
      DEF SavesMapping, FirstState, InClaim, CreatesRecord, Receiver, Invitations, Agents
    <2>6. /\ records[a][1].state # "completed"
          /\ r.state \in Early(a) \cup {ReplyState(a), "abandoned"}
          /\ r.state \notin Early(a) => threads[a] = 1
          /\ Fresh(a, r) /\ r.state # "abandoned"
      BY <1>4, <2>3 DEF Early, FirstState, ReplyState, Fresh
    <2>7. 1 \in Conns
      BY <2>3, BoundsAssumption DEF TypeOK, Conns
    <2>8. records'[a][1] = r
      BY <1>8, <2>7 DEF TypeOK
    <2>9. SteadyClaim(a, x)'
      BY <1>2, <1>3, <1>4, <1>5, <1>9, <2>3, <2>4, <2>5, <2>8
      DEF SteadyClaim, Leaves, Early, FirstState, ReplyState
    <2>10. Steady(a, x)'
      BY <1>5, <1>6, <1>10, <2>9 DEF Steady, InClaim
    <2>11. r.state = FirstState(a) => \A c \in Conns : events[a][c] = NoEvent
      BY <1>4, <2>3
    <2> HIDE DEF me
    <2> QED
      BY <1>2, <1>6, <1>8, <2>1, <2>2, <2>3, <2>6, <2>10, <2>11, WriteSteady DEF me
  <1>11. CASE ~ InClaim(a, me)
    <2>1. FitsAnswer(a, me) /\ SteadyAnswer(a, me)
      BY <1>4, <1>11
    <2>2. Own(a) # {} /\ ~ Pending(a) /\ created[a] = 1
      BY <2>1, OwnClaimsNothing DEF FitsAnswer, OnceInv, AgentInv, RecordsOf
    <2>3. /\ records[a][1].state \in Waiting(a) /\ me.next \in {"responded", "completed"}
          /\ Fresh(a, r)
      BY <1>2, <1>3, <2>1 DEF SteadyAnswer, FitsAnswer
    <2>4. /\ records[a][1].state \notin Early(a) /\ records[a][1].state # "completed"
          /\ r.state \notin Early(a) \cup {"abandoned"} /\ r.state \in Waiting(a) \cup {"completed"}
      BY <1>4, <2>3 DEF Early, Waiting, FirstState, ReplyState
    <2>5. threads[a] = 1
      BY <2>2, <2>4 DEF OrderlyInv, AgentSteady, Stored
    <2>6. x.pc # "mapping"
      BY <1>5, <2>3 DEF SavesMapping
    <2>7. 1 \in Conns
      BY <2>2, BoundsAssumption DEF TypeOK, Conns
    <2>8. records'[a][1] = r
      BY <1>8, <2>7 DEF TypeOK
    <2>9. SteadyAnswer(a, x)'
      BY <1>3, <1>4, <1>5, <2>3, <2>6, <2>8
      DEF SteadyAnswer, Leaves, Waiting, ReplyState, Fresh
    <2>10. Steady(a, x)'
      BY <1>5, <1>6, <1>11, <2>9 DEF Steady, InClaim
    <2>11. r.state # FirstState(a)
      BY <2>4 DEF Early
    <2> HIDE DEF me
    <2> QED
      BY <1>2, <1>6, <1>8, <2>2, <2>3, <2>4, <2>5, <2>10, <2>11, WriteSteady DEF me
  <1> QED
    BY <1>10, <1>11

LEMMA AbandonSteady ==
    ASSUME TypeOK, IInv, OnceInv, OrderlyInv, NEW a \in Agents, NEW w \in Workers, Abandon(a, w)
    PROVE  OrderlyInv'
  <1> USE DEF stores, client, net, used
  <1> DEFINE me == workers[a][w]
  <1>1. PICK r : r = ThreadRecord(a)
    OBVIOUS
  <1>2. PICK x : x = IF r = NoRec THEN IdleWorker
                     ELSE [me EXCEPT !.pc = "saveabandoned",
                                     !.rec = [r EXCEPT !.state = "abandoned"]]
    OBVIOUS
  <1>3. /\ Goto(a, w, x) /\ me.pc = "abandon"
        /\ UNCHANGED <<records, threads, events, permanent, actions, callbacks, answered,
                       created, sent, delivered>>
    BY <1>1, <1>2 DEF Abandon, Idle
  <1>4. /\ me \in WorkerType /\ InClaim(a, me) /\ SteadyClaim(a, me) /\ r \in Records
        /\ created[a] = 1
    BY <1>1, <1>3, AtWork, ReadType DEF SteadyAnswer, SteadyClaim, Leaves
  <1>5. x = IdleWorker \/ /\ r # NoRec /\ x.pc = "saveabandoned" /\ x.msg = me.msg
                          /\ x.next = me.next /\ x.rec.myDID = r.myDID
                          /\ x.rec.theirDID = r.theirDID
    BY <1>2, <1>4 DEF WorkerType, Records
  <1>6. r # NoRec => r = records[a][1] /\ r.state \in Early(a)
    BY <1>1, <1>3, <1>4, ThreadOnce DEF SteadyClaim
  <1>7. r # NoRec => r.myDID = NoDID
    <2>1. ASSUME r # NoRec PROVE 1 \in Conns
      BY <1>1, <2>1, ThreadOnce
    <2> QED
      BY <1>6, <2>1 DEF OnceInv, AgentInv, RecordsOf, Early
  <1>8. r # NoRec /\ a = Invitee => r.theirDID = NoDID
    BY <1>4, <1>6 DEF OrderlyInv, AgentSteady, Stored, Fresh, Early, FirstState
  <1>9. x # IdleWorker => InClaim(a, x) /\ SteadyClaim(a, x)
    BY <1>3, <1>4, <1>5, <1>7, <1>8 DEF SteadyClaim, Leaves, InClaim
  <1>10. Steady(a, x) /\ (x.pc # "idle" => InClaim(a, x))
    BY <1>9 DEF Steady, IdleWorker
  <1>11. Replies' \subseteq Replies
    BY <1>3, <1>10, KeepsReplies
  <1>12. \A b \in Agents : Own(b)' = Own(b)
    BY <1>3 DEF Own, ReplyType
  <1> QED
    BY <1>3, <1>10, <1>11, <1>12, SteadyStep DEF OrderlyInv, OneReply

LEMMA SaveAbandonedSteady ==
    ASSUME TypeOK, IInv, OnceInv, OrderlyInv, NEW a \in Agents, NEW w \in Workers,
           SaveAbandoned(a, w)
    PROVE  OrderlyInv'
  <1> USE DEF stores, client, net, used
  <1> DEFINE me == workers[a][w]
  <1>1. PICK x : x = IdleWorker
    OBVIOUS
  <1>2. PICK r : r = me.rec
    OBVIOUS
  <1>3. /\ Goto(a, w, x) /\ me.pc = "saveabandoned"
        /\ records' = [records EXCEPT ![a][me.rec.conn] = me.rec]
        /\ UNCHANGED <<events, actions, callbacks, answered, sent, delivered, created, threads,
                       permanent>>
    BY <1>1 DEF SaveAbandoned, Idle
  <1>4. FitsLeave(a, me)
    BY <1>3, InHands DEF Fits
  <1>5. InClaim(a, me) /\ SteadyClaim(a, me) /\ ~ Pending(a)
    BY <1>3, AtWork DEF SteadyAnswer, Leaves
  <1>6. /\ records' = [records EXCEPT ![a][1] = r] /\ created[a] = 1
        /\ r.state = "abandoned" /\ r.myDID = NoDID /\ threads[a] = 1 /\ Own(a) = {}
        /\ records[a][1].state \in Early(a) /\ Fresh(a, r)
    BY <1>2, <1>3, <1>4, <1>5 DEF FitsLeave, SteadyClaim, Leaves, Fresh
  <1>7. records[a][1].state # "completed" /\ r.state # FirstState(a)
    BY <1>6 DEF Early, FirstState
  <1>8. x.pc = "idle" /\ Steady(a, x)'
    BY <1>1 DEF IdleWorker, Steady
  <1> QED
    BY <1>3, <1>5, <1>6, <1>7, <1>8, WriteSteady
\* What a goroutine that has the claim sends: its DID, in the thread's one turn.
LEMMA ReplySteady ==
    ASSUME TypeOK, IInv, OnceInv, OrderlyInv, NEW a \in Agents, NEW w \in Workers,
           Goto(a, w, IdleWorker), workers[a][w].pc = "act", InClaim(a, workers[a][w]),
           workers[a][w].next = ReplyState(a),
           NEW m, m.type = ReplyType(a), sent' = sent \cup {m},
           UNCHANGED <<records, threads, events, permanent, actions, callbacks, answered,
                       created, delivered>>
    PROVE  OrderlyInv'
  <1> DEFINE me == workers[a][w]
  <1>1. SteadyClaim(a, me) /\ ~ Pending(a)
    BY AtWork
  <1>2. <<"goroutine", w>> \in Claims(a)
    BY DEF Claims
  <1>3. Own(a) = {}
    BY <1>2, OwnClaimsNothing
  <1>4. Own(a)' = {m} /\ \A b \in Agents : b # a => Own(b)' = Own(b)
    BY <1>3, AgentsAssumption DEF Own, ReplyType, Agents
  <1>5. Own(Inviter) = {}
    BY <1>3 DEF OnceInv, SentFits, Agents
  <1>6. Replies = {}
    BY <1>5, AnswersFollow
  <1>7. \A v \in Workers : workers'[a][v] = IdleWorker \/ workers'[a][v].pc = "idle"
    <2>1. \A v \in Workers : workers'[a][v] = IF v = w THEN IdleWorker ELSE workers[a][v]
      BY DEF Goto, TypeOK
    <2> QED
      BY <2>1, OneGoroutine
  <1>8. \A v \in Workers : workers'[a][v].pc = "idle"
    BY <1>7 DEF IdleWorker
  <1>9. \A b \in Agents : b # a => Same(b)
    BY DEF Same, Goto, TypeOK
  <1>10. \A b \in Agents : b # a => AgentSteady(b)'
    BY <1>4, <1>9, OtherSteady DEF OrderlyInv
  <1>11. ~ Pending(a)'
    BY <1>1 DEF Pending, Asked, FirstState
  <1>12. Stored(a)'
    BY <1>1, <1>3, <1>4, <1>11
    DEF OrderlyInv, AgentSteady, Stored, SteadyClaim, Early, Waiting, FirstState, ReplyState, Fresh
  <1>13. RaisedBy(a)'
    BY DEF OrderlyInv, AgentSteady, RaisedBy, Raised, Fresh
  <1>14. AgentSteady(a)'
    BY <1>8, <1>12, <1>13 DEF AgentSteady, Steady
  <1>15. ASSUME NEW p \in Agents \X Workers, workers'[p[1]][p[2]].pc # "idle",
                ~ InClaim(p[1], workers[p[1]][p[2]])'
         PROVE  FALSE
    <2>1. PICK b \in Agents, v \in Workers : p = <<b, v>>
      OBVIOUS
    <2>2. p[1] = b /\ p[2] = v
      BY <2>1
    <2>3. b # a
      BY <1>8, <1>15, <2>2
    <2>4. workers'[b][v] = workers[b][v]
      BY <1>9, <2>3 DEF Same
    <2>5. <<"goroutine", p>> \in Replies
      BY <1>15, <2>2, <2>4 DEF Replies, InClaim
    <2> QED
      BY <1>6, <2>5
  <1>16. ASSUME NEW k \in (sent \ delivered)', ~ CreatesRecord(k.type) PROVE k = m
    <2>1. SUFFICES ASSUME k # m PROVE FALSE
      OBVIOUS
    <2>2. <<"message", k>> \in Replies
      BY <1>16, <2>1 DEF Replies
    <2> QED
      BY <1>6, <2>2
  <1>17. \A z \in Replies' : z = <<"message", m>>
    BY <1>15, <1>16 DEF Replies
  <1>18. OneReply'
    BY <1>17 DEF OneReply
  <1>19. CompleteSent'
    <2>1. m.type # "complete"
      BY DEF ReplyType
    <2> QED
      BY <2>1 DEF OrderlyInv, CompleteSent, Paired
  <1> QED
    BY <1>10, <1>14, <1>18, <1>19 DEF OrderlyInv

LEMMA ActSteady ==
    ASSUME TypeOK, IInv, OnceInv, OrderlyInv, NEW a \in Agents, NEW w \in Workers, Act(a, w)
    PROVE  OrderlyInv'
  <1> USE DEF stores, client, net, used
  <1> DEFINE me == workers[a][w]
  <1>1. PICK next, halt : /\ next = Followup(me.next, me.msg.type)
                          /\ halt = (/\ me.msg.type # "oob-invitation"
                                     /\ CanTriggerActionEvents(me.next, FindNamespace(me.msg.type)))
    OBVIOUS
  <1>2. PICK x : x = IF halt \/ next # "noop"
                     THEN [me EXCEPT !.next = next, !.out = NoMsg,
                                     !.pc = IF halt THEN "event" ELSE "execute"]
                     ELSE IdleWorker
    OBVIOUS
  <1>3. /\ Goto(a, w, x) /\ me.pc = "act"
        /\ sent' = IF me.out = NoMsg THEN sent ELSE sent \cup {me.out}
        /\ UNCHANGED <<records, threads, events, permanent, actions, callbacks, answered,
                       created, delivered>>
    BY <1>1, <1>2 DEF Act, Idle
  <1>4. /\ me \in WorkerType /\ Receiver(me.msg.type) = a /\ me.msg \in Messages
        /\ me.rec.state = me.next
        /\ InClaim(a, me) => FitsClaim(a, me) /\ SteadyClaim(a, me)
        /\ ~ InClaim(a, me) => FitsAnswer(a, me) /\ SteadyAnswer(a, me)
    BY <1>3, AtWork DEF Sending
  <1>5. FirstState(a) # ReplyState(a) /\ me.pc \notin Leaves \cup {"record"}
    BY <1>3 DEF Leaves, FirstState, ReplyState
  <1>6. CASE InClaim(a, me)
    <2>1. CASE me.next = FirstState(a)
      <3>1. next = ReplyState(a)
        BY <1>1, <1>4, <1>6, <2>1, AgentsAssumption
        DEF Followup, FirstState, ReplyState, InClaim, CreatesRecord, Receiver, Invitations, Agents
      <3>2. /\ x.next = ReplyState(a) /\ x.pc \in {"event", "execute"}
            /\ x.msg = me.msg /\ x.rec = me.rec
        BY <1>2, <1>4, <3>1 DEF WorkerType, ReplyState
      <3>3. me.out = NoMsg
        BY <1>4, <1>5, <1>6, <2>1 DEF FitsClaim
      <3>4. InClaim(a, x) /\ SteadyClaim(a, x)
        BY <1>3, <1>4, <1>5, <1>6, <2>1, <3>2 DEF SteadyClaim, Leaves, InClaim
      <3>5. Steady(a, x)
        BY <3>4 DEF Steady
      <3>6. sent' = sent
        BY <1>3, <3>3
      <3>7. Replies' \subseteq Replies
        BY <1>3, <3>4, <3>6, KeepsReplies
      <3>8. \A b \in Agents : Own(b)' = Own(b)
        BY <3>6 DEF Own, ReplyType
      <3> QED
        BY <1>3, <3>5, <3>6, <3>7, <3>8, SteadyStep DEF OrderlyInv, OneReply
    <2>2. CASE me.next = ReplyState(a)
      <3>1. next = "noop" /\ ~ halt
        BY <1>1, <1>4, <1>6, <2>2, AgentsAssumption
        DEF Followup, FirstState, ReplyState, InClaim, CreatesRecord, Receiver, Invitations, Agents,
            CanTriggerActionEvents, FindNamespace
      <3>2. x = IdleWorker
        BY <1>2, <3>1
      <3>3. me.out = Msg(ReplyType(a), me.rec.myDID)
        BY <1>3, <1>4, <1>6, <2>2 DEF FitsClaim
      <3>4. me.out # NoMsg
        BY <1>4, <3>3, AbsentAssumption DEF WorkerType, Messages, Msg, ReplyType, MsgTypes, Records
      <3>5. PICK m : m = me.out
        OBVIOUS
      <3>6. m.type = ReplyType(a) /\ sent' = sent \cup {m}
        BY <1>3, <3>3, <3>4, <3>5 DEF Msg
      <3> QED
        BY <1>3, <1>6, <2>2, <3>2, <3>6, ReplySteady
    <2> QED
      BY <1>4, <1>6, <2>1, <2>2 DEF FitsClaim
  <1>7. CASE ~ InClaim(a, me)
    <2>1. FitsAnswer(a, me) /\ SteadyAnswer(a, me)
      BY <1>4, <1>7
    <2>2. ~ halt /\ next \in {"completed", "noop"} /\ (me.next = "completed" => next = "noop")
      BY <1>1, <2>1 DEF FitsAnswer, CanTriggerActionEvents, Followup
    <2>3. x = IdleWorker \/ /\ x.pc = "execute" /\ x.next = "completed" /\ me.next # "completed"
                            /\ x.msg = me.msg /\ x.rec = me.rec
      BY <1>2, <1>4, <2>2 DEF WorkerType
    <2>4. /\ me.out # NoMsg =>
                me.out.type = "complete" /\ me.next = "completed" /\ a = Invitee
      <3>1. SUFFICES ASSUME me.out # NoMsg
                     PROVE  me.out.type = "complete" /\ me.next = "completed" /\ a = Invitee
        OBVIOUS
      <3>2. OutInv(saved, Facts, a, me)
        BY <1>3, <3>1 DEF IInv, WorkersInv, WorkerInv, Sending
      <3>3. me.out.type = "complete"
        BY <1>3, <2>1, <3>1 DEF FitsAnswer, Sending
      <3> QED
        BY <3>2, <3>3, AgentsAssumption DEF OutInv, Receiver, Peer, Agents
    <2>5. Own(a) # {} /\ created[a] = 1
      BY <2>1 DEF FitsAnswer, OnceInv, AgentInv, RecordsOf
    <2>6. me.out # NoMsg => Paired
      BY <1>3, <2>1, <2>4, <2>5 DEF Paired, SteadyAnswer
    <2>7. \A b \in Agents : Own(b)' = Own(b)
      BY <1>3, <2>4 DEF Own, ReplyType
    <2>8. \A m \in sent' \ sent : m.type = "complete" => Paired
      BY <1>3, <2>6
    <2>9. x # IdleWorker => ~ InClaim(a, x) /\ SteadyAnswer(a, x)
      BY <1>3, <1>4, <1>7, <2>1, <2>3 DEF SteadyAnswer, Leaves, InClaim
    <2>10. Steady(a, x)
      BY <2>9 DEF Steady, IdleWorker
    <2>11. OneReply'
      <3>1. CASE me.out = NoMsg
        <4>1. sent' = sent
          BY <1>3, <3>1
        <4>2. Replies' \subseteq Replies
          BY <1>3, <1>7, <4>1, KeepsReplies
        <4> QED
          BY <4>2 DEF OrderlyInv, OneReply
      <3>2. CASE me.out # NoMsg
        <4>1. PICK m, p : m = me.out /\ p = <<a, w>>
          OBVIOUS
        <4>2. sent' = sent \cup {m} /\ x.pc = "idle"
          BY <1>2, <1>3, <2>2, <2>4, <3>2, <4>1 DEF IdleWorker
        <4>3. p \in Agents \X Workers /\ p[1] = a /\ p[2] = w
          BY <4>1
        <4>4. <<"goroutine", p>> \in Replies
          BY <1>3, <1>7, <4>3 DEF Replies
        <4>5. PICK y : y = <<"goroutine", p>>
          OBVIOUS
        <4>6. \A z \in Replies : z = y
          BY <4>4, <4>5 DEF OrderlyInv, OneReply
        <4>7. ASSUME NEW q \in Agents \X Workers, workers'[q[1]][q[2]].pc # "idle",
                     ~ InClaim(q[1], workers[q[1]][q[2]])'
              PROVE  FALSE
          <5>1. PICK b \in Agents, v \in Workers : q = <<b, v>>
            OBVIOUS
          <5>2. q[1] = b /\ q[2] = v
            BY <5>1
          <5>3. workers'[b][v] = IF b = a /\ v = w THEN x ELSE workers[b][v]
            BY <1>3 DEF Goto, TypeOK
          <5>4. b # a \/ v # w
            BY <4>2, <4>7, <5>2, <5>3
          <5>5. <<"goroutine", q>> \in Replies
            BY <4>7, <5>2, <5>3, <5>4 DEF Replies, InClaim
          <5>6. <<"goroutine", q>> = <<"goroutine", p>>
            BY <4>5, <4>6, <5>5
          <5> QED
            BY <4>1, <5>1, <5>4, <5>6
        <4>8. ASSUME NEW k \in (sent \ delivered)', ~ CreatesRecord(k.type) PROVE k = m
          <5>1. SUFFICES ASSUME k # m PROVE FALSE
            OBVIOUS
          <5>2. <<"message", k>> \in Replies
            BY <1>3, <4>2, <4>8, <5>1 DEF Replies
          <5> QED
            BY <4>5, <4>6, <5>2
        <4>9. \A z \in Replies' : z = <<"message", m>>
          BY <4>7, <4>8 DEF Replies
        <4> QED
          BY <4>9 DEF OneReply
      <3> QED
        BY <3>1, <3>2
    <2> QED
      BY <1>3, <2>7, <2>8, <2>10, <2>11, SteadyStep
  <1> QED
    BY <1>6, <1>7
(***************************************************************************)
(* The client: it is asked, answers, and a goroutine takes the answer up.   *)
(***************************************************************************)
LEMMA ClientSteady ==
    ASSUME TypeOK, OrderlyInv, NEW a \in Agents,
           UNCHANGED <<records, threads, permanent, created, sent, delivered>>,
           \A b \in Agents : b # a =>
               UNCHANGED <<events[b], actions[b], callbacks[b], answered[b], workers[b]>>,
           created[a] = 1 /\ Pending(a)' => records[a][1].state \in Early(a),
           RaisedBy(a)',
           \A v \in Workers : \/ workers'[a][v] = workers[a][v]
                              \/ workers'[a][v].pc = "idle"
                              \/ InClaim(a, workers[a][v])' /\ Steady(a, workers[a][v])'
    PROVE  OrderlyInv'
  <1>1. \A b \in Agents : Own(b)' = Own(b)
    BY DEF Own, ReplyType
  <1>2. \A b \in Agents : b # a => AgentSteady(b)'
    BY <1>1, OtherSteady DEF OrderlyInv, Same
  <1>3. Stored(a)'
    BY <1>1 DEF OrderlyInv, AgentSteady, Stored, Early, Waiting, FirstState, ReplyState, Fresh
  <1>4. \A me : Steady(a, me) => Steady(a, me)'
    BY <1>1 DEF Steady, SteadyClaim, SteadyAnswer, InClaim, Early, Waiting, FirstState,
                ReplyState, Fresh
  <1>5. \A v \in Workers : Steady(a, workers[a][v])'
    BY <1>4 DEF OrderlyInv, AgentSteady, Steady
  <1>6. ASSUME NEW p \in Agents \X Workers, workers'[p[1]][p[2]].pc # "idle",
               ~ InClaim(p[1], workers[p[1]][p[2]])'
        PROVE  workers[p[1]][p[2]].pc # "idle" /\ ~ InClaim(p[1], workers[p[1]][p[2]])
    <2>1. PICK b \in Agents, v \in Workers : p = <<b, v>>
      OBVIOUS
    <2>2. p[1] = b /\ p[2] = v
      BY <2>1
    <2>3. workers'[b][v] = workers[b][v]
      BY <1>6, <2>2 DEF InClaim
    <2> QED
      BY <1>6, <2>2, <2>3 DEF InClaim
  <1>7. Replies' \subseteq Replies
    BY <1>6 DEF Replies
  <1>8. CompleteSent'
    BY DEF OrderlyInv, CompleteSent, Paired
  <1> QED
    BY <1>2, <1>3, <1>5, <1>7, <1>8 DEF OrderlyInv, AgentSteady, OneReply

LEMMA SendEventSteady ==
    ASSUME TypeOK, IInv, OnceInv, OrderlyInv, NEW a \in Agents, NEW w \in Workers,
           SendActionEvent(a, w)
    PROVE  OrderlyInv'
  <1> USE DEF stores, client, net, used
  <1> DEFINE me == workers[a][w]
  <1>1. PICK e : e = Event(me)
    OBVIOUS
  <1>2. me.pc = "event" /\ Goto(a, w, IdleWorker)
    BY DEF SendActionEvent, Idle
  <1>3. InClaim(a, me) /\ FitsClaim(a, me) /\ SteadyClaim(a, me)
    BY <1>2, AtWork DEF FitsAnswer
  <1>4. me.rec.conn = 1 /\ me.next = ReplyState(a) /\ me.pc \notin Leaves \cup {"record"}
    BY <1>2, <1>3 DEF FitsClaim, Leaves
  <1>5. /\ events' = [events EXCEPT ![a][1] = e]
        /\ actions' = IF a \in Listening
                      THEN [actions EXCEPT ![a] = @ \cup {e}] ELSE actions
        /\ UNCHANGED <<records, threads, permanent, callbacks, answered, created, sent, delivered>>
    BY <1>1, <1>4 DEF SendActionEvent
  <1>6. Raised(a, e)
    BY <1>1, <1>2, <1>3, <1>4 DEF Raised, SteadyClaim, Fresh, Event
  <1>7. records[a][1].state \in Early(a)
    BY <1>2, <1>3 DEF SteadyClaim
  <1>8. RaisedBy(a)'
    <2>1. \A c \in Conns : events'[a][c] = e \/ events'[a][c] = events[a][c]
      BY <1>5 DEF TypeOK
    <2>2. \A f \in actions'[a] : f = e \/ f \in actions[a]
      BY <1>5 DEF TypeOK
    <2>3. \A f : Raised(a, f) => Raised(a, f)'
      BY <1>5 DEF Raised, Fresh
    <2> QED
      BY <1>5, <1>6, <2>1, <2>2, <2>3 DEF OrderlyInv, AgentSteady, RaisedBy
  <1>9. \A v \in Workers : workers'[a][v] = workers[a][v] \/ workers'[a][v].pc = "idle"
    BY <1>2 DEF Goto, TypeOK, IdleWorker
  <1>10. \A b \in Agents : b # a =>
             UNCHANGED <<events[b], actions[b], callbacks[b], answered[b], workers[b]>>
    BY <1>2, <1>5 DEF TypeOK, Goto
  <1> QED
    BY <1>5, <1>7, <1>8, <1>9, <1>10, ClientSteady

\* The elements of a sequence that has grown, and of one that has lost its head.
LEMMA GrownSeq ==
    ASSUME NEW T, NEW s \in Seq(T), NEW b \in T
    PROVE  \A i \in DOMAIN Append(s, b) :
               Append(s, b)[i] = b \/ (i \in DOMAIN s /\ Append(s, b)[i] = s[i])
  OBVIOUS

LEMMA TailSeq ==
    ASSUME NEW T, NEW s \in Seq(T), s # << >>
    PROVE  \A i \in DOMAIN Tail(s) : i + 1 \in DOMAIN s /\ Tail(s)[i] = s[i + 1]
  OBVIOUS

\* The client has been asked, so the record of the thread is still as it was.
LEMMA AskedEarly ==
    ASSUME TypeOK, OnceInv, OrderlyInv, NEW a \in Agents, Pending(a)
    PROVE  /\ created[a] = 1 /\ Own(a) = {} /\ records[a][1].state \in Early(a)
           /\ \A v \in Workers : workers[a][v].pc = "idle"
  <1>1. created[a] # 0
    BY DEF Pending, Asked, OnceInv, AgentInv, RecordsOf, Untouched
  <1>2. created[a] = 1
    BY <1>1 DEF OnceInv, AgentInv, RecordsOf
  <1>3. Own(a) = {}
    BY OwnClaimsNothing
  <1>4. \A v \in Workers : workers[a][v].pc = "idle"
    BY <1>3, BusyNotPending, OpeningAlone
  <1> QED
    BY <1>2, <1>3, <1>4 DEF OrderlyInv, AgentSteady, Stored

LEMMA AnswerSteady ==
    ASSUME Once, TypeOK, OnceInv, OrderlyInv, NEW a \in Agents, NEW e \in actions[a],
           Continue(a, e) \/ Stop(a, e)
    PROVE  OrderlyInv'
  <1> USE DEF stores, client, net, used
  <1>1. PICK stop \in BOOLEAN : Answer(a, e, stop)
    BY DEF Continue, Stop
  <1>2. PICK b : b = [event |-> e, stop |-> stop]
    OBVIOUS
  <1>3. /\ e.rec.conn \notin answered[a]
        /\ actions' = [actions EXCEPT ![a] = @ \ {e}]
        /\ answered' = [answered EXCEPT ![a] = @ \cup {e.rec.conn}]
        /\ callbacks' = [callbacks EXCEPT ![a] = Append(@, b)]
        /\ UNCHANGED <<records, threads, events, created, sent, delivered, permanent, workers>>
    BY <1>1, <1>2 DEF Answer, MayAnswer, Once
  <1>4. Pending(a)
    BY <1>3 DEF Pending, Asked
  <1>5. records[a][1].state \in Early(a)
    BY <1>4, AskedEarly
  <1>6. PICK q : q = callbacks[a]
    OBVIOUS
  <1>7. callbacks'[a] = Append(q, b)
    BY <1>3, <1>6 DEF TypeOK
  <1>8. \A i \in DOMAIN callbacks'[a] :
            callbacks'[a][i] = b \/ (i \in DOMAIN q /\ callbacks'[a][i] = q[i])
    <2>1. /\ q \in Seq([event : EventData, stop : BOOLEAN])
          /\ b \in [event : EventData, stop : BOOLEAN]
      BY <1>2, <1>6 DEF TypeOK
    <2> QED
      BY <1>7, <2>1, GrownSeq
  <1>9. b.event = e /\ Raised(a, e)
    BY <1>2 DEF OrderlyInv, AgentSteady, RaisedBy
  <1>10. RaisedBy(a)'
    <2>1. \A f : Raised(a, f) => Raised(a, f)'
      BY <1>3 DEF Raised, Fresh
    <2>2. actions'[a] \subseteq actions[a]
      BY <1>3 DEF TypeOK
    <2>3. \A i \in DOMAIN callbacks'[a] : Raised(a, callbacks'[a][i].event)
      BY <1>6, <1>8, <1>9 DEF OrderlyInv, AgentSteady, RaisedBy
    <2> QED
      BY <1>3, <2>1, <2>2, <2>3 DEF OrderlyInv, AgentSteady, RaisedBy
  <1>11. \A d \in Agents : d # a =>
             UNCHANGED <<events[d], actions[d], callbacks[d], answered[d], workers[d]>>
    BY <1>3 DEF TypeOK
  <1> QED
    BY <1>3, <1>5, <1>10, <1>11, ClientSteady

\* The goroutine that takes the client's answer up.
LEMMA ResumeSteady ==
    ASSUME TypeOK, OnceInv, OrderlyInv, NEW a \in Agents, NEW w \in Workers, NEW x,
           Goto(a, w, x), Pending(a), NEW e, EventFits(a, e), Raised(a, e), NEW p,
           x = [pc |-> p, msg |-> e.msg, next |-> e.next, rec |-> e.rec, out |-> NoMsg],
           p \in {"execute", "abandon"},
           UNCHANGED <<records, threads, permanent, created, sent, delivered>>,
           RaisedBy(a)',
           \A b \in Agents : b # a =>
               UNCHANGED <<events[b], actions[b], callbacks[b], answered[b]>>
    PROVE  OrderlyInv'
  <1>1. created[a] = 1 /\ Own(a) = {} /\ records[a][1].state \in Early(a)
    BY AskedEarly
  <1>2. x.pc = p /\ x.msg = e.msg /\ x.next = e.next /\ x.rec = e.rec
    OBVIOUS
  <1>3. a = Invitee => e.rec.theirDID = NoDID
    BY DEF EventFits, Raised, Fresh, FirstState
  <1>4. Own(a)' = Own(a)
    BY DEF Own, ReplyType
  <1>5. SteadyClaim(a, x)'
    BY <1>1, <1>2, <1>3, <1>4
    DEF SteadyClaim, Leaves, EventFits, Raised, Early, FirstState, ReplyState
  <1>6. InClaim(a, x) /\ Steady(a, x)'
    BY <1>2, <1>5 DEF Steady, InClaim, EventFits
  <1>7. \A v \in Workers : workers'[a][v] = IF v = w THEN x ELSE workers[a][v]
    BY DEF Goto, TypeOK
  <1>8. \A v \in Workers : \/ workers'[a][v] = workers[a][v]
                           \/ InClaim(a, workers[a][v])' /\ Steady(a, workers[a][v])'
    BY <1>6, <1>7 DEF InClaim
  <1>9. \A b \in Agents : b # a =>
             UNCHANGED <<events[b], actions[b], callbacks[b], answered[b], workers[b]>>
    BY DEF Goto, TypeOK
  <1> QED
    BY <1>1, <1>8, <1>9, ClientSteady

LEMMA AcceptSteady ==
    ASSUME Once, TypeOK, IInv, OnceInv, OrderlyInv, NEW a \in Agents, NEW w \in Workers,
           NEW c \in Conns, Accept(a, w, c)
    PROVE  OrderlyInv'
  <1> USE DEF stores, client, net, used
  <1>1. PICK e : e = events[a][c]
    OBVIOUS
  <1>2. PICK x : x = [pc |-> "execute", msg |-> e.msg, next |-> e.next,
                      rec |-> e.rec, out |-> NoMsg]
    OBVIOUS
  <1>3. /\ Goto(a, w, x) /\ MayAccept(a, c) /\ c \notin answered[a]
        /\ answered' = [answered EXCEPT ![a] = @ \cup {c}]
        /\ UNCHANGED <<records, threads, permanent, events, created, sent, delivered, actions,
                       callbacks>>
    BY <1>1, <1>2 DEF Accept, MayAnswer, Once
  <1>4. e # NoEvent /\ EventFits(a, e) /\ Raised(a, e)
    BY <1>1, <1>3
    DEF MayAccept, OnceInv, AgentInv, EventsOf, OrderlyInv, AgentSteady, RaisedBy
  <1>5. AwaitedState(e) = FirstState(a)
    BY <1>4, AgentsAssumption DEF AwaitedState, EventFits, ReplyState, FirstState, Agents
  <1>6. records[a][c].state = FirstState(a)
    BY <1>1, <1>3, <1>5 DEF MayAccept, ConnectionRecord, IInv, StoresInv, FirstState
  <1>7. Pending(a)
    BY <1>1, <1>3, <1>4, <1>6 DEF Pending, Asked
  <1>8. RaisedBy(a)'
    BY <1>3 DEF OrderlyInv, AgentSteady, RaisedBy, Raised, Fresh
  <1>9. \A d \in Agents : d # a =>
             UNCHANGED <<events[d], actions[d], callbacks[d], answered[d]>>
    BY <1>3 DEF TypeOK
  <1> QED
    BY <1>2, <1>3, <1>4, <1>7, <1>8, <1>9, ResumeSteady

LEMMA CallbackSteady ==
    ASSUME TypeOK, OnceInv, OrderlyInv, NEW a \in Agents, TakeCallback(a)
    PROVE  OrderlyInv'
  <1> USE DEF stores, client, net, used
  <1>1. PICK b : b = Head(callbacks[a])
    OBVIOUS
  <1>2. PICK e, p : e = b.event /\ p = IF b.stop THEN "abandon" ELSE "execute"
    OBVIOUS
  <1>3. PICK x : x = [pc |-> p, msg |-> e.msg, next |-> e.next, rec |-> e.rec, out |-> NoMsg]
    OBVIOUS
  <1>4. /\ Goto(a, Listener, x) /\ callbacks[a] # << >>
        /\ callbacks' = [callbacks EXCEPT ![a] = Tail(@)]
        /\ UNCHANGED <<records, threads, permanent, events, created, sent, delivered, actions,
                       answered>>
    BY <1>1, <1>2, <1>3 DEF TakeCallback
  <1>5. PICK q : q = callbacks[a]
    OBVIOUS
  <1>6. q \in Seq([event : EventData, stop : BOOLEAN]) /\ q # << >> /\ b = Head(q)
    BY <1>1, <1>4, <1>5 DEF TypeOK
  <1>7. 1 \in DOMAIN q /\ b = q[1]
    BY <1>6, ShortSeq
  <1>8. EventFits(a, e) /\ Raised(a, e) /\ Pending(a)
    BY <1>2, <1>5, <1>7
    DEF OnceInv, AgentInv, EventsOf, OrderlyInv, AgentSteady, RaisedBy, Pending
  <1>9. callbacks'[a] = Tail(q)
    BY <1>4, <1>5 DEF TypeOK
  <1>10. \A i \in DOMAIN Tail(q) : i + 1 \in DOMAIN q /\ Tail(q)[i] = q[i + 1]
    BY <1>6, TailSeq
  <1>11. RaisedBy(a)'
    <2>1. \A f : Raised(a, f) => Raised(a, f)'
      BY <1>4 DEF Raised, Fresh
    <2>2. \A i \in DOMAIN callbacks'[a] : Raised(a, callbacks'[a][i].event)
      BY <1>5, <1>9, <1>10 DEF OrderlyInv, AgentSteady, RaisedBy
    <2> QED
      BY <1>4, <2>1, <2>2 DEF OrderlyInv, AgentSteady, RaisedBy
  <1>12. \A d \in Agents : d # a =>
             UNCHANGED <<events[d], actions[d], callbacks[d], answered[d]>>
    BY <1>4 DEF TypeOK
  <1>13. p \in {"execute", "abandon"} /\ Listener \in Workers
    BY <1>2 DEF Workers
  <1> QED
    BY <1>3, <1>4, <1>8, <1>11, <1>12, <1>13, ResumeSteady

\* A restart with a durable store leaves the record as it was, and nobody at work on it.
LEMMA CrashSteady ==
    ASSUME Orderly, TypeOK, OnceInv, OrderlyInv, NEW a \in Agents, Crash(a)
    PROVE  OrderlyInv'
  <1> USE DEF stores, client, net, used
  <1>1. /\ UNCHANGED <<records, threads, events, permanent, created, sent, delivered>>
        /\ workers' = [workers EXCEPT ![a] = [w \in Workers |-> IdleWorker]]
        /\ actions' = [actions EXCEPT ![a] = {}]
        /\ callbacks' = [callbacks EXCEPT ![a] = << >>]
        /\ answered' = [answered EXCEPT ![a] = {}]
    BY DEF Crash, Orderly
  <1>2. /\ \A v \in Workers : workers'[a][v].pc = "idle"
        /\ actions'[a] = {} /\ callbacks'[a] = << >>
    BY <1>1 DEF TypeOK, IdleWorker
  <1>3. Pending(a)' => records[a][1].state \in Early(a)
    <2>1. DOMAIN callbacks'[a] = {}
      BY <1>2
    <2>2. Pending(a)' => records[a][1].state = FirstState(a)
      BY <1>1, <1>2, <2>1 DEF Pending, Asked, FirstState, OnceInv, AgentInv, RecordsOf
    <2> QED
      BY <2>2 DEF Early
  <1>4. RaisedBy(a)'
    <2>1. DOMAIN callbacks'[a] = {}
      BY <1>2
    <2> QED
      BY <1>1, <1>2, <2>1 DEF OrderlyInv, AgentSteady, RaisedBy, Raised, Fresh
  <1>5. \A d \in Agents : d # a =>
             UNCHANGED <<events[d], actions[d], callbacks[d], answered[d], workers[d]>>
    BY <1>1 DEF TypeOK
  <1> QED
    BY <1>1, <1>2, <1>3, <1>4, <1>5, ClientSteady
\* The first record of a thread.
LEMMA FirstRecordSteady ==
    ASSUME TypeOK, OnceInv, OrderlyInv, NEW a \in Agents, NEW w \in Workers, NEW x,
           Goto(a, w, x), created[a] = 0, created' = [created EXCEPT ![a] = 1], 1 \in Conns,
           \A v \in Workers : v # w => workers[a][v].pc = "idle",
           NEW r, records' = [records EXCEPT ![a][1] = r], r.state = "null",
           a = Invitee => r.theirDID = NoDID,
           \A b \in Agents : b # a => threads'[b] = threads[b],
           UNCHANGED <<permanent, events, actions, callbacks, answered, sent, delivered>>,
           InClaim(a, x), SteadyClaim(a, x)'
    PROVE  OrderlyInv'
  <1>1. Own(a) = {} /\ Untouched(a) /\ \A b \in Agents : Own(b)' = Own(b)
    BY DEF OnceInv, AgentInv, RecordsOf, Own, ReplyType
  <1>2. ASSUME NEW b \in Agents, b # a PROVE AgentSteady(b)'
    <2>1. Same(b)
      BY <1>2 DEF Same, Goto, TypeOK
    <2> QED
      BY <1>1, <1>2, <2>1, OtherSteady DEF OrderlyInv
  <1>3. records'[a][1] = r /\ created'[a] = 1
    BY DEF TypeOK
  <1>4. ~ Pending(a)'
    BY <1>1 DEF Pending, Asked, Untouched
  <1>5. \A c \in Conns : permanent[a][c] = NoRec
    BY DEF OrderlyInv, AgentSteady, Stored
  <1>6. Stored(a)'
    BY <1>1, <1>3, <1>4, <1>5 DEF Stored, Early, Fresh
  <1>7. RaisedBy(a)'
    BY <1>1 DEF RaisedBy, Untouched
  <1>8. \A v \in Workers : workers'[a][v] = IF v = w THEN x ELSE workers[a][v]
    BY DEF Goto, TypeOK
  <1>9. \A v \in Workers : Steady(a, workers[a][v])'
    BY <1>8 DEF Steady, InClaim
  <1>10. Replies' \subseteq Replies
    BY KeepsReplies
  <1>11. CompleteSent'
    BY <1>3 DEF OrderlyInv, CompleteSent, Paired, TypeOK
  <1> QED
    BY <1>2, <1>6, <1>7, <1>9, <1>10, <1>11 DEF OrderlyInv, AgentSteady, OneReply

LEMMA NewRecordSteady ==
    ASSUME TypeOK, IInv, OnceInv, OrderlyInv, NEW a \in Agents, NEW w \in Workers,
           NewRecord(a, w)
    PROVE  OrderlyInv'
  <1> USE DEF stores, client, net, used
  <1> DEFINE me == workers[a][w]
  <1>1. me.pc = "record" /\ CreatesRecord(me.msg.type) /\ InClaim(a, me)
    BY DEF NewRecord, InClaim
  <1>2. /\ me \in WorkerType /\ FitsClaim(a, me) /\ Receiver(me.msg.type) = a
        /\ SteadyClaim(a, me)
    BY <1>1, AtWork
  <1>3. created[a] = 0 /\ me.next = FirstState(a) /\ FirstState(a) # ReplyState(a)
    BY <1>1, <1>2 DEF FitsClaim, FirstState, ReplyState
  <1>4. PICK r : r = [conn |-> 1, state |-> "null", myDID |-> NoDID,
                      theirDID |-> IF me.msg.type = "request" THEN me.msg.did ELSE NoDID]
    OBVIOUS
  <1>5. PICK x : x = [me EXCEPT !.pc = "execute", !.rec = r]
    OBVIOUS
  <1>6. /\ Goto(a, w, x) /\ created' = [created EXCEPT ![a] = 1] /\ 1 \in Conns
        /\ records' = [records EXCEPT ![a][1] = r]
        /\ UNCHANGED <<sent, delivered, events, actions, callbacks, answered, threads, permanent>>
    BY <1>3, <1>4, <1>5 DEF NewRecord
  <1>7. /\ x.pc = "execute" /\ x.msg = me.msg /\ x.next = me.next /\ x.rec = r
    BY <1>2, <1>5 DEF WorkerType
  <1>8. r.state = "null" /\ (a = Invitee => r.theirDID = NoDID)
    BY <1>2, <1>4, AgentsAssumption DEF Receiver
  <1>9. records'[a][1] = r /\ created'[a] = 1
    BY <1>6 DEF TypeOK
  <1>10. InClaim(a, x) /\ SteadyClaim(a, x)'
    BY <1>1, <1>3, <1>7, <1>8, <1>9 DEF InClaim, SteadyClaim, Leaves, Early, FirstState, ReplyState
  <1>11. \A v \in Workers : v # w => workers[a][v].pc = "idle"
    BY <1>1, OneGoroutine
  <1> QED
    BY <1>3, <1>6, <1>8, <1>10, <1>11, FirstRecordSteady

LEMMA ImplicitSteady ==
    ASSUME TypeOK, OnceInv, OrderlyInv, NEW w \in Workers, CreateImplicitInvitation(w)
    PROVE  OrderlyInv'
  <1> USE DEF stores, client, net, used
  <1>1. PICK r : r = [NoRec EXCEPT !.conn = 1]
    OBVIOUS
  <1>2. PICK x : x = [IdleWorker EXCEPT !.pc = "execute", !.next = "requested",
                              !.msg = Msg("invitation", NoDID), !.rec = r]
    OBVIOUS
  <1>3. PICK a : a = Invitee
    OBVIOUS
  <1>4. /\ Goto(a, w, x) /\ created[a] = 0 /\ Opening = "implicit"
        /\ created' = [created EXCEPT ![a] = 1] /\ 1 \in Conns
        /\ records' = [records EXCEPT ![a][1] = r]
        /\ threads' = [threads EXCEPT ![a] = 1] /\ a \in Agents
        /\ UNCHANGED <<sent, delivered, events, actions, callbacks, answered, permanent>>
    BY <1>1, <1>2, <1>3 DEF CreateImplicitInvitation, Agents
  <1>5. r.theirDID = NoDID /\ r.state = "null"
    BY <1>1 DEF NoRec
  <1>6. x.pc = "execute" /\ x.msg = Msg("invitation", NoDID) /\ x.next = "requested" /\ x.rec = r
    BY <1>2 DEF IdleWorker
  <1>7. InClaim(a, x)
    BY <1>6 DEF InClaim, CreatesRecord, Invitations, Msg
  <1>8. /\ records'[a][1] = r /\ created'[a] = 1 /\ threads'[a] = 1
        /\ \A b \in Agents : b # a => threads'[b] = threads[b]
    BY <1>4 DEF TypeOK
  <1>9. SteadyClaim(a, x)'
    BY <1>3, <1>5, <1>6, <1>8 DEF SteadyClaim, Leaves, Early, FirstState, ReplyState
  <1>10. ASSUME NEW v \in Workers PROVE workers[a][v].pc = "idle"
    <2>1. SUFFICES ASSUME workers[a][v].pc # "idle" PROVE FALSE
      OBVIOUS
    <2>2. Own(a) = {}
      BY <1>4 DEF OnceInv, AgentInv, RecordsOf
    <2>3. <<"goroutine", v>> \in Claims(a)
      BY <1>4, <2>1, <2>2, OpeningAlone
    <2>4. <<"start", 0>> \in Claims(a)
      BY <1>3, <1>4 DEF Claims
    <2>5. <<"start", 0>> = <<"goroutine", v>>
      BY <1>4, <2>3, <2>4 DEF OnceInv, AgentInv, ClaimsOf
    <2> QED
      BY <2>5
  <1> QED
    BY <1>4, <1>5, <1>7, <1>8, <1>9, <1>10, FirstRecordSteady

LEMMA InitSteady == Init => OrderlyInv
  <1> SUFFICES ASSUME Init PROVE OrderlyInv
    OBVIOUS
  <1>1. ASSUME NEW a \in Agents PROVE AgentSteady(a)
    <2>1. /\ created[a] = 0 /\ actions[a] = {} /\ callbacks[a] = << >>
          /\ \A c \in Conns : permanent[a][c] = NoRec /\ events[a][c] = NoEvent
          /\ \A w \in Workers : workers[a][w].pc = "idle"
      BY <1>1 DEF Init, IdleWorker
    <2> QED
      BY <2>1 DEF AgentSteady, Stored, RaisedBy, Steady
  <1>2. \A m \in sent : CreatesRecord(m.type) /\ m.type # "complete"
    BY AgentsAssumption DEF Init, Msg, CreatesRecord, Openings, Invitations
  <1>3. \A p \in Agents \X Workers : workers[p[1]][p[2]].pc = "idle"
    BY DEF Init, IdleWorker
  <1>4. Replies = {}
    BY <1>2, <1>3 DEF Replies
  <1> QED
    BY <1>1, <1>2, <1>4 DEF OrderlyInv, OneReply, CompleteSent

LEMMA NextSteady ==
    Orderly /\ TypeOK /\ IInv /\ OnceInv /\ OrderlyInv /\ [Next]_vars => OrderlyInv'
  <1> SUFFICES ASSUME Orderly, TypeOK, IInv, OnceInv, OrderlyInv, [Next]_vars PROVE OrderlyInv'
    OBVIOUS
  <1>0. Once
    BY DEF Orderly
  <1>1. ASSUME NEW w \in Handlers, CreateImplicitInvitation(w) PROVE OrderlyInv'
    BY <1>1, ImplicitSteady DEF Workers
  <1>2. ASSUME NEW a \in Agents, NEW w \in Handlers, NEW m \in sent,
               HandleInbound(a, w, m) \/ RejectInbound(a, w, m)
        PROVE  OrderlyInv'
    BY <1>0, <1>2, InboundSteady DEF Workers
  <1>3. ASSUME NEW a \in Agents, NEW w \in Workers, Run(a, w) PROVE OrderlyInv'
    BY <1>3, NewRecordSteady, FetchSteady, PlainSteady, ChooseSteady, ResponseSteady,
       PersistSteady, FollowSteady, ActSteady, SendEventSteady, AbandonSteady,
       SaveAbandonedSteady
    DEF Run, Execute, Save
  <1>4. ASSUME NEW a \in Agents, NEW w \in Workers, Fail(a, w) PROVE FALSE
    BY <1>4 DEF Fail, Orderly, TypeOK
  <1>5. ASSUME NEW a \in Agents, NEW e \in actions[a], Continue(a, e) \/ Stop(a, e)
        PROVE  OrderlyInv'
    BY <1>0, <1>5, AnswerSteady
  <1>6. ASSUME NEW a \in Agents, NEW w \in Handlers, NEW c \in Conns, Accept(a, w, c)
        PROVE  OrderlyInv'
    BY <1>0, <1>6, AcceptSteady DEF Workers
  <1>7. ASSUME NEW a \in Agents, TakeCallback(a) \/ Crash(a) PROVE OrderlyInv'
    BY <1>7, CallbackSteady, CrashSteady
  <1>8. ASSUME UNCHANGED vars PROVE OrderlyInv'
    <2> USE DEF vars, stores, client, net, used
    <2>1. \A b \in Agents : Same(b) /\ permanent'[b] = permanent[b]
      BY <1>8 DEF Same
    <2>2. \A b \in Agents : AgentSteady(b)'
      <3>1. \A b \in Agents : Own(b)' = Own(b)
        BY <1>8 DEF Own, ReplyType
      <3> QED
        BY <2>1, <3>1, OtherSteady DEF OrderlyInv
    <2>3. CompleteSent'
      BY <1>8 DEF OrderlyInv, CompleteSent, Paired
    <2>4. Replies' = Replies
      BY <1>8 DEF Replies, InClaim
    <2> QED
      BY <2>2, <2>3, <2>4 DEF OrderlyInv, OneReply
  <1> QED
    BY <1>1, <1>2, <1>3, <1>4, <1>5, <1>6, <1>7, <1>8 DEF Next
-----------------------------------------------------------------------------
(***************************************************************************)
(* What a step does to the record of a thread: it leaves it, or, before the *)
(* agent's DID is chosen, moves it among the states without one; else it    *)
(* stores the reply, handles an answer to it, or gives up before it.        *)
(***************************************************************************)
Keeps(a) ==
    \/ ThreadRecord(a)' = ThreadRecord(a)
    \/ ThreadRecord(a).state \in Early(a) /\ ThreadRecord(a)'.state \in Early(a)

StoresReply(a, w) ==
    LET me == workers[a][w]
    IN  /\ ThreadRecord(a).state \in Early(a) /\ me.rec.state = ReplyState(a)
        /\ me.rec.myDID # NoDID /\ Sourced(a, me.rec)
        /\ a = Invitee => me.rec.theirDID = NoDID

StoresAnswer(a, w) ==
    LET me == workers[a][w]
    IN  /\ ThreadRecord(a).state \in Waiting(a) /\ me.rec.state \in {"responded", "completed"}
        /\ Own(a) # {} /\ Chosen(a, me.rec) /\ Sourced(a, me.rec) /\ Fresh(a, me.rec)
        /\ a = Inviter => Paired

GivesUp(a, w) ==
    LET me == workers[a][w]
    IN  /\ ThreadRecord(a).state \in Early(a)
        /\ me.rec.state = "abandoned" /\ me.rec.myDID = NoDID

Stores(a, w) ==
    /\ StoresReply(a, w) \/ StoresAnswer(a, w) \/ GivesUp(a, w)
    /\ ThreadRecord(a)' = workers[a][w].rec
    /\ \A b \in Agents : b # a => ThreadRecord(b)' = ThreadRecord(b)

\* The record of the thread, once the thread leads to it.
LEMMA ThreadReads ==
    ASSUME TypeOK, OnceInv, NEW a \in Agents
    PROVE  ThreadRecord(a) = IF threads[a] = 1 THEN records[a][1] ELSE NoRec
  BY DEF ThreadRecord, TypeOK, OnceInv, AgentInv, RecordsOf, NoConn

\* A record that is written where the thread leads.
LEMMA RecordWritten ==
    ASSUME TypeOK, NEW a \in Agents, threads[a] = 1, 1 \in Conns, NEW r,
           records' = [records EXCEPT ![a][1] = r], threads' = threads
    PROVE  /\ ThreadRecord(a)' = r
           /\ \A b \in Agents : b # a => ThreadRecord(b)' = ThreadRecord(b)
  BY DEF ThreadRecord, TypeOK, NoConn

LEMMA PersistKnows ==
    ASSUME TypeOK, IInv, OnceInv, OrderlyInv, NEW a \in Agents, NEW w \in Workers, Persist(a, w)
    PROVE  Stores(a, w) \/ \A b \in Agents : Keeps(b)
  <1> USE DEF stores, client, net, used
  <1> DEFINE me == workers[a][w]
  <1>1. PICK r : r = me.rec
    OBVIOUS
  <1>2. /\ me.pc = "persist" /\ threads' = threads
        /\ records' = [records EXCEPT ![a][me.rec.conn] = me.rec]
    BY DEF Persist
  <1>3. /\ Receiver(me.msg.type) = a /\ me.msg \in Messages /\ r.state = me.next
        /\ InClaim(a, me) => FitsClaim(a, me) /\ SteadyClaim(a, me)
        /\ ~ InClaim(a, me) => FitsAnswer(a, me) /\ SteadyAnswer(a, me)
    BY <1>1, <1>2, AtWork DEF Sending
  <1>4. r.conn = 1
    BY <1>1, <1>2, <1>3 DEF FitsClaim, FitsAnswer, Leaves
  <1>5. records' = [records EXCEPT ![a][1] = r]
    BY <1>1, <1>2, <1>4
  <1>6. created[a] = 1 /\ 1 \in Conns
    BY <1>2, <1>3, BoundsAssumption
    DEF SteadyClaim, FitsAnswer, OnceInv, AgentInv, RecordsOf, TypeOK, Conns
  <1>7. CASE InClaim(a, me) /\ me.next = FirstState(a)
    <2>1. records[a][1].state \in Early(a) /\ r.state \in Early(a)
      BY <1>2, <1>3, <1>7 DEF SteadyClaim, Early
    <2>2. CASE threads[a] = 1
      <3>1. ThreadRecord(a) = records[a][1]
        BY <2>2, ThreadReads
      <3>2. /\ ThreadRecord(a)' = r
            /\ \A b \in Agents : b # a => ThreadRecord(b)' = ThreadRecord(b)
        BY <1>2, <1>5, <1>6, <2>2, RecordWritten
      <3>3. Keeps(a)
        BY <2>1, <3>1, <3>2 DEF Keeps, Early
      <3> QED
        BY <3>2, <3>3 DEF Keeps
    <2>3. CASE threads[a] # 1
      <3>1. \A b \in Agents : \A c \in Conns :
                records'[b][c] = IF b = a /\ c = 1 THEN r ELSE records[b][c]
        BY <1>5 DEF TypeOK
      <3>2. \A b \in Agents : ThreadRecord(b)' = ThreadRecord(b)
        BY <1>2, <2>3, <3>1 DEF ThreadRecord, TypeOK, NoConn
      <3> QED
        BY <3>2 DEF Keeps
    <2> QED
      BY <2>2, <2>3
  <1>8. CASE InClaim(a, me) /\ me.next # FirstState(a)
    <2>1. me.next = ReplyState(a) /\ threads[a] = 1 /\ records[a][1].state \in Early(a)
      BY <1>2, <1>3, <1>8 DEF FitsClaim, SteadyClaim
    <2>2. /\ r.myDID # NoDID /\ Sourced(a, r) /\ (a = Invitee => r.theirDID = NoDID)
      BY <1>1, <1>2, <1>3, <1>8, <2>1 DEF FitsClaim, SteadyClaim, Leaves
    <2>3. StoresReply(a, w)
      BY <1>1, <1>3, <2>1, <2>2, ThreadReads DEF StoresReply
    <2> QED
      BY <1>1, <1>2, <1>5, <1>6, <2>1, <2>3, RecordWritten DEF Stores
  <1>9. CASE ~ InClaim(a, me)
    <2>1. /\ records[a][1].state \in Waiting(a) /\ r.state \in {"responded", "completed"}
          /\ Own(a) # {} /\ Chosen(a, r) /\ Sourced(a, r) /\ Fresh(a, r) /\ me.msg \in sent
      BY <1>1, <1>2, <1>3, <1>9 DEF FitsAnswer, SteadyAnswer, Leaves
    <2>2. threads[a] = 1
      BY <1>6, <2>1
      DEF OrderlyInv, AgentSteady, Stored, Early, Waiting, FirstState, ReplyState
    <2>3. a = Inviter => Paired
      <3>1. a = Inviter => me.msg.type = "complete"
        BY <1>2, <1>3, <1>9, AgentsAssumption
        DEF InClaim, CreatesRecord, Receiver, Invitations, Messages, MsgTypes
      <3> QED
        BY <2>1, <3>1 DEF OrderlyInv, CompleteSent
    <2>4. StoresAnswer(a, w)
      BY <1>1, <2>1, <2>2, <2>3, ThreadReads DEF StoresAnswer
    <2> QED
      BY <1>1, <1>2, <1>5, <1>6, <2>2, <2>4, RecordWritten DEF Stores
  <1> QED
    BY <1>7, <1>8, <1>9

LEMMA GiveUpKnows ==
    ASSUME TypeOK, IInv, OnceInv, OrderlyInv, NEW a \in Agents, NEW w \in Workers,
           SaveAbandoned(a, w)
    PROVE  Stores(a, w)
  <1> USE DEF stores, client, net, used
  <1> DEFINE me == workers[a][w]
  <1>1. PICK r : r = me.rec
    OBVIOUS
  <1>2. /\ me.pc = "saveabandoned" /\ threads' = threads
        /\ records' = [records EXCEPT ![a][me.rec.conn] = me.rec]
    BY DEF SaveAbandoned
  <1>3. FitsLeave(a, me) /\ SteadyClaim(a, me)
    BY <1>2, InHands, AtWork DEF Fits, SteadyAnswer, Leaves
  <1>4. /\ records' = [records EXCEPT ![a][1] = r]
        /\ threads[a] = 1 /\ records[a][1].state \in Early(a)
        /\ r.state = "abandoned" /\ r.myDID = NoDID
    BY <1>1, <1>2, <1>3 DEF FitsLeave, SteadyClaim, Leaves, ReplyState
  <1>5. 1 \in Conns
    BY <1>3, BoundsAssumption DEF FitsLeave, TypeOK, Conns
  <1>6. GivesUp(a, w)
    BY <1>1, <1>4, ThreadReads DEF GivesUp
  <1> QED
    BY <1>1, <1>2, <1>4, <1>5, <1>6, RecordWritten DEF Stores

LEMMA StepKnows ==
    ASSUME Orderly, TypeOK, IInv, OnceInv, OrderlyInv, [Next]_vars
    PROVE  \/ \A b \in Agents : Keeps(b)
           \/ \E a \in Agents, w \in Workers : Stores(a, w)
  <1> USE DEF stores, client, net, used
  <1>1. ASSUME UNCHANGED <<records, threads>> PROVE \A b \in Agents : Keeps(b)
    BY <1>1 DEF Keeps, ThreadRecord
  <1>2. ASSUME NEW w \in Handlers, CreateImplicitInvitation(w) PROVE \A b \in Agents : Keeps(b)
    <2>1. PICK r, a : r = [NoRec EXCEPT !.conn = 1] /\ a = Invitee
      OBVIOUS
    <2>2. /\ records' = [records EXCEPT ![a][1] = r] /\ created[a] = 0 /\ a \in Agents
          /\ threads' = [threads EXCEPT ![a] = 1] /\ 1 \in Conns
      BY <1>2, <2>1 DEF CreateImplicitInvitation, Agents
    <2>3. ThreadRecord(a) = NoRec
      BY <2>2 DEF OnceInv, AgentInv, RecordsOf, Untouched, ThreadRecord
    <2>4. records'[a][1] = r /\ threads'[a] = 1
      BY <2>2 DEF TypeOK
    <2>5. ThreadRecord(a)' = r
      BY <2>4 DEF ThreadRecord, NoConn
    <2>6. \A b \in Agents : b # a => ThreadRecord(b)' = ThreadRecord(b)
      BY <2>2 DEF TypeOK, ThreadRecord
    <2>7. NoRec.state \in Early(a) /\ r.state \in Early(a)
      BY <2>1 DEF NoRec, Early
    <2>8. Keeps(a)
      BY <2>3, <2>5, <2>7 DEF Keeps, Early
    <2> QED
      BY <2>6, <2>8 DEF Keeps
  <1>3. ASSUME NEW a \in Agents, NEW w \in Workers, NewRecord(a, w)
        PROVE  \A b \in Agents : Keeps(b)
    <2>1. workers[a][w].pc = "record" /\ InClaim(a, workers[a][w])
      BY <1>3 DEF NewRecord, InClaim
    <2>2. created[a] = 0
      BY <2>1, InHands DEF Fits, FitsClaim
    <2>3. threads[a] = NoConn
      BY <2>2 DEF OnceInv, AgentInv, RecordsOf, Untouched
    <2>4. \A b \in Agents : threads'[b] = threads[b] /\ (b # a => records'[b] = records[b])
      BY <1>3 DEF NewRecord, TypeOK
    <2> QED
      BY <2>3, <2>4 DEF Keeps, ThreadRecord
  <1>4. ASSUME NEW a \in Agents, NEW w \in Workers, SaveMapping(a, w)
        PROVE  \A b \in Agents : Keeps(b)
    <2>1. workers[a][w].pc = "mapping" /\ records' = records
      BY <1>4 DEF SaveMapping
    <2>2. FitsClaim(a, workers[a][w]) /\ SteadyClaim(a, workers[a][w])
      BY <2>1, AtWork DEF FitsAnswer
    <2>3. records[a][1].state \in Early(a) /\ workers[a][w].rec.conn = 1
      BY <2>1, <2>2 DEF FitsClaim, SteadyClaim, Leaves
    <2>4. threads' = [threads EXCEPT ![a] = 1]
      BY <1>4, <2>3 DEF SaveMapping
    <2>5. \A b \in Agents : threads'[b] = IF b = a THEN 1 ELSE threads[b]
      BY <2>4 DEF TypeOK
    <2>6. \A b \in Agents : b # a => ThreadRecord(b)' = ThreadRecord(b)
      BY <2>1, <2>5 DEF ThreadRecord
    <2>7. ThreadRecord(a)' = records[a][1]
      BY <2>1, <2>5 DEF ThreadRecord, NoConn
    <2>8. ThreadRecord(a).state \in Early(a)
      BY <2>3, ThreadReads DEF NoRec, Early
    <2>9. Keeps(a)
      BY <2>3, <2>7, <2>8 DEF Keeps, Early
    <2> QED
      BY <2>6, <2>9 DEF Keeps
  <1>5. ASSUME NEW a \in Agents, NEW w \in Workers, Run(a, w)
        PROVE  Stores(a, w) \/ \A b \in Agents : Keeps(b)
    <2>1. CASE Persist(a, w)
      BY <2>1, PersistKnows
    <2>2. CASE SaveAbandoned(a, w)
      BY <2>2, GiveUpKnows
    <2>3. CASE NewRecord(a, w) \/ SaveMapping(a, w)
      BY <1>3, <1>4, <2>3
    <2>4. CASE FetchRecord(a, w) \/ SavePermanent(a, w) \/ SaveDID(a, w) \/ Act(a, w)
      BY <1>1, <2>4 DEF FetchRecord, SavePermanent, SaveDID, Act
    <2>5. CASE SendActionEvent(a, w) \/ Abandon(a, w)
      BY <1>1, <2>5 DEF SendActionEvent, Abandon
    <2>6. CASE Execute(a, w)
      BY <1>1, <2>6
      DEF Execute, ExecutePlain, ExecuteInvitation, ExecuteRequest, ExecuteResponse, Mint
    <2> QED
      BY <1>5, <2>1, <2>2, <2>3, <2>4, <2>5, <2>6 DEF Run, Save
  <1>6. ASSUME NEW a \in Agents, NEW w \in Workers, Fail(a, w) PROVE FALSE
    BY <1>6 DEF Fail, Orderly, TypeOK
  <1>7. ASSUME NEW a \in Agents, NEW w \in Handlers, NEW m \in sent,
               HandleInbound(a, w, m) \/ RejectInbound(a, w, m)
        PROVE  UNCHANGED <<records, threads>>
    BY <1>7 DEF HandleInbound, RejectInbound
  <1>8. ASSUME NEW a \in Agents, NEW e \in actions[a], Continue(a, e) \/ Stop(a, e)
        PROVE  UNCHANGED <<records, threads>>
    BY <1>8 DEF Continue, Stop, Answer
  <1>9. ASSUME NEW a \in Agents, NEW w \in Handlers, NEW c \in Conns, Accept(a, w, c)
        PROVE  UNCHANGED <<records, threads>>
    BY <1>9 DEF Accept
  <1>10. ASSUME NEW a \in Agents, TakeCallback(a) \/ Crash(a)
         PROVE  UNCHANGED <<records, threads>>
    BY <1>10 DEF TakeCallback, Crash, Orderly
  <1>11. ASSUME UNCHANGED vars PROVE UNCHANGED <<records, threads>>
    BY <1>11 DEF vars
  <1> QED
    BY <1>1, <1>2, <1>5, <1>6, <1>7, <1>8, <1>9, <1>10, <1>11 DEF Next

\* A record that is completed or abandoned is not written again.
LEMMA FinalKept ==
    ASSUME Orderly, TypeOK, IInv, OnceInv, OrderlyInv, [Next]_vars, NEW b \in Agents,
           ThreadRecord(b).state \in {"completed", "abandoned"}
    PROVE  ThreadRecord(b)' = ThreadRecord(b)
  <1>1. ThreadRecord(b).state \notin Early(b) \cup Waiting(b)
    BY DEF Early, Waiting, FirstState, ReplyState
  <1>2. ASSUME NEW a \in Agents, NEW w \in Workers, Stores(a, w)
        PROVE  ThreadRecord(b)' = ThreadRecord(b)
    BY <1>1, <1>2 DEF Stores, StoresReply, StoresAnswer, GivesUp
  <1> QED
    BY <1>1, <1>2, StepKnows DEF Keeps

-----------------------------------------------------------------------------
\* Whoever asks the permanent store gets the record the protocol has: nothing is
\* written for a thread once its record is permanent.  For any number of goroutines and
\* restarts, when no write fails and a message is handled once and an event answered once.
THEOREM PermanentStoreIsCurrent ==
    ASSUME Orderly
    PROVE  Spec => []StoresAgree
  <1>1. Init => TypeOK /\ IInv /\ OnceInv /\ OrderlyInv
    BY InitType, InitInv, InitOnce, InitSteady
  <1>2. TypeOK /\ IInv /\ OnceInv /\ OrderlyInv /\ [Next]_vars
            => (TypeOK /\ IInv /\ OnceInv /\ OrderlyInv)'
    BY NextType, NextInv, NextOnce, NextSteady DEF Orderly
  <1>3. OrderlyInv => StoresAgree
    BY DEF OrderlyInv, AgentSteady, Stored, StoresAgree
  <1> QED
    BY <1>1, <1>2, <1>3, PTL DEF Spec

\* What is stored for a thread never leaves "completed", the last state of states.go.
THEOREM CompletedStaysCompleted ==
    ASSUME Orderly
    PROVE  Spec => CompletedNeverReopened
  <1>1. Init => TypeOK /\ IInv /\ OnceInv /\ OrderlyInv
    BY InitType, InitInv, InitOnce, InitSteady
  <1>2. TypeOK /\ IInv /\ OnceInv /\ OrderlyInv /\ [Next]_vars
            => (TypeOK /\ IInv /\ OnceInv /\ OrderlyInv)'
    BY NextType, NextInv, NextOnce, NextSteady DEF Orderly
  <1>3. TypeOK /\ IInv /\ OnceInv /\ OrderlyInv /\ [Next]_vars
            => [\A a \in Agents : ThreadRecord(a).state = "completed" =>
                    ThreadRecord(a)'.state = "completed"]_vars
    BY FinalKept
  <1> QED
    BY <1>1, <1>2, <1>3, PTL DEF Spec, CompletedNeverReopened

\* What is stored for a thread never leaves "abandoned" either: once the client has
\* stopped it, nothing the peer or another goroutine does takes it up again.
THEOREM AbandonedStaysAbandoned ==
    ASSUME Orderly
    PROVE  Spec => AbandonedIsFinal
  <1>1. Init => TypeOK /\ IInv /\ OnceInv /\ OrderlyInv
    BY InitType, InitInv, InitOnce, InitSteady
  <1>2. TypeOK /\ IInv /\ OnceInv /\ OrderlyInv /\ [Next]_vars
            => (TypeOK /\ IInv /\ OnceInv /\ OrderlyInv)'
    BY NextType, NextInv, NextOnce, NextSteady DEF Orderly
  <1>3. TypeOK /\ IInv /\ OnceInv /\ OrderlyInv /\ [Next]_vars
            => [\A a \in Agents : ThreadRecord(a).state = "abandoned" =>
                    ThreadRecord(a)'.state = "abandoned"]_vars
    BY FinalKept
  <1> QED
    BY <1>1, <1>2, <1>3, PTL DEF Spec, AbandonedIsFinal
-----------------------------------------------------------------------------
(***************************************************************************)
(* The exchange implements Handshake: storing a reply is Ask or Answer,     *)
(* storing "completed" is Pair or Confirm, giving up is Abandon, and every  *)
(* other step leaves what Handshake sees as it is.                          *)
(***************************************************************************)

\* What Handshake sees of an agent whose thread holds the record `r`.
PhaseOf(a, s) ==
    CASE s = "completed" -> "paired"
      [] s = "abandoned" -> "abandoned"
      [] s = "responded" /\ a = Inviter                -> "answered"
      [] s \in {"requested", "responded"} /\ a = Invitee -> "asked"
      [] OTHER -> "open"
TheirOf(r) == IF r.myDID = NoDID THEN NoDID ELSE r.theirDID

LEMMA Seen ==
    /\ \A a \in Agents : \A s \in Early(a) : PhaseOf(a, s) = "open"
    /\ \A s \in {"requested", "responded"} : PhaseOf(Invitee, s) = "asked"
    /\ PhaseOf(Inviter, "responded") = "answered"
    /\ \A a \in Agents : PhaseOf(a, "completed") = "paired"
    /\ \A a \in Agents : PhaseOf(a, "abandoned") = "abandoned"
  <1> USE AgentsAssumption DEF PhaseOf, Early, FirstState, Agents
  <1>1. \A a \in Agents : \A s \in Early(a) : PhaseOf(a, s) = "open"
    OBVIOUS
  <1>2. \A s \in {"requested", "responded"} : PhaseOf(Invitee, s) = "asked"
    OBVIOUS
  <1>3. PhaseOf(Inviter, "responded") = "answered"
    OBVIOUS
  <1>4. \A a \in Agents : PhaseOf(a, "completed") = "paired"
    OBVIOUS
  <1>5. \A a \in Agents : PhaseOf(a, "abandoned") = "abandoned"
    OBVIOUS
  <1> QED
    BY <1>1, <1>2, <1>3, <1>4, <1>5

\* Before the agent's DID is chosen, its record has none.
Blank == \A a \in Agents :
    ThreadRecord(a).state \in Early(a) => ThreadRecord(a).myDID = NoDID

LEMMA EarlyBlank == TypeOK /\ OnceInv => Blank
  <1> SUFFICES ASSUME TypeOK, OnceInv, NEW a \in Agents, ThreadRecord(a).state \in Early(a)
               PROVE  ThreadRecord(a).myDID = NoDID
    BY DEF Blank
  <1>1. CASE ThreadRecord(a) = NoRec
    BY <1>1 DEF NoRec
  <1>2. CASE ThreadRecord(a) # NoRec
    <2>1. threads[a] \in Conns /\ ThreadRecord(a) = records[a][threads[a]]
      BY <1>2 DEF ThreadRecord, TypeOK
    <2> QED
      BY <1>2, <2>1 DEF OnceInv, AgentInv, RecordsOf, Early
  <1> QED
    BY <1>1, <1>2

\* An agent whose DID is out has it in the record of its thread.
LEMMA SentRecord ==
    ASSUME TypeOK, OnceInv, OrderlyInv, NEW a \in Agents, NEW m \in Own(a)
    PROVE  /\ ThreadRecord(a).myDID = m.did /\ m.did # NoDID
           /\ ThreadRecord(a).state \in Waiting(a) \cup {"completed"}
           /\ Sourced(a, ThreadRecord(a)) /\ Fresh(a, ThreadRecord(a))
  <1>1. created[a] = 1 /\ m.did # NoDID
    BY DEF OnceInv, AgentInv, RecordsOf
  <1>2. 1 \in Conns
    BY <1>1, BoundsAssumption DEF TypeOK, Conns
  <1>3. records[a][1].state \in Waiting(a) \cup {"completed"}
    BY <1>1 DEF OrderlyInv, AgentSteady, Stored
  <1>4. records[a][1] # NoRec /\ records[a][1].state \notin Early(a)
    BY <1>3 DEF NoRec, Early, Waiting, FirstState, ReplyState
  <1>5. ThreadRecord(a) = records[a][1]
    BY <1>1, <1>4, ThreadReads DEF OrderlyInv, AgentSteady, Stored
  <1>6. Chosen(a, records[a][1]) /\ Sourced(a, records[a][1])
    BY <1>2, <1>4 DEF OnceInv, AgentInv, RecordsOf
  <1>7. Fresh(a, records[a][1])
    BY <1>1 DEF OrderlyInv, AgentSteady, Stored
  <1> QED
    BY <1>1, <1>3, <1>5, <1>6, <1>7 DEF Chosen

\* A message with a DID of the peer is one that the peer holds.
LEMMA PeerHolds ==
    ASSUME TypeOK, OnceInv, OrderlyInv
    PROVE  /\ \A d : Msg("request", d) \in sent => d = ThreadRecord(Invitee).myDID /\ d # NoDID
           /\ \A d : Msg("response", d) \in sent => d = ThreadRecord(Inviter).myDID /\ d # NoDID
  <1>1. ASSUME NEW d, Msg("request", d) \in sent
        PROVE  d = ThreadRecord(Invitee).myDID /\ d # NoDID
    <2>1. PICK m : m = Msg("request", d)
      OBVIOUS
    <2>2. m \in Own(Invitee) /\ m.did = d
      BY <1>1, <2>1 DEF Own, ReplyType, Msg
    <2> QED
      BY <2>2, SentRecord DEF Agents
  <1>2. ASSUME NEW d, Msg("response", d) \in sent
        PROVE  d = ThreadRecord(Inviter).myDID /\ d # NoDID
    <2>1. PICK m : m = Msg("response", d)
      OBVIOUS
    <2>2. m \in Own(Inviter) /\ m.did = d
      BY <1>2, <2>1, AgentsAssumption DEF Own, ReplyType, Msg
    <2> QED
      BY <2>2, SentRecord DEF Agents
  <1> QED
    BY <1>1, <1>2

\* A step of Handshake, between two views of the agents.
HandshakeStep(p, m, t, p2, m2, t2) ==
    \/ p2 = p /\ m2 = m /\ t2 = t
    \/ /\ p[Invitee] = "open" /\ p2 = [p EXCEPT ![Invitee] = "asked"]
       /\ m2[Invitee] # NoDID /\ m2 = [m EXCEPT ![Invitee] = m2[Invitee]] /\ t2 = t
    \/ /\ p[Inviter] = "open" /\ m[Invitee] # NoDID
       /\ p2 = [p EXCEPT ![Inviter] = "answered"]
       /\ m2[Inviter] # NoDID /\ m2 = [m EXCEPT ![Inviter] = m2[Inviter]]
       /\ t2 = [t EXCEPT ![Inviter] = m[Invitee]]
    \/ /\ p[Invitee] = "asked" /\ m[Inviter] # NoDID
       /\ p2 = [p EXCEPT ![Invitee] = "paired"]
       /\ t2 = [t EXCEPT ![Invitee] = m[Inviter]] /\ m2 = m
    \/ /\ p[Inviter] = "answered" /\ p[Invitee] = "paired"
       /\ p2 = [p EXCEPT ![Inviter] = "paired"] /\ m2 = m /\ t2 = t
    \/ \E a \in Agents : /\ p[a] \notin {"paired", "abandoned"}
                         /\ p2 = [p EXCEPT ![a] = "abandoned"] /\ m2 = m /\ t2 = t

LEMMA ViewStep ==
    ASSUME Orderly, TypeOK, IInv, OnceInv, OrderlyInv, [Next]_vars, Blank, Blank',
           NEW p, NEW m, NEW t, NEW p2, NEW m2, NEW t2,
           p = [b \in Agents |-> PhaseOf(b, ThreadRecord(b).state)],
           m = [b \in Agents |-> ThreadRecord(b).myDID],
           t = [b \in Agents |-> TheirOf(ThreadRecord(b))],
           p2 = [b \in Agents |-> PhaseOf(b, ThreadRecord(b)'.state)],
           m2 = [b \in Agents |-> ThreadRecord(b)'.myDID],
           t2 = [b \in Agents |-> TheirOf(ThreadRecord(b)')]
    PROVE  HandshakeStep(p, m, t, p2, m2, t2)
  <1>1. \A b \in Agents :
            ThreadRecord(b).state \in Early(b) => ThreadRecord(b).myDID = NoDID
    BY DEF Blank
  <1>2. \A b \in Agents :
            ThreadRecord(b)'.state \in Early(b) => ThreadRecord(b)'.myDID = NoDID
    BY DEF Blank, Early, FirstState
  <1>3. ASSUME NEW b \in Agents, ThreadRecord(b)' = ThreadRecord(b)
        PROVE  p2[b] = p[b] /\ m2[b] = m[b] /\ t2[b] = t[b]
    BY <1>3
  <1>4. ASSUME \A b \in Agents : Keeps(b) PROVE HandshakeStep(p, m, t, p2, m2, t2)
    <2>1. ASSUME NEW b \in Agents PROVE p2[b] = p[b] /\ m2[b] = m[b] /\ t2[b] = t[b]
      <3>1. CASE ThreadRecord(b)' = ThreadRecord(b)
        BY <1>3, <3>1
      <3>2. CASE ThreadRecord(b).state \in Early(b) /\ ThreadRecord(b)'.state \in Early(b)
        BY <1>1, <1>2, <3>2, Seen DEF TheirOf
      <3> QED
        BY <1>4, <3>1, <3>2 DEF Keeps
    <2>2. p2 = p /\ m2 = m /\ t2 = t
      BY <2>1
    <2> QED
      BY <2>2 DEF HandshakeStep
  <1>5. ASSUME NEW a \in Agents, NEW w \in Workers, Stores(a, w)
        PROVE  HandshakeStep(p, m, t, p2, m2, t2)
    <2>1. PICK q, r : q = ThreadRecord(a) /\ r = workers[a][w].rec
      OBVIOUS
    <2>2. /\ p[a] = PhaseOf(a, q.state) /\ m[a] = q.myDID /\ t[a] = TheirOf(q)
          /\ p2[a] = PhaseOf(a, r.state) /\ m2[a] = r.myDID /\ t2[a] = TheirOf(r)
      BY <1>5, <2>1 DEF Stores
    <2>3. \A b \in Agents : b # a => p2[b] = p[b] /\ m2[b] = m[b] /\ t2[b] = t[b]
      BY <1>3, <1>5 DEF Stores
    <2>4. /\ p2 = [p EXCEPT ![a] = p2[a]] /\ m2 = [m EXCEPT ![a] = m2[a]]
          /\ t2 = [t EXCEPT ![a] = t2[a]]
      BY <2>3
    <2>6. CASE StoresReply(a, w)
      <3>1. /\ q.state \in Early(a) /\ q.myDID = NoDID /\ p[a] = "open" /\ t[a] = NoDID
            /\ r.state = ReplyState(a) /\ r.myDID # NoDID /\ Sourced(a, r)
            /\ a = Invitee => r.theirDID = NoDID
        BY <1>1, <2>1, <2>2, <2>6, Seen DEF StoresReply, TheirOf
      <3>2. t2[a] = r.theirDID /\ m2[a] # NoDID
        BY <2>2, <3>1 DEF TheirOf
      <3>3. CASE a = Invitee
        <4>1. p2[a] = "asked" /\ t2[a] = t[a]
          BY <2>2, <3>1, <3>2, <3>3, Seen DEF ReplyState
        <4>2. t2 = t
          BY <2>3, <4>1
        <4> QED
          BY <2>4, <3>1, <3>2, <3>3, <4>1, <4>2 DEF HandshakeStep
      <3>4. CASE a = Inviter
        <4>1. p2[a] = "answered"
          BY <2>2, <3>1, <3>4, Seen, AgentsAssumption DEF ReplyState
        <4>2. r.theirDID = m[Invitee] /\ m[Invitee] # NoDID
          BY <3>1, <3>4, PeerHolds DEF Sourced, Agents
        <4>3. /\ p2 = [p EXCEPT ![Inviter] = "answered"]
              /\ m2 = [m EXCEPT ![Inviter] = m2[Inviter]]
              /\ t2 = [t EXCEPT ![Inviter] = m[Invitee]]
          BY <2>4, <3>2, <3>4, <4>1, <4>2
        <4> QED
          BY <3>1, <3>2, <3>4, <4>2, <4>3 DEF HandshakeStep
      <3> QED
        BY <3>3, <3>4 DEF Agents
    <2>7. CASE StoresAnswer(a, w)
      <3>1. /\ q.state \in Waiting(a) /\ r.state \in {"responded", "completed"}
            /\ Own(a) # {} /\ Chosen(a, r) /\ Sourced(a, r) /\ Fresh(a, r)
            /\ a = Inviter => Paired
        BY <2>1, <2>7 DEF StoresAnswer
      <3>2. PICK k \in Own(a) : TRUE
        BY <3>1
      <3>3. /\ q.myDID = k.did /\ r.myDID = k.did /\ k.did # NoDID
            /\ Sourced(a, q) /\ Fresh(a, q)
        BY <2>1, <3>1, <3>2, SentRecord DEF Chosen
      <3>4. m2[a] = m[a] /\ t[a] = q.theirDID /\ t2[a] = r.theirDID
        BY <2>2, <3>3 DEF TheirOf
      <3>5. m2 = m
        BY <2>3, <3>4
      <3>6. CASE a = Invitee
        <4>1. q.state \in {"requested", "responded"} /\ p[a] = "asked" /\ t[a] = NoDID
          BY <2>2, <3>1, <3>3, <3>4, <3>6, Seen DEF Waiting, ReplyState, Fresh
        <4>2. CASE r.state = "responded"
          <5>1. p2[a] = p[a] /\ t2[a] = t[a]
            BY <2>2, <3>1, <3>4, <3>6, <4>1, <4>2, Seen DEF Fresh
          <5>2. p2 = p /\ t2 = t
            BY <2>3, <5>1
          <5> QED
            BY <3>5, <5>2 DEF HandshakeStep
        <4>3. CASE r.state = "completed"
          <5>1. p2[a] = "paired"
            BY <2>2, <4>3, Seen
          <5>2. r.theirDID = m[Inviter] /\ m[Inviter] # NoDID
            BY <3>1, <3>6, <4>3, PeerHolds DEF Sourced, Agents
          <5>3. /\ p2 = [p EXCEPT ![Invitee] = "paired"]
                /\ t2 = [t EXCEPT ![Invitee] = m[Inviter]]
            BY <2>4, <3>4, <3>6, <5>1, <5>2
          <5> QED
            BY <3>5, <3>6, <4>1, <5>2, <5>3 DEF HandshakeStep
        <4> QED
          BY <3>1, <4>2, <4>3
      <3>7. CASE a = Inviter
        <4>1. q.state = "responded" /\ p[a] = "answered"
          BY <2>2, <3>1, <3>7, Seen, AgentsAssumption DEF Waiting, ReplyState
        <4>2. t2[a] = t[a]
          <5>1. q.theirDID = r.theirDID
            BY <3>1, <3>3, <3>7, PeerHolds DEF Sourced
          <5> QED
            BY <3>4, <5>1
        <4>3. t2 = t
          BY <2>3, <4>2
        <4>4. CASE r.state = "responded"
          <5>1. p2[a] = p[a]
            BY <2>2, <3>7, <4>1, <4>4
          <5>2. p2 = p
            BY <2>3, <5>1
          <5> QED
            BY <3>5, <4>3, <5>2 DEF HandshakeStep
        <4>5. CASE r.state = "completed"
          <5>1. p2[a] = "paired"
            BY <2>2, <4>5, Seen
          <5>2. p[Invitee] = "paired"
            <6>1. records[Invitee][1].state = "completed" /\ created[Invitee] = 1
              BY <3>1, <3>7 DEF Paired
            <6>2. threads[Invitee] = 1
              BY <6>1 DEF OrderlyInv, AgentSteady, Stored, Early, FirstState, Agents
            <6>3. ThreadRecord(Invitee).state = "completed"
              BY <6>1, <6>2, ThreadReads DEF Agents
            <6> QED
              BY <6>3, Seen DEF Agents
          <5> QED
            BY <2>4, <3>5, <3>7, <4>1, <4>3, <5>1, <5>2 DEF HandshakeStep
        <4> QED
          BY <3>1, <4>4, <4>5
      <3> QED
        BY <3>6, <3>7 DEF Agents
    <2>8. CASE GivesUp(a, w)
      <3>1. /\ q.myDID = NoDID /\ p[a] = "open" /\ r.state = "abandoned" /\ r.myDID = NoDID
        BY <1>1, <2>1, <2>2, <2>8, Seen DEF GivesUp
      <3>2. p2[a] = "abandoned" /\ m2[a] = m[a] /\ t2[a] = t[a]
        BY <2>2, <3>1, Seen DEF TheirOf
      <3>3. m2 = m /\ t2 = t
        BY <2>3, <3>2
      <3> QED
        BY <2>4, <3>1, <3>2, <3>3 DEF HandshakeStep
    <2> QED
      BY <1>5, <2>6, <2>7, <2>8 DEF Stores
  <1> QED
    BY <1>4, <1>5, StepKnows

LEMMA HandshakeInit == Init => HS!Init
  <1> SUFFICES ASSUME Init PROVE HS!Init
    OBVIOUS
  <1>1. \A a \in Agents : ThreadRecord(a) = NoRec
    BY DEF Init, ThreadRecord
  <1>2. \A a \in Agents : Phase(a) = "open" /\ ThreadRecord(a).myDID = NoDID
    BY <1>1 DEF Phase, NoRec
  <1> QED
    BY <1>2 DEF HS!Init, HS!Agents, Agents

LEMMA HandshakeNext ==
    ASSUME Orderly, TypeOK, IInv, OnceInv, OrderlyInv, [Next]_vars, Blank, Blank'
    PROVE  [HS!Next]_(HS!vars)
  <1>1. PICK p, m, t : /\ p = [a \in Agents |-> Phase(a)]
                       /\ m = [a \in Agents |-> ThreadRecord(a).myDID]
                       /\ t = [a \in Agents |-> IF ThreadRecord(a).myDID = NoDID THEN NoDID
                                                ELSE ThreadRecord(a).theirDID]
    OBVIOUS
  <1>2. PICK p2, m2, t2 :
            /\ p2 = [a \in Agents |-> Phase(a)]'
            /\ m2 = [a \in Agents |-> ThreadRecord(a).myDID]'
            /\ t2 = [a \in Agents |-> IF ThreadRecord(a).myDID = NoDID THEN NoDID
                                      ELSE ThreadRecord(a).theirDID]'
    OBVIOUS
  <1>3. /\ p = [b \in Agents |-> PhaseOf(b, ThreadRecord(b).state)]
        /\ t = [b \in Agents |-> TheirOf(ThreadRecord(b))]
    BY <1>1, Zenon DEF Phase, PhaseOf, TheirOf
  <1>4. /\ p2 = [b \in Agents |-> PhaseOf(b, ThreadRecord(b)'.state)]
        /\ m2 = [b \in Agents |-> ThreadRecord(b)'.myDID]
        /\ t2 = [b \in Agents |-> TheirOf(ThreadRecord(b)')]
    BY <1>2, Zenon DEF Phase, PhaseOf, TheirOf
  <1>5. HandshakeStep(p, m, t, p2, m2, t2)
    BY <1>1, <1>3, <1>4, ViewStep
  <1>6. CASE p2 = p /\ m2 = m /\ t2 = t
    BY <1>1, <1>2, <1>6 DEF HS!vars
  <1>7. CASE /\ p[Invitee] = "open" /\ p2 = [p EXCEPT ![Invitee] = "asked"]
             /\ m2[Invitee] # NoDID /\ m2 = [m EXCEPT ![Invitee] = m2[Invitee]] /\ t2 = t
    <2>1. HS!Ask
      BY <1>1, <1>2, <1>7 DEF HS!Ask
    <2> QED
      BY <2>1 DEF HS!Next
  <1>8. CASE /\ p[Inviter] = "open" /\ m[Invitee] # NoDID
             /\ p2 = [p EXCEPT ![Inviter] = "answered"]
             /\ m2[Inviter] # NoDID /\ m2 = [m EXCEPT ![Inviter] = m2[Inviter]]
             /\ t2 = [t EXCEPT ![Inviter] = m[Invitee]]
    <2>1. HS!Answer
      BY <1>1, <1>2, <1>8 DEF HS!Answer
    <2> QED
      BY <2>1 DEF HS!Next
  <1>9. CASE /\ p[Invitee] = "asked" /\ m[Inviter] # NoDID
             /\ p2 = [p EXCEPT ![Invitee] = "paired"]
             /\ t2 = [t EXCEPT ![Invitee] = m[Inviter]] /\ m2 = m
    <2>1. HS!Pair
      BY <1>1, <1>2, <1>9 DEF HS!Pair
    <2> QED
      BY <2>1 DEF HS!Next
  <1>10. CASE /\ p[Inviter] = "answered" /\ p[Invitee] = "paired"
              /\ p2 = [p EXCEPT ![Inviter] = "paired"] /\ m2 = m /\ t2 = t
    <2>1. HS!Confirm
      BY <1>1, <1>2, <1>10 DEF HS!Confirm
    <2> QED
      BY <2>1 DEF HS!Next
  <1>11. CASE \E a \in Agents : /\ p[a] \notin {"paired", "abandoned"}
                                /\ p2 = [p EXCEPT ![a] = "abandoned"] /\ m2 = m /\ t2 = t
    <2>1. PICK a \in Agents : /\ p[a] \notin {"paired", "abandoned"}
                              /\ p2 = [p EXCEPT ![a] = "abandoned"] /\ m2 = m /\ t2 = t
      BY <1>11
    <2>2. HS!Abandon(a)
      BY <1>1, <1>2, <2>1 DEF HS!Abandon
    <2> QED
      BY <2>2 DEF HS!Next, HS!Agents, Agents
  <1> QED
    BY <1>5, <1>6, <1>7, <1>8, <1>9, <1>10, <1>11 DEF HandshakeStep

\* The exchange implements Handshake: the invitee asks with the DID it has stored, the
\* inviter answers with its own to the DID it was given, each takes the other's in its
\* turn, the inviter last, and who gives up does so before its DID is out.  For any number
\* of goroutines and restarts with a durable store.
THEOREM ExchangeIsHandshake ==
    ASSUME Orderly
    PROVE  Spec => ImplementsHandshake
  <1>1. Init => TypeOK /\ IInv /\ OnceInv /\ OrderlyInv
    BY InitType, InitInv, InitOnce, InitSteady
  <1>2. TypeOK /\ IInv /\ OnceInv /\ OrderlyInv /\ [Next]_vars
            => (TypeOK /\ IInv /\ OnceInv /\ OrderlyInv)'
    BY NextType, NextInv, NextOnce, NextSteady DEF Orderly
  <1>3. TypeOK /\ IInv /\ OnceInv /\ OrderlyInv /\ [Next]_vars /\ Blank /\ Blank'
            => [HS!Next]_(HS!vars)
    BY HandshakeNext
  <1> QED
    BY <1>1, <1>2, <1>3, EarlyBlank, HandshakeInit, PTL
    DEF Spec, ImplementsHandshake, HS!Spec

(***************************************************************************)
(* What the handshake guarantees, and so the exchange that implements it: a  *)
(* DID is chosen once, on leaving "open", and read only after that.          *)
(***************************************************************************)
PairsFine(p, m, t) ==
    /\ DOMAIN p = Agents /\ DOMAIN m = Agents /\ DOMAIN t = Agents
    /\ \A a \in Agents : p[a] = "open" => m[a] = NoDID
    /\ p[Inviter] \in {"answered", "paired"} =>
          m[Invitee] # NoDID /\ t[Inviter] = m[Invitee]
    /\ p[Invitee] = "paired" => m[Inviter] # NoDID /\ t[Invitee] = m[Inviter]

HInv == PairsFine([a \in Agents |-> Phase(a)],
                  [a \in Agents |-> ThreadRecord(a).myDID],
                  [a \in Agents |-> IF ThreadRecord(a).myDID = NoDID THEN NoDID
                                   ELSE ThreadRecord(a).theirDID])

LEMMA PairsStayFine ==
    ASSUME NEW p, NEW m, NEW t, NEW p2, NEW m2, NEW t2,
           PairsFine(p, m, t), HandshakeStep(p, m, t, p2, m2, t2)
    PROVE  PairsFine(p2, m2, t2)
  BY AgentsAssumption DEF PairsFine, HandshakeStep, Agents

LEMMA HInvInit == HS!Init => HInv
  <1> SUFFICES ASSUME HS!Init PROVE HInv
    OBVIOUS
  <1>1. PICK p, m, t : /\ p = [a \in Agents |-> Phase(a)]
                       /\ m = [a \in Agents |-> ThreadRecord(a).myDID]
                       /\ t = [a \in Agents |-> IF ThreadRecord(a).myDID = NoDID THEN NoDID
                                                ELSE ThreadRecord(a).theirDID]
    OBVIOUS
  <1>2. /\ p = [a \in Agents |-> "open"] /\ m = [a \in Agents |-> NoDID]
        /\ t = [a \in Agents |-> NoDID]
    BY <1>1, Zenon DEF HS!Init, HS!Agents, Agents
  <1>3. PairsFine(p, m, t)
    BY <1>2 DEF PairsFine, Agents
  <1> QED
    BY <1>1, <1>3, Zenon DEF HInv

LEMMA HInvNext == HInv /\ [HS!Next]_(HS!vars) => HInv'
  <1> SUFFICES ASSUME HInv, [HS!Next]_(HS!vars) PROVE HInv'
    OBVIOUS
  <1>1. PICK p, m, t : /\ p = [a \in Agents |-> Phase(a)]
                       /\ m = [a \in Agents |-> ThreadRecord(a).myDID]
                       /\ t = [a \in Agents |-> IF ThreadRecord(a).myDID = NoDID THEN NoDID
                                                ELSE ThreadRecord(a).theirDID]
    OBVIOUS
  <1>2. PICK p2, m2, t2 :
            /\ p2 = [a \in Agents |-> Phase(a)]'
            /\ m2 = [a \in Agents |-> ThreadRecord(a).myDID]'
            /\ t2 = [a \in Agents |-> IF ThreadRecord(a).myDID = NoDID THEN NoDID
                                      ELSE ThreadRecord(a).theirDID]'
    OBVIOUS
  <1>3. HandshakeStep(p, m, t, p2, m2, t2)
    <2>1. CASE HS!Ask
      BY <1>1, <1>2, <2>1 DEF HS!Ask, HandshakeStep
    <2>2. CASE HS!Answer
      BY <1>1, <1>2, <2>2 DEF HS!Answer, HandshakeStep
    <2>3. CASE HS!Pair
      BY <1>1, <1>2, <2>3 DEF HS!Pair, HandshakeStep
    <2>4. CASE HS!Confirm
      BY <1>1, <1>2, <2>4 DEF HS!Confirm, HandshakeStep
    <2>5. CASE \E a \in HS!Agents : HS!Abandon(a)
      BY <1>1, <1>2, <2>5 DEF HS!Abandon, HS!Agents, Agents, HandshakeStep
    <2>6. CASE UNCHANGED HS!vars
      BY <1>1, <1>2, <2>6 DEF HS!vars, HandshakeStep
    <2> QED
      BY <2>1, <2>2, <2>3, <2>4, <2>5, <2>6 DEF HS!Next
  <1>4. PairsFine(p, m, t)
    BY <1>1, Zenon DEF HInv
  <1>5. PairsFine(p2, m2, t2)
    BY <1>3, <1>4, PairsStayFine
  <1> QED
    BY <1>2, <1>5, Zenon DEF HInv

LEMMA HInvAgrees == HInv => HS!Agreed
  <1> SUFFICES ASSUME HInv PROVE HS!Agreed
    OBVIOUS
  <1>1. PICK p, m, t : /\ p = [a \in Agents |-> Phase(a)]
                       /\ m = [a \in Agents |-> ThreadRecord(a).myDID]
                       /\ t = [a \in Agents |-> IF ThreadRecord(a).myDID = NoDID THEN NoDID
                                                ELSE ThreadRecord(a).theirDID]
    OBVIOUS
  <1>2. PairsFine(p, m, t)
    BY <1>1, Zenon DEF HInv
  <1>3. \A a, b \in Agents : a # b /\ p[a] = "paired" => t[a] = m[b]
    BY <1>2 DEF PairsFine, Agents
  <1> QED
    BY <1>1, <1>3, Zenon DEF HS!Agreed, HS!Agents, Agents

\* Two agents that follow the handshake agree on their DIDs.
THEOREM HandshakeAgrees == HS!Spec => []HS!Agreed
  BY HInvInit, HInvNext, HInvAgrees, PTL DEF HS!Spec

\* Either agent of an orderly exchange, as soon as it has completed the thread, holds the
\* DID that the other agent has stored as its own, whatever the other has yet to do.
THEOREM ExchangeAgrees ==
    ASSUME Orderly
    PROVE  Spec => []HS!Agreed
  BY ExchangeIsHandshake, HandshakeAgrees, PTL DEF ImplementsHandshake
=============================================================================
