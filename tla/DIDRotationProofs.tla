--------------------------- MODULE DIDRotationProofs ---------------------------
(*****************************************************************************)
(* That two agents who have rotated their DIDs at most once each stay in     *)
(* touch, for any number of goroutines, messages, replies, failures and      *)
(* restarts: what the stores hold (TInv), and, as long as no save has gone   *)
(* over another goroutine's change, what each agent knows of the other's     *)
(* rotation and may be told of it (CalmInv).                                 *)
(*****************************************************************************)
EXTENDS DIDRotation, FiniteSetTheorems, TLAPS

-----------------------------------------------------------------------------
(*****************************************************************************)
(* The two agents and their connection records.                              *)
(*****************************************************************************)
LEMMA TwoAgents ==
    ASSUME NEW a \in Agents
    PROVE  /\ Other(a) \in Agents /\ Other(a) # a /\ Other(Other(a)) = a
           /\ \A b \in Agents : b = a \/ b = Other(a)
  <1>1. PICK rest : rest = Agents \ {a}
    OBVIOUS
  <1>2. IsFiniteSet(rest) /\ Cardinality(rest) = 1
    BY <1>1, AgentsAssumption, FS_RemoveElement
  <1>3. PICK b : rest = {b}
    BY <1>2, FS_Singleton
  <1>4. b \in Agents /\ b # a /\ \A c \in Agents : c = a \/ c = b
    BY <1>1, <1>3
  <1>5. Other(a) = b /\ Other(b) = a
    BY <1>4 DEF Other
  <1> QED
    BY <1>4, <1>5

IdsOf(S) == {r.id : r \in S}

\* A rotation belongs to a record of its old or its new DID.
Rotated(r) == r.rot # 0 => r.my \in {r.rot - 1, r.rot}

\* The records of an agent are numbered, and the first is the connection.
Numbered(S) ==
    /\ S \subseteq Records /\ IsFiniteSet(S)
    /\ \A r, s \in S : r.id = s.id => r = s
    /\ IdsOf(S) = 1..Cardinality(S) /\ 1 \in IdsOf(S)
    /\ \A r \in S : Rotated(r)

LEMMA SavingNumbers ==
    ASSUME NEW S, Numbered(S), NEW rec \in Records, Rotated(rec),
           rec.id \in 1..Cardinality(S) + 1,
           NEW T, T = {r \in S : r.id # rec.id} \cup {rec}
    PROVE  Numbered(T) /\ IdsOf(T) = IdsOf(S) \cup {rec.id}
  <1>1. PICK n \in Nat : n = Cardinality(S)
    BY FS_CardinalityType DEF Numbered
  <1>2. T \subseteq Records /\ \A r \in T : Rotated(r)
    BY DEF Numbered
  <1>3. \A r, s \in T : r.id = s.id => r = s
    BY DEF Numbered
  <1>4. IdsOf(T) = IdsOf(S) \cup {rec.id}
    <2>1. IdsOf(T) \subseteq IdsOf(S) \cup {rec.id} /\ rec.id \in IdsOf(T)
      BY DEF IdsOf
    <2>2. IdsOf(S) \subseteq IdsOf(T)
      <3>1. ASSUME NEW r \in S PROVE r.id \in IdsOf(T)
        BY <2>1 DEF IdsOf
      <3> QED
        BY <3>1 DEF IdsOf
    <2> QED
      BY <2>1, <2>2
  <1>5. IsFiniteSet(T) /\ IdsOf(T) = 1..Cardinality(T)
    <2>1. CASE rec.id \in IdsOf(S)
      <3>1. PICK old \in S : old.id = rec.id
        BY <2>1 DEF IdsOf
      <3>2. PICK rest : rest = S \ {old}
        OBVIOUS
      <3>3. T = rest \cup {rec} /\ rec \notin rest
        BY <3>1, <3>2 DEF Numbered
      <3>4. IsFiniteSet(rest) /\ Cardinality(rest) = n - 1
        BY <1>1, <3>2, FS_RemoveElement DEF Numbered
      <3>5. IsFiniteSet(T) /\ Cardinality(T) = Cardinality(rest) + 1
        <4>1. /\ IsFiniteSet(rest \cup {rec})
              /\ Cardinality(rest \cup {rec}) =
                    IF rec \in rest THEN Cardinality(rest) ELSE Cardinality(rest) + 1
          BY <3>4, FS_AddElement
        <4> QED
          BY <3>3, <4>1
      <3>6. Cardinality(T) = n
        BY <3>4, <3>5
      <3> QED
        BY <1>1, <1>4, <2>1, <3>5, <3>6 DEF Numbered
    <2>2. CASE rec.id \notin IdsOf(S)
      <3>1. rec.id = n + 1
        BY <1>1, <2>2 DEF Numbered
      <3>2. T = S \cup {rec} /\ rec \notin S
        BY <2>2 DEF IdsOf
      <3>3. IsFiniteSet(T) /\ Cardinality(T) = n + 1
        BY <1>1, <3>2, FS_AddElement DEF Numbered
      <3>4. IdsOf(T) = 1..n \cup {n + 1}
        BY <1>1, <1>4, <3>1 DEF Numbered
      <3>5. 1..n \cup {n + 1} = 1..(n + 1)
        OBVIOUS
      <3> QED
        BY <3>3, <3>4, <3>5
    <2> QED
      BY <2>1, <2>2
  <1>6. 1 \in IdsOf(T)
    BY <1>4 DEF Numbered
  <1> QED
    BY <1>2, <1>3, <1>4, <1>5, <1>6 DEF Numbered

LEMMA FirstIs ==
    ASSUME NEW S, Numbered(S), NEW first, first = CHOOSE r \in S : r.id = 1
    PROVE  /\ first \in S /\ first.id = 1 /\ first \in Records
           /\ \A r \in S : r.id = 1 => r = first
  <1>1. \E r \in S : r.id = 1
    BY DEF Numbered, IdsOf
  <1>2. first \in S /\ first.id = 1
    BY <1>1
  <1> QED
    BY <1>2 DEF Numbered

LEMMA ConnectionIs ==
    ASSUME NEW a, Numbered(records[a])
    PROVE  /\ Connection(a) \in records[a] /\ Connection(a).id = 1
           /\ Connection(a) \in Records
           /\ \A r \in records[a] : r.id = 1 => r = Connection(a)
  BY FirstIs DEF Connection

-----------------------------------------------------------------------------
(*****************************************************************************)
(* The types.                                                                *)
(*****************************************************************************)
WorkerStates ==
    [pc : {"idle", "new", "backup", "find", "create", "save"},
     was : Records \cup {NoRecord}, rec : Records \cup {NoRecord}, my : DIDs, their : DIDs]

\* What a goroutine of an agent with some records holds.
Holds(S, me) ==
    /\ me.pc \in {"new", "backup"} =>
          /\ me.was \in Records /\ me.rec \in Records
          /\ me.rec.id = 1 /\ me.rec.my # 0 /\ me.rec.rot = me.rec.my
    /\ me.pc = "save" =>
          /\ me.was \in Records /\ me.rec \in Records
          /\ me.rec.id \in IdsOf(S) /\ Rotated(me.rec)

TInv ==
    /\ records \in [Agents -> SUBSET Records] /\ \A a \in Agents : Numbered(records[a])
    /\ workers \in [Agents -> [Workers -> WorkerStates]]
    /\ \A a \in Agents, w \in Workers : Holds(records[a], workers[a][w])
    /\ net \subseteq Messages /\ disturbed \in BOOLEAN
    /\ rotations \in [Agents -> Nat] /\ sends \in Nat /\ troubles \in Nat

LEMMA TypesFollow == TInv => TypeOK
  BY DEF TInv, TypeOK, Numbered, Rotated, WorkerStates

LEMMA ZeroIsDID == 0 \in DIDs /\ DIDs \subseteq Nat
  BY LimitsAssumption DEF DIDs

LEMMA IdleHolds == Idle \in WorkerStates /\ \A S : Holds(S, Idle)
  BY ZeroIsDID DEF Idle, WorkerStates, Holds

LEMMA InitTypes == Init => TInv
  <1> SUFFICES ASSUME Init PROVE TInv
    OBVIOUS
  <1>1. PICK r : r = Record(1, 0, 0, 0)
    OBVIOUS
  <1>2. r \in Records /\ r.id = 1 /\ r.rot = 0
    BY <1>1, ZeroIsDID DEF Record, Records
  <1>3. Numbered({r})
    <2>1. IsFiniteSet({r}) /\ Cardinality({r}) = 1
      BY FS_Singleton
    <2>2. IdsOf({r}) = {1} /\ 1..1 = {1}
      BY <1>2 DEF IdsOf
    <2> QED
      BY <1>2, <2>1, <2>2 DEF Numbered, Rotated
  <1>4. \A a \in Agents : records[a] = {r}
    BY <1>1 DEF Init
  <1>5. records \in [Agents -> SUBSET Records] /\ \A a \in Agents : Numbered(records[a])
    BY <1>1, <1>2, <1>3, <1>4 DEF Init
  <1>6. workers \in [Agents -> [Workers -> WorkerStates]]
        /\ \A a \in Agents, w \in Workers : workers[a][w] = Idle
    BY IdleHolds DEF Init
  <1> QED
    BY <1>5, <1>6, IdleHolds DEF Init, TInv

\* A goroutine goes on.
LEMMA OneWorkerMoves ==
    ASSUME TInv, NEW a \in Agents, NEW w \in Workers, NEW me \in WorkerStates, Become(a, w, me)
    PROVE  /\ workers' \in [Agents -> [Workers -> WorkerStates]]
           /\ workers'[a][w] = me
           /\ \A b \in Agents, v \in Workers :
                 workers'[b][v] # workers[b][v] => b = a /\ v = w
  <1>1. /\ workers' = [workers EXCEPT ![a] = [workers[a] EXCEPT ![w] = me]]
        /\ workers \in [Agents -> [Workers -> WorkerStates]]
    BY DEF Become, TInv
  <1>2. [workers[a] EXCEPT ![w] = me] \in [Workers -> WorkerStates]
    BY <1>1
  <1> QED
    BY <1>1, <1>2

LEMMA WorkerTyped ==
    ASSUME TInv, NEW a \in Agents, NEW w \in Workers
    PROVE  /\ workers[a][w] \in WorkerStates /\ Holds(records[a], workers[a][w])
           /\ workers[a][w].my \in DIDs /\ workers[a][w].their \in DIDs
  BY DEF TInv, WorkerStates

\* An agent that only lets a goroutine go on, and perhaps sends.
LEMMA MovingTypes ==
    ASSUME TInv, NEW a \in Agents, NEW w \in Workers, NEW me \in WorkerStates,
           Become(a, w, me), Holds(records[a], me), UNCHANGED records,
           net' \subseteq Messages, disturbed' \in BOOLEAN,
           rotations' \in [Agents -> Nat], sends' \in Nat, troubles' \in Nat
    PROVE  TInv'
  <1>1. \A b \in Agents, v \in Workers : Holds(records'[b], workers'[b][v])
    <2> SUFFICES ASSUME NEW b \in Agents, NEW v \in Workers
                 PROVE  Holds(records'[b], workers'[b][v])
      OBVIOUS
    <2>1. workers'[b][v] = workers[b][v] \/ (b = a /\ workers'[b][v] = me)
      BY OneWorkerMoves
    <2> QED
      BY <2>1, WorkerTyped
  <1> QED
    BY <1>1, OneWorkerMoves DEF TInv

\* An agent saves a record, and lets a goroutine go on.
LEMMA SavingTypes ==
    ASSUME TInv, NEW a \in Agents, NEW w \in Workers, NEW me \in WorkerStates,
           NEW rec \in Records, Rotated(rec), rec.id \in IdsOf(records[a]) \/ rec.id = NewID(a),
           SaveConnectionRecord(a, rec),
           Become(a, w, me), Holds(records'[a], me),
           net' \subseteq Messages, disturbed' \in BOOLEAN,
           rotations' \in [Agents -> Nat], sends' \in Nat, troubles' \in Nat
    PROVE  TInv'
  <1>1. Numbered(records[a]) /\ records \in [Agents -> SUBSET Records]
    BY DEF TInv
  <1>2. /\ records'[a] = {r \in records[a] : r.id # rec.id} \cup {rec}
        /\ \A b \in Agents : b # a => records'[b] = records[b]
        /\ records' \in [Agents -> SUBSET Records]
    BY <1>1 DEF SaveConnectionRecord
  <1>3. rec.id \in 1..Cardinality(records[a]) + 1
    BY <1>1, FS_CardinalityType DEF Numbered, NewID
  <1>4. Numbered(records'[a]) /\ IdsOf(records'[a]) = IdsOf(records[a]) \cup {rec.id}
    BY <1>1, <1>2, <1>3, SavingNumbers
  <1>5. \A b \in Agents : Numbered(records'[b]) /\ IdsOf(records[b]) \subseteq IdsOf(records'[b])
    BY <1>2, <1>4 DEF TInv
  <1>6. \A b \in Agents, v \in Workers : Holds(records'[b], workers'[b][v])
    <2> SUFFICES ASSUME NEW b \in Agents, NEW v \in Workers
                 PROVE  Holds(records'[b], workers'[b][v])
      OBVIOUS
    <2>1. workers'[b][v] = workers[b][v] \/ (b = a /\ workers'[b][v] = me)
      BY OneWorkerMoves
    <2> QED
      BY <1>5, <2>1, WorkerTyped DEF Holds
  <1> QED
    BY <1>2, <1>5, <1>6, OneWorkerMoves DEF TInv

LEMMA RotateTypes ==
    ASSUME TInv, NEW a \in Agents, NEW w \in Workers, Rotate(a, w)
    PROVE  TInv'
  <1>1. PICK rec \in Records : rec = Connection(a) /\ rec.id = 1
    BY ConnectionIs DEF TInv
  <1>2. PICK new : new = [rec EXCEPT !.my = @ + 1, !.rot = rec.my + 1]
    OBVIOUS
  <1>3. rec.my < MaxRotations
    BY <1>1 DEF Rotate
  <1>4. new \in Records /\ new.id = 1 /\ new.my # 0 /\ new.rot = new.my
    <2>1. rec.my + 1 \in DIDs /\ rec.my + 1 # 0
      BY <1>3, LimitsAssumption DEF Records, DIDs
    <2> QED
      BY <1>1, <1>2, <2>1 DEF Records
  <1>5. PICK me : me = [Idle EXCEPT !.pc = "new", !.was = rec, !.rec = new]
    OBVIOUS
  <1>6. me.pc = "new" /\ me.was = rec /\ me.rec = new /\ me \in WorkerStates
    BY <1>1, <1>4, <1>5, ZeroIsDID DEF Idle, WorkerStates
  <1>7. Become(a, w, me)
    BY <1>1, <1>2, <1>5 DEF Rotate
  <1>8. /\ UNCHANGED <<records, net, disturbed, sends, troubles>>
        /\ rotations' \in [Agents -> Nat]
    BY DEF Rotate, TInv
  <1> QED
    BY <1>1, <1>4, <1>6, <1>7, <1>8, MovingTypes DEF Holds, TInv

LEMMA SaveNewTypes ==
    ASSUME TInv, NEW a \in Agents, NEW w \in Workers, SaveNew(a, w)
    PROVE  TInv'
  <1>1. PICK me \in WorkerStates : me = workers[a][w]
    BY WorkerTyped
  <1>2. /\ me.pc = "new" /\ me.was \in Records /\ me.rec \in Records
        /\ me.rec.id = 1 /\ me.rec.my # 0 /\ me.rec.rot = me.rec.my
    BY <1>1, WorkerTyped DEF SaveNew, Holds
  <1>3. PICK next : next = [me EXCEPT !.pc = "backup"]
    OBVIOUS
  <1>4. /\ next \in WorkerStates /\ next.pc = "backup"
        /\ next.was = me.was /\ next.rec = me.rec
    BY <1>3 DEF WorkerStates
  <1>5. Rotated(me.rec) /\ 1 \in IdsOf(records[a])
    BY <1>2 DEF Rotated, TInv, Numbered, Records, DIDs
  <1>6. /\ SaveConnectionRecord(a, me.rec) /\ Become(a, w, next)
        /\ disturbed' \in BOOLEAN /\ UNCHANGED <<net, counts>>
    BY <1>1, <1>3 DEF SaveNew, Update, TInv
  <1>7. Holds(records'[a], next)
    BY <1>2, <1>4 DEF Holds
  <1> QED
    BY <1>2, <1>4, <1>5, <1>6, <1>7, SavingTypes DEF TInv, counts

LEMMA SaveBackupTypes ==
    ASSUME TInv, NEW a \in Agents, NEW w \in Workers, SaveBackup(a, w)
    PROVE  TInv'
  <1>1. PICK me \in WorkerStates : me = workers[a][w]
    BY WorkerTyped
  <1>2. /\ me.rec \in Records
        /\ me.rec.id = 1 /\ me.rec.my # 0 /\ me.rec.rot = me.rec.my
    BY <1>1, WorkerTyped DEF SaveBackup, Holds
  <1>3. PICK rec : rec = [me.rec EXCEPT !.id = NewID(a), !.my = @ - 1]
    OBVIOUS
  <1>4. NewID(a) \in Nat \ {0}
    BY FS_CardinalityType DEF NewID, TInv, Numbered
  <1>5. rec \in Records /\ rec.id = NewID(a) /\ Rotated(rec)
    <2>1. me.rec.my - 1 \in DIDs
      BY <1>2, LimitsAssumption DEF Records, DIDs
    <2>2. /\ rec \in Records /\ rec.id = NewID(a)
          /\ rec.my = me.rec.my - 1 /\ rec.rot = me.rec.rot
      BY <1>2, <1>3, <1>4, <2>1 DEF Records
    <2> QED
      BY <1>2, <2>2 DEF Rotated
  <1>6. SaveConnectionRecord(a, rec) /\ Become(a, w, Idle)
    BY <1>1, <1>3 DEF SaveBackup
  <1> QED
    BY <1>5, <1>6, IdleHolds, SavingTypes DEF SaveBackup, TInv, counts

LEMMA MessageTyped ==
    ASSUME TInv, NEW a \in Agents, NEW w \in Workers, NEW rot \in DIDs
    PROVE  Message(a, w, rot) \in Messages
  BY TwoAgents, WorkerTyped DEF Message, Messages

LEMMA SendingTypes ==
    ASSUME TInv, NEW a \in Agents, NEW w \in Workers,
           Send(a, w) \/ FindAndSend(a, w) \/ FindNothing(a, w) \/ CreateAndSend(a, w)
    PROVE  TInv'
  <1>1. CASE Send(a, w)
    <2>1. PICK me : me = [Idle EXCEPT !.pc = "find", !.my = Connection(a).my,
                                      !.their = Connection(a).their]
      OBVIOUS
    <2>2. Connection(a) \in Records
      BY ConnectionIs DEF TInv
    <2>3. me \in WorkerStates /\ me.pc = "find"
      BY <2>1, <2>2, IdleHolds DEF Idle, WorkerStates, Records
    <2>4. Become(a, w, me) /\ UNCHANGED <<records, net, disturbed, rotations, troubles>>
      BY <1>1, <2>1 DEF Send
    <2>5. sends' \in Nat
      BY <1>1 DEF Send, TInv
    <2> QED
      BY <2>3, <2>4, <2>5, MovingTypes DEF Holds, TInv
  <1>2. CASE FindAndSend(a, w)
    <2>1. PICK r \in records[a] : net' = net \cup {Message(a, w, r.rot)}
      BY <1>2 DEF FindAndSend, GetByDIDs
    <2>2. r.rot \in DIDs
      BY DEF TInv, Numbered, Records
    <2>3. net' \subseteq Messages
      BY <2>1, <2>2, MessageTyped DEF TInv
    <2> QED
      BY <1>2, <2>3, IdleHolds, MovingTypes DEF FindAndSend, counts, TInv
  <1>3. CASE FindNothing(a, w)
    <2>1. PICK me : me = [workers[a][w] EXCEPT !.pc = "create"]
      OBVIOUS
    <2>2. me \in WorkerStates /\ me.pc = "create"
      BY <2>1, WorkerTyped DEF WorkerStates
    <2> QED
      BY <1>3, <2>1, <2>2, MovingTypes DEF FindNothing, Holds, counts, TInv
  <1>4. CASE CreateAndSend(a, w)
    <2>1. PICK rec : rec = Record(NewID(a), workers[a][w].my, workers[a][w].their, 0)
      OBVIOUS
    <2>2. NewID(a) \in Nat \ {0}
      BY FS_CardinalityType DEF NewID, TInv, Numbered
    <2>3. rec \in Records /\ rec.id = NewID(a) /\ rec.rot = 0
      BY <2>1, <2>2, WorkerTyped, ZeroIsDID DEF Record, Records
    <2>4. net' \subseteq Messages
      BY <1>4, MessageTyped, ZeroIsDID DEF CreateAndSend, TInv
    <2>5. SaveConnectionRecord(a, rec) /\ Become(a, w, Idle) /\ Rotated(rec)
      BY <1>4, <2>1, <2>3 DEF CreateAndSend, Rotated
    <2> QED
      BY <1>4, <2>3, <2>4, <2>5, IdleHolds, SavingTypes DEF CreateAndSend, counts, TInv
  <1> QED
    BY <1>1, <1>2, <1>3, <1>4

\* The state that Accept leaves a goroutine in.
LEMMA AcceptIs ==
    ASSUME TInv, NEW a \in Agents, NEW w \in Workers, NEW my \in DIDs, NEW their \in DIDs,
           Accept(a, w, my, their)
    PROVE  /\ sends' \in Nat
           /\ \E me \in WorkerStates : me.pc \in {"idle", "find"} /\ Become(a, w, me)
  <1>1. PICK me : me = [Idle EXCEPT !.pc = "find", !.my = my, !.their = their]
    OBVIOUS
  <1>2. me \in WorkerStates /\ me.pc = "find" /\ Idle.pc = "idle"
    BY <1>1, IdleHolds DEF Idle, WorkerStates
  <1>3. /\ Become(a, w, Idle) \/ Become(a, w, me)
        /\ sends' \in {sends, sends + 1}
    BY <1>1 DEF Accept
  <1> QED
    BY <1>2, <1>3, IdleHolds DEF TInv

LEMMA ArrivesIs ==
    ASSUME TInv, NEW m, Arrives(m)
    PROVE  /\ m \in net /\ m \in Messages /\ net' \subseteq net /\ net' \subseteq Messages
           /\ troubles' \in Nat
  BY DEF Arrives, Trouble, TInv

\* What a message finds is a record of the agent, perhaps with the peer's new DID.
LEMMA FoundIs ==
    ASSUME TInv, NEW m \in Messages, NEW r \in Found(m)
    PROVE  \E s \in records[m.to] :
              \/ /\ r = s /\ s.their = m.src
                 /\ m.prior = 0 \/ (m.src = m.prior /\ GetByDIDs(m.to, m.dst, m.prior - 1) = {})
              \/ /\ r = [s EXCEPT !.their = m.prior]
                 /\ m.prior # 0 /\ m.src = m.prior /\ s.my = m.dst /\ s.their = m.prior - 1
  <1>1. CASE m.prior = 0
    BY <1>1 DEF Found, GetByTheirDID
  <1>2. CASE m.prior # 0
    <2>1. m.src = m.prior
      BY <1>2 DEF Found
    <2>2. CASE GetByDIDs(m.to, m.dst, m.prior - 1) # {}
      <3>1. r \in {[s EXCEPT !.their = m.prior] : s \in GetByDIDs(m.to, m.dst, m.prior - 1)}
        BY <1>2, <2>1, <2>2 DEF Found
      <3> QED
        BY <1>2, <2>1, <3>1 DEF GetByDIDs
    <2>3. CASE GetByDIDs(m.to, m.dst, m.prior - 1) = {}
      <3>1. r \in GetByTheirDID(m.to, m.src)
        BY <1>2, <2>1, <2>3 DEF Found
      <3> QED
        BY <2>1, <2>3, <3>1 DEF GetByTheirDID
    <2> QED
      BY <2>2, <2>3
  <1> QED
    BY <1>1, <1>2

LEMMA AcknowledgedIs ==
    ASSUME NEW s \in Records, Rotated(s), NEW their \in DIDs, NEW m,
           NEW r, r = s \/ r = [s EXCEPT !.their = their]
    PROVE  /\ Acknowledged(r, m) \in Records /\ Rotated(Acknowledged(r, m))
           /\ r.id = s.id /\ Acknowledged(r, m).id = s.id /\ Acknowledged(r, m).my = s.my
           /\ Acknowledged(r, m).their = r.their
           /\ Acknowledged(r, m).rot = IF m.dst = s.rot THEN 0 ELSE s.rot
  BY ZeroIsDID DEF Acknowledged, Records, Rotated

LEMMA ReceiveTypes ==
    ASSUME TInv, NEW m, NEW w \in Workers, Receive(m, w)
    PROVE  TInv'
  <1>1. /\ m \in net /\ m \in Messages /\ net' \subseteq Messages /\ troubles' \in Nat
        /\ UNCHANGED <<records, disturbed, rotations>>
    BY ArrivesIs DEF Receive
  <1>2. m.to \in Agents /\ m.src \in DIDs /\ m.dst \in DIDs /\ m.prior \in DIDs
    BY <1>1 DEF Messages
  <1>3. PICK r \in Found(m) :
          IF Acknowledged(r, m) \in records[m.to]
          THEN Accept(m.to, w, m.dst, m.src)
          ELSE /\ \E was \in records[m.to] :
                     /\ was.id = r.id
                     /\ Become(m.to, w, [pc |-> "save", was |-> was, rec |-> Acknowledged(r, m),
                                         my |-> m.dst, their |-> m.src])
               /\ UNCHANGED sends
    BY DEF Receive
  <1>4. CASE Acknowledged(r, m) \in records[m.to]
    <2>1. Accept(m.to, w, m.dst, m.src)
      BY <1>3, <1>4
    <2>2. sends' \in Nat
      BY <1>2, <2>1, AcceptIs
    <2>3. PICK me \in WorkerStates : me.pc \in {"idle", "find"} /\ Become(m.to, w, me)
      BY <1>2, <2>1, AcceptIs
    <2> QED
      BY <1>1, <1>2, <2>2, <2>3, MovingTypes DEF Holds, TInv
  <1>5. CASE Acknowledged(r, m) \notin records[m.to]
    <2>1. UNCHANGED sends
      BY <1>3, <1>5
    <2>2. PICK was \in records[m.to] :
             /\ was.id = r.id
             /\ Become(m.to, w, [pc |-> "save", was |-> was, rec |-> Acknowledged(r, m),
                                 my |-> m.dst, their |-> m.src])
      BY <1>3, <1>5
    <2>3. PICK s \in records[m.to] : r = s \/ r = [s EXCEPT !.their = m.prior]
      BY <1>1, FoundIs
    <2>4. was \in Records /\ s \in Records /\ Rotated(s) /\ s.id \in IdsOf(records[m.to])
      BY <1>2 DEF TInv, Numbered, IdsOf
    <2>5. PICK rec : rec = Acknowledged(r, m)
      OBVIOUS
    <2>6. rec \in Records /\ Rotated(rec) /\ rec.id \in IdsOf(records[m.to])
      BY <1>2, <2>3, <2>4, <2>5, AcknowledgedIs
    <2>7. PICK me : me = [pc |-> "save", was |-> was, rec |-> rec, my |-> m.dst, their |-> m.src]
      OBVIOUS
    <2>8. /\ me \in WorkerStates /\ Become(m.to, w, me)
          /\ me.pc = "save" /\ me.was = was /\ me.rec = rec
      BY <1>2, <2>2, <2>4, <2>5, <2>6, <2>7 DEF WorkerStates
    <2> QED
      BY <1>1, <1>2, <2>1, <2>4, <2>6, <2>8, MovingTypes DEF Holds, TInv
  <1> QED
    BY <1>4, <1>5

LEMMA SaveReceivedTypes ==
    ASSUME TInv, NEW a \in Agents, NEW w \in Workers, SaveReceived(a, w)
    PROVE  TInv'
  <1>1. PICK me \in WorkerStates : me = workers[a][w]
    BY WorkerTyped
  <1>2. me.rec \in Records /\ me.rec.id \in IdsOf(records[a]) /\ Rotated(me.rec)
    BY <1>1, WorkerTyped DEF SaveReceived, Holds
  <1>3. /\ SaveConnectionRecord(a, me.rec) /\ Accept(a, w, me.my, me.their)
        /\ disturbed' \in BOOLEAN /\ UNCHANGED <<net, rotations, troubles>>
    BY <1>1 DEF SaveReceived, Update, TInv
  <1>4. me.my \in DIDs /\ me.their \in DIDs
    BY DEF WorkerStates
  <1>5. sends' \in Nat
    BY <1>3, <1>4, AcceptIs
  <1>6. PICK next \in WorkerStates : next.pc \in {"idle", "find"} /\ Become(a, w, next)
    BY <1>3, <1>4, AcceptIs
  <1> QED
    BY <1>2, <1>3, <1>5, <1>6, SavingTypes DEF Holds, TInv

LEMMA TroubleTypes ==
    ASSUME TInv,
           \/ \E m \in net : Lose(m) \/ \E w \in Workers : Refuse(m, w)
           \/ \E a \in Agents : Restart(a) \/ \E w \in Workers : Fail(a, w)
           \/ UNCHANGED vars
    PROVE  TInv'
  <1>1. ASSUME NEW m \in net, Lose(m) PROVE TInv'
    BY <1>1 DEF Lose, Trouble, TInv
  <1>2. ASSUME NEW m \in net, NEW w \in Workers, Refuse(m, w) PROVE TInv'
    BY <1>2, ArrivesIs DEF Refuse, TInv
  <1>3. ASSUME NEW a \in Agents, Restart(a) PROVE TInv'
    <2>1. /\ workers' \in [Agents -> [Workers -> WorkerStates]]
          /\ \A b \in Agents, v \in Workers : workers'[b][v] \in {workers[b][v], Idle}
      BY <1>3, IdleHolds DEF Restart, TInv
    <2> QED
      BY <1>3, <2>1, IdleHolds DEF Restart, Trouble, TInv
  <1>4. ASSUME NEW a \in Agents, NEW w \in Workers, Fail(a, w) PROVE TInv'
    BY <1>4, IdleHolds, MovingTypes DEF Fail, Trouble, TInv
  <1>5. CASE UNCHANGED vars
    BY <1>5 DEF vars, counts, TInv
  <1> QED
    BY <1>1, <1>2, <1>3, <1>4, <1>5

LEMMA NextTypes == TInv /\ [Next]_vars => TInv'
  <1> SUFFICES ASSUME TInv, [Next]_vars PROVE TInv'
    OBVIOUS
  <1>1. ASSUME NEW a \in Agents, NEW w \in Workers,
               \/ Rotate(a, w) \/ SaveNew(a, w) \/ SaveBackup(a, w)
               \/ Send(a, w) \/ FindAndSend(a, w) \/ FindNothing(a, w) \/ CreateAndSend(a, w)
               \/ SaveReceived(a, w)
        PROVE  TInv'
    BY <1>1, RotateTypes, SaveNewTypes, SaveBackupTypes, SendingTypes, SaveReceivedTypes
  <1>2. ASSUME NEW m \in net, NEW w \in Workers, Receive(m, w) PROVE TInv'
    BY <1>2, ReceiveTypes
  <1> QED
    BY <1>1, <1>2, TroubleTypes DEF Next

\* Every variable holds a value of its kind; an id names one record, though records get their
\* id when they are saved and not when they are made; and a record announces a rotation only
\* from or to the DID it is for, whatever went over it.
THEOREM Types == Spec => []TypeOK
  BY InitTypes, NextTypes, TypesFollow, PTL DEF Spec

-----------------------------------------------------------------------------
(*****************************************************************************)
(* What the agents know of each other's rotation.  As long as each rotates   *)
(* at most once and no save goes over a change, the DIDs are 0 and 1, and an *)
(* agent has its connection (id 1) and perhaps a backup (id 2).              *)
(*****************************************************************************)
Calm == ~disturbed /\ \A a \in Agents : rotations[a] <= 1

MyDID(a)    == Connection(a).my
TheirDID(a) == Connection(a).their
Rotation(a) == Connection(a).rot

Backed(a) == \E r \in records[a] : r.id # 1
Knows(a)  == \E r \in records[a] : r.their = 1

\* The records an agent has, or is about to save.
Pending(a) ==
    records[a] \cup {workers[a][w].rec : w \in {v \in Workers : workers[a][v].pc = "save"}}

\* The other agent knows a's new DID, and not only by a backup unless a has a backup too.
Told(a) == Knows(Other(a)) /\ (~Backed(a) => TheirDID(Other(a)) = 1)

RecordFine(a, r) ==
    /\ r.id \in {1, 2} /\ (r.id = 2 => r.my = 0 /\ MyDID(a) = 1)
    /\ r.my \in {0, MyDID(a)} /\ r.rot \in {0, MyDID(a)} /\ r.their \in {0, MyDID(Other(a))}
    /\ r.id = 1 /\ r.my = 1 /\ r.rot = 0 => Told(a)

\* A goroutine that rotates is the only one, and its agent has no backup yet.
Rotates(me) == me.pc \in {"new", "backup"}

RotationFine(a, me) ==
    Rotates(me) =>
        /\ rotations[a] = 1 /\ ~Backed(a) /\ MyDID(a) = (IF me.pc = "new" THEN 0 ELSE 1)
        /\ me.was.id = 1 /\ me.rec.their = me.was.their
        /\ me.rec.my = 1 /\ me.rec.rot = 1 /\ me.rec.their \in {0, TheirDID(a)}

OneRotates(a) ==
    \A v, w \in Workers : Rotates(workers[a][v]) /\ Rotates(workers[a][w]) => v = w

\* What a received message makes of a record: nothing that was known is forgotten.
Follows(was, rec) ==
    /\ rec.id = was.id /\ rec.my = was.my
    /\ was.their = 1 => rec.their = 1
    /\ was.rot = 0 => rec.rot = 0

SaveFine(me) == me.pc = "save" => Follows(me.was, me.rec)

\* A message to the new DID tells that the rotation is known, unless it is refused.
MessageFine(m) ==
    /\ m.src \in {0, MyDID(Other(m.to))} /\ m.prior \in {0, MyDID(Other(m.to))}
    /\ m.dst \in {0, MyDID(m.to)}
    /\ m.dst = 1 /\ (m.prior = 0 \/ m.src = 1) => Told(m.to)
    /\ m.src = 1 /\ m.dst = 1 => TheirDID(Other(m.to)) = 1
    /\ m.src = 1 /\ m.prior = 0 => Rotation(Other(m.to)) = 0

\* Of a's backup: the other agent has written to a's new DID before it rotated, or ...
FromOld(a) ==
    \/ \E m \in net : m.to = a /\ m.src = 0 /\ m.dst = 1
    \/ \E r \in Pending(a) : r.id = 2 /\ r.rot = 0

\* ... it has written to a's old DID after it rotated.
ToOld(a) ==
    \/ \E m \in net : m.to = a /\ m.src = 1 /\ m.dst = 0
    \/ \E r \in Pending(a) : r.id = 2 /\ r.their = 1

\* Not both, unless the other agent has a backup: the backup that learns of a rotation is
\* not the one whose own rotation is acknowledged, so it does not answer.
OneWay(a) ==
    ~Backed(Other(a)) /\ TheirDID(a) = 0 =>
        /\ ~(FromOld(a) /\ ToOld(a))
        /\ FromOld(a) => TheirDID(Other(a)) = 1

AgentFine(a) ==
    /\ MyDID(a) \in {0, 1} /\ MyDID(a) <= rotations[a]
    /\ \A r \in Pending(a) : RecordFine(a, r)
    /\ \A w \in Workers : RotationFine(a, workers[a][w]) /\ SaveFine(workers[a][w])
    /\ OneRotates(a) /\ OneWay(a)

AllFine == (\A a \in Agents : AgentFine(a)) /\ \A m \in net : MessageFine(m)

CalmInv == Calm => AllFine

\* What a step may do to the connections of a calm state.
Grows(a) ==
    /\ MyDID(a)' \in {0, 1} /\ (MyDID(a) = 1 => MyDID(a)' = 1)
    /\ TheirDID(a) = 1 => TheirDID(a)' = 1
    /\ Knows(a) => Knows(a)'
    /\ Backed(a) => Backed(a)'
    /\ MyDID(a) = 1 /\ Rotation(a) = 0 => Rotation(a)' = 0

-----------------------------------------------------------------------------
LEMMA CalmBefore ==
    ASSUME TInv, [Next]_vars, Calm'
    PROVE  Calm
  <1>1. ASSUME NEW a \in Agents, NEW w \in Workers,
               \/ Rotate(a, w) \/ SaveNew(a, w) \/ SaveBackup(a, w)
               \/ Send(a, w) \/ FindAndSend(a, w) \/ FindNothing(a, w) \/ CreateAndSend(a, w)
               \/ SaveReceived(a, w) \/ Fail(a, w)
        PROVE  /\ disturbed => disturbed'
               /\ rotations' = rotations \/ rotations' = [rotations EXCEPT ![a] = @ + 1]
    <2>1. CASE Rotate(a, w)
      BY <2>1 DEF Rotate
    <2>2. CASE SaveNew(a, w) \/ SaveReceived(a, w)
      <3>1. UNCHANGED rotations
        BY <2>2 DEF SaveNew, SaveReceived, counts
      <3>2. disturbed' = (disturbed \/ workers[a][w].was \notin records[a])
        BY <2>2 DEF SaveNew, SaveReceived, Update
      <3> QED
        BY <3>1, <3>2
    <2>3. CASE CreateAndSend(a, w)
      BY <2>3 DEF CreateAndSend, counts
    <2>4. CASE \/ SaveBackup(a, w) \/ Send(a, w) \/ FindAndSend(a, w) \/ FindNothing(a, w)
               \/ Fail(a, w)
      BY <2>4 DEF SaveBackup, Send, FindAndSend, FindNothing, Fail, counts
    <2> QED
      BY <1>1, <2>1, <2>2, <2>3, <2>4
  <1>2. ASSUME NEW m \in net, NEW w \in Workers, Lose(m) \/ Receive(m, w) \/ Refuse(m, w)
        PROVE  UNCHANGED <<disturbed, rotations>>
    BY <1>2 DEF Lose, Receive, Refuse
  <1>3. ASSUME NEW a \in Agents, Restart(a) PROVE UNCHANGED <<disturbed, rotations>>
    BY <1>3 DEF Restart
  <1>4. ASSUME NEW m \in net, Lose(m) PROVE UNCHANGED <<disturbed, rotations>>
    BY <1>4 DEF Lose
  <1>5. CASE UNCHANGED vars
    BY <1>5 DEF vars, counts, Calm
  <1>6. /\ disturbed => disturbed'
        /\ \/ rotations' = rotations
           \/ \E a \in Agents : rotations' = [rotations EXCEPT ![a] = @ + 1]
    BY <1>1, <1>2, <1>3, <1>4, <1>5 DEF Next, vars, counts
  <1> QED
    BY <1>6 DEF Calm, TInv

\* The connection is one of the records.
LEMMA ConnectionFine ==
    ASSUME TInv, NEW a \in Agents, AgentFine(a)
    PROVE  /\ Connection(a) \in records[a] /\ Connection(a) \in Records /\ Connection(a).id = 1
           /\ RecordFine(a, Connection(a))
           /\ \A r \in records[a] : r.id = 1 => r = Connection(a)
  BY ConnectionIs DEF TInv, AgentFine, Pending

LEMMA RecordIn ==
    ASSUME TInv, NEW a \in Agents, AgentFine(a), NEW r \in records[a]
    PROVE  /\ r \in Records /\ RecordFine(a, r)
           /\ r = Connection(a) \/ (r.id = 2 /\ Backed(a))
           /\ \A s \in records[a] : s.id = r.id => s = r
  <1>1. r \in Records /\ RecordFine(a, r) /\ \A s \in records[a] : s.id = r.id => s = r
    BY DEF TInv, Numbered, AgentFine, Pending
  <1> QED
    BY <1>1, ConnectionFine DEF RecordFine, Backed

LEMMA ToldStays ==
    ASSUME NEW a \in Agents, Grows(a), Grows(Other(a)), Told(a)
    PROVE  Told(a)'
  <1>1. Knows(Other(a))'
    BY DEF Told, Grows
  <1>2. ~Backed(a)' => TheirDID(Other(a))' = 1
    BY DEF Told, Grows
  <1> QED
    BY <1>1, <1>2 DEF Told

LEMMA RecordStays ==
    ASSUME NEW a \in Agents, NEW r, Grows(a), Grows(Other(a)), RecordFine(a, r), AgentFine(a),
           AgentFine(Other(a))
    PROVE  RecordFine(a, r)'
  <1>1. /\ MyDID(a) \in {0, 1} /\ MyDID(Other(a)) \in {0, 1}
        /\ MyDID(a) = 1 => MyDID(a)' = 1
        /\ MyDID(Other(a)) = 1 => MyDID(Other(a))' = 1
    BY DEF AgentFine, Grows
  <1>2. /\ r.id \in {1, 2} /\ (r.id = 2 => r.my = 0 /\ MyDID(a) = 1)
        /\ r.my \in {0, MyDID(a)} /\ r.rot \in {0, MyDID(a)} /\ r.their \in {0, MyDID(Other(a))}
        /\ r.id = 1 /\ r.my = 1 /\ r.rot = 0 => Told(a)
    BY DEF RecordFine
  <1>3. /\ r.id \in {1, 2} /\ (r.id = 2 => r.my = 0 /\ MyDID(a)' = 1)
        /\ r.my \in {0, MyDID(a)'} /\ r.rot \in {0, MyDID(a)'}
        /\ r.their \in {0, MyDID(Other(a))'}
    BY <1>1, <1>2
  <1>4. r.id = 1 /\ r.my = 1 /\ r.rot = 0 => Told(a)'
    BY <1>2, ToldStays
  <1> QED
    BY <1>3, <1>4 DEF RecordFine

LEMMA MessageStays ==
    ASSUME NEW m, m.to \in Agents, \A a \in Agents : Grows(a) /\ AgentFine(a), MessageFine(m)
    PROVE  MessageFine(m)'
  <1>1. PICK a \in Agents : a = Other(m.to)
    BY TwoAgents
  <1>2. /\ MyDID(a) \in {0, 1} /\ MyDID(m.to) \in {0, 1}
        /\ MyDID(a) = 1 => MyDID(a)' = 1
        /\ MyDID(m.to) = 1 => MyDID(m.to)' = 1
        /\ TheirDID(a) = 1 => TheirDID(a)' = 1
        /\ MyDID(a) = 1 /\ Rotation(a) = 0 => Rotation(a)' = 0
    BY DEF AgentFine, Grows
  <1>3. /\ m.src \in {0, MyDID(a)} /\ m.prior \in {0, MyDID(a)} /\ m.dst \in {0, MyDID(m.to)}
        /\ m.dst = 1 /\ (m.prior = 0 \/ m.src = 1) => Told(m.to)
        /\ m.src = 1 /\ m.dst = 1 => TheirDID(a) = 1
        /\ m.src = 1 /\ m.prior = 0 => Rotation(a) = 0
    BY <1>1 DEF MessageFine
  <1>4. /\ m.src \in {0, MyDID(a)'} /\ m.prior \in {0, MyDID(a)'} /\ m.dst \in {0, MyDID(m.to)'}
        /\ m.src = 1 /\ m.dst = 1 => TheirDID(a)' = 1
        /\ m.src = 1 /\ m.prior = 0 => Rotation(a)' = 0
    BY <1>2, <1>3
  <1>5. m.dst = 1 /\ (m.prior = 0 \/ m.src = 1) => Told(m.to)'
    BY <1>1, <1>3, ToldStays
  <1> QED
    BY <1>1, <1>4, <1>5 DEF MessageFine

LEMMA OneWayStays ==
    ASSUME NEW a \in Agents, AgentFine(a), AgentFine(Other(a)), Grows(a), Grows(Other(a)),
           TheirDID(a) \in {0, 1},
           ~Backed(Other(a)) /\ TheirDID(a) = 0 =>
               (FromOld(a)' => FromOld(a)) /\ (TheirDID(a)' = 0 => (ToOld(a)' => ToOld(a)))
    PROVE  OneWay(a)'
  <1> SUFFICES ASSUME ~Backed(Other(a))', TheirDID(a)' = 0
               PROVE  ~(FromOld(a)' /\ ToOld(a)') /\ (FromOld(a)' => TheirDID(Other(a))' = 1)
    BY DEF OneWay
  <1>1. ~Backed(Other(a)) /\ TheirDID(a) = 0
    BY DEF Grows
  <1> QED
    BY <1>1 DEF AgentFine, OneWay, Grows

\* An agent that has its connection and perhaps a backup, of known DIDs.
LEMMA Bits ==
    ASSUME TInv, AllFine, NEW a \in Agents
    PROVE  /\ AgentFine(a) /\ AgentFine(Other(a))
           /\ MyDID(a) \in {0, 1} /\ TheirDID(a) \in {0, 1} /\ Rotation(a) \in {0, 1}
           /\ MyDID(a) = 0 => Rotation(a) = 0
           /\ TheirDID(a) = 1 => MyDID(Other(a)) = 1
           /\ MyDID(a) = 1 /\ Rotation(a) = 0 => Told(a)
  <1>1. AgentFine(a) /\ AgentFine(Other(a)) /\ Other(a) \in Agents
    BY TwoAgents DEF AllFine
  <1>2. MyDID(a) \in {0, 1} /\ MyDID(Other(a)) \in {0, 1}
    BY <1>1 DEF AgentFine
  <1>3. RecordFine(a, Connection(a)) /\ Connection(a).id = 1
    BY <1>1, ConnectionFine
  <1> QED
    BY <1>1, <1>2, <1>3 DEF RecordFine, MyDID, TheirDID, Rotation

\* The parts of the invariant that a step must answer for.
LEMMA StaysFine ==
    ASSUME TInv, AllFine, \A a \in Agents : Grows(a), net' \subseteq Messages,
           \A a \in Agents :
              /\ MyDID(a)' <= rotations'[a]
              /\ \A r \in Pending(a)' : r \in Pending(a) \/ RecordFine(a, r)'
              /\ \A w \in Workers : RotationFine(a, workers[a][w])' /\ SaveFine(workers[a][w])'
              /\ OneRotates(a)' /\ OneWay(a)',
           \A m \in net' : m \in net \/ MessageFine(m)'
    PROVE  AllFine'
  <1>1. ASSUME NEW a \in Agents PROVE AgentFine(a)'
    <2>1. \A r \in Pending(a)' : RecordFine(a, r)'
      <3> SUFFICES ASSUME NEW r \in Pending(a)', r \in Pending(a) PROVE RecordFine(a, r)'
        OBVIOUS
      <3>1. AgentFine(a) /\ AgentFine(Other(a)) /\ Grows(a) /\ Grows(Other(a))
        BY Bits, TwoAgents
      <3>2. RecordFine(a, r)
        BY <3>1 DEF AgentFine
      <3> QED
        BY <3>1, <3>2, RecordStays
    <2>2. MyDID(a)' \in {0, 1}
      BY DEF Grows
    <2> QED
      BY <2>1, <2>2 DEF AgentFine
  <1>2. ASSUME NEW m \in net' PROVE MessageFine(m)'
    <2>1. CASE m \in net
      <3>1. m.to \in Agents /\ MessageFine(m)
        BY <2>1 DEF AllFine, TInv, Messages
      <3> QED
        BY <3>1, MessageStays DEF AllFine
    <2> QED
      BY <2>1
  <1> QED
    BY <1>1, <1>2 DEF AllFine

-----------------------------------------------------------------------------
(*****************************************************************************)
(* The steps of a calm state that save nothing.                              *)
(*****************************************************************************)
LEMMA Unsaved ==
    ASSUME TInv, AllFine, UNCHANGED records, NEW a \in Agents
    PROVE  /\ Grows(a)
           /\ MyDID(a)' = MyDID(a) /\ TheirDID(a)' = TheirDID(a) /\ Rotation(a)' = Rotation(a)
           /\ Backed(a)' = Backed(a) /\ Told(a)' = Told(a)
  <1>1. \A b : Connection(b)' = Connection(b)
    BY DEF Connection
  <1>2. \A b : /\ MyDID(b)' = MyDID(b) /\ TheirDID(b)' = TheirDID(b)
               /\ Rotation(b)' = Rotation(b)
               /\ Backed(b)' = Backed(b) /\ Knows(b)' = Knows(b)
    BY <1>1 DEF MyDID, TheirDID, Rotation, Backed, Knows
  <1>3. Told(a)' = Told(a)
    BY <1>2 DEF Told, Other
  <1> QED
    BY <1>2, <1>3, Bits DEF Grows

\* A goroutine that has nothing to save, and does not rotate.
Free(me) == me.pc \in {"idle", "find", "create"}

LEMMA FreeIs ==
    ASSUME NEW me, Free(me)
    PROVE  ~Rotates(me) /\ me.pc # "save" /\ SaveFine(me)
  BY DEF Free, Rotates, SaveFine

\* Rotations go on while other goroutines become free.
LEMMA RotationsStay ==
    ASSUME TInv, AllFine, UNCHANGED <<records, rotations>>, NEW a \in Agents,
           \A w \in Workers : workers'[a][w] = workers[a][w] \/ ~Rotates(workers'[a][w])
    PROVE  OneRotates(a)' /\ \A w \in Workers : RotationFine(a, workers[a][w])'
  <1>1. AgentFine(a)
    BY DEF AllFine
  <1>2. OneRotates(a)'
    BY <1>1 DEF AgentFine, OneRotates
  <1>3. ASSUME NEW w \in Workers, workers'[a][w] = workers[a][w]
        PROVE  RotationFine(a, workers[a][w])'
    BY <1>1, <1>3, Unsaved DEF AgentFine, RotationFine
  <1>4. ASSUME NEW w \in Workers, ~Rotates(workers'[a][w])
        PROVE  RotationFine(a, workers[a][w])'
    BY <1>4 DEF RotationFine
  <1> QED
    BY <1>2, <1>3, <1>4

LEMMA QuietFine ==
    ASSUME TInv, AllFine, UNCHANGED <<records, rotations>>,
           net' \subseteq net,
           \A a \in Agents, w \in Workers :
              workers'[a][w] = workers[a][w] \/ Free(workers'[a][w])
    PROVE  AllFine'
  <1>1. ASSUME NEW a \in Agents PROVE Pending(a)' \subseteq Pending(a)
    BY FreeIs DEF Pending
  <1>2. ASSUME NEW a \in Agents
        PROVE  /\ MyDID(a)' <= rotations'[a]
               /\ \A r \in Pending(a)' : r \in Pending(a) \/ RecordFine(a, r)'
               /\ \A w \in Workers : RotationFine(a, workers[a][w])' /\ SaveFine(workers[a][w])'
               /\ OneRotates(a)' /\ OneWay(a)'
    <2>1. AgentFine(a) /\ AgentFine(Other(a)) /\ Grows(a) /\ Grows(Other(a))
      BY Bits, Unsaved, TwoAgents
    <2>2. MyDID(a)' <= rotations'[a]
      BY <2>1, Unsaved DEF AgentFine
    <2>3. \A w \in Workers : SaveFine(workers'[a][w])
      BY <2>1, FreeIs DEF AgentFine
    <2>4. (FromOld(a)' => FromOld(a)) /\ (ToOld(a)' => ToOld(a))
      BY <1>1 DEF FromOld, ToOld
    <2>5. OneWay(a)'
      BY <2>1, <2>4, Bits, OneWayStays
    <2>6. OneRotates(a)' /\ \A w \in Workers : RotationFine(a, workers[a][w])'
      BY RotationsStay, FreeIs
    <2> QED
      BY <1>1, <2>2, <2>3, <2>5, <2>6
  <1>3. (\A a \in Agents : Grows(a)) /\ net' \subseteq Messages
    BY Unsaved DEF TInv
  <1> QED
    BY <1>2, <1>3, StaysFine

LEMMA TroubleFine ==
    ASSUME TInv, AllFine,
           \/ \E m \in net : Lose(m) \/ \E w \in Workers : Refuse(m, w)
           \/ \E a \in Agents : Restart(a) \/ \E w \in Workers : Fail(a, w)
           \/ UNCHANGED vars
    PROVE  AllFine'
  <1>1. Free(Idle)
    BY DEF Idle, Free
  <1>2. ASSUME NEW m \in net, Lose(m) PROVE AllFine'
    BY <1>2, QuietFine DEF Lose
  <1>3. ASSUME NEW m \in net, NEW w \in Workers, Refuse(m, w) PROVE AllFine'
    BY <1>3, ArrivesIs, QuietFine DEF Refuse
  <1>4. ASSUME NEW a \in Agents, Restart(a) PROVE AllFine'
    <2>1. \A b \in Agents, v \in Workers : workers'[b][v] \in {workers[b][v], Idle}
      BY <1>4 DEF Restart, TInv
    <2> QED
      BY <1>1, <1>4, <2>1, QuietFine DEF Restart
  <1>5. ASSUME NEW a \in Agents, NEW w \in Workers, Fail(a, w) PROVE AllFine'
    <2>1. \A b \in Agents, v \in Workers : workers'[b][v] \in {workers[b][v], Idle}
      BY <1>5, IdleHolds, OneWorkerMoves DEF Fail
    <2> QED
      BY <1>1, <1>5, <2>1, QuietFine DEF Fail
  <1>6. CASE UNCHANGED vars
    BY <1>6, QuietFine DEF vars, counts
  <1> QED
    BY <1>2, <1>3, <1>4, <1>5, <1>6

LEMMA SendFine ==
    ASSUME TInv, AllFine, NEW a \in Agents, NEW w \in Workers, Send(a, w) \/ FindNothing(a, w)
    PROVE  AllFine'
  <1>1. CASE Send(a, w)
    <2>1. PICK me : me = [Idle EXCEPT !.pc = "find", !.my = Connection(a).my,
                                      !.their = Connection(a).their]
      OBVIOUS
    <2>2. Connection(a) \in Records
      BY ConnectionIs DEF TInv
    <2>3. me \in WorkerStates /\ Free(me)
      BY <2>1, <2>2, IdleHolds DEF Idle, WorkerStates, Records, Free
    <2>4. Become(a, w, me) /\ UNCHANGED <<records, net, rotations>>
      BY <1>1, <2>1 DEF Send
    <2> QED
      BY <2>3, <2>4, OneWorkerMoves, QuietFine
  <1>2. CASE FindNothing(a, w)
    <2>1. PICK me : me = [workers[a][w] EXCEPT !.pc = "create"]
      OBVIOUS
    <2>2. me \in WorkerStates /\ Free(me)
      BY <2>1, WorkerTyped DEF WorkerStates, Free
    <2>3. Become(a, w, me) /\ UNCHANGED <<records, net, rotations>>
      BY <1>2, <2>1 DEF FindNothing, counts
    <2> QED
      BY <2>2, <2>3, OneWorkerMoves, QuietFine
  <1> QED
    BY <1>1, <1>2

LEMMA RotateFine ==
    ASSUME TInv, TInv', AllFine, NEW a \in Agents, NEW w \in Workers, Rotate(a, w), Calm'
    PROVE  AllFine'
  <1>1. PICK rec \in Records : rec = Connection(a) /\ rec.id = 1
    BY ConnectionIs DEF TInv
  <1>2. PICK me \in WorkerStates :
             /\ me.pc = "new" /\ me.was = rec
             /\ me.rec = [rec EXCEPT !.my = @ + 1, !.rot = rec.my + 1]
             /\ workers'[a][w] = me
             /\ \A b \in Agents, v \in Workers :
                   workers'[b][v] # workers[b][v] => b = a /\ v = w
    <2>1. PICK me : me = [Idle EXCEPT !.pc = "new", !.was = rec,
                                      !.rec = [rec EXCEPT !.my = @ + 1, !.rot = rec.my + 1]]
      OBVIOUS
    <2>2. Become(a, w, me)
      BY <1>1, <2>1 DEF Rotate
    <2>3. workers'[a][w] = me
      BY <2>2 DEF Become, TInv
    <2>4. me \in WorkerStates
      BY <2>3, WorkerTyped DEF TInv
    <2>5. /\ me.pc = "new" /\ me.was = rec
          /\ me.rec = [rec EXCEPT !.my = @ + 1, !.rot = rec.my + 1]
      BY <2>1 DEF Idle
    <2> QED
      BY <2>2, <2>3, <2>4, <2>5, OneWorkerMoves
  <1>3. /\ UNCHANGED <<records, net>>
        /\ rotations' = [rotations EXCEPT ![a] = @ + 1] /\ rotations'[a] = 1 /\ rotations[a] = 0
    BY DEF Rotate, Calm, TInv
  <1>4. MyDID(a) = 0 /\ Rotation(a) = 0 /\ ~Backed(a) /\ AgentFine(a)
    <2>1. AgentFine(a) /\ MyDID(a) = 0
      BY <1>3, Bits DEF AgentFine
    <2>2. ~Backed(a)
      BY <2>1, RecordIn DEF RecordFine, Backed
    <2> QED
      BY <2>1, <2>2, Bits
  <1>5. /\ me.rec.my = 1 /\ me.rec.rot = 1 /\ me.rec.their = rec.their
        /\ me.was.id = 1 /\ me.rec.their = TheirDID(a) /\ Rotates(me)
    BY <1>1, <1>2, <1>4 DEF MyDID, TheirDID, Records, Rotates
  <1>6. \A v \in Workers : ~Rotates(workers[a][v])
    BY <1>3, <1>4 DEF AgentFine, RotationFine
  <1>7. ASSUME NEW b \in Agents PROVE Pending(b)' \subseteq Pending(b)
    BY <1>2, <1>3 DEF Pending
  <1>8. ASSUME NEW b \in Agents
        PROVE  /\ MyDID(b)' <= rotations'[b]
               /\ \A r \in Pending(b)' : r \in Pending(b) \/ RecordFine(b, r)'
               /\ \A v \in Workers : RotationFine(b, workers[b][v])' /\ SaveFine(workers[b][v])'
               /\ OneRotates(b)' /\ OneWay(b)'
    <2>1. AgentFine(b) /\ AgentFine(Other(b)) /\ Grows(b) /\ Grows(Other(b))
      BY <1>3, Bits, Unsaved, TwoAgents
    <2>2. MyDID(b)' <= rotations'[b]
      BY <1>3, <1>4, <2>1, Unsaved DEF AgentFine, TInv
    <2>3. \A v \in Workers : SaveFine(workers'[b][v])
      BY <1>2, <2>1 DEF AgentFine, SaveFine
    <2>4. (FromOld(b)' => FromOld(b)) /\ (ToOld(b)' => ToOld(b))
      BY <1>3, <1>7 DEF FromOld, ToOld
    <2>5. OneWay(b)'
      BY <2>1, <2>4, Bits, OneWayStays
    <2>6. OneRotates(b)' /\ \A v \in Workers : RotationFine(b, workers[b][v])'
      <3>1. CASE b = a
        <4>1. \A v \in Workers : Rotates(workers'[a][v]) => v = w
          BY <1>2, <1>6
        <4>2. RotationFine(a, me)'
          BY <1>2, <1>3, <1>4, <1>5, Unsaved DEF RotationFine
        <4>3. \A v \in Workers : RotationFine(a, workers[a][v])'
          BY <1>2, <4>1, <4>2 DEF RotationFine
        <4> QED
          BY <3>1, <4>1, <4>3 DEF OneRotates
      <3>2. CASE b # a
        <4>1. rotations'[b] = rotations[b] /\ \A v \in Workers : workers'[b][v] = workers[b][v]
          BY <1>2, <1>3, <3>2 DEF TInv
        <4> QED
          BY <1>3, <2>1, <4>1, Unsaved DEF AgentFine, OneRotates, RotationFine
      <3> QED
        BY <3>1, <3>2
    <2> QED
      BY <1>7, <2>2, <2>3, <2>5, <2>6
  <1>9. (\A b \in Agents : Grows(b)) /\ net' \subseteq Messages
    BY <1>3, Unsaved DEF TInv
  <1> QED
    BY <1>3, <1>8, <1>9, StaysFine

\* What FindAndSend sends: by an agent without a backup it goes to the DID that its
\* connection has, and what a backup sends is refused or tells that the other's rotation
\* is known.
LEMMA SentFine ==
    ASSUME TInv, AllFine, NEW a \in Agents, NEW r \in records[a],
           NEW m, m.to = Other(a), m.src = r.my, m.dst = r.their, m.prior = r.rot
    PROVE  MessageFine(m)
  <1>1. PICK b \in Agents : b = Other(a) /\ Other(b) = a /\ m.to = b
    BY TwoAgents
  <1>2. /\ r.my \in {0, MyDID(a)} /\ r.rot \in {0, MyDID(a)} /\ r.their \in {0, MyDID(b)}
        /\ MyDID(a) \in {0, 1} /\ MyDID(b) \in {0, 1} /\ TheirDID(a) \in {0, 1}
        /\ r.id = 2 => r.my = 0
        /\ r = Connection(a) \/ r.id = 2
    BY <1>1, Bits, RecordIn DEF RecordFine
  <1>3. r.my = 1 => r = Connection(a)
    BY <1>2
  <1>4. r.their = 1 /\ (r.rot = 0 \/ r.my = 1) => Told(b)
    <2> SUFFICES ASSUME r.their = 1, r.rot = 0 \/ r.my = 1 PROVE Told(b)
      OBVIOUS
    <2>1. Knows(a)
      BY DEF Knows
    <2>2. CASE r = Connection(a)
      BY <1>1, <2>1, <2>2 DEF Told, TheirDID
    <2>3. CASE r.id = 2
      <3>1. r.rot = 0
        BY <1>2, <2>3
      <3>2. FromOld(a) /\ ToOld(a)
        BY <2>3, <3>1 DEF FromOld, ToOld, Pending
      <3>3. ~Backed(b) => TheirDID(a) # 0
        BY <1>1, <3>2 DEF AllFine, AgentFine, OneWay
      <3> QED
        BY <1>1, <1>2, <2>1, <3>3 DEF Told
    <2> QED
      BY <1>2, <2>2, <2>3
  <1> QED
    BY <1>1, <1>2, <1>3, <1>4 DEF MessageFine, TheirDID, Rotation

LEMMA FindAndSendFine ==
    ASSUME TInv, TInv', AllFine, NEW a \in Agents, NEW w \in Workers, FindAndSend(a, w)
    PROVE  AllFine'
  <1>1. PICK r \in records[a] : /\ r.my = workers[a][w].my /\ r.their = workers[a][w].their
                                /\ net' = net \cup {Message(a, w, r.rot)}
    BY DEF FindAndSend, GetByDIDs
  <1>2. PICK m : /\ net' = net \cup {m} /\ m.to = Other(a)
                 /\ m.src = r.my /\ m.dst = r.their /\ m.prior = r.rot
    <2>1. PICK m : m = Message(a, w, r.rot)
      OBVIOUS
    <2>2. /\ m.to = Other(a) /\ m.src = r.my /\ m.dst = r.their /\ m.prior = r.rot
      BY <1>1, <2>1 DEF Message
    <2> QED
      BY <1>1, <2>1, <2>2
  <1>3. /\ UNCHANGED <<records, rotations>>
        /\ \A b \in Agents, v \in Workers : workers'[b][v] \in {workers[b][v], Idle}
    BY IdleHolds, OneWorkerMoves DEF FindAndSend, counts
  <1>4. Free(Idle)
    BY DEF Idle, Free
  <1>5. ASSUME NEW b \in Agents PROVE Pending(b)' \subseteq Pending(b)
    BY <1>3, <1>4, FreeIs DEF Pending
  <1>6. MessageFine(m)'
    <2>1. MessageFine(m) /\ m.to \in Agents
      BY <1>2, SentFine, TwoAgents
    <2> QED
      BY <1>3, <2>1, Unsaved, MessageStays DEF AllFine
  <1>7. ASSUME NEW b \in Agents, ~Backed(Other(b)), TheirDID(b) = 0, m.to = b
        PROVE  OneWay(b)'
    <2>1. Other(b) = a
      BY <1>2, <1>7, TwoAgents
    <2>2. r = Connection(a)
      BY <1>7, <2>1, RecordIn DEF AllFine
    <2>3. /\ m.src = MyDID(a) /\ m.dst = TheirDID(a)
          /\ MyDID(a) \in {0, 1} /\ TheirDID(a) \in {0, 1}
      BY <1>2, <2>2, Bits DEF MyDID, TheirDID
    <2>4. /\ FromOld(b)' => FromOld(b) \/ (MyDID(a) = 0 /\ TheirDID(a) = 1)
          /\ ToOld(b)' => ToOld(b) \/ (MyDID(a) = 1 /\ TheirDID(a) = 0)
      BY <1>2, <1>5, <2>3 DEF FromOld, ToOld
    <2>5. ToOld(b) => MyDID(a) = 1
      <3>1. \A x \in net : x.to = b => x.src \in {0, MyDID(a)}
        BY <2>1 DEF AllFine, MessageFine
      <3>2. \A x \in Pending(b) : x.their \in {0, MyDID(a)}
        BY <2>1 DEF AllFine, AgentFine, RecordFine
      <3> QED
        BY <3>1, <3>2 DEF ToOld
    <2>6. ~(FromOld(b) /\ ToOld(b)) /\ (FromOld(b) => TheirDID(a) = 1)
      BY <1>7, <2>1 DEF AllFine, AgentFine, OneWay
    <2>7. ~(FromOld(b)' /\ ToOld(b)') /\ (FromOld(b)' => TheirDID(a)' = 1)
      BY <1>3, <2>3, <2>4, <2>5, <2>6, Unsaved
    <2> QED
      BY <2>1, <2>7 DEF OneWay, Other
  <1>8. ASSUME NEW b \in Agents
        PROVE  /\ MyDID(b)' <= rotations'[b]
               /\ \A x \in Pending(b)' : x \in Pending(b) \/ RecordFine(b, x)'
               /\ \A v \in Workers : RotationFine(b, workers[b][v])' /\ SaveFine(workers[b][v])'
               /\ OneRotates(b)' /\ OneWay(b)'
    <2>1. AgentFine(b) /\ AgentFine(Other(b)) /\ Grows(b) /\ Grows(Other(b))
      BY <1>3, Bits, Unsaved, TwoAgents
    <2>2. MyDID(b)' <= rotations'[b]
      BY <1>3, <2>1, Unsaved DEF AgentFine
    <2>3. \A v \in Workers : SaveFine(workers'[b][v])
      BY <1>3, <1>4, <2>1, FreeIs DEF AgentFine
    <2>4. m.to # b => (FromOld(b)' => FromOld(b)) /\ (ToOld(b)' => ToOld(b))
      BY <1>2, <1>5 DEF FromOld, ToOld
    <2>5. TheirDID(b) \in {0, 1}
      BY Bits
    <2>6. OneWay(b)'
      <3>1. CASE m.to = b /\ ~Backed(Other(b)) /\ TheirDID(b) = 0
        BY <1>7, <3>1
      <3>2. CASE ~(m.to = b /\ ~Backed(Other(b)) /\ TheirDID(b) = 0)
        <4>1. ~Backed(Other(b)) /\ TheirDID(b) = 0 =>
                 (FromOld(b)' => FromOld(b)) /\ (TheirDID(b)' = 0 => (ToOld(b)' => ToOld(b)))
          BY <2>4, <3>2
        <4> QED
          BY <2>1, <2>5, <4>1, OneWayStays
      <3> QED
        BY <3>1, <3>2
    <2>7. OneRotates(b)' /\ \A v \in Workers : RotationFine(b, workers[b][v])'
      BY <1>3, <1>4, RotationsStay, FreeIs
    <2> QED
      BY <1>5, <2>2, <2>3, <2>6, <2>7
  <1>9. (\A b \in Agents : Grows(b)) /\ net' \subseteq Messages
    BY <1>3, Unsaved DEF TInv
  <1> QED
    BY <1>2, <1>6, <1>8, <1>9, StaysFine

-----------------------------------------------------------------------------
(*****************************************************************************)
(* The steps that save.                                                      *)
(*****************************************************************************)
LEMMA SavedIs ==
    ASSUME TInv, TInv', NEW a \in Agents, NEW rec, SaveConnectionRecord(a, rec)
    PROVE  /\ records'[a] = {r \in records[a] : r.id # rec.id} \cup {rec}
           /\ \A b \in Agents : b # a => records'[b] = records[b]
           /\ rec.id = 1 => Connection(a)' = rec
           /\ rec.id # 1 => Connection(a)' = Connection(a)
           /\ Backed(a) => Backed(a)'
           /\ rec.id = 1 /\ ~Backed(a) => ~Backed(a)'
  <1>1. /\ records'[a] = {r \in records[a] : r.id # rec.id} \cup {rec}
        /\ \A b \in Agents : b # a => records'[b] = records[b]
    BY DEF SaveConnectionRecord, TInv
  <1>2. /\ Connection(a)' \in records'[a] /\ Connection(a)'.id = 1
        /\ \A r \in records'[a] : r.id = 1 => r = Connection(a)'
    <2>1. Numbered(records'[a])
      BY DEF TInv
    <2>2. Connection(a)' = CHOOSE r \in records'[a] : r.id = 1
      BY DEF Connection
    <2> QED
      BY <2>1, <2>2, FirstIs
  <1>3. Connection(a) \in records[a] /\ Connection(a).id = 1
    BY ConnectionIs DEF TInv
  <1> QED
    BY <1>1, <1>2, <1>3 DEF Backed

LEMMA OthersKeep ==
    ASSUME TInv, AllFine, NEW b \in Agents, records'[b] = records[b]
    PROVE  /\ Grows(b)
           /\ MyDID(b)' = MyDID(b) /\ TheirDID(b)' = TheirDID(b) /\ Backed(b)' = Backed(b)
  <1>1. Connection(b)' = Connection(b) /\ Knows(b)' = Knows(b) /\ Backed(b)' = Backed(b)
    BY DEF Connection, Knows, Backed
  <1>2. /\ MyDID(b)' = MyDID(b) /\ TheirDID(b)' = TheirDID(b)
        /\ Rotation(b)' = Rotation(b)
    BY <1>1 DEF MyDID, TheirDID, Rotation
  <1> QED
    BY <1>1, <1>2, Bits DEF Grows

\* An agent saves a record: the parts of the invariant that depend on which.
LEMMA SavingFine ==
    ASSUME TInv, TInv', AllFine, NEW a \in Agents, NEW w \in Workers, NEW rec,
           SaveConnectionRecord(a, rec), UNCHANGED <<net, rotations>>,
           \A b \in Agents, v \in Workers : workers'[b][v] # workers[b][v] => b = a /\ v = w,
           workers'[a][w].pc # "save",
           Grows(a), MyDID(a)' <= rotations[a],
           rec \in Pending(a) \/ RecordFine(a, rec)',
           OneRotates(a)', \A v \in Workers : RotationFine(a, workers[a][v])',
           \/ rec \in Pending(a) \/ rec.id = 1
           \/ rec.rot # 0 /\ (rec.their = 1 => TheirDID(a) = 1)
    PROVE  AllFine'
  <1>1. /\ records'[a] = {r \in records[a] : r.id # rec.id} \cup {rec}
        /\ \A b \in Agents : b # a => records'[b] = records[b]
    BY SavedIs
  <1>2. \A b \in Agents : Grows(b)
    BY <1>1, OthersKeep
  <1>3. ASSUME NEW b \in Agents, NEW r \in Pending(b)'
        PROVE  r \in Pending(b) \/ (b = a /\ r = rec)
    <2>1. \/ r \in records'[b]
          \/ \E v \in Workers : workers'[b][v].pc = "save" /\ r = workers'[b][v].rec
      BY <1>3 DEF Pending
    <2>2. CASE r \in records'[b]
      BY <1>1, <2>2 DEF Pending
    <2>3. ASSUME NEW v \in Workers, workers'[b][v].pc = "save", r = workers'[b][v].rec
          PROVE  r \in Pending(b)
      <3>1. workers'[b][v] = workers[b][v]
        BY <2>3
      <3> QED
        BY <2>3, <3>1 DEF Pending
    <2> QED
      BY <2>1, <2>2, <2>3
  <1>4. ASSUME NEW b \in Agents
        PROVE  /\ MyDID(b)' <= rotations'[b]
               /\ \A r \in Pending(b)' : r \in Pending(b) \/ RecordFine(b, r)'
               /\ \A v \in Workers : RotationFine(b, workers[b][v])' /\ SaveFine(workers[b][v])'
               /\ OneRotates(b)' /\ OneWay(b)'
    <2>1. AgentFine(b) /\ AgentFine(Other(b)) /\ Grows(b) /\ Grows(Other(b))
      BY <1>2, Bits, TwoAgents
    <2>2. MyDID(b)' <= rotations'[b]
      <3>1. CASE b = a
        BY <3>1
      <3>2. CASE b # a
        BY <1>1, <2>1, <3>2, OthersKeep DEF AgentFine
      <3> QED
        BY <3>1, <3>2
    <2>3. \A v \in Workers : SaveFine(workers'[b][v])
      BY <2>1 DEF AgentFine, SaveFine
    <2>4. OneRotates(b)' /\ \A v \in Workers : RotationFine(b, workers[b][v])'
      <3>1. CASE b = a
        BY <3>1
      <3>2. CASE b # a
        <4>1. \A v \in Workers : workers'[b][v] = workers[b][v]
          BY <3>2
        <4> QED
          BY <1>1, <2>1, <3>2, <4>1, OthersKeep DEF AgentFine, OneRotates, RotationFine
      <3> QED
        BY <3>1, <3>2
    <2>5. /\ TheirDID(b) = 0 => (FromOld(b)' => FromOld(b))
          /\ TheirDID(b) = 0 => (ToOld(b)' => ToOld(b))
      <3>1. ASSUME NEW r \in Pending(b)', r.id = 2, r.rot = 0, TheirDID(b) = 0
            PROVE  r \in Pending(b)
        BY <1>3, <3>1
      <3>2. ASSUME NEW r \in Pending(b)', r.id = 2, r.their = 1, TheirDID(b) = 0
            PROVE  r \in Pending(b)
        BY <1>3, <3>2
      <3> QED
        BY <3>1, <3>2 DEF FromOld, ToOld
    <2>6. OneWay(b)'
      <3>1. TheirDID(b) \in {0, 1}
        BY Bits
      <3> QED
        BY <2>1, <2>5, <3>1, OneWayStays
    <2> QED
      BY <1>3, <2>2, <2>3, <2>4, <2>6
  <1> QED
    BY <1>2, <1>4, StaysFine DEF TInv

LEMMA SaveNewFine ==
    ASSUME TInv, TInv', AllFine, NEW a \in Agents, NEW w \in Workers, SaveNew(a, w), Calm'
    PROVE  AllFine'
  <1>1. PICK me \in WorkerStates : me = workers[a][w]
    BY WorkerTyped
  <1>2. me.pc = "new" /\ Rotates(me) /\ me.rec.id = 1 /\ AgentFine(a)
    BY <1>1, WorkerTyped, Bits DEF SaveNew, Holds, Rotates
  <1>3. /\ rotations[a] = 1 /\ ~Backed(a) /\ MyDID(a) = 0
        /\ me.was.id = 1 /\ me.rec.their = me.was.their /\ me.rec.my = 1 /\ me.rec.rot = 1
    BY <1>1, <1>2 DEF AgentFine, RotationFine
  <1>4. /\ SaveConnectionRecord(a, me.rec) /\ me.was \in records[a]
        /\ UNCHANGED <<net, counts>> /\ Become(a, w, [me EXCEPT !.pc = "backup"])
    BY <1>1 DEF SaveNew, Update, Calm
  <1>5. me.was = Connection(a)
    BY <1>2, <1>3, <1>4, ConnectionFine
  <1>6. PICK next \in WorkerStates :
             /\ next.pc = "backup" /\ next.was = me.was /\ next.rec = me.rec
             /\ workers'[a][w] = next
             /\ \A b \in Agents, v \in Workers :
                   workers'[b][v] # workers[b][v] => b = a /\ v = w
    <2>1. PICK next : next = [me EXCEPT !.pc = "backup"]
      OBVIOUS
    <2>2. /\ next \in WorkerStates /\ next.pc = "backup"
          /\ next.was = me.was /\ next.rec = me.rec
      BY <2>1 DEF WorkerStates
    <2>3. Become(a, w, next)
      BY <1>4, <2>1
    <2> QED
      BY <2>2, <2>3, OneWorkerMoves
  <1>7. /\ Connection(a)' = me.rec /\ ~Backed(a)'
        /\ records'[a] = {r \in records[a] : r.id # me.rec.id} \cup {me.rec}
        /\ \A b \in Agents : b # a => records'[b] = records[b]
    BY <1>2, <1>3, <1>4, SavedIs
  <1>8. MyDID(a)' = 1 /\ TheirDID(a)' = TheirDID(a) /\ Rotation(a)' = 1
    BY <1>3, <1>5, <1>7 DEF MyDID, TheirDID, Rotation
  <1>9. Grows(a)
    <2>1. Knows(a) => Knows(a)'
      <3> SUFFICES ASSUME NEW r \in records[a], r.their = 1 PROVE Knows(a)'
        BY DEF Knows
      <3>1. r = Connection(a)
        BY <1>2, <1>3, RecordIn
      <3> QED
        BY <1>3, <1>5, <1>7, <3>1 DEF Knows
    <2> QED
      BY <1>3, <1>8, <2>1 DEF Grows
  <1>10. RecordFine(a, me.rec)'
    <2>1. Other(a) \in Agents /\ Other(a) # a
      BY TwoAgents
    <2>2. MyDID(Other(a))' = MyDID(Other(a))
      BY <1>7, <2>1, OthersKeep
    <2>3. me.rec.their \in {0, MyDID(Other(a))}
      BY <1>2, <1>3, <1>5, ConnectionFine DEF RecordFine
    <2> QED
      BY <1>2, <1>3, <1>8, <2>2, <2>3 DEF RecordFine, Other
  <1>11. OneRotates(a)' /\ \A v \in Workers : RotationFine(a, workers[a][v])'
    <2>1. \A v \in Workers : Rotates(workers'[a][v]) => v = w
      <3> SUFFICES ASSUME NEW v \in Workers, v # w, Rotates(workers'[a][v]) PROVE FALSE
        OBVIOUS
      <3>1. Rotates(workers[a][v])
        BY <1>6
      <3> QED
        BY <1>1, <1>2, <3>1 DEF AgentFine, OneRotates
    <2>2. RotationFine(a, next)'
      <3>1. next.rec.their \in {0, TheirDID(a)'}
        BY <1>3, <1>5, <1>6, <1>8 DEF TheirDID
      <3> QED
        BY <1>3, <1>4, <1>6, <1>7, <1>8, <3>1 DEF RotationFine, counts
    <2>3. \A v \in Workers : RotationFine(a, workers[a][v])'
      BY <1>6, <2>1, <2>2 DEF RotationFine
    <2> QED
      BY <2>1, <2>3 DEF OneRotates
  <1> QED
    BY <1>2, <1>3, <1>4, <1>6, <1>8, <1>9, <1>10, <1>11, SavingFine DEF counts

LEMMA SaveBackupFine ==
    ASSUME TInv, TInv', AllFine, NEW a \in Agents, NEW w \in Workers, SaveBackup(a, w)
    PROVE  AllFine'
  <1>1. PICK me \in WorkerStates : me = workers[a][w]
    BY WorkerTyped
  <1>2. /\ me.pc = "backup" /\ Rotates(me) /\ me.rec \in Records /\ AgentFine(a)
    BY <1>1, WorkerTyped, Bits DEF SaveBackup, Holds, Rotates
  <1>3. /\ rotations[a] = 1 /\ ~Backed(a) /\ MyDID(a) = 1
        /\ me.rec.my = 1 /\ me.rec.rot = 1 /\ me.rec.their \in {0, TheirDID(a)}
    BY <1>1, <1>2 DEF AgentFine, RotationFine
  <1>4. NewID(a) = 2
    <2>1. IsFiniteSet(records[a]) /\ IdsOf(records[a]) = 1..Cardinality(records[a])
      BY DEF TInv, Numbered
    <2>2. PICK n \in Nat : n = Cardinality(records[a])
      BY <2>1, FS_CardinalityType
    <2>3. IdsOf(records[a]) = {1}
      BY <1>3 DEF IdsOf, Backed, TInv, Numbered
    <2>4. 1..n = {1}
      BY <2>1, <2>2, <2>3
    <2>5. n = 1
      <3>1. 1 \in 1..n /\ (n \in 1..n => n = 1)
        BY <2>4
      <3> QED
        BY <3>1
    <2> QED
      BY <2>2, <2>5 DEF NewID
  <1>5. PICK rec : /\ rec.id = 2 /\ rec.my = 0 /\ rec.rot = 1 /\ rec.their = me.rec.their
                   /\ SaveConnectionRecord(a, rec)
    <2>1. PICK rec : rec = [me.rec EXCEPT !.id = NewID(a), !.my = @ - 1]
      OBVIOUS
    <2>2. rec.id = 2 /\ rec.my = 0 /\ rec.rot = 1 /\ rec.their = me.rec.their
      BY <1>2, <1>3, <1>4, <2>1 DEF Records
    <2>3. SaveConnectionRecord(a, rec)
      BY <1>1, <2>1 DEF SaveBackup
    <2> QED
      BY <2>2, <2>3
  <1>6. /\ Connection(a)' = Connection(a)
        /\ records'[a] = {r \in records[a] : r.id # 2} \cup {rec}
        /\ \A b \in Agents : b # a => records'[b] = records[b]
    BY <1>5, SavedIs
  <1>7. MyDID(a)' = 1 /\ TheirDID(a)' = TheirDID(a) /\ Rotation(a)' = Rotation(a)
    BY <1>3, <1>6 DEF MyDID, TheirDID, Rotation
  <1>8. Grows(a)
    <2>1. Knows(a) => Knows(a)'
      BY <1>3, <1>6 DEF Knows, Backed
    <2> QED
      BY <1>3, <1>7, <2>1 DEF Grows
  <1>9. RecordFine(a, rec)'
    <2>1. Other(a) \in Agents /\ Other(a) # a
      BY TwoAgents
    <2>2. MyDID(Other(a))' = MyDID(Other(a))
      BY <1>6, <2>1, OthersKeep
    <2>3. rec.their \in {0, MyDID(Other(a))}
      BY <1>3, <1>5, Bits
    <2> QED
      BY <1>5, <1>7, <2>2, <2>3 DEF RecordFine, Other
  <1>10. /\ workers'[a][w] = Idle
         /\ \A b \in Agents, v \in Workers : workers'[b][v] # workers[b][v] => b = a /\ v = w
         /\ UNCHANGED <<net, rotations>>
    BY IdleHolds, OneWorkerMoves DEF SaveBackup, counts
  <1>11. OneRotates(a)' /\ \A v \in Workers : RotationFine(a, workers[a][v])'
    <2>1. \A v \in Workers : ~Rotates(workers'[a][v])
      <3> SUFFICES ASSUME NEW v \in Workers, Rotates(workers'[a][v]) PROVE FALSE
        OBVIOUS
      <3>1. v # w
        BY <1>10 DEF Rotates, Idle
      <3>2. Rotates(workers[a][v])
        BY <1>10, <3>1
      <3> QED
        BY <1>1, <1>2, <3>1, <3>2 DEF AgentFine, OneRotates
    <2> QED
      BY <2>1 DEF OneRotates, RotationFine
  <1>12. workers'[a][w].pc # "save"
    BY <1>10 DEF Idle
  <1>13. rec.rot # 0 /\ (rec.their = 1 => TheirDID(a) = 1)
    BY <1>3, <1>5
  <1> QED
    BY <1>3, <1>5, <1>7, <1>8, <1>9, <1>10, <1>11, <1>12, <1>13, SavingFine

LEMMA SaveReceivedFine ==
    ASSUME TInv, TInv', AllFine, NEW a \in Agents, NEW w \in Workers, SaveReceived(a, w), Calm'
    PROVE  AllFine'
  <1>1. PICK me \in WorkerStates : me = workers[a][w]
    BY WorkerTyped
  <1>2. /\ me.pc = "save" /\ AgentFine(a) /\ Follows(me.was, me.rec) /\ me.rec \in Pending(a)
    BY <1>1, Bits DEF SaveReceived, AgentFine, SaveFine, Pending
  <1>3. /\ SaveConnectionRecord(a, me.rec) /\ me.was \in records[a]
        /\ UNCHANGED <<net, rotations>> /\ Accept(a, w, me.my, me.their)
    BY <1>1 DEF SaveReceived, Update, Calm
  <1>4. PICK next \in WorkerStates :
             /\ Free(next) /\ workers'[a][w] = next
             /\ \A b \in Agents, v \in Workers :
                   workers'[b][v] # workers[b][v] => b = a /\ v = w
    <2>1. me.my \in DIDs /\ me.their \in DIDs
      BY DEF WorkerStates
    <2>2. PICK next \in WorkerStates : next.pc \in {"idle", "find"} /\ Become(a, w, next)
      BY <1>3, <2>1, AcceptIs
    <2> QED
      BY <2>2, OneWorkerMoves DEF Free
  <1>5. /\ records'[a] = {r \in records[a] : r.id # me.rec.id} \cup {me.rec}
        /\ me.rec.id = 1 => Connection(a)' = me.rec
        /\ me.rec.id # 1 => Connection(a)' = Connection(a)
        /\ Backed(a) => Backed(a)'
        /\ me.rec.id = 1 /\ ~Backed(a) => ~Backed(a)'
    BY <1>3, SavedIs
  <1>6. me.was.id = me.rec.id /\ \A r \in records[a] : r.id = me.rec.id => r = me.was
    BY <1>2, <1>3, RecordIn DEF Follows
  <1>7. /\ MyDID(a)' = MyDID(a)
        /\ TheirDID(a) = 1 => TheirDID(a)' = 1
        /\ Rotation(a) = 0 => Rotation(a)' = 0
    <2>1. CASE me.rec.id = 1
      <3>1. Connection(a)' = me.rec /\ Connection(a) = me.was
        BY <1>2, <1>5, <1>6, <2>1, ConnectionFine
      <3> QED
        BY <1>2, <3>1 DEF Follows, MyDID, TheirDID, Rotation
    <2>2. CASE me.rec.id # 1
      BY <1>5, <2>2 DEF MyDID, TheirDID, Rotation
    <2> QED
      BY <2>1, <2>2
  <1>8. Backed(a)' = Backed(a)
    <2>1. CASE me.rec.id = 1
      BY <1>5, <2>1 DEF Backed
    <2>2. CASE me.rec.id # 1
      BY <1>3, <1>5, <1>6, <2>2 DEF Backed
    <2> QED
      BY <2>1, <2>2
  <1>9. Grows(a)
    <2>1. Knows(a) => Knows(a)'
      <3> SUFFICES ASSUME NEW r \in records[a], r.their = 1 PROVE Knows(a)'
        BY DEF Knows
      <3>1. CASE r.id = me.rec.id
        BY <1>2, <1>5, <1>6, <3>1 DEF Follows, Knows
      <3>2. CASE r.id # me.rec.id
        BY <1>5, <3>2 DEF Knows
      <3> QED
        BY <3>1, <3>2
    <2> QED
      BY <1>7, <1>8, <2>1, Bits DEF Grows
  <1>10. OneRotates(a)' /\ \A v \in Workers : RotationFine(a, workers[a][v])'
    <2>1. \A v \in Workers : Rotates(workers'[a][v]) => workers'[a][v] = workers[a][v]
      BY <1>4, FreeIs
    <2>2. OneRotates(a)'
      BY <1>2, <2>1 DEF AgentFine, OneRotates
    <2>3. ASSUME NEW v \in Workers, Rotates(workers'[a][v])
          PROVE  RotationFine(a, workers[a][v])'
      <3>1. PICK it : it = workers[a][v] /\ it = workers'[a][v] /\ Rotates(it)
        BY <2>1, <2>3
      <3>2. /\ rotations[a] = 1 /\ ~Backed(a) /\ MyDID(a) = (IF it.pc = "new" THEN 0 ELSE 1)
            /\ it.was.id = 1 /\ it.rec.their = it.was.their
            /\ it.rec.my = 1 /\ it.rec.rot = 1 /\ it.rec.their \in {0, TheirDID(a)}
        BY <1>2, <3>1 DEF AgentFine, RotationFine
      <3>3. it.rec.their \in {0, TheirDID(a)'}
        BY <1>7, <3>2, Bits
      <3> QED
        BY <1>3, <1>7, <1>8, <3>1, <3>2, <3>3 DEF RotationFine
    <2> QED
      BY <2>2, <2>3 DEF RotationFine
  <1>11. MyDID(a)' <= rotations[a]
    BY <1>2, <1>7 DEF AgentFine
  <1>12. workers'[a][w].pc # "save"
    BY <1>4, FreeIs
  <1> QED
    BY <1>2, <1>3, <1>4, <1>9, <1>10, <1>11, <1>12, SavingFine

-----------------------------------------------------------------------------
(*****************************************************************************)
(* The receipt of a message.                                                 *)
(*****************************************************************************)
\* What a message makes of a record.
LEMMA TakenUp ==
    ASSUME TInv, AllFine, NEW m \in net, NEW a \in Agents, a = m.to, NEW r \in Found(m),
           NEW rec, rec = Acknowledged(r, m)
    PROVE  \E s \in records[a] :
              /\ s.id = r.id /\ Follows(s, rec) /\ RecordFine(a, rec)
              /\ ~Backed(Other(a)) /\ TheirDID(a) = 0 /\ rec.id = 2 =>
                    (rec.rot = 0 => FromOld(a)) /\ (rec.their = 1 => ToOld(a))
  <1>1. m \in Messages /\ m.prior \in DIDs
    BY DEF TInv, Messages
  <1>2. PICK b \in Agents : b = Other(a) /\ Other(b) = a
    BY TwoAgents
  <1>3. PICK s \in records[a] :
            \/ /\ r = s /\ s.their = m.src
               /\ m.prior = 0 \/ (m.src = m.prior /\ GetByDIDs(m.to, m.dst, m.prior - 1) = {})
            \/ /\ r = [s EXCEPT !.their = m.prior]
               /\ m.prior # 0 /\ m.src = m.prior /\ s.my = m.dst /\ s.their = m.prior - 1
    BY <1>1, FoundIs
  <1>4. /\ s \in Records /\ Rotated(s) /\ AgentFine(a) /\ s \in Pending(a)
        /\ MyDID(a) \in {0, 1} /\ MyDID(b) \in {0, 1}
    BY <1>2, Bits DEF TInv, Numbered, Pending
  <1>5. /\ s.id \in {1, 2} /\ (s.id = 2 => s.my = 0 /\ MyDID(a) = 1)
        /\ s.my \in {0, MyDID(a)} /\ s.rot \in {0, MyDID(a)} /\ s.their \in {0, MyDID(b)}
        /\ s.id = 1 /\ s.my = 1 /\ s.rot = 0 => Told(a)
    BY <1>2, <1>4 DEF AgentFine, RecordFine
  <1>6. /\ m.src \in {0, MyDID(b)} /\ m.prior \in {0, MyDID(b)} /\ m.dst \in {0, MyDID(a)}
        /\ m.dst = 1 /\ (m.prior = 0 \/ m.src = 1) => Told(a)
        /\ m.src = 1 /\ m.prior = 0 => Rotation(b) = 0
    BY <1>2 DEF AllFine, MessageFine
  <1>7. /\ r.id = s.id /\ rec.id = s.id /\ rec.my = s.my /\ rec.their = r.their
        /\ rec.rot = IF m.dst = s.rot THEN 0 ELSE s.rot
    BY <1>1, <1>3, <1>4, AcknowledgedIs
  <1>8. r.their = IF r = s THEN s.their ELSE m.prior
    BY <1>3, <1>4 DEF Records
  <1>9. Follows(s, rec)
    BY <1>3, <1>4, <1>6, <1>7, <1>8 DEF Follows
  <1>10. RecordFine(a, rec)
    <2>1. rec.their \in {0, MyDID(b)} /\ rec.rot \in {0, MyDID(a)}
      BY <1>5, <1>6, <1>7, <1>8
    <2>2. rec.id = 1 /\ rec.my = 1 /\ rec.rot = 0 => Told(a)
      <3> SUFFICES ASSUME rec.id = 1, rec.my = 1, rec.rot = 0, s.rot # 0 PROVE Told(a)
        BY <1>5, <1>7
      <3>1. m.dst = 1
        BY <1>4, <1>5, <1>7
      <3>2. m.prior = 0 \/ m.src = 1
        BY <1>3, <1>4, <1>6
      <3> QED
        BY <1>6, <3>1, <3>2
    <2> QED
      BY <1>2, <1>5, <1>7, <2>1, <2>2 DEF RecordFine
  <1>11. ASSUME ~Backed(b), TheirDID(a) = 0, rec.id = 2, rec.rot = 0 PROVE FromOld(a)
    <2>1. CASE s.rot = 0
      BY <1>4, <1>7, <1>11, <2>1 DEF FromOld
    <2>2. CASE s.rot # 0
      <3>1. m.dst = 1 /\ s.my = 0 /\ MyDID(a) = 1
        BY <1>4, <1>5, <1>7, <1>11, <2>2
      <3>2. /\ r = s
            /\ m.prior = 0 \/ (m.src = m.prior /\ GetByDIDs(a, m.dst, m.prior - 1) = {})
        BY <1>3, <3>1
      <3>3. CASE m.src = 0
        BY <3>1, <3>3 DEF FromOld
      <3>4. CASE m.src = 1 /\ m.prior = 0
        <4>1. Rotation(b) = 0 /\ MyDID(b) = 1
          BY <1>6, <3>4
        <4>2. Told(b)
          BY <4>1, Bits
        <4> QED
          BY <1>2, <1>11, <4>2 DEF Told
      <3>5. CASE m.src = 1 /\ m.prior = 1
        <4>1. Connection(a) \in GetByDIDs(a, 1, 0)
          BY <1>4, <1>11, <3>1, ConnectionFine DEF GetByDIDs, MyDID, TheirDID
        <4>2. m.prior - 1 = 0
          BY <3>5
        <4> QED
          BY <3>1, <3>2, <3>5, <4>1, <4>2
      <3> QED
        BY <1>4, <1>6, <3>2, <3>3, <3>4, <3>5
    <2> QED
      BY <2>1, <2>2
  <1>12. ASSUME rec.id = 2, rec.their = 1 PROVE ToOld(a)
    <2>1. CASE s.their = 1
      BY <1>4, <1>7, <1>12, <2>1 DEF ToOld
    <2>2. CASE s.their # 1
      <3>1. m.src = 1 /\ m.dst = 0
        BY <1>3, <1>5, <1>7, <1>8, <1>12, <2>2
      <3> QED
        BY <3>1 DEF ToOld
    <2> QED
      BY <2>1, <2>2
  <1> QED
    BY <1>2, <1>7, <1>9, <1>10, <1>11, <1>12

LEMMA ReceiveFine ==
    ASSUME TInv, AllFine, NEW m, NEW w \in Workers, Receive(m, w)
    PROVE  AllFine'
  <1>1. /\ m \in net /\ m \in Messages /\ net' \subseteq net /\ net' \subseteq Messages
        /\ UNCHANGED <<records, rotations>>
    BY ArrivesIs DEF Receive
  <1>2. PICK a \in Agents : a = m.to
    BY <1>1 DEF Messages
  <1>3. PICK r \in Found(m) :
          IF Acknowledged(r, m) \in records[a]
          THEN Accept(a, w, m.dst, m.src)
          ELSE \E was \in records[a] :
                  /\ was.id = r.id
                  /\ Become(a, w, [pc |-> "save", was |-> was, rec |-> Acknowledged(r, m),
                                   my |-> m.dst, their |-> m.src])
    BY <1>2 DEF Receive
  <1>4. CASE Acknowledged(r, m) \in records[a]
    <2>1. m.dst \in DIDs /\ m.src \in DIDs /\ Accept(a, w, m.dst, m.src)
      BY <1>1, <1>3, <1>4 DEF Messages
    <2>2. PICK me \in WorkerStates : me.pc \in {"idle", "find"} /\ Become(a, w, me)
      BY <2>1, AcceptIs
    <2>3. \A b \in Agents, v \in Workers :
             workers'[b][v] = workers[b][v] \/ Free(workers'[b][v])
      BY <2>2, OneWorkerMoves DEF Free
    <2> QED
      BY <1>1, <2>3, QuietFine
  <1>5. CASE Acknowledged(r, m) \notin records[a]
    <2>1. PICK rec : rec = Acknowledged(r, m)
      OBVIOUS
    <2>2. PICK s \in records[a] :
             /\ s.id = r.id /\ Follows(s, rec) /\ RecordFine(a, rec)
             /\ ~Backed(Other(a)) /\ TheirDID(a) = 0 /\ rec.id = 2 =>
                   (rec.rot = 0 => FromOld(a)) /\ (rec.their = 1 => ToOld(a))
      BY <1>1, <1>2, <2>1, TakenUp
    <2>3. PICK was \in records[a] :
             /\ was.id = r.id
             /\ Become(a, w, [pc |-> "save", was |-> was, rec |-> rec,
                              my |-> m.dst, their |-> m.src])
      BY <1>3, <1>5, <2>1
    <2>4. was = s
      BY <2>2, <2>3, RecordIn DEF AllFine
    <2>5. PICK me : me = [pc |-> "save", was |-> was, rec |-> rec,
                          my |-> m.dst, their |-> m.src]
      OBVIOUS
    <2>6. /\ me.pc = "save" /\ me.rec = rec /\ SaveFine(me) /\ ~Rotates(me)
          /\ workers'[a][w] = me
          /\ \A b \in Agents, v \in Workers : workers'[b][v] # workers[b][v] => b = a /\ v = w
      <3>1. me.pc = "save" /\ me.rec = rec /\ SaveFine(me) /\ ~Rotates(me)
        BY <2>2, <2>4, <2>5 DEF SaveFine, Rotates
      <3>2. /\ workers'[a][w] = me
            /\ \A b \in Agents, v \in Workers : workers'[b][v] # workers[b][v] => b = a /\ v = w
        BY <2>3, <2>5 DEF Become, TInv
      <3> QED
        BY <3>1, <3>2
    <2>7. ASSUME NEW b \in Agents, NEW x \in Pending(b)'
          PROVE  x \in Pending(b) \/ (b = a /\ x = rec)
      <3>1. \/ x \in records[b]
            \/ \E v \in Workers : workers'[b][v].pc = "save" /\ x = workers'[b][v].rec
        BY <1>1, <2>7 DEF Pending
      <3>2. ASSUME NEW v \in Workers, workers'[b][v].pc = "save", x = workers'[b][v].rec
            PROVE  x \in Pending(b) \/ (b = a /\ x = rec)
        <4>1. CASE workers'[b][v] = workers[b][v]
          BY <3>2, <4>1 DEF Pending
        <4>2. CASE workers'[b][v] # workers[b][v]
          BY <2>6, <3>2, <4>2
        <4> QED
          BY <4>1, <4>2
      <3> QED
        BY <3>1, <3>2 DEF Pending
    <2>8. RecordFine(a, rec)'
      BY <1>1, <2>2, Unsaved, RecordStays, Bits, TwoAgents
    <2>9. ASSUME NEW b \in Agents
          PROVE  /\ MyDID(b)' <= rotations'[b]
                 /\ \A x \in Pending(b)' : x \in Pending(b) \/ RecordFine(b, x)'
                 /\ \A v \in Workers : RotationFine(b, workers[b][v])' /\ SaveFine(workers[b][v])'
                 /\ OneRotates(b)' /\ OneWay(b)'
      <3>1. AgentFine(b) /\ AgentFine(Other(b)) /\ Grows(b) /\ Grows(Other(b))
        BY <1>1, Bits, Unsaved, TwoAgents
      <3>2. MyDID(b)' <= rotations'[b]
        BY <1>1, <3>1, Unsaved DEF AgentFine
      <3>3. \A x \in Pending(b)' : x \in Pending(b) \/ RecordFine(b, x)'
        BY <2>7, <2>8
      <3>4. \A v \in Workers : SaveFine(workers'[b][v])
        BY <2>6, <3>1 DEF AgentFine
      <3>5. OneRotates(b)' /\ \A v \in Workers : RotationFine(b, workers[b][v])'
        <4>1. \A v \in Workers : workers'[b][v] = workers[b][v] \/ ~Rotates(workers'[b][v])
          BY <2>6
        <4> QED
          BY <1>1, <4>1, RotationsStay
      <3>6. ASSUME ~Backed(Other(b)), TheirDID(b) = 0
            PROVE  (FromOld(b)' => FromOld(b)) /\ (ToOld(b)' => ToOld(b))
        <4>1. ASSUME NEW x \in Pending(b)', x.id = 2
              PROVE  /\ x.rot = 0 => FromOld(b)
                     /\ x.their = 1 => ToOld(b)
          <5>1. CASE x \in Pending(b)
            BY <4>1, <5>1 DEF FromOld, ToOld
          <5>2. CASE b = a /\ x = rec
            BY <2>2, <3>6, <4>1, <5>2
          <5> QED
            BY <2>7, <4>1, <5>1, <5>2
        <4> QED
          BY <1>1, <4>1 DEF FromOld, ToOld
      <3>7. OneWay(b)'
        BY <3>1, <3>6, Bits, OneWayStays
      <3> QED
        BY <3>2, <3>3, <3>4, <3>5, <3>7
    <2>10. \A b \in Agents : Grows(b)
      BY <1>1, Unsaved
    <2> QED
      BY <1>1, <2>9, <2>10, StaysFine
  <1> QED
    BY <1>4, <1>5

-----------------------------------------------------------------------------
(*****************************************************************************)
(* The invariant, and what it says of the next message.                      *)
(*****************************************************************************)
LEMMA CalmInvInit == Init => CalmInv
  <1> SUFFICES ASSUME Init PROVE AllFine
    BY DEF CalmInv
  <1>1. TInv /\ net = {} /\ \A a \in Agents : rotations[a] = 0
    BY InitTypes DEF Init
  <1>2. ASSUME NEW a \in Agents
        PROVE  /\ records[a] = {Record(1, 0, 0, 0)} /\ Connection(a) = Record(1, 0, 0, 0)
               /\ \A w \in Workers : workers[a][w] = Idle
    <2>1. records[a] = {Record(1, 0, 0, 0)} /\ \A w \in Workers : workers[a][w] = Idle
      BY DEF Init
    <2> QED
      BY <1>1, <2>1, ConnectionIs DEF TInv
  <1>3. ASSUME NEW a \in Agents
        PROVE  /\ MyDID(a) = 0 /\ TheirDID(a) = 0 /\ ~Backed(a)
               /\ \A w \in Workers : workers[a][w].pc = "idle"
               /\ \A r \in Pending(a) : r.id = 1 /\ r.my = 0 /\ r.their = 0 /\ r.rot = 0
    BY <1>2 DEF Record, MyDID, TheirDID, Backed, Idle, Pending
  <1>4. ASSUME NEW a \in Agents PROVE AgentFine(a)
    <2>1. \A r \in Pending(a) : RecordFine(a, r)
      BY <1>3 DEF RecordFine
    <2>2. \A w \in Workers : RotationFine(a, workers[a][w]) /\ SaveFine(workers[a][w])
      BY <1>3 DEF RotationFine, Rotates, SaveFine
    <2>3. OneRotates(a)
      BY <1>3 DEF OneRotates, Rotates
    <2>4. OneWay(a)
      BY <1>1, <1>3 DEF OneWay, FromOld, ToOld
    <2> QED
      BY <1>1, <1>3, <2>1, <2>2, <2>3, <2>4 DEF AgentFine
  <1> QED
    BY <1>1, <1>4 DEF AllFine

LEMMA CalmInvNext == TInv /\ TInv' /\ CalmInv /\ [Next]_vars => CalmInv'
  <1> SUFFICES ASSUME TInv, TInv', CalmInv, [Next]_vars, Calm' PROVE AllFine'
    BY DEF CalmInv
  <1>1. AllFine
    BY CalmBefore DEF CalmInv
  <1>2. ASSUME NEW a \in Agents, NEW w \in Workers,
               \/ Rotate(a, w) \/ SaveNew(a, w) \/ SaveBackup(a, w)
               \/ Send(a, w) \/ FindAndSend(a, w) \/ FindNothing(a, w) \/ CreateAndSend(a, w)
               \/ SaveReceived(a, w)
        PROVE  AllFine'
    <2>1. ~CreateAndSend(a, w)
      BY DEF CreateAndSend, Calm
    <2> QED
      BY <1>1, <1>2, <2>1, RotateFine, SaveNewFine, SaveBackupFine, SendFine, FindAndSendFine,
         SaveReceivedFine
  <1>3. ASSUME NEW m \in net, NEW w \in Workers, Receive(m, w) PROVE AllFine'
    BY <1>1, <1>3, ReceiveFine
  <1> QED
    BY <1>1, <1>2, <1>3, TroubleFine DEF Next

\* The other agent has a record with the DID that an agent sends to.
LEMMA SentToARecord ==
    ASSUME TInv, AllFine, NEW a \in Agents, BackedUp(Other(a))
    PROVE  \E r \in records[Other(a)] : r.my = TheirDID(a)
  <1>1. PICK b \in Agents : b = Other(a) /\ Other(b) = a
    BY TwoAgents
  <1>2. /\ AgentFine(b) /\ TheirDID(a) \in {0, MyDID(b)}
        /\ MyDID(b) \in {0, 1} /\ TheirDID(a) \in {0, 1} /\ Rotation(b) \in {0, 1}
    BY <1>1, Bits
  <1>3. CASE TheirDID(a) = MyDID(b)
    BY <1>1, <1>2, <1>3, ConnectionFine DEF MyDID
  <1>4. CASE TheirDID(a) = 0 /\ MyDID(b) = 1 /\ Rotation(b) = 1
    BY <1>1, <1>4 DEF BackedUp, Rotation
  <1>5. CASE TheirDID(a) = 0 /\ MyDID(b) = 1 /\ Rotation(b) = 0
    <2>1. Backed(b)
      BY <1>1, <1>5, Bits DEF Told
    <2>2. PICK r \in records[b] : r.id # 1
      BY <2>1 DEF Backed
    <2>3. r.my = 0
      BY <1>2, <2>2, RecordIn DEF RecordFine
    <2> QED
      BY <1>1, <1>5, <2>3
  <1> QED
    BY <1>2, <1>3, <1>4, <1>5

LEMMA CalmIsReachable == TInv /\ CalmInv => StaysReachable
  <1> SUFFICES ASSUME TInv, CalmInv, NEW a \in Agents, ~disturbed,
                      rotations[a] <= 1, rotations[Other(a)] <= 1, BackedUp(Other(a))
               PROVE  Understood(NextMessage(a))
    BY DEF StaysReachable
  <1>1. AllFine
    BY TwoAgents DEF CalmInv, Calm
  <1>2. PICK b \in Agents : b = Other(a) /\ Other(b) = a
    BY TwoAgents
  <1>3. PICK m : m = NextMessage(a)
    OBVIOUS
  <1>4. m.to = b /\ m.src = MyDID(a) /\ m.dst = TheirDID(a) /\ m.prior = Rotation(a)
    BY <1>2, <1>3 DEF NextMessage, MyDID, TheirDID, Rotation
  <1>5. m \in Messages
    <2>1. Connection(a) \in Records
      BY ConnectionIs DEF TInv
    <2> QED
      BY <1>2, <1>3, <2>1 DEF NextMessage, Records, Messages
  <1>6. /\ AgentFine(b) /\ MyDID(a) \in {0, 1} /\ TheirDID(a) \in {0, 1}
        /\ Rotation(a) \in {0, 1} /\ (MyDID(a) = 0 => Rotation(a) = 0)
        /\ MyDID(a) = 1 /\ Rotation(a) = 0 => Told(a)
        /\ MyDID(b) \in {0, 1}
    BY <1>1, <1>2, Bits
  <1>7. \A r \in records[b] : /\ r.rot \in {0, MyDID(b)} /\ r.their \in {0, MyDID(a)}
                              /\ r \in Records
    BY <1>2, <1>6, RecordIn DEF RecordFine
  <1>8. Found(m) # {}
    <2>1. CASE Rotation(a) = 0
      <3>1. Found(m) = GetByTheirDID(b, MyDID(a))
        BY <1>4, <2>1 DEF Found
      <3>2. \E r \in records[b] : r.their = MyDID(a)
        <4>1. CASE MyDID(a) = 0
          BY <1>6, <1>7, <4>1, ConnectionFine
        <4>2. CASE MyDID(a) = 1
          BY <1>2, <1>6, <2>1, <4>2 DEF Told, Knows
        <4> QED
          BY <1>6, <4>1, <4>2
      <3> QED
        BY <3>1, <3>2 DEF GetByTheirDID
    <2>2. CASE Rotation(a) = 1
      <3>1. MyDID(a) = 1 /\ m.prior = 1 /\ m.src = 1 /\ m.prior - 1 = 0
        BY <1>4, <1>6, <2>2
      <3>2. PICK r \in records[b] : r.my = m.dst
        BY <1>1, <1>2, <1>4, SentToARecord
      <3>3. r.their \in {0, 1}
        BY <1>7, <3>1
      <3>4. CASE GetByDIDs(b, m.dst, 0) # {}
        <4>1. Found(m) = {[s EXCEPT !.their = m.prior] : s \in GetByDIDs(b, m.dst, 0)}
          BY <1>4, <3>1, <3>4 DEF Found
        <4> QED
          BY <3>4, <4>1
      <3>5. CASE GetByDIDs(b, m.dst, 0) = {}
        <4>1. r \in GetByDIDs(b, m.dst, 1) /\ r \in GetByTheirDID(b, 1)
          BY <3>2, <3>3, <3>5 DEF GetByDIDs, GetByTheirDID
        <4>2. GetByDIDs(b, m.dst, m.prior) # {}
          BY <3>1, <4>1
        <4>3. Found(m) = GetByTheirDID(b, 1)
          BY <1>4, <3>1, <3>5, <4>2 DEF Found
        <4> QED
          BY <4>1, <4>3
      <3> QED
        BY <3>4, <3>5
    <2> QED
      BY <1>6, <2>1, <2>2
  <1>9. ASSUME NEW r \in Found(m) PROVE Expected(r, m)
    <2>1. PICK s \in records[b] : r = s \/ r = [s EXCEPT !.their = m.prior]
      BY <1>4, <1>5, <1>9, FoundIs
    <2>2. r.rot \in {0, 1}
      BY <1>6, <1>7, <2>1 DEF Records
    <2>3. m.dst \in {0, 1} /\ 1 - 1 = 0
      BY <1>4, <1>6
    <2> QED
      BY <2>2, <2>3 DEF Expected
  <1> QED
    BY <1>3, <1>8, <1>9 DEF Understood

\* As long as no save has gone over another goroutine's change and each agent has rotated at
\* most once, the agents know what they must of each other's rotation: a rotation counts as
\* acknowledged only if the other agent has the new DID, and not only in the backup record
\* of its own old DID; a backup that learns of the other's rotation is never the one whose
\* own rotation is acknowledged; and no message in the net says otherwise.
THEOREM CalmHolds == Spec => []CalmInv
  BY InitTypes, NextTypes, CalmInvInit, CalmInvNext, PTL DEF Spec

\* Whatever messages, replies, failed saves, losses and restarts come between, and on
\* however many goroutines, after one rotation of each agent the next message on the
\* connection is still taken by the other agent, in either direction: it is found by the
\* DIDs or the from_prior it carries, and sent to a DID that is still accepted.
THEOREM AgentsStayReachable == Spec => []StaysReachable
  BY InitTypes, NextTypes, CalmInvInit, CalmInvNext, CalmIsReachable, PTL DEF Spec
=============================================================================
