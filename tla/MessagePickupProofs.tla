------------------------- MODULE MessagePickupProofs -------------------------
(***************************************************************************)
(* What holds of message pickup for any number of goroutines, calls and      *)
(* messages, any batch size, and whatever is lost, late, repeated, failing   *)
(* or restarted: the types and the lock, that nothing is lost without one of *)
(* these, that the inbox is a Mailbox, and what a Mailbox promises.           *)
(***************************************************************************)
EXTENDS MessagePickup, SequenceLemmas, SequenceTheorems, TLAPS

-----------------------------------------------------------------------------
(***************************************************************************)
(* The inductive invariant.  Messages out of the inbox are in parcels, each  *)
(* for one call of the agent, or in the hands of a call.                     *)
(***************************************************************************)
MediatorType == [pc : {"idle", "lock", "put", "send"}, kind : Kinds \cup {"none", "add"},
                 id : Nat, msgs : Seq(Nat)]
CallerType   == [pc : {"idle", "send", "wait", "handle", "leave"}, kind : Kinds \cup {"none"},
                 id : Nat, msgs : Seq(Nat)]
HandlerType  == [pc : {"idle", "answer"}, id : Nat, msgs : Seq(Nat)]

Parcel(x)       == [id |-> x.id, msgs |-> x.msgs]
MediatorParcels == {Parcel(mediators[w]) : w \in {v \in Mediators : mediators[v].pc = "send"}}
HandlerParcels  == {Parcel(handlers[h]) : h \in {g \in Handlers : handlers[g].pc = "answer"}}
Parcels         == MediatorParcels \cup replies \cup HandlerParcels

Awaits(c, id) == callers[c].pc \in {"send", "wait"} /\ callers[c].id = id

\* The lock is held from Enter to the end; what a goroutine is about to put was made from
\* the inbox as it is.
MediatorFine(w) ==
    /\ mediators[w].pc \in {"put", "send"} <=> lock = w
    /\ mediators[w].pc = "put" =>
         \/ mediators[w].kind = "add" /\ mediators[w].msgs = Append(inbox, added + 1)
         \/ mediators[w].kind = "batch" /\ mediators[w].msgs = inbox
    /\ mediators[w].pc = "send" => mediators[w].kind # "add"
    /\ mediators[w].pc \in {"idle", "lock"} => mediators[w].msgs = <<>>
    /\ mediators[w].pc # "idle" /\ mediators[w].kind # "add" => mediators[w].id \in 1..calls

MediatorsFine ==
    /\ mediators \in [Mediators -> MediatorType]
    /\ lock \in Mediators \cup {Nobody}
    /\ \A w \in Mediators : MediatorFine(w)

StoreFine ==
    /\ created \in BOOLEAN /\ added \in Nat
    /\ inbox \in Seq(1..added) /\ NoDup(inbox)
    /\ handled \in Seq(1..added) /\ Disjoint(handled, inbox)

ParcelFine(p) ==
    /\ p \in [id : 1..calls, msgs : Seq(1..added)]
    /\ NoDup(p.msgs) /\ Disjoint(p.msgs, inbox)

\* What somebody still waits for has not been handled, and is in nobody's hands.
ParcelNew(p) ==
    \A c \in Callers : Awaits(c, p.id) =>
        /\ Disjoint(p.msgs, handled)
        /\ \A d \in Callers : Disjoint(p.msgs, callers[d].msgs)

ParcelsFine ==
    /\ \A p \in Parcels : ParcelFine(p) /\ ParcelNew(p)
    /\ \A p, q \in Parcels : p.id # q.id => Disjoint(p.msgs, q.msgs)

CallerFine(c) ==
    /\ callers[c].pc # "idle" => callers[c].id \in 1..calls /\ callers[c].id \in channels
    /\ callers[c].pc # "handle" => callers[c].msgs = <<>>
    /\ callers[c].pc = "send" => callers[c].kind \in Kinds
    /\ callers[c].msgs \in Seq(1..added) /\ NoDup(callers[c].msgs)
    /\ Disjoint(callers[c].msgs, inbox) /\ Disjoint(callers[c].msgs, handled)

Apart(c, d) ==
    /\ callers[c].pc # "idle" /\ callers[d].pc # "idle" => callers[c].id # callers[d].id
    /\ Disjoint(callers[c].msgs, callers[d].msgs)

CallersFine ==
    /\ callers \in [Callers -> CallerType] /\ channels \subseteq Nat
    /\ \A c \in Callers : CallerFine(c)
    /\ \A c, d \in Callers : c # d => Apart(c, d)

HandlersFine ==
    /\ handlers \in [Handlers -> HandlerType]
    /\ \A h \in Handlers : handlers[h].pc = "idle" => handlers[h].msgs = <<>>

CountsFine ==
    /\ requests \subseteq [id : 1..calls, kind : Kinds]
    /\ calls \in Nat /\ duplicates \in Nat /\ failures \in Nat /\ crashes \in Nat
    /\ timeouts \in Nat

Quiet == duplicates = 0 /\ failures = 0 /\ crashes = 0 /\ timeouts = 0

\* Where the calls of the agent are being served, and who waits there for what.
Token(id, at)  == [id |-> id, at |-> at]
Serves(w)      == mediators[w].pc # "idle" /\ mediators[w].kind # "add"
MediatorTokens == {Token(mediators[w].id, <<"mediator", w>>) : w \in {v \in Mediators : Serves(v)}}
HandlerTokens  == {Token(handlers[h].id, <<"handler", h>>) :
                   h \in {g \in Handlers : handlers[g].pc = "answer"}}
Tokens         == {Token(r.id, <<"request", r>>) : r \in requests} \cup MediatorTokens
                  \cup {Token(p.id, <<"reply", p>>) : p \in replies} \cup HandlerTokens

TokensFine ==
    /\ \A t \in Tokens : \E c \in Callers : callers[c].pc = "wait" /\ callers[c].id = t.id
    /\ \A t, u \in Tokens : t.id = u.id => t = u

Carried(m) == \/ \E p \in Parcels : m \in ToSet(p.msgs)
              \/ \E c \in Callers : m \in ToSet(callers[c].msgs)

AllKept == \A m \in 1..added : m \in ToSet(inbox) \cup ToSet(handled) \/ Carried(m)

QuietFine == Quiet => TokensFine /\ AllKept

IInv == /\ MediatorsFine /\ StoreFine /\ ParcelsFine /\ CallersFine /\ HandlersFine
        /\ CountsFine /\ QuietFine

-----------------------------------------------------------------------------
(***************************************************************************)
(* How the parts of the invariant survive a step that moves one goroutine.   *)
(***************************************************************************)
LEMMA MediatorsStay ==
    ASSUME IInv, UNCHANGED <<mediators, lock, inbox, added>>, calls' \in Nat, calls <= calls'
    PROVE  MediatorsFine'
  <1>1. 1..calls \subseteq 1..calls'
    BY DEF IInv, CountsFine
  <1> QED
    BY <1>1 DEF IInv, MediatorsFine, MediatorFine

\* Only who holds the lock changes the inbox.
LEMMA MoveMediator ==
    ASSUME IInv, NEW w \in Mediators, NEW x \in MediatorType,
           mediators' = [mediators EXCEPT ![w] = x], MediatorFine(w)', calls' = calls,
           \/ lock' = lock
           \/ lock = Nobody /\ lock' = w
           \/ lock = w /\ lock' = Nobody,
           lock = w \/ UNCHANGED <<inbox, added>>
    PROVE  MediatorsFine'
  <1>1. mediators' \in [Mediators -> MediatorType] /\ lock' \in Mediators \cup {Nobody}
    BY DEF IInv, MediatorsFine
  <1>2. ASSUME NEW v \in Mediators, v # w PROVE MediatorFine(v)'
    <2>1. mediators'[v] = mediators[v] /\ MediatorFine(v)
      BY <1>2 DEF IInv, MediatorsFine
    <2>2. lock' = v <=> lock = v
      BY <1>2, NobodyAssumption
    <2>3. lock = v => UNCHANGED <<inbox, added>>
      BY <1>2
    <2> QED
      BY <2>1, <2>2, <2>3 DEF MediatorFine
  <1> QED
    BY <1>1, <1>2 DEF MediatorsFine

LEMMA MediatorIsFine ==
    ASSUME IInv, NEW w \in Mediators
    PROVE  mediators[w] \in MediatorType /\ MediatorFine(w)
  BY DEF IInv, MediatorsFine

\* The parcels and tokens of the mediator when a goroutine moves.
LEMMA MoveMediatorParcels ==
    ASSUME IInv, NEW w \in Mediators, NEW x, mediators' = [mediators EXCEPT ![w] = x]
    PROVE  /\ MediatorParcels' \subseteq MediatorParcels
                  \cup (IF x.pc = "send" THEN {Parcel(x)} ELSE {})
           /\ x.pc = "send" => Parcel(x) \in MediatorParcels'
           /\ mediators[w].pc = "send" => Parcel(mediators[w]) \in MediatorParcels
           /\ MediatorParcels \subseteq MediatorParcels'
                  \cup (IF mediators[w].pc = "send" THEN {Parcel(mediators[w])} ELSE {})
  <1>1. mediators'[w] = x /\ \A v \in Mediators : v # w => mediators'[v] = mediators[v]
    BY DEF IInv, MediatorsFine
  <1> QED
    BY <1>1 DEF MediatorParcels

LEMMA MoveMediatorTokens ==
    ASSUME IInv, NEW w \in Mediators, NEW x, mediators' = [mediators EXCEPT ![w] = x]
    PROVE  /\ MediatorTokens' \subseteq
                  (MediatorTokens \ {Token(mediators[w].id, <<"mediator", w>>)})
                  \cup (IF x.pc # "idle" /\ x.kind # "add" THEN {Token(x.id, <<"mediator", w>>)} ELSE {})
           /\ Serves(w) => Token(mediators[w].id, <<"mediator", w>>) \in MediatorTokens
  <1>1. mediators'[w] = x /\ \A v \in Mediators : v # w => mediators'[v] = mediators[v]
    BY DEF IInv, MediatorsFine
  <1>2. Serves(w) => Token(mediators[w].id, <<"mediator", w>>) \in MediatorTokens
    BY DEF MediatorTokens
  <1>3. ASSUME NEW t \in MediatorTokens'
        PROVE  \/ t \in MediatorTokens \ {Token(mediators[w].id, <<"mediator", w>>)}
               \/ x.pc # "idle" /\ x.kind # "add" /\ t = Token(x.id, <<"mediator", w>>)
    <2>1. PICK v \in Mediators : Serves(v)' /\ t = Token(mediators'[v].id, <<"mediator", v>>)
      BY DEF MediatorTokens, Token
    <2>2. CASE v = w
      BY <1>1, <2>1, <2>2 DEF Serves
    <2>3. CASE v # w
      <3>1. mediators'[v] = mediators[v]
        BY <1>1, <2>3
      <3>2. Serves(v) /\ t = Token(mediators[v].id, <<"mediator", v>>)
        BY <2>1, <3>1 DEF Serves
      <3>3. <<"mediator", v>> # <<"mediator", w>>
        BY <2>3
      <3>4. t # Token(mediators[w].id, <<"mediator", w>>)
        BY <3>2, <3>3 DEF Token
      <3> QED
        BY <3>2, <3>4 DEF MediatorTokens
    <2> QED
      BY <2>2, <2>3
  <1> QED
    BY <1>2, <1>3

LEMMA MoveHandlerParcels ==
    ASSUME IInv, NEW h \in Handlers, NEW x, handlers' = [handlers EXCEPT ![h] = x]
    PROVE  /\ HandlerParcels' \subseteq HandlerParcels
                  \cup (IF x.pc = "answer" THEN {Parcel(x)} ELSE {})
           /\ x.pc = "answer" => Parcel(x) \in HandlerParcels'
           /\ handlers[h].pc = "answer" => Parcel(handlers[h]) \in HandlerParcels
           /\ HandlerParcels \subseteq HandlerParcels'
                  \cup (IF handlers[h].pc = "answer" THEN {Parcel(handlers[h])} ELSE {})
  <1>1. handlers'[h] = x /\ \A g \in Handlers : g # h => handlers'[g] = handlers[g]
    BY DEF IInv, HandlersFine
  <1> QED
    BY <1>1 DEF HandlerParcels

LEMMA MoveHandlerTokens ==
    ASSUME IInv, NEW h \in Handlers, NEW x, handlers' = [handlers EXCEPT ![h] = x]
    PROVE  /\ HandlerTokens' \subseteq
                  (HandlerTokens \ {Token(handlers[h].id, <<"handler", h>>)})
                  \cup (IF x.pc = "answer" THEN {Token(x.id, <<"handler", h>>)} ELSE {})
           /\ handlers[h].pc = "answer"
              => Token(handlers[h].id, <<"handler", h>>) \in HandlerTokens
  <1>1. handlers'[h] = x /\ \A g \in Handlers : g # h => handlers'[g] = handlers[g]
    BY DEF IInv, HandlersFine
  <1> QED
    BY <1>1 DEF HandlerTokens, Token

\* A step hands no message to anybody and changes neither the inbox nor what is handled.
EmptyParcels == [id : 1..calls, msgs : {<<>>}]

Shrinks ==
    /\ Parcels' \subseteq Parcels \cup EmptyParcels
    /\ \A c \in Callers : ToSet(callers'[c].msgs) \subseteq ToSet(callers[c].msgs)
    /\ UNCHANGED <<inbox, added, handled>>

LEMMA EmptyIsFine ==
    ASSUME IInv, NEW p \in EmptyParcels
    PROVE  ToSet(p.msgs) = {} /\ NoDup(p.msgs) /\ p \in [id : 1..calls, msgs : Seq(1..added)]
  BY EmptyHasNothing, EmptySeq DEF EmptyParcels

LEMMA ParcelsShrink ==
    ASSUME IInv, Shrinks, calls' \in Nat, calls <= calls',
           \A p \in Parcels', c \in Callers : Awaits(c, p.id)' => Awaits(c, p.id)
    PROVE  ParcelsFine'
  <1>1. 1..calls \subseteq 1..calls'
    BY DEF IInv, CountsFine
  <1>2. ASSUME NEW p \in Parcels' PROVE ParcelFine(p)' /\ ParcelNew(p)'
    <2>1. CASE p \in Parcels
      <3>1. ParcelFine(p) /\ ParcelNew(p)
        BY <2>1 DEF IInv, ParcelsFine
      <3>2. ParcelFine(p)'
        BY <1>1, <3>1 DEF ParcelFine, Shrinks
      <3>3. ParcelNew(p)'
        BY <3>1 DEF ParcelNew, Shrinks, Disjoint
      <3> QED
        BY <3>2, <3>3
    <2>2. CASE p \in EmptyParcels
      <3>1. ParcelFine(p)'
        BY <1>1, <2>2, EmptyIsFine DEF ParcelFine, Shrinks, Disjoint
      <3> QED
        BY <2>2, <3>1, EmptyIsFine DEF ParcelNew, Disjoint
    <2> QED
      BY <1>2, <2>1, <2>2 DEF Shrinks
  <1>3. ASSUME NEW p \in Parcels', NEW q \in Parcels', p.id # q.id PROVE Disjoint(p.msgs, q.msgs)
    <2>1. CASE p \in Parcels /\ q \in Parcels
      BY <1>3, <2>1 DEF IInv, ParcelsFine
    <2>2. CASE p \in EmptyParcels \/ q \in EmptyParcels
      BY <2>2, EmptyIsFine DEF Disjoint
    <2> QED
      BY <2>1, <2>2 DEF Shrinks
  <1> QED
    BY <1>2, <1>3 DEF ParcelsFine

LEMMA StoreStays ==
    ASSUME IInv, UNCHANGED <<inbox, added, handled>>, created' \in BOOLEAN
    PROVE  StoreFine'
  BY DEF IInv, StoreFine

LEMMA CallersStay ==
    ASSUME IInv, UNCHANGED <<callers, channels, inbox, added, handled>>, calls' \in Nat,
           calls <= calls'
    PROVE  CallersFine'
  <1>1. 1..calls \subseteq 1..calls'
    BY DEF IInv, CountsFine
  <1> QED
    BY <1>1 DEF IInv, CallersFine, CallerFine, Apart

LEMMA CallerIsFine ==
    ASSUME IInv, NEW c \in Callers
    PROVE  callers[c] \in CallerType /\ CallerFine(c)
  BY DEF IInv, CallersFine

\* A call goes on with the messages in its hands, or with fewer.
LEMMA MoveCaller ==
    ASSUME IInv, NEW c \in Callers, NEW x \in CallerType,
           callers' = [callers EXCEPT ![c] = x], CallerFine(c)',
           \/ x.pc = "idle"
           \/ callers[c].pc # "idle" /\ x.id = callers[c].id
           \/ x.id = calls + 1,
           ToSet(x.msgs) \subseteq ToSet(callers[c].msgs),
           calls' \in Nat, calls <= calls', channels' \subseteq Nat,
           \A d \in Callers \ {c} : callers[d].pc # "idle" => callers[d].id \in channels',
           UNCHANGED <<inbox, added>>,
           ToSet(handled') \subseteq ToSet(handled) \cup (ToSet(callers[c].msgs))
    PROVE  CallersFine'
  <1>1. callers' \in [Callers -> CallerType]
    BY DEF IInv, CallersFine
  <1>2. callers'[c] = x /\ \A d \in Callers \ {c} : callers'[d] = callers[d]
    BY DEF IInv, CallersFine
  <1>3. 1..calls \subseteq 1..calls'
    BY DEF IInv, CountsFine
  <1>4. ASSUME NEW d \in Callers \ {c} PROVE CallerFine(d)' /\ Apart(c, d)' /\ Apart(d, c)'
    <2>1. CallerFine(d) /\ Apart(c, d) /\ Apart(d, c)
      BY DEF IInv, CallersFine
    <2>2. CallerFine(d)'
      BY <1>2, <1>3, <2>1 DEF CallerFine, Apart, Disjoint
    <2>3. callers[d].pc # "idle" => callers[d].id # calls + 1
      BY <2>1 DEF CallerFine, IInv, CountsFine
    <2>4. Apart(c, d)' /\ Apart(d, c)'
      BY <1>2, <2>1, <2>3 DEF Apart, Disjoint
    <2> QED
      BY <2>2, <2>4
  <1>5. \A d, e \in Callers : d # e => Apart(d, e)'
    BY <1>2, <1>4 DEF IInv, CallersFine, Apart
  <1> QED
    BY <1>1, <1>4, <1>5 DEF CallersFine

LEMMA HandlersStay ==
    ASSUME IInv, UNCHANGED handlers
    PROVE  HandlersFine'
  BY DEF IInv, HandlersFine

\* Tokens go with the one who serves, or away.
LEMMA TokensMove ==
    ASSUME TokensFine, NEW t \in Tokens, NEW u, u.id = t.id,
           Tokens' \subseteq (Tokens \ {t}) \cup {u}, UNCHANGED callers
    PROVE  TokensFine'
  BY DEF TokensFine

LEMMA TokensShrink ==
    ASSUME TokensFine, Tokens' \subseteq Tokens,
           \A c \in Callers : callers[c].pc = "wait"
               => callers'[c].pc = "wait" /\ callers'[c].id = callers[c].id
    PROVE  TokensFine'
  BY DEF TokensFine

-----------------------------------------------------------------------------
(***************************************************************************)
(* What the mailbox makes of a step.                                        *)
(***************************************************************************)
BoxStep == [Box!Next]_(Box!vars)

\* Whoever has messages out of the inbox has them in a parcel, or is a call.
WayIn(med, rep, han, cal) ==
    UNION ({ToSet(med[w].msgs) : w \in {v \in Mediators : med[v].pc = "send"}}
           \cup {ToSet(r.msgs) : r \in rep}
           \cup {ToSet(han[h].msgs) : h \in Handlers}
           \cup {ToSet(cal[c].msgs) : c \in Callers})

CarriedIn(med, rep, han, cal, m) ==
    \/ \E p \in {Parcel(med[w]) : w \in {v \in Mediators : med[v].pc = "send"}}
                \cup rep
                \cup {Parcel(han[h]) : h \in {g \in Handlers : han[g].pc = "answer"}} :
           m \in ToSet(p.msgs)
    \/ \E c \in Callers : m \in ToSet(cal[c].msgs)

LEMMA WayOf ==
    ASSUME NEW med, NEW rep, NEW cal, NEW han \in [Handlers -> HandlerType],
           \A h \in Handlers : han[h].pc = "idle" => han[h].msgs = <<>>,
           NEW m
    PROVE  m \in WayIn(med, rep, han, cal) <=> CarriedIn(med, rep, han, cal, m)
  <1> DEFINE MP == {Parcel(med[w]) : w \in {v \in Mediators : med[v].pc = "send"}}
             HP == {Parcel(han[h]) : h \in {g \in Handlers : han[g].pc = "answer"}}
             M == {ToSet(med[w].msgs) : w \in {v \in Mediators : med[v].pc = "send"}}
             R == {ToSet(r.msgs) : r \in rep}
             H == {ToSet(han[h].msgs) : h \in Handlers}
             C == {ToSet(cal[c].msgs) : c \in Callers}
  <1>1. m \in UNION M <=> \E p \in MP : m \in ToSet(p.msgs)
    <2>1. ASSUME NEW w \in Mediators, med[w].pc = "send", m \in ToSet(med[w].msgs)
          PROVE  \E p \in MP : m \in ToSet(p.msgs)
      <3>1. Parcel(med[w]) \in MP
        BY <2>1
      <3> QED
        BY <2>1, <3>1 DEF Parcel
    <2>2. ASSUME NEW p \in MP, m \in ToSet(p.msgs) PROVE m \in UNION M
      BY <2>2 DEF Parcel
    <2> QED
      BY <2>1, <2>2
  <1>2. m \in UNION H <=> \E p \in HP : m \in ToSet(p.msgs)
    <2>1. ASSUME NEW h \in Handlers, m \in ToSet(han[h].msgs)
          PROVE  \E p \in HP : m \in ToSet(p.msgs)
      <3>1. han[h].pc = "answer"
        BY <2>1, EmptyHasNothing DEF HandlerType
      <3>2. Parcel(han[h]) \in HP
        BY <3>1
      <3> QED
        BY <2>1, <3>2 DEF Parcel
    <2>2. ASSUME NEW p \in HP, m \in ToSet(p.msgs) PROVE m \in UNION H
      BY <2>2 DEF Parcel
    <2> QED
      BY <2>1, <2>2
  <1>3. m \in UNION R <=> \E p \in rep : m \in ToSet(p.msgs)
    OBVIOUS
  <1>4. m \in UNION C <=> \E c \in Callers : m \in ToSet(cal[c].msgs)
    OBVIOUS
  <1>5. m \in UNION (M \cup R \cup H \cup C)
        <=> \/ \E p \in MP \cup rep \cup HP : m \in ToSet(p.msgs)
            \/ \E c \in Callers : m \in ToSet(cal[c].msgs)
    <2> HIDE DEF MP, HP, M, R, H, C
    <2>1. m \in UNION (M \cup R \cup H \cup C)
          <=> m \in UNION M \/ m \in UNION R \/ m \in UNION H \/ m \in UNION C
      OBVIOUS
    <2>2. (\E p \in MP \cup rep \cup HP : m \in ToSet(p.msgs))
          <=> \/ \E p \in MP : m \in ToSet(p.msgs)
              \/ \E p \in rep : m \in ToSet(p.msgs)
              \/ \E p \in HP : m \in ToSet(p.msgs)
      BY Zenon
    <2> QED
      BY <1>1, <1>2, <1>3, <1>4, <2>1, <2>2, Zenon
  <1> QED
    BY <1>5 DEF WayIn, CarriedIn

LEMMA WayIs ==
    ASSUME HandlersFine, NEW m
    PROVE  m \in OnTheirWay <=> Carried(m) /\ m \notin ToSet(handled)
  <1>1. handlers \in [Handlers -> HandlerType]
        /\ \A h \in Handlers : handlers[h].pc = "idle" => handlers[h].msgs = <<>>
    BY DEF HandlersFine
  <1>2. OnTheirWay = WayIn(mediators, replies, handlers, callers) \ ToSet(handled)
    BY DEF OnTheirWay, WayIn
  <1>3. Carried(m) <=> CarriedIn(mediators, replies, handlers, callers, m)
    BY Zenon DEF Carried, CarriedIn, Parcels, MediatorParcels, HandlerParcels
  <1> QED
    BY <1>1, <1>2, <1>3, WayOf

LEMMA WayWillBe ==
    ASSUME HandlersFine', NEW m
    PROVE  m \in OnTheirWay' <=> Carried(m)' /\ m \notin ToSet(handled)'
  <1>1. handlers' \in [Handlers -> HandlerType]
        /\ \A h \in Handlers : handlers'[h].pc = "idle" => handlers'[h].msgs = <<>>
    BY DEF HandlersFine
  <1>2. OnTheirWay' = WayIn(mediators', replies', handlers', callers') \ ToSet(handled')
    BY DEF OnTheirWay, WayIn
  <1>3. Carried(m)' <=> CarriedIn(mediators', replies', handlers', callers', m)
    BY Zenon DEF Carried, CarriedIn, Parcels, MediatorParcels, HandlerParcels
  <1> QED
    BY <1>1, <1>2, <1>3, WayOf

\* A mailbox may lose what has been taken.
LEMMA BoxLoses ==
    ASSUME IInv, HandlersFine', Shrinks
    PROVE  BoxStep
  <1>1. ASSUME NEW m, m \in OnTheirWay' PROVE m \in OnTheirWay
    <2>1. Carried(m)' /\ m \notin ToSet(handled)
      BY <1>1, WayWillBe DEF Shrinks
    <2>2. Carried(m)
      BY <2>1, EmptyIsFine DEF Carried, Shrinks
    <2> QED
      BY <2>1, <2>2, WayIs DEF IInv
  <1>2. Box!Lose
    BY <1>1 DEF Box!Lose, Shrinks
  <1> QED
    BY <1>2 DEF BoxStep, Box!Next

\* A step after which Quiet does not hold.
LEMMA Disturbed ==
    ASSUME IInv, duplicates' \in Nat, failures' \in Nat, crashes' \in Nat, timeouts' \in Nat,
           \/ duplicates' > duplicates \/ failures' > failures
           \/ crashes' > crashes \/ timeouts' > timeouts
    PROVE  QuietFine'
  BY DEF IInv, CountsFine, QuietFine, Quiet

\* A quiet step that shrinks nothing.
LEMMA KeepsQuiet ==
    ASSUME IInv, Shrinks, Quiet' => Quiet, Quiet' => TokensFine',
           Quiet' => Parcels \subseteq Parcels',
           \A c \in Callers : callers'[c].msgs = callers[c].msgs
    PROVE  QuietFine'
  <1> SUFFICES ASSUME Quiet' PROVE AllKept'
    BY DEF QuietFine
  <1>1. AllKept
    BY DEF IInv, QuietFine
  <1>2. ASSUME NEW m, Carried(m) PROVE Carried(m)'
    BY <1>2 DEF Carried
  <1> QED
    BY <1>1, <1>2 DEF AllKept, Shrinks

-----------------------------------------------------------------------------
(***************************************************************************)
(* The steps of the mediator.                                               *)
(***************************************************************************)
\* A goroutine that sends nothing moves, and takes its message from the network.
LEMMA MediatorMoves ==
    ASSUME IInv, NEW w \in Mediators, NEW x \in MediatorType,
           mediators' = [mediators EXCEPT ![w] = x], mediators[w].pc # "send", MediatorFine(w)',
           \/ lock' = lock
           \/ lock = Nobody /\ lock' = w
           \/ lock = w /\ lock' = Nobody,
           x.pc = "send" => Parcel(x) \in EmptyParcels,
           created' \in BOOLEAN, requests' \subseteq requests, duplicates' \in Nat,
           duplicates <= duplicates',
           Quiet' => TokensFine',
           UNCHANGED <<inbox, added, replies, agent, calls, failures, crashes, timeouts>>
    PROVE  IInv' /\ BoxStep
  <1>1. UNCHANGED <<channels, callers, handlers, handled>>
    BY DEF agent
  <1>2. HandlerParcels' = HandlerParcels
    BY <1>1 DEF HandlerParcels
  <1>3. Parcels' \subseteq Parcels \cup EmptyParcels /\ Parcels \subseteq Parcels'
    BY <1>2, MoveMediatorParcels DEF Parcels
  <1>4. Shrinks
    BY <1>1, <1>3 DEF Shrinks
  <1>5. MediatorsFine'
    BY MoveMediator
  <1>6. StoreFine' /\ CallersFine' /\ HandlersFine'
    BY <1>1, StoreStays, CallersStay, HandlersStay DEF IInv, CountsFine
  <1>7. ParcelsFine'
    BY <1>1, <1>4, ParcelsShrink DEF Awaits, IInv, CountsFine
  <1>8. CountsFine'
    BY DEF IInv, CountsFine
  <1>9. Quiet' => Quiet
    BY DEF Quiet, IInv, CountsFine
  <1>10. QuietFine'
    BY <1>1, <1>3, <1>4, <1>9, KeepsQuiet
  <1>11. BoxStep
    BY <1>4, <1>6, BoxLoses
  <1> QED
    BY <1>5, <1>6, <1>7, <1>8, <1>10, <1>11 DEF IInv

LEMMA AddMessageInv ==
    ASSUME IInv, NEW w \in Mediators, AddMessage(w)
    PROVE  IInv' /\ BoxStep
  <1> DEFINE x == [IdleMediator EXCEPT !.pc = "lock", !.kind = "add"]
  <1>1. /\ mediators[w].pc = "idle" /\ mediators' = [mediators EXCEPT ![w] = x]
        /\ UNCHANGED <<inbox, created, added, lock, requests, replies, agent, calls,
                       duplicates, failures, crashes, timeouts>>
    BY DEF AddMessage, Mediate, store, net, counts
  <1>2. /\ x \in MediatorType /\ x.pc = "lock" /\ x.kind = "add" /\ x.msgs = <<>>
        /\ mediators'[w] = x /\ lock # w
    BY <1>1, EmptySeq, MediatorIsFine DEF IdleMediator, MediatorType, MediatorFine, IInv,
       MediatorsFine
  <1> HIDE DEF x
  <1>3. MediatorFine(w)'
    BY <1>1, <1>2 DEF MediatorFine
  <1>4. Quiet' => TokensFine'
    <2>1. MediatorTokens' \subseteq MediatorTokens
      BY <1>1, <1>2, MoveMediatorTokens
    <2>2. Tokens' \subseteq Tokens
      BY <1>1, <2>1 DEF Tokens, HandlerTokens, agent
    <2>3. Quiet' => TokensFine
      BY <1>1 DEF Quiet, IInv, QuietFine
    <2> QED
      BY <1>1, <2>2, <2>3, TokensShrink DEF agent
  <1>5. created' \in BOOLEAN /\ duplicates' \in Nat /\ duplicates <= duplicates'
    BY <1>1 DEF IInv, StoreFine, CountsFine
  <1> QED
    BY <1>1, <1>2, <1>3, <1>4, <1>5, MediatorMoves

LEMMA HandleRequestInv ==
    ASSUME IInv, NEW w \in Mediators, NEW r \in requests, HandleRequest(w, r)
    PROVE  IInv' /\ BoxStep
  <1> DEFINE x == [IdleMediator EXCEPT !.pc = "lock", !.kind = r.kind, !.id = r.id]
  <1>1. /\ mediators[w].pc = "idle" /\ mediators' = [mediators EXCEPT ![w] = x]
        /\ UNCHANGED <<inbox, created, added, lock, replies, agent, calls, failures,
                       crashes, timeouts>>
        /\ Arrives(r, requests, requests')
    BY DEF HandleRequest, Mediate, store, net
  <1>2. /\ requests' \subseteq requests /\ duplicates' \in Nat /\ duplicates <= duplicates'
        /\ duplicates' = 0 => duplicates = 0 /\ requests' = requests \ {r}
    BY <1>1 DEF Arrives, IInv, CountsFine
  <1>3. r.id \in 1..calls /\ r.kind \in Kinds /\ r.id \in Nat
    BY DEF IInv, CountsFine
  <1>4. /\ x \in MediatorType /\ x.pc = "lock" /\ x.kind = r.kind /\ x.id = r.id
        /\ x.msgs = <<>> /\ mediators'[w] = x /\ lock # w
    BY <1>1, <1>3, EmptySeq, MediatorIsFine DEF IdleMediator, MediatorType, MediatorFine,
       IInv, MediatorsFine
  <1> HIDE DEF x
  <1>5. MediatorFine(w)'
    BY <1>1, <1>3, <1>4 DEF MediatorFine
  <1>6. ASSUME Quiet' PROVE TokensFine'
    <2> DEFINE t == Token(r.id, <<"request", r>>)
               u == Token(r.id, <<"mediator", w>>)
    <2>1. Quiet /\ requests' = requests \ {r}
      BY <1>1, <1>2, <1>6 DEF Quiet, IInv, CountsFine
    <2>2. MediatorTokens' \subseteq MediatorTokens \cup {u}
      BY <1>1, <1>4, MoveMediatorTokens
    <2>3. t \in Tokens /\ u.id = t.id
      BY DEF Tokens, Token
    <2>4. Tokens' \subseteq (Tokens \ {t}) \cup {u}
      BY <1>1, <2>1, <2>2 DEF Tokens, HandlerTokens, MediatorTokens, Token, agent
    <2> QED
      BY <1>1, <2>1, <2>3, <2>4, TokensMove DEF IInv, QuietFine, agent
  <1> QED
    BY <1>1, <1>2, <1>4, <1>5, <1>6, MediatorMoves DEF IInv, StoreFine

\* A goroutine keeps the token it has, or drops it.
LEMMA MediatorKeepsToken ==
    ASSUME IInv, NEW w \in Mediators, NEW x, mediators' = [mediators EXCEPT ![w] = x],
           x.id = mediators[w].id, x.pc # "idle" /\ x.kind # "add" => Serves(w),
           requests' = requests, replies' = replies, UNCHANGED <<agent, duplicates, failures,
                                                                 crashes, timeouts>>
    PROVE  Quiet' => TokensFine'
  <1>1. MediatorTokens' \subseteq MediatorTokens
    BY MoveMediatorTokens
  <1>2. Tokens' \subseteq Tokens
    BY <1>1 DEF Tokens, HandlerTokens, agent
  <1>3. Quiet' => TokensFine
    BY DEF Quiet, IInv, QuietFine
  <1> QED
    BY <1>2, <1>3, TokensShrink DEF agent

LEMMA EnterInv ==
    ASSUME IInv, NEW w \in Mediators, Enter(w)
    PROVE  IInv' /\ BoxStep
  <1>1. /\ mediators[w].pc = "lock" /\ lock = Nobody /\ EnterWith(w)
        /\ UNCHANGED <<inbox, added, requests, replies, agent, calls, duplicates, failures,
                       crashes, timeouts>>
    BY DEF Enter, net, counts
  <1>2. mediators[w] \in MediatorType /\ MediatorFine(w) /\ mediators[w].msgs = <<>>
    BY <1>1, MediatorIsFine DEF MediatorFine
  <1>3. /\ created \in BOOLEAN /\ added \in Nat /\ inbox \in Seq(1..added) /\ inbox \in Seq(Nat)
        /\ Append(inbox, added + 1) \in Seq(Nat)
    <2>1. created \in BOOLEAN /\ added \in Nat /\ inbox \in Seq(1..added)
      BY DEF IInv, StoreFine
    <2>2. inbox \in Seq(Nat)
      BY <2>1, SeqMonotonic
    <2> QED
      BY <2>1, <2>2, AppendAdds
  <1>4. duplicates' \in Nat /\ duplicates <= duplicates' /\ requests' \subseteq requests
    BY <1>1 DEF IInv, CountsFine
  <1>5. CASE mediators[w].kind = "add"
    <2> DEFINE x == [mediators[w] EXCEPT !.pc = "put", !.msgs = Append(inbox, added + 1)]
    <2>1. created' = TRUE /\ lock' = w /\ mediators' = [mediators EXCEPT ![w] = x]
      BY <1>1, <1>5 DEF EnterWith, Mediate
    <2>2. /\ x \in MediatorType /\ x.pc = "put" /\ x.kind = "add" /\ x.id = mediators[w].id
          /\ x.msgs = Append(inbox, added + 1) /\ mediators'[w] = x
      BY <1>2, <1>3, <1>5, <2>1 DEF MediatorType, IInv, MediatorsFine
    <2> HIDE DEF x
    <2>3. MediatorFine(w)'
      BY <1>1, <2>1, <2>2 DEF MediatorFine
    <2>4. Quiet' => TokensFine'
      BY <1>1, <2>1, <2>2, MediatorKeepsToken
    <2> QED
      BY <1>1, <1>4, <2>1, <2>2, <2>3, <2>4, MediatorMoves
  <1>6. CASE mediators[w].kind # "add" /\ created
    <2> DEFINE batch == mediators[w].kind = "batch"
               x == [mediators[w] EXCEPT !.pc = IF batch THEN "put" ELSE "send",
                                         !.msgs = IF batch THEN inbox ELSE <<>>]
    <2>1. created' = created /\ lock' = w /\ mediators' = [mediators EXCEPT ![w] = x]
      BY <1>1, <1>6 DEF EnterWith, Mediate
    <2>2. /\ x \in MediatorType /\ x.kind = mediators[w].kind /\ x.id = mediators[w].id
          /\ x.pc = IF batch THEN "put" ELSE "send"
          /\ x.msgs = IF batch THEN inbox ELSE <<>>
          /\ mediators'[w] = x
      BY <1>2, <1>3, <1>6, <2>1, EmptySeq DEF MediatorType, IInv, MediatorsFine
    <2>3. x.id \in 1..calls
      BY <1>1, <1>2, <1>6, <2>2 DEF MediatorFine
    <2> HIDE DEF x
    <2>4. MediatorFine(w)'
      BY <1>1, <1>6, <2>1, <2>2, <2>3 DEF MediatorFine
    <2>5. Quiet' => TokensFine'
      BY <1>1, <1>6, <2>1, <2>2, MediatorKeepsToken DEF Serves
    <2>6. x.pc = "send" => Parcel(x) \in EmptyParcels
      BY <2>2, <2>3 DEF Parcel, EmptyParcels
    <2> QED
      BY <1>1, <1>3, <1>4, <2>1, <2>2, <2>4, <2>5, <2>6, MediatorMoves
  <1>7. CASE mediators[w].kind # "add" /\ ~created
    <2>1. mediators' = [mediators EXCEPT ![w] = IdleMediator] /\ UNCHANGED <<created, lock>>
      BY <1>1, <1>7 DEF EnterWith, Mediate
    <2>2. /\ IdleMediator \in MediatorType /\ IdleMediator.pc = "idle"
          /\ IdleMediator.msgs = <<>> /\ mediators'[w] = IdleMediator
      BY <2>1, EmptySeq DEF IdleMediator, MediatorType, IInv, MediatorsFine
    <2>3. MediatorFine(w)'
      BY <1>1, <2>1, <2>2, NobodyAssumption DEF MediatorFine
    <2>4. Quiet' => TokensFine'
      <3>1. MediatorTokens' \subseteq MediatorTokens
        BY <2>1, <2>2, MoveMediatorTokens
      <3>2. Tokens' \subseteq Tokens
        BY <1>1, <3>1 DEF Tokens, HandlerTokens, agent
      <3>3. Quiet' => TokensFine
        BY <1>1 DEF Quiet, IInv, QuietFine
      <3> QED
        BY <1>1, <3>2, <3>3, TokensShrink DEF agent
    <2> QED
      BY <1>1, <1>3, <1>4, <2>1, <2>2, <2>3, <2>4, MediatorMoves
  <1> QED
    BY <1>3, <1>5, <1>6, <1>7

\* A goroutine ends and gives the lock back; its answer may be out.
LEMMA MediatorEnds ==
    ASSUME IInv, NEW w \in Mediators, mediators' = [mediators EXCEPT ![w] = IdleMediator],
           lock' = Nobody, lock = w \/ lock = Nobody,
           replies' = replies \/ (mediators[w].pc = "send" /\ Reply(w)),
           UNCHANGED <<inbox, created, added, requests, agent>>, calls' = calls,
           CountsFine', QuietFine'
    PROVE  IInv' /\ BoxStep
  <1>1. UNCHANGED <<channels, callers, handlers, handled>>
    BY DEF agent
  <1>2. HandlerParcels' = HandlerParcels
    BY <1>1 DEF HandlerParcels
  <1>3. IdleMediator \in MediatorType /\ IdleMediator.pc = "idle" /\ IdleMediator.msgs = <<>>
    BY EmptySeq DEF IdleMediator, MediatorType
  <1>4. replies' \subseteq replies \cup MediatorParcels
    BY MoveMediatorParcels DEF Reply, Parcel
  <1>5. Shrinks
    BY <1>1, <1>2, <1>3, <1>4, MoveMediatorParcels DEF Shrinks, Parcels
  <1>6. MediatorFine(w)'
    BY <1>3, NobodyAssumption DEF MediatorFine, IInv, MediatorsFine
  <1>7. MediatorsFine'
    BY <1>3, <1>6, MoveMediator
  <1>8. StoreFine' /\ CallersFine' /\ HandlersFine'
    BY <1>1, StoreStays, CallersStay, HandlersStay DEF IInv, CountsFine, StoreFine
  <1>9. ParcelsFine'
    BY <1>1, <1>5, ParcelsShrink DEF Awaits, IInv, CountsFine
  <1>10. BoxStep
    BY <1>5, <1>8, BoxLoses
  <1> QED
    BY <1>7, <1>8, <1>9, <1>10 DEF IInv

LEMMA FailMediatorInv ==
    ASSUME IInv, NEW w \in Mediators, FailMediator(w)
    PROVE  IInv' /\ BoxStep
  <1>1. /\ mediators' = [mediators EXCEPT ![w] = IdleMediator] /\ lock' = Nobody
        /\ replies' = replies \/ (mediators[w].pc = "send" /\ Reply(w))
        /\ UNCHANGED <<inbox, created, added, requests, agent, calls, duplicates, crashes,
                       timeouts>>
        /\ failures' = failures + 1
    <2>1. replies' = replies \/ (mediators[w].pc = "send" /\ Reply(w))
      BY Zenon DEF FailMediator
    <2>2. mediators' = [mediators EXCEPT ![w] = IdleMediator] /\ lock' = Nobody
      BY Zenon DEF FailMediator, GiveBack, Unlock, Mediate
    <2>3. UNCHANGED <<inbox, created, added, requests, agent>>
      <3>1. UNCHANGED <<store, requests, agent>>
        BY Zenon DEF FailMediator
      <3> QED
        BY <3>1 DEF store
    <2>4. failures' = failures + 1 /\ UNCHANGED <<calls, duplicates, crashes, timeouts>>
      BY DEF FailMediator, Failed
    <2> QED
      BY <2>1, <2>2, <2>3, <2>4
  <1>2. lock = w \/ lock = Nobody
    BY MediatorIsFine DEF FailMediator, MediatorFine
  <1>3. CountsFine' /\ QuietFine'
    BY <1>1, Disturbed DEF IInv, CountsFine
  <1> QED
    BY <1>1, <1>2, <1>3, MediatorEnds

LEMMA SendReplyInv ==
    ASSUME IInv, NEW w \in Mediators, SendReply(w)
    PROVE  IInv' /\ BoxStep
  <1> DEFINE r == [id |-> mediators[w].id, msgs |-> mediators[w].msgs]
             t == Token(r.id, <<"mediator", w>>)
             u == Token(r.id, <<"reply", r>>)
  <1>1. /\ mediators[w].pc = "send" /\ mediators' = [mediators EXCEPT ![w] = IdleMediator]
        /\ lock' = Nobody /\ replies' = replies \cup {r} /\ Reply(w)
        /\ UNCHANGED <<inbox, created, added, requests, agent, calls, duplicates, failures,
                       crashes, timeouts>>
    BY DEF SendReply, Unlock, Mediate, Reply, store, counts
  <1>2. lock = w /\ Serves(w)
    BY <1>1, MediatorIsFine DEF MediatorFine, Serves
  <1>3. CountsFine'
    BY <1>1 DEF IInv, CountsFine
  <1>4. ASSUME Quiet' PROVE TokensFine' /\ AllKept'
    <2>1. TokensFine /\ AllKept
      BY <1>1, <1>4 DEF Quiet, IInv, QuietFine
    <2>2. MediatorTokens' \subseteq MediatorTokens \ {t} /\ t \in MediatorTokens
      <3>1. r.id = mediators[w].id
        OBVIOUS
      <3>2. IdleMediator.pc = "idle"
        BY DEF IdleMediator
      <3>3. t = Token(mediators[w].id, <<"mediator", w>>)
        BY <3>1
      <3> HIDE DEF r, t
      <3> QED
        BY <1>1, <1>2, <3>2, <3>3, MoveMediatorTokens
    <2>3. t \in Tokens /\ u.id = t.id
      BY <2>2 DEF Tokens, Token
    <2>4. Tokens' \subseteq (Tokens \ {t}) \cup {u}
      BY <1>1, <2>2 DEF Tokens, HandlerTokens, Token, agent
    <2>5. TokensFine'
      BY <1>1, <2>1, <2>3, <2>4, TokensMove DEF agent
    <2>6. Parcels \subseteq Parcels'
      <3>1. Parcel(mediators[w]) \in replies' /\ HandlerParcels' = HandlerParcels
        BY <1>1 DEF Parcel, HandlerParcels, agent
      <3> QED
        BY <1>1, <3>1, MoveMediatorParcels DEF Parcels
    <2>7. AllKept'
      BY <1>1, <2>1, <2>6 DEF AllKept, Carried, agent
    <2> QED
      BY <2>5, <2>7
  <1> QED
    BY <1>1, <1>2, <1>3, <1>4, MediatorEnds DEF QuietFine

LEMMA Numbers ==
    ASSUME added \in Nat, NEW s \in Seq(1..added)
    PROVE  s \in Seq(Nat)
  <1>1. 1..added \subseteq Nat
    OBVIOUS
  <1> QED
    BY <1>1, SeqMonotonic

\* The message that comes is not among those that are there.
LEMMA NewIsFresh ==
    ASSUME added \in Nat, NEW s \in Seq(1..added)
    PROVE  s \in Seq(1..added + 1) /\ added + 1 \notin ToSet(s)
  <1>1. 1..added \subseteq 1..added + 1 /\ added + 1 \notin 1..added
    OBVIOUS
  <1>2. ToSet(s) \subseteq 1..added
    BY ToSetDef
  <1> QED
    BY <1>1, <1>2, SeqMonotonic

LEMMA PutMessageInv ==
    ASSUME IInv, NEW w \in Mediators, PutMessage(w)
    PROVE  IInv' /\ BoxStep
  <1>1. /\ mediators[w].pc = "put" /\ mediators[w].kind = "add"
        /\ mediators' = [mediators EXCEPT ![w] = IdleMediator] /\ lock' = Nobody
        /\ inbox' = mediators[w].msgs /\ added' = added + 1
        /\ UNCHANGED <<created, requests, replies, agent, calls, duplicates, failures,
                       crashes, timeouts>>
    BY DEF PutMessage, Unlock, Mediate, net, counts
  <1>2. lock = w /\ inbox' = Append(inbox, added + 1)
    BY <1>1, MediatorIsFine DEF MediatorFine
  <1>3. UNCHANGED <<channels, callers, handlers, handled>>
    BY <1>1 DEF agent
  <1>4. IdleMediator \in MediatorType /\ IdleMediator.pc = "idle" /\ IdleMediator.msgs = <<>>
    BY EmptySeq DEF IdleMediator, MediatorType
  <1>5. /\ added \in Nat /\ inbox \in Seq(1..added) /\ NoDup(inbox) /\ created \in BOOLEAN
        /\ handled \in Seq(1..added) /\ Disjoint(handled, inbox)
    BY DEF IInv, StoreFine
  <1>6. inbox' \in Seq(1..added') /\ NoDup(inbox') /\ ToSet(inbox') = ToSet(inbox) \cup {added + 1}
    <2>1. inbox \in Seq(1..added + 1) /\ added + 1 \notin ToSet(inbox) /\ added + 1 \in 1..added + 1
      BY <1>5, NewIsFresh
    <2> QED
      BY <1>1, <1>2, <1>5, <2>1, AppendAdds
  <1>7. ASSUME NEW s \in Seq(1..added), Disjoint(s, inbox)
        PROVE  s \in Seq(1..added') /\ Disjoint(s, inbox')
    BY <1>1, <1>5, <1>6, <1>7, NewIsFresh DEF Disjoint
  <1>8. MediatorsFine'
    <2>1. mediators'[w] = IdleMediator
      BY <1>1 DEF IInv, MediatorsFine
    <2>2. MediatorFine(w)'
      BY <1>1, <1>4, <2>1, NobodyAssumption DEF MediatorFine
    <2> QED
      BY <1>1, <1>2, <1>4, <2>2, MoveMediator
  <1>9. StoreFine'
    <2>1. handled' \in Seq(1..added') /\ Disjoint(handled, inbox')
      BY <1>3, <1>5, <1>7
    <2>2. Disjoint(handled, inbox)'
      BY <1>3, <2>1 DEF Disjoint
    <2> QED
      BY <1>1, <1>5, <1>6, <2>1, <2>2 DEF StoreFine, NoDup
  <1>10. Parcels' = Parcels
    <2>1. MediatorParcels' = MediatorParcels
      BY <1>1, <1>4, MoveMediatorParcels
    <2> QED
      BY <1>1, <1>3, <2>1 DEF Parcels, HandlerParcels
  <1>11. ParcelsFine'
    <2>1. ASSUME NEW p \in Parcels PROVE ParcelFine(p)' /\ ParcelNew(p)'
      <3>1. ParcelFine(p) /\ ParcelNew(p)
        BY DEF IInv, ParcelsFine
      <3>2. p.msgs \in Seq(1..added') /\ Disjoint(p.msgs, inbox')
        BY <1>7, <3>1 DEF ParcelFine
      <3>3. ParcelFine(p)'
        BY <1>1, <3>1, <3>2 DEF ParcelFine, Disjoint
      <3>4. ParcelNew(p)'
        BY <1>3, <3>1 DEF ParcelNew, Awaits, Disjoint
      <3> QED
        BY <3>3, <3>4
    <2> QED
      BY <1>10, <2>1 DEF IInv, ParcelsFine
  <1>12. CallersFine'
    <2>1. ASSUME NEW c \in Callers PROVE CallerFine(c)'
      <3>1. CallerFine(c)
        BY CallerIsFine
      <3>2. callers[c].msgs \in Seq(1..added') /\ Disjoint(callers[c].msgs, inbox')
        BY <1>7, <3>1 DEF CallerFine
      <3> QED
        BY <1>1, <1>3, <3>1, <3>2 DEF CallerFine, Disjoint
    <2> QED
      BY <1>3, <2>1 DEF IInv, CallersFine, Apart
  <1>13. HandlersFine'
    BY <1>3, HandlersStay
  <1>14. CountsFine'
    BY <1>1 DEF IInv, CountsFine
  <1>15. QuietFine'
    <2> SUFFICES ASSUME Quiet' PROVE TokensFine' /\ AllKept'
      BY DEF QuietFine
    <2>1. TokensFine /\ AllKept
      BY <1>1 DEF Quiet, IInv, QuietFine
    <2>2. MediatorTokens' \subseteq MediatorTokens
      BY <1>1, <1>4, MoveMediatorTokens
    <2>3. Tokens' \subseteq Tokens
      BY <1>1, <1>3, <2>2 DEF Tokens, HandlerTokens
    <2>4. TokensFine'
      BY <1>3, <2>1, <2>3, TokensShrink
    <2>5. ASSUME NEW m \in 1..added' PROVE (m \in ToSet(inbox) \cup ToSet(handled) \/ Carried(m))'
      <3>1. m = added + 1 \/ m \in 1..added
        BY <1>1, <1>5
      <3>2. Carried(m)' <=> Carried(m)
        BY <1>3, <1>10 DEF Carried
      <3> QED
        BY <1>3, <1>6, <2>1, <3>1, <3>2 DEF AllKept
    <2> QED
      BY <2>4, <2>5 DEF AllKept
  <1>16. BoxStep
    <2>1. ASSUME NEW m PROVE m \in OnTheirWay' <=> m \in OnTheirWay
      <3>1. Carried(m)' <=> Carried(m)
        BY <1>3, <1>10 DEF Carried
      <3> QED
        BY <1>3, <1>13, <3>1, WayIs, WayWillBe DEF IInv
    <2>2. OnTheirWay' = OnTheirWay
      BY <2>1
    <2>3. Box!Put
      BY <1>1, <1>2, <1>3, <2>2 DEF Box!Put
    <2> QED
      BY <2>3 DEF BoxStep, Box!Next
  <1> QED
    BY <1>8, <1>9, <1>11, <1>12, <1>13, <1>14, <1>15, <1>16 DEF IInv

\* What a batch takes leaves the inbox for a parcel.
LEMMA PutRestInv ==
    ASSUME IInv, NEW w \in Mediators, PutRest(w)
    PROVE  IInv' /\ BoxStep
  <1> DEFINE n == End(inbox)
             front == SubSeq(inbox, 1, n)
             rest  == SubSeq(inbox, n + 1, Len(inbox))
             x == [mediators[w] EXCEPT !.pc = "send", !.msgs = front]
  <1>1. /\ mediators[w].pc = "put" /\ mediators[w].kind = "batch"
        /\ UNCHANGED <<created, added, lock, requests, replies, agent, calls, duplicates,
                       failures, crashes, timeouts>>
    BY DEF PutRest, net, counts
  <1>2. /\ mediators[w].msgs = inbox /\ lock = w /\ mediators[w].id \in 1..calls
        /\ mediators[w] \in MediatorType
    BY <1>1, MediatorIsFine DEF MediatorFine
  <1>3. inbox' = rest /\ mediators' = [mediators EXCEPT ![w] = x]
    BY <1>2 DEF PutRest, Mediate
  <1>4. UNCHANGED <<channels, callers, handlers, handled>>
    BY <1>1 DEF agent
  <1>5. /\ added \in Nat /\ inbox \in Seq(1..added) /\ NoDup(inbox) /\ created \in BOOLEAN
        /\ handled \in Seq(1..added) /\ Disjoint(handled, inbox)
    BY DEF IInv, StoreFine
  <1>6. n \in 0..Len(inbox) /\ Len(inbox) \in Nat
    BY <1>5, LenProperties, SizeAssumption DEF End
  <1> HIDE DEF n
  <1>7. /\ front \in Seq(1..added) /\ rest \in Seq(1..added)
        /\ ToSet(front) = {inbox[i] : i \in 1..n}
        /\ ToSet(inbox) = ToSet(front) \cup ToSet(rest)
        /\ NoDup(front) /\ NoDup(rest) /\ Disjoint(front, rest)
    <2>1. Cut(inbox, n, front, rest)
      BY DEF Cut
    <2> HIDE DEF front, rest
    <2> QED
      BY <1>5, <1>6, <2>1, CutParts
  <1>8. front \in Seq(Nat)
    BY <1>5, <1>7, SeqMonotonic
  <1>9. n = 0 => rest = inbox
    BY <1>5, <1>6, SubSeqFull
  <1> HIDE DEF front, rest
  <1>10. /\ x \in MediatorType /\ x.pc = "send" /\ x.kind = "batch" /\ x.id = mediators[w].id
         /\ x.msgs = front /\ mediators'[w] = x
    BY <1>1, <1>2, <1>3, <1>8 DEF MediatorType, IInv, MediatorsFine
  <1> HIDE DEF x
  <1>11. Parcel(x) \in [id : 1..calls, msgs : Seq(1..added)] /\ Parcel(x).msgs = front
    BY <1>2, <1>7, <1>10 DEF Parcel
  <1>12. /\ Parcels' \subseteq Parcels \cup {Parcel(x)}
         /\ Parcels \subseteq Parcels' /\ Parcel(x) \in Parcels'
    <2>1. /\ MediatorParcels' \subseteq MediatorParcels \cup {Parcel(x)}
          /\ MediatorParcels \subseteq MediatorParcels' /\ Parcel(x) \in MediatorParcels'
      BY <1>1, <1>3, <1>10, MoveMediatorParcels
    <2> QED
      BY <1>1, <1>4, <2>1 DEF Parcels, HandlerParcels
  <1>13. MediatorsFine'
    <2>1. MediatorFine(w)'
      BY <1>1, <1>2, <1>10 DEF MediatorFine
    <2> QED
      BY <1>1, <1>2, <1>3, <1>10, <2>1, MoveMediator
  <1>14. StoreFine'
    <2>1. Disjoint(handled, inbox)'
      BY <1>3, <1>4, <1>5, <1>7 DEF Disjoint
    <2> QED
      BY <1>1, <1>3, <1>4, <1>5, <1>7, <2>1 DEF StoreFine, NoDup
  <1>15. ParcelsFine'
    <2>1. ASSUME NEW p \in Parcels PROVE ParcelFine(p)' /\ ParcelNew(p)'
      <3>1. ParcelFine(p) /\ ParcelNew(p)
        BY DEF IInv, ParcelsFine
      <3>2. ParcelFine(p)'
        BY <1>1, <1>3, <1>7, <3>1 DEF ParcelFine, Disjoint
      <3>3. ParcelNew(p)'
        BY <1>4, <3>1 DEF ParcelNew, Awaits, Disjoint
      <3> QED
        BY <3>2, <3>3
    <2>2. ASSUME NEW p, p = Parcel(x) PROVE ParcelFine(p)' /\ ParcelNew(p)'
      <3>1. ParcelFine(p)'
        BY <1>1, <1>3, <1>7, <1>11, <2>2 DEF ParcelFine, Disjoint
      <3>2. Disjoint(front, handled)
        BY <1>5, <1>7 DEF Disjoint
      <3>3. \A d \in Callers : Disjoint(front, callers[d].msgs)
        BY <1>7, CallerIsFine DEF CallerFine, Disjoint
      <3> QED
        BY <1>4, <1>11, <2>2, <3>1, <3>2, <3>3 DEF ParcelNew, Disjoint
    <2>3. ASSUME NEW p \in Parcels PROVE Disjoint(p.msgs, front) /\ Disjoint(front, p.msgs)
      BY <1>7 DEF IInv, ParcelsFine, ParcelFine, Disjoint
    <2>4. ASSUME NEW p \in Parcels', NEW q \in Parcels', p.id # q.id PROVE Disjoint(p.msgs, q.msgs)
      BY <1>11, <1>12, <2>3, <2>4 DEF IInv, ParcelsFine
    <2> QED
      BY <1>12, <2>1, <2>2, <2>4 DEF ParcelsFine
  <1>16. CallersFine'
    <2>1. ASSUME NEW c \in Callers PROVE CallerFine(c)'
      BY <1>1, <1>3, <1>4, <1>7, CallerIsFine DEF CallerFine, Disjoint
    <2> QED
      BY <1>4, <2>1 DEF IInv, CallersFine, Apart
  <1>17. HandlersFine'
    BY <1>4, HandlersStay
  <1>18. CountsFine'
    BY <1>1 DEF IInv, CountsFine
  <1>19. ASSUME NEW m PROVE Carried(m)' <=> Carried(m) \/ m \in ToSet(front)
    BY <1>4, <1>11, <1>12 DEF Carried
  <1>20. QuietFine'
    <2> SUFFICES ASSUME Quiet' PROVE TokensFine' /\ AllKept'
      BY DEF QuietFine
    <2>1. AllKept
      BY <1>1 DEF Quiet, IInv, QuietFine
    <2>2. TokensFine'
      BY <1>1, <1>3, <1>10, MediatorKeepsToken DEF Serves
    <2>3. AllKept'
      BY <1>1, <1>3, <1>4, <1>7, <1>19, <2>1 DEF AllKept
    <2> QED
      BY <2>2, <2>3
  <1>21. BoxStep
    <2>1. ASSUME NEW m PROVE m \in OnTheirWay' <=> m \in OnTheirWay \/ m \in ToSet(front)
      BY <1>4, <1>5, <1>7, <1>17, <1>19, WayIs, WayWillBe DEF IInv, Disjoint
    <2>2. CASE n = 0
      <3>1. ToSet(front) = {}
        BY <1>7, <2>2
      <3>2. OnTheirWay' = OnTheirWay
        BY <2>1, <3>1
      <3> QED
        BY <1>1, <1>3, <1>4, <1>9, <2>2, <3>2 DEF BoxStep, Box!vars
    <2>3. CASE n # 0
      <3>1. n \in 1..Len(inbox)
        BY <1>6, <2>3
      <3>2. OnTheirWay' = OnTheirWay \cup {inbox[i] : i \in 1..n}
        BY <1>7, <2>1
      <3>3. Box!Take
        BY <1>1, <1>3, <1>4, <3>1, <3>2 DEF Box!Take, rest
      <3> QED
        BY <3>3 DEF BoxStep, Box!Next
    <2> QED
      BY <2>2, <2>3
  <1> QED
    BY <1>13, <1>14, <1>15, <1>16, <1>17, <1>18, <1>20, <1>21 DEF IInv

-----------------------------------------------------------------------------
(***************************************************************************)
(* The steps of the agent.                                                  *)
(***************************************************************************)
\* A call moves, gives nothing to the message handler, and gets nothing.
LEMMA CallerMoves ==
    ASSUME IInv, NEW c \in Callers, NEW x \in CallerType,
           callers' = [callers EXCEPT ![c] = x], CallerFine(c)',
           \/ x.pc = "idle"
           \/ callers[c].pc # "idle" /\ x.id = callers[c].id
           \/ x.id = calls + 1,
           ToSet(x.msgs) \subseteq ToSet(callers[c].msgs),
           x.pc \in {"send", "wait"} => x.id = calls + 1 \/ Awaits(c, x.id),
           calls' \in Nat, calls <= calls', channels' \subseteq Nat,
           \A d \in Callers \ {c} : callers[d].pc # "idle" => callers[d].id \in channels',
           UNCHANGED <<inbox, created, added, lock, mediators, replies, handlers, handled>>,
           CountsFine', QuietFine'
    PROVE  IInv' /\ BoxStep
  <1>1. callers'[c] = x /\ \A d \in Callers \ {c} : callers'[d] = callers[d]
    BY DEF IInv, CallersFine
  <1>2. Parcels' = Parcels
    BY DEF Parcels, MediatorParcels, HandlerParcels
  <1>3. Shrinks
    BY <1>1, <1>2 DEF Shrinks
  <1>4. StoreFine' /\ HandlersFine' /\ MediatorsFine'
    BY StoreStays, HandlersStay, MediatorsStay DEF IInv, StoreFine
  <1>5. CallersFine'
    BY MoveCaller
  <1>6. ASSUME NEW p \in Parcels', NEW d \in Callers, Awaits(d, p.id)' PROVE Awaits(d, p.id)
    <2>1. p.id \in 1..calls /\ calls \in Nat
      BY <1>2 DEF IInv, ParcelsFine, ParcelFine, CountsFine
    <2>2. p.id # calls + 1
      BY <2>1
    <2> QED
      BY <1>1, <1>6, <2>2 DEF Awaits
  <1>7. ParcelsFine'
    BY <1>3, <1>6, ParcelsShrink
  <1>8. BoxStep
    BY <1>3, <1>4, BoxLoses
  <1> QED
    BY <1>4, <1>5, <1>7, <1>8 DEF IInv

\* What is kept in a quiet step that moves one call, which keeps its messages.
LEMMA CallerKeeps ==
    ASSUME IInv, NEW c \in Callers, NEW x, callers' = [callers EXCEPT ![c] = x],
           x.msgs = callers[c].msgs, UNCHANGED <<inbox, added, mediators, replies, handlers, handled>>
    PROVE  AllKept => AllKept'
  <1>1. callers'[c] = x /\ \A d \in Callers \ {c} : callers'[d] = callers[d]
    BY DEF IInv, CallersFine
  <1>2. Parcels' = Parcels
    BY DEF Parcels, MediatorParcels, HandlerParcels
  <1> QED
    BY <1>1, <1>2 DEF AllKept, Carried

LEMMA CallInv ==
    ASSUME IInv, NEW c \in Callers, NEW kind \in Kinds, Call(c, kind)
    PROVE  IInv' /\ BoxStep
  <1> DEFINE x == [IdleCaller EXCEPT !.pc = "send", !.kind = kind, !.id = calls']
  <1>1. /\ callers[c].pc = "idle" /\ calls' = calls + 1 /\ channels' = channels \cup {calls'}
        /\ callers' = [callers EXCEPT ![c] = x]
        /\ UNCHANGED <<inbox, created, added, lock, mediators, requests, replies, handlers,
                       handled, duplicates, failures, crashes, timeouts>>
    BY DEF Call, Become, store, net
  <1>2. calls \in Nat /\ channels \subseteq Nat
    BY DEF IInv, CountsFine, CallersFine
  <1>3. /\ x \in CallerType /\ x.pc = "send" /\ x.id = calls + 1 /\ x.msgs = <<>>
        /\ x.kind = kind /\ callers'[c] = x
    <2>1. calls' \in Nat /\ kind \in Kinds \cup {"none"} /\ <<>> \in Seq(Nat)
      BY <1>1, <1>2, EmptySeq
    <2>2. /\ x \in CallerType /\ x.pc = "send" /\ x.id = calls' /\ x.msgs = <<>>
          /\ x.kind = kind
      BY <2>1 DEF IdleCaller, CallerType
    <2>3. callers'[c] = x
      BY <1>1 DEF IInv, CallersFine
    <2> HIDE DEF x
    <2> QED
      BY <1>1, <2>2, <2>3
  <1> HIDE DEF x
  <1>4. CallerFine(c)'
    <2>1. /\ callers'[c].msgs = <<>> /\ callers'[c].id = calls' /\ calls' \in 1..calls'
          /\ callers'[c].pc = "send" /\ callers'[c].kind \in Kinds /\ calls' \in channels'
      BY <1>1, <1>2, <1>3
    <2>2. <<>> \in Seq(1..added')
      BY EmptySeq
    <2> QED
      BY <2>1, <2>2, EmptyHasNothing DEF CallerFine, Disjoint, NoDup
  <1>5. CountsFine'
    BY <1>1, <1>2 DEF IInv, CountsFine
  <1>6. ASSUME Quiet' PROVE TokensFine' /\ AllKept'
    <2>1. TokensFine /\ AllKept
      BY <1>1, <1>6 DEF Quiet, IInv, QuietFine
    <2>2. Tokens' = Tokens
      BY <1>1 DEF Tokens, MediatorTokens, HandlerTokens, Serves
    <2>3. \A d \in Callers : callers[d].pc = "wait" => callers'[d] = callers[d]
      BY <1>1 DEF IInv, CallersFine
    <2>4. TokensFine'
      BY <2>1, <2>2, <2>3, TokensShrink
    <2>5. x.msgs = callers[c].msgs
      BY <1>1, <1>3, CallerIsFine DEF CallerFine
    <2> QED
      BY <1>1, <2>1, <2>4, <2>5, CallerKeeps
  <1>7. \A d \in Callers \ {c} : callers[d].pc # "idle" => callers[d].id \in channels'
    BY <1>1, CallerIsFine DEF CallerFine
  <1>8. QuietFine'
    BY <1>6 DEF QuietFine
  <1>9. calls' \in Nat /\ calls <= calls' /\ channels' \subseteq Nat
    BY <1>1, <1>2
  <1>10. ToSet(x.msgs) \subseteq ToSet(callers[c].msgs)
    BY <1>3, EmptyHasNothing
  <1> QED
    BY <1>1, <1>3, <1>4, <1>5, <1>7, <1>8, <1>9, <1>10, CallerMoves

LEMMA SendRequestInv ==
    ASSUME IInv, NEW c \in Callers, SendRequest(c)
    PROVE  IInv' /\ BoxStep
  <1> DEFINE x == [callers[c] EXCEPT !.pc = "wait"]
             r == [id |-> callers[c].id, kind |-> callers[c].kind]
             u == Token(r.id, <<"request", r>>)
  <1>1. /\ callers[c].pc = "send" /\ callers' = [callers EXCEPT ![c] = x]
        /\ requests' = requests \cup {r}
        /\ UNCHANGED <<inbox, created, added, lock, mediators, replies, channels, handlers,
                       handled, calls, duplicates, failures, crashes, timeouts>>
    BY DEF SendRequest, Request, Become, store, counts
  <1>2. callers[c] \in CallerType /\ CallerFine(c)
    BY CallerIsFine
  <1>3. /\ x \in CallerType /\ x.pc = "wait" /\ x.id = callers[c].id
        /\ x.msgs = callers[c].msgs /\ callers'[c] = x
    BY <1>1, <1>2 DEF CallerType, IInv, CallersFine
  <1>4. r.id = callers[c].id /\ u.id = callers[c].id
    BY DEF Token
  <1> HIDE DEF x
  <1>5. CallerFine(c)'
    BY <1>1, <1>2, <1>3 DEF CallerFine
  <1>6. CountsFine'
    <2>1. callers[c].kind \in Kinds
      BY <1>1, <1>2 DEF CallerFine
    <2> QED
      BY <1>1, <1>2, <2>1 DEF IInv, CountsFine, CallerFine
  <1>7. ASSUME Quiet' PROVE TokensFine' /\ AllKept'
    <2>1. TokensFine /\ AllKept
      BY <1>1, <1>7 DEF Quiet, IInv, QuietFine
    <2>2. Tokens' \subseteq Tokens \cup {u}
      BY <1>1 DEF Tokens, MediatorTokens, HandlerTokens, Serves
    <2>3. ASSUME NEW t \in Tokens
          PROVE  t.id # callers[c].id
                 /\ \E d \in Callers : callers'[d].pc = "wait" /\ callers'[d].id = t.id
      <3>1. PICK d \in Callers : callers[d].pc = "wait" /\ callers[d].id = t.id
        BY <2>1 DEF TokensFine
      <3>2. d # c /\ callers'[d] = callers[d]
        BY <1>1, <3>1 DEF IInv, CallersFine
      <3>3. t.id # callers[c].id
        BY <1>1, <3>1, <3>2 DEF IInv, CallersFine, Apart
      <3> QED
        BY <3>1, <3>2, <3>3
    <2>4. TokensFine'
      <3> HIDE DEF u
      <3> QED
        BY <1>3, <1>4, <2>1, <2>2, <2>3 DEF TokensFine
    <2> QED
      BY <1>1, <1>3, <2>1, <2>4, CallerKeeps
  <1>8. QuietFine'
    BY <1>7 DEF QuietFine
  <1>9. /\ calls' \in Nat /\ calls <= calls' /\ channels' \subseteq Nat
        /\ \A d \in Callers \ {c} : callers[d].pc # "idle" => callers[d].id \in channels'
    BY <1>1, CallerIsFine DEF CallerFine, IInv, CallersFine, CountsFine
  <1>10. Awaits(c, x.id)
    BY <1>1, <1>3 DEF Awaits
  <1> QED
    BY <1>1, <1>3, <1>5, <1>6, <1>8, <1>9, <1>10, CallerMoves

LEMMA TimeoutInv ==
    ASSUME IInv, NEW c \in Callers, Timeout(c)
    PROVE  IInv' /\ BoxStep
  <1> DEFINE x == [callers[c] EXCEPT !.pc = "leave"]
  <1>1. /\ callers[c].pc = "wait" /\ callers' = [callers EXCEPT ![c] = x]
        /\ timeouts' = timeouts + 1
        /\ UNCHANGED <<inbox, created, added, lock, mediators, requests, replies, channels,
                       handlers, handled, calls, duplicates, failures, crashes>>
    BY DEF Timeout, Become, store, net
  <1>2. callers[c] \in CallerType /\ CallerFine(c)
    BY CallerIsFine
  <1>3. /\ x \in CallerType /\ x.pc = "leave" /\ x.id = callers[c].id
        /\ x.msgs = callers[c].msgs /\ callers'[c] = x
    BY <1>1, <1>2 DEF CallerType, IInv, CallersFine
  <1> HIDE DEF x
  <1>4. CallerFine(c)'
    BY <1>1, <1>2, <1>3 DEF CallerFine
  <1>5. CountsFine' /\ QuietFine'
    BY <1>1, Disturbed DEF IInv, CountsFine
  <1>6. /\ calls' \in Nat /\ calls <= calls' /\ channels' \subseteq Nat
        /\ \A d \in Callers \ {c} : callers[d].pc # "idle" => callers[d].id \in channels'
    BY <1>1, CallerIsFine DEF CallerFine, IInv, CallersFine, CountsFine
  <1> QED
    BY <1>1, <1>3, <1>4, <1>5, <1>6, CallerMoves

LEMMA LeaveInv ==
    ASSUME IInv, NEW c \in Callers, Leave(c)
    PROVE  IInv' /\ BoxStep
  <1>1. /\ callers[c].pc \in {"leave", "handle"} /\ callers' = [callers EXCEPT ![c] = IdleCaller]
        /\ callers[c].pc = "handle" => callers[c].msgs = <<>>
        /\ channels' = channels \ {callers[c].id}
        /\ UNCHANGED <<inbox, created, added, lock, mediators, requests, replies, handlers,
                       handled, calls, duplicates, failures, crashes, timeouts>>
    BY DEF Leave, Become, store, net, counts
  <1>2. callers[c] \in CallerType /\ CallerFine(c) /\ callers[c].msgs = <<>>
    BY <1>1, CallerIsFine DEF CallerFine
  <1>3. /\ IdleCaller \in CallerType /\ IdleCaller.pc = "idle" /\ IdleCaller.msgs = <<>>
        /\ callers'[c] = IdleCaller
    BY <1>1, EmptySeq DEF IdleCaller, CallerType, IInv, CallersFine
  <1>4. CallerFine(c)'
    BY <1>3, EmptySeq, EmptyHasNothing DEF CallerFine, Disjoint, NoDup
  <1>5. CountsFine'
    BY <1>1 DEF IInv, CountsFine
  <1>6. ASSUME Quiet' PROVE TokensFine' /\ AllKept'
    <2>1. TokensFine /\ AllKept
      BY <1>1, <1>6 DEF Quiet, IInv, QuietFine
    <2>2. Tokens' = Tokens
      BY <1>1 DEF Tokens, MediatorTokens, HandlerTokens, Serves
    <2>3. \A d \in Callers : callers[d].pc = "wait" => callers'[d] = callers[d]
      BY <1>1 DEF IInv, CallersFine
    <2>4. TokensFine'
      BY <2>1, <2>2, <2>3, TokensShrink
    <2> QED
      BY <1>1, <1>2, <1>3, <2>1, <2>4, CallerKeeps
  <1>7. QuietFine'
    BY <1>6 DEF QuietFine
  <1>8. calls' \in Nat /\ calls <= calls' /\ channels' \subseteq Nat
    <2>1. calls \in Nat /\ channels \subseteq Nat
      BY DEF IInv, CallersFine, CountsFine
    <2>2. calls' = calls
      BY <1>1
    <2>3. channels' = channels \ {callers[c].id}
      BY <1>1
    <2>4. channels' \subseteq Nat
      BY <2>1, <2>3, Zenon
    <2> QED
      BY <2>1, <2>2, <2>4
  <1>9. ASSUME NEW d \in Callers \ {c}, callers[d].pc # "idle" PROVE callers[d].id \in channels'
    <2>1. callers[d].id \in channels
      BY <1>9, CallerIsFine DEF CallerFine
    <2>2. callers[d].id # callers[c].id
      BY <1>1, <1>9 DEF IInv, CallersFine, Apart
    <2> QED
      BY <1>1, <2>1, <2>2
  <1> QED
    BY <1>1, <1>2, <1>3, <1>4, <1>5, <1>7, <1>8, <1>9, CallerMoves

LEMMA FailCallerInv ==
    ASSUME IInv, NEW c \in Callers, FailCaller(c)
    PROVE  IInv' /\ BoxStep
  <1>1. /\ UNCHANGED <<inbox, created, added, lock, mediators, replies, channels, handlers,
                       handled, calls, duplicates, crashes, timeouts>>
        /\ failures' = failures + 1
    BY DEF FailCaller, Failed, store
  <1>2. callers[c] \in CallerType /\ CallerFine(c)
    BY CallerIsFine
  <1>3. /\ calls' \in Nat /\ calls <= calls' /\ channels' \subseteq Nat
        /\ \A d \in Callers \ {c} : callers[d].pc # "idle" => callers[d].id \in channels'
    BY <1>1, CallerIsFine DEF CallerFine, IInv, CallersFine, CountsFine
  <1>4. QuietFine'
    BY <1>1, Disturbed DEF IInv, CountsFine
  <1>5. CASE /\ callers[c].pc = "send" /\ Become(c, [callers[c] EXCEPT !.pc = "leave"])
             /\ Request(c) \/ UNCHANGED requests
    <2> DEFINE x == [callers[c] EXCEPT !.pc = "leave"]
    <2>1. callers' = [callers EXCEPT ![c] = x]
      BY <1>5 DEF Become
    <2>2. /\ x \in CallerType /\ x.pc = "leave" /\ x.id = callers[c].id
          /\ x.msgs = callers[c].msgs /\ callers'[c] = x
      BY <1>2, <2>1 DEF CallerType, IInv, CallersFine
    <2> HIDE DEF x
    <2>3. CallerFine(c)'
      BY <1>1, <1>2, <1>5, <2>2 DEF CallerFine
    <2>4. CountsFine'
      <3>1. callers[c].id \in 1..calls /\ callers[c].kind \in Kinds
        BY <1>2, <1>5 DEF CallerFine
      <3>2. requests' \subseteq [id : 1..calls, kind : Kinds]
        BY <1>5, <3>1 DEF Request, IInv, CountsFine
      <3> QED
        BY <1>1, <3>2 DEF IInv, CountsFine
    <2> QED
      BY <1>1, <1>3, <1>4, <1>5, <2>1, <2>2, <2>3, <2>4, CallerMoves
  <1>6. CASE /\ callers[c].pc = "handle" /\ callers[c].msgs # <<>>
             /\ Become(c, [callers[c] EXCEPT !.msgs = Tail(@)])
             /\ UNCHANGED requests
    <2> DEFINE x == [callers[c] EXCEPT !.msgs = Tail(@)]
    <2>1. callers' = [callers EXCEPT ![c] = x]
      BY <1>6 DEF Become
    <2>2. /\ Tail(callers[c].msgs) \in Seq(1..added) /\ NoDup(Tail(callers[c].msgs))
          /\ ToSet(Tail(callers[c].msgs)) \subseteq ToSet(callers[c].msgs)
      BY <1>2, <1>6, TailLeaves DEF CallerFine
    <2>3. Tail(callers[c].msgs) \in Seq(Nat)
      <3>1. added \in Nat
        BY DEF IInv, StoreFine
      <3> QED
        BY <2>2, <3>1, Numbers
    <2>4. /\ x \in CallerType /\ x.pc = "handle" /\ x.id = callers[c].id
          /\ x.msgs = Tail(callers[c].msgs) /\ callers'[c] = x
      BY <1>2, <1>6, <2>1, <2>3 DEF CallerType, IInv, CallersFine
    <2> HIDE DEF x
    <2>5. CallerFine(c)'
      BY <1>1, <1>2, <1>6, <2>2, <2>4 DEF CallerFine, Disjoint
    <2>6. CountsFine'
      BY <1>1, <1>6 DEF IInv, CountsFine
    <2> QED
      BY <1>1, <1>3, <1>4, <1>6, <2>1, <2>2, <2>4, <2>5, <2>6, CallerMoves
  <1> QED
    BY <1>5, <1>6, Zenon DEF FailCaller

LEMMA HandleMessageInv ==
    ASSUME IInv, NEW c \in Callers, HandleMessage(c)
    PROVE  IInv' /\ BoxStep
  <1> DEFINE m == Head(callers[c].msgs)
             x == [callers[c] EXCEPT !.msgs = Tail(@)]
  <1>1. /\ callers[c].pc = "handle" /\ callers[c].msgs # <<>>
        /\ callers' = [callers EXCEPT ![c] = x] /\ handled' = Append(handled, m)
        /\ UNCHANGED <<inbox, created, added, lock, mediators, requests, replies, channels,
                       handlers, calls, duplicates, failures, crashes, timeouts>>
    BY DEF HandleMessage, Become, store, net, counts
  <1>2. callers[c] \in CallerType /\ CallerFine(c)
    BY CallerIsFine
  <1>3. /\ added \in Nat /\ inbox \in Seq(1..added) /\ NoDup(inbox) /\ created \in BOOLEAN
        /\ handled \in Seq(1..added) /\ Disjoint(handled, inbox)
    BY DEF IInv, StoreFine
  <1>4. /\ m \in 1..added /\ Tail(callers[c].msgs) \in Seq(1..added)
        /\ NoDup(Tail(callers[c].msgs)) /\ m \notin ToSet(Tail(callers[c].msgs))
        /\ ToSet(callers[c].msgs) = {m} \cup ToSet(Tail(callers[c].msgs))
    BY <1>1, <1>2, TailLeaves DEF CallerFine
  <1>5. Tail(callers[c].msgs) \in Seq(Nat)
    BY <1>3, <1>4, Numbers
  <1>6. /\ x \in CallerType /\ x.pc = "handle" /\ x.id = callers[c].id
        /\ x.msgs = Tail(callers[c].msgs) /\ callers'[c] = x
        /\ \A d \in Callers \ {c} : callers'[d] = callers[d]
    BY <1>1, <1>2, <1>5 DEF CallerType, IInv, CallersFine
  <1> HIDE DEF m, x
  <1>7. handled' \in Seq(1..added) /\ ToSet(handled') = ToSet(handled) \cup {m}
    <2>1. m \in 1..added /\ handled \in Seq(1..added) /\ handled' = Append(handled, m)
      BY <1>1, <1>3, <1>4
    <2>2. ASSUME NEW S, m \in S, handled \in Seq(S)
          PROVE  Append(handled, m) \in Seq(S) /\ ToSet(Append(handled, m)) = ToSet(handled) \cup {m}
      BY <2>2, AppendAdds
    <2> QED
      BY <2>1, <2>2, Zenon
  <1>8. MediatorsFine' /\ HandlersFine'
    BY <1>1, MediatorsStay, HandlersStay DEF IInv, CountsFine
  <1>9. StoreFine'
    <2>1. m \notin ToSet(inbox)
      BY <1>2, <1>4 DEF CallerFine, Disjoint
    <2>2. Disjoint(handled, inbox)'
      BY <1>1, <1>3, <1>7, <2>1 DEF Disjoint
    <2> QED
      BY <1>1, <1>3, <1>7, <2>2 DEF StoreFine, NoDup
  <1>10. CallersFine'
    <2>1. CallerFine(c)'
      BY <1>1, <1>2, <1>4, <1>6, <1>7 DEF CallerFine, Disjoint
    <2>2. ToSet(x.msgs) \subseteq ToSet(callers[c].msgs)
      BY <1>4, <1>6
    <2>3. /\ calls' \in Nat /\ calls <= calls' /\ channels' \subseteq Nat
          /\ \A d \in Callers \ {c} : callers[d].pc # "idle" => callers[d].id \in channels'
      BY <1>1, CallerIsFine DEF CallerFine, IInv, CallersFine, CountsFine
    <2>4. ToSet(handled') \subseteq ToSet(handled) \cup ToSet(callers[c].msgs)
      BY <1>4, <1>7
    <2> QED
      BY <1>1, <1>6, <2>1, <2>2, <2>3, <2>4, MoveCaller
  <1>11. Parcels' = Parcels
    BY <1>1 DEF Parcels, MediatorParcels, HandlerParcels
  <1>12. ParcelsFine'
    <2>1. ASSUME NEW p \in Parcels PROVE ParcelFine(p)' /\ ParcelNew(p)'
      <3>1. ParcelFine(p) /\ ParcelNew(p)
        BY DEF IInv, ParcelsFine
      <3>2. ParcelFine(p)'
        BY <1>1, <3>1 DEF ParcelFine, Disjoint
      <3>3. ASSUME NEW d \in Callers, Awaits(d, p.id)' PROVE Awaits(d, p.id)
        BY <1>6, <3>3 DEF Awaits
      <3>4. ASSUME NEW d \in Callers, Awaits(d, p.id)
            PROVE  /\ Disjoint(p.msgs, handled')
                   /\ \A e \in Callers : Disjoint(p.msgs, callers'[e].msgs)
        <4>1. Disjoint(p.msgs, handled) /\ \A e \in Callers : Disjoint(p.msgs, callers[e].msgs)
          BY <3>1, <3>4 DEF ParcelNew
        <4> QED
          BY <1>4, <1>6, <1>7, <4>1 DEF Disjoint
      <3>5. ParcelNew(p)'
        BY <3>3, <3>4 DEF ParcelNew, Disjoint
      <3> QED
        BY <3>2, <3>5
    <2> QED
      BY <1>11, <2>1 DEF IInv, ParcelsFine
  <1>13. CountsFine'
    BY <1>1 DEF IInv, CountsFine
  <1>14. ASSUME NEW n, n # m PROVE Carried(n)' <=> Carried(n)
    BY <1>4, <1>6, <1>11, <1>14 DEF Carried
  <1>15. ASSUME Quiet' PROVE TokensFine' /\ AllKept'
    <2>1. TokensFine /\ AllKept
      BY <1>1, <1>15 DEF Quiet, IInv, QuietFine
    <2>2. Tokens' = Tokens
      BY <1>1 DEF Tokens, MediatorTokens, HandlerTokens, Serves
    <2>3. \A d \in Callers : callers[d].pc = "wait" => callers'[d] = callers[d]
      BY <1>1, <1>6
    <2>4. TokensFine'
      BY <2>1, <2>2, <2>3, TokensShrink
    <2>5. AllKept'
      BY <1>1, <1>7, <1>14, <2>1 DEF AllKept
    <2> QED
      BY <2>4, <2>5
  <1>16. BoxStep
    <2>1. m \in OnTheirWay
      <3>1. Carried(m)
        BY <1>4 DEF Carried
      <3>2. m \notin ToSet(handled)
        BY <1>2, <1>4 DEF CallerFine, Disjoint
      <3> QED
        BY <3>1, <3>2, WayIs DEF IInv
    <2>2. ASSUME NEW n PROVE n \in OnTheirWay' <=> n \in OnTheirWay /\ n # m
      BY <1>7, <1>8, <1>14, WayIs, WayWillBe DEF IInv
    <2>3. OnTheirWay' = OnTheirWay \ {m}
      BY <2>2
    <2>4. Box!Handle
      BY <1>1, <2>1, <2>3 DEF Box!Handle
    <2> QED
      BY <2>4 DEF BoxStep, Box!Next
  <1> QED
    BY <1>8, <1>9, <1>10, <1>12, <1>13, <1>15, <1>16 DEF IInv, QuietFine

\* A parcel goes from a goroutine to the call that waits for it.
LEMMA TakeAnswerInv ==
    ASSUME IInv, NEW c \in Callers, NEW h \in Handlers, TakeAnswer(c, h)
    PROVE  IInv' /\ BoxStep
  <1> DEFINE x == [callers[c] EXCEPT !.pc = "handle", !.msgs = handlers[h].msgs]
             t == Token(handlers[h].id, <<"handler", h>>)
  <1>1. /\ callers[c].pc = "wait" /\ handlers[h].pc = "answer" /\ handlers[h].id = callers[c].id
        /\ callers' = [callers EXCEPT ![c] = x]
        /\ handlers' = [handlers EXCEPT ![h] = IdleHandler]
        /\ UNCHANGED <<inbox, created, added, lock, mediators, requests, replies, channels,
                       handled, calls, duplicates, failures, crashes, timeouts>>
    BY DEF TakeAnswer, Become, store, net, counts
  <1>2. callers[c] \in CallerType /\ CallerFine(c) /\ callers[c].msgs = <<>>
    BY <1>1, CallerIsFine DEF CallerFine
  <1>3. handlers[h] \in HandlerType
    BY DEF IInv, HandlersFine
  <1>4. /\ x \in CallerType /\ x.pc = "handle" /\ x.id = callers[c].id
        /\ x.msgs = handlers[h].msgs /\ callers'[c] = x
        /\ \A d \in Callers \ {c} : callers'[d] = callers[d]
    BY <1>1, <1>2, <1>3 DEF CallerType, HandlerType, IInv, CallersFine
  <1> HIDE DEF x
  <1>5. /\ IdleHandler.pc = "idle" /\ IdleHandler.msgs = <<>> /\ IdleHandler \in HandlerType
        /\ handlers' \in [Handlers -> HandlerType]
        /\ \A g \in Handlers : handlers'[g] = IF g = h THEN IdleHandler ELSE handlers[g]
    BY <1>1, EmptySeq DEF IdleHandler, HandlerType, IInv, HandlersFine
  <1>6. PICK p : p = Parcel(handlers[h])
    OBVIOUS
  <1>7. p.id = callers[c].id /\ p.msgs = handlers[h].msgs
    BY <1>1, <1>6 DEF Parcel
  <1>8. p \in Parcels /\ Parcels' \subseteq Parcels /\ Parcels \subseteq Parcels' \cup {p}
    <2>1. /\ HandlerParcels' \subseteq HandlerParcels /\ p \in HandlerParcels
          /\ HandlerParcels \subseteq HandlerParcels' \cup {p}
      BY <1>1, <1>5, <1>6, MoveHandlerParcels
    <2> QED
      BY <1>1, <2>1 DEF Parcels, MediatorParcels
  <1>9. ParcelFine(p) /\ Disjoint(p.msgs, handled)
        /\ \A d \in Callers : Disjoint(p.msgs, callers[d].msgs)
    BY <1>1, <1>7, <1>8 DEF IInv, ParcelsFine, ParcelNew, Awaits
  <1>10. MediatorsFine'
    BY <1>1, MediatorsStay DEF IInv, CountsFine
  <1>11. StoreFine'
    BY <1>1, StoreStays DEF IInv, StoreFine
  <1>12. HandlersFine'
    BY <1>5 DEF IInv, HandlersFine
  <1>13. CountsFine'
    BY <1>1 DEF IInv, CountsFine
  <1>14. CallersFine'
    <2>1. callers' \in [Callers -> CallerType] /\ channels' \subseteq Nat
      BY <1>1, <1>4 DEF IInv, CallersFine
    <2>2. CallerFine(c)'
      BY <1>1, <1>2, <1>4, <1>7, <1>9 DEF CallerFine, ParcelFine, Disjoint
    <2>3. ASSUME NEW d \in Callers \ {c} PROVE CallerFine(d)' /\ Apart(c, d)' /\ Apart(d, c)'
      <3>1. CallerFine(d)'
        BY <1>1, <1>4, CallerIsFine DEF CallerFine
      <3>2. Apart(c, d) /\ Apart(d, c)
        BY DEF IInv, CallersFine
      <3>3. Disjoint(x.msgs, callers[d].msgs)
        BY <1>4, <1>7, <1>9
      <3> QED
        BY <1>1, <1>4, <3>1, <3>2, <3>3 DEF Apart, Disjoint
    <2>4. \A d, e \in Callers : d # e => Apart(d, e)'
      BY <1>4, <2>3 DEF IInv, CallersFine, Apart
    <2> QED
      BY <2>1, <2>2, <2>3, <2>4 DEF CallersFine
  <1>15. ParcelsFine'
    <2>1. ASSUME NEW q \in Parcels PROVE ParcelFine(q)' /\ ParcelNew(q)'
      <3>1. ParcelFine(q) /\ ParcelNew(q)
        BY DEF IInv, ParcelsFine
      <3>2. ParcelFine(q)'
        BY <1>1, <3>1 DEF ParcelFine, Disjoint
      <3>3. ASSUME NEW d \in Callers, Awaits(d, q.id)' PROVE d # c /\ Awaits(d, q.id)
        BY <1>4, <3>3 DEF Awaits
      <3>4. ASSUME NEW d \in Callers, d # c, Awaits(d, q.id)
            PROVE  /\ Disjoint(q.msgs, handled)
                   /\ \A e \in Callers : Disjoint(q.msgs, callers'[e].msgs)
        <4>1. Disjoint(q.msgs, handled) /\ \A e \in Callers : Disjoint(q.msgs, callers[e].msgs)
          BY <3>1, <3>4 DEF ParcelNew
        <4>2. q.id # p.id
          BY <1>1, <1>7, <3>4 DEF Awaits, IInv, CallersFine, Apart
        <4>3. Disjoint(q.msgs, callers'[c].msgs)
          BY <1>4, <1>7, <1>8, <4>2 DEF IInv, ParcelsFine
        <4> QED
          BY <1>4, <4>1, <4>3
      <3>5. ParcelNew(q)'
        BY <1>1, <3>3, <3>4 DEF ParcelNew, Disjoint
      <3> QED
        BY <3>2, <3>5
    <2> QED
      BY <1>8, <2>1 DEF IInv, ParcelsFine
  <1>16. ASSUME NEW n PROVE Carried(n)' <=> Carried(n)
    <2>1. ToSet(callers'[c].msgs) = ToSet(p.msgs) /\ ToSet(callers[c].msgs) = {}
      BY <1>2, <1>4, <1>7, EmptyHasNothing
    <2> QED
      BY <1>4, <1>8, <2>1 DEF Carried
  <1>17. ASSUME Quiet' PROVE TokensFine' /\ AllKept'
    <2>1. TokensFine /\ AllKept
      BY <1>1, <1>17 DEF Quiet, IInv, QuietFine
    <2>2. HandlerTokens' \subseteq HandlerTokens \ {t} /\ t \in HandlerTokens
      BY <1>1, <1>5, MoveHandlerTokens
    <2>3. t \in Tokens /\ t.id = callers[c].id
      BY <1>1, <2>2 DEF Tokens, Token
    <2>4. Tokens' \subseteq Tokens \ {t}
      BY <1>1, <2>2 DEF Tokens, MediatorTokens, Serves, Token
    <2> HIDE DEF t
    <2>5. ASSUME NEW u \in Tokens'
          PROVE  u \in Tokens /\ \E d \in Callers : callers'[d].pc = "wait" /\ callers'[d].id = u.id
      <3>1. u \in Tokens /\ u.id # callers[c].id
        BY <2>1, <2>3, <2>4 DEF TokensFine
      <3>2. PICK d \in Callers : callers[d].pc = "wait" /\ callers[d].id = u.id
        BY <2>1, <3>1 DEF TokensFine
      <3> QED
        BY <1>4, <3>1, <3>2
    <2>6. TokensFine'
      BY <2>1, <2>5 DEF TokensFine
    <2>7. AllKept'
      BY <1>1, <1>16, <2>1 DEF AllKept
    <2> QED
      BY <2>6, <2>7
  <1>18. BoxStep
    <2>1. ASSUME NEW n PROVE n \in OnTheirWay' <=> n \in OnTheirWay
      BY <1>1, <1>12, <1>16, WayIs, WayWillBe DEF IInv
    <2>2. OnTheirWay' = OnTheirWay
      BY <2>1
    <2> QED
      BY <1>1, <2>2 DEF BoxStep, Box!vars
  <1> QED
    BY <1>10, <1>11, <1>12, <1>13, <1>14, <1>15, <1>17, <1>18 DEF IInv, QuietFine

\* A parcel arrives, for a call that has a channel or for nobody.
LEMMA HandleReplyInv ==
    ASSUME IInv, NEW h \in Handlers, NEW r \in replies, HandleReply(h, r)
    PROVE  IInv' /\ BoxStep
  <1> DEFINE y == [pc |-> "answer", id |-> r.id, msgs |-> r.msgs]
             t == Token(r.id, <<"reply", r>>)
             u == Token(r.id, <<"handler", h>>)
  <1>1. /\ handlers[h].pc = "idle" /\ Arrives(r, replies, replies')
        /\ UNCHANGED <<inbox, created, added, lock, mediators, requests, channels, callers,
                       handled, calls, failures, crashes, timeouts>>
        /\ r.id \in channels => handlers' = [handlers EXCEPT ![h] = y]
        /\ r.id \notin channels => handlers' = handlers
    BY DEF HandleReply, store
  <1>2. /\ replies' \subseteq replies /\ replies \subseteq replies' \cup {r}
        /\ duplicates' \in Nat /\ duplicates <= duplicates'
        /\ duplicates' = 0 => duplicates = 0 /\ replies' = replies \ {r}
    BY <1>1 DEF Arrives, IInv, CountsFine
  <1>3. /\ r \in Parcels /\ r.id \in 1..calls /\ r.msgs \in Seq(Nat) /\ Parcel(r) = r
        /\ calls \in Nat
    <2>1. r \in Parcels
      BY DEF Parcels
    <2>2. r \in [id : 1..calls, msgs : Seq(1..added)] /\ added \in Nat /\ calls \in Nat
      BY <2>1 DEF IInv, ParcelsFine, ParcelFine, StoreFine, CountsFine
    <2>3. r.id \in 1..calls /\ r.msgs \in Seq(1..added) /\ Parcel(r) = r
      BY <2>2 DEF Parcel
    <2> QED
      BY <2>1, <2>2, <2>3, Numbers
  <1>4. y \in HandlerType /\ y.pc = "answer" /\ y.id = r.id /\ Parcel(y) = r
    BY <1>3 DEF HandlerType, Parcel
  <1> HIDE DEF y
  <1>5. HandlersFine'
    BY <1>1, <1>4 DEF IInv, HandlersFine
  <1>6. HandlerParcels' \subseteq HandlerParcels \cup {r} /\ HandlerParcels \subseteq HandlerParcels'
    <2>1. CASE r.id \in channels
      BY <1>1, <1>4, <2>1, MoveHandlerParcels
    <2>2. CASE r.id \notin channels
      BY <1>1, <2>2 DEF HandlerParcels
    <2> QED
      BY <2>1, <2>2
  <1>7. Shrinks
    BY <1>1, <1>2, <1>6 DEF Shrinks, Parcels, MediatorParcels
  <1>8. MediatorsFine' /\ StoreFine' /\ CallersFine'
    BY <1>1, <1>3, MediatorsStay, StoreStays, CallersStay DEF IInv, StoreFine
  <1>9. ParcelsFine'
    BY <1>1, <1>3, <1>7, ParcelsShrink DEF Awaits
  <1>10. CountsFine'
    BY <1>1, <1>2 DEF IInv, CountsFine
  <1>11. ASSUME Quiet' PROVE TokensFine' /\ AllKept'
    <2>1. Quiet /\ replies' = replies \ {r}
      BY <1>1, <1>2, <1>11 DEF Quiet
    <2>2. TokensFine /\ AllKept
      BY <2>1 DEF IInv, QuietFine
    <2>3. t \in Tokens /\ t.id = r.id /\ u.id = t.id
      BY DEF Tokens, Token
    <2>4. r.id \in channels
      <3>1. PICK c \in Callers : callers[c].pc = "wait" /\ callers[c].id = r.id
        BY <2>2, <2>3 DEF TokensFine
      <3> QED
        BY <3>1, CallerIsFine DEF CallerFine
    <2>5. HandlerTokens' \subseteq HandlerTokens \cup {u}
      BY <1>1, <1>4, <2>4, MoveHandlerTokens
    <2>6. Tokens' \subseteq (Tokens \ {t}) \cup {u}
      BY <1>1, <2>1, <2>5 DEF Tokens, HandlerTokens, MediatorTokens, Serves, Token
    <2>7. TokensFine'
      BY <1>1, <2>2, <2>3, <2>6, TokensMove
    <2>8. r \in HandlerParcels'
      BY <1>1, <1>4, <2>4, MoveHandlerParcels
    <2>9. Parcels \subseteq Parcels'
      BY <1>1, <1>2, <1>6, <2>8 DEF Parcels, MediatorParcels
    <2>10. AllKept'
      BY <1>1, <2>2, <2>9 DEF AllKept, Carried
    <2> QED
      BY <2>7, <2>10
  <1>12. BoxStep
    BY <1>5, <1>7, BoxLoses
  <1> QED
    BY <1>5, <1>8, <1>9, <1>10, <1>11, <1>12 DEF IInv, QuietFine

-----------------------------------------------------------------------------
(***************************************************************************)
(* Losses and restarts.                                                     *)
(***************************************************************************)
LEMMA LoseMessageInv ==
    ASSUME IInv, LoseMessage
    PROVE  IInv' /\ BoxStep
  <1>1. /\ requests' \subseteq requests /\ replies' \subseteq replies
        /\ failures' = failures + 1
        /\ UNCHANGED <<inbox, created, added, lock, mediators, channels, callers, handlers,
                       handled, calls, duplicates, crashes, timeouts>>
    BY DEF LoseMessage, Failed, store, agent
  <1>2. Shrinks
    BY <1>1 DEF Shrinks, Parcels, MediatorParcels, HandlerParcels
  <1>3. CountsFine' /\ QuietFine'
    BY <1>1, Disturbed DEF IInv, CountsFine
  <1>4. MediatorsFine' /\ StoreFine' /\ CallersFine' /\ HandlersFine'
    BY <1>1, <1>3, MediatorsStay, StoreStays, CallersStay, HandlersStay
       DEF IInv, StoreFine, CountsFine
  <1>5. ParcelsFine'
    BY <1>1, <1>2, <1>3, ParcelsShrink DEF Awaits, IInv, CountsFine
  <1>6. BoxStep
    BY <1>2, <1>4, BoxLoses
  <1> QED
    BY <1>3, <1>4, <1>5, <1>6 DEF IInv

LEMMA CrashMediatorInv ==
    ASSUME IInv, CrashMediator
    PROVE  IInv' /\ BoxStep
  <1>1. /\ lock' = Nobody /\ mediators' = [w \in Mediators |-> IdleMediator]
        /\ crashes' = crashes + 1
        /\ UNCHANGED <<inbox, created, added, requests, replies, channels, callers, handlers,
                       handled, calls, duplicates, failures, timeouts>>
    BY DEF CrashMediator, Crashed, store, net, agent
  <1>2. IdleMediator \in MediatorType /\ IdleMediator.pc = "idle" /\ IdleMediator.msgs = <<>>
    BY EmptySeq DEF IdleMediator, MediatorType
  <1>3. MediatorsFine'
    BY <1>1, <1>2, NobodyAssumption DEF MediatorsFine, MediatorFine
  <1>4. MediatorParcels' = {}
    BY <1>1, <1>2 DEF MediatorParcels
  <1>5. Shrinks
    BY <1>1, <1>4 DEF Shrinks, Parcels, HandlerParcels
  <1>6. CountsFine' /\ QuietFine'
    BY <1>1, Disturbed DEF IInv, CountsFine
  <1>7. StoreFine' /\ CallersFine' /\ HandlersFine'
    BY <1>1, StoreStays, CallersStay, HandlersStay DEF IInv, StoreFine, CountsFine
  <1>8. ParcelsFine'
    BY <1>1, <1>5, ParcelsShrink DEF Awaits, IInv, CountsFine
  <1>9. BoxStep
    BY <1>5, <1>7, BoxLoses
  <1> QED
    BY <1>3, <1>6, <1>7, <1>8, <1>9 DEF IInv

LEMMA CrashAgentInv ==
    ASSUME IInv, CrashAgent
    PROVE  IInv' /\ BoxStep
  <1>1. /\ channels' = {} /\ callers' = [c \in Callers |-> IdleCaller]
        /\ handlers' = [h \in Handlers |-> IdleHandler] /\ crashes' = crashes + 1
        /\ UNCHANGED <<inbox, created, added, lock, mediators, requests, replies,
                       handled, calls, duplicates, failures, timeouts>>
    BY DEF CrashAgent, Crashed, store, net
  <1>2. /\ IdleCaller \in CallerType /\ IdleCaller.pc = "idle" /\ IdleCaller.msgs = <<>>
        /\ IdleHandler \in HandlerType /\ IdleHandler.pc = "idle" /\ IdleHandler.msgs = <<>>
    BY EmptySeq DEF IdleCaller, CallerType, IdleHandler, HandlerType
  <1>3. \A c \in Callers : callers'[c] = IdleCaller
    BY <1>1
  <1>4. HandlersFine'
    BY <1>1, <1>2 DEF HandlersFine
  <1>5. CallersFine'
    <2>1. \A c \in Callers : CallerFine(c)'
      BY <1>2, <1>3, EmptySeq, EmptyHasNothing DEF CallerFine, Disjoint, NoDup
    <2>2. \A c, d \in Callers : Apart(c, d)'
      BY <1>2, <1>3, EmptyHasNothing DEF Apart, Disjoint
    <2> QED
      BY <1>1, <1>2, <2>1, <2>2 DEF CallersFine
  <1>6. HandlerParcels' = {}
    BY <1>1, <1>2 DEF HandlerParcels
  <1>7. Shrinks
    BY <1>1, <1>2, <1>3, <1>6, EmptyHasNothing DEF Shrinks, Parcels, MediatorParcels
  <1>8. CountsFine' /\ QuietFine'
    BY <1>1, Disturbed DEF IInv, CountsFine
  <1>9. MediatorsFine' /\ StoreFine'
    BY <1>1, MediatorsStay, StoreStays DEF IInv, StoreFine, CountsFine
  <1>10. ParcelsFine'
    BY <1>1, <1>2, <1>3, <1>7, ParcelsShrink DEF Awaits, IInv, CountsFine
  <1>11. BoxStep
    BY <1>4, <1>7, BoxLoses
  <1> QED
    BY <1>4, <1>5, <1>8, <1>9, <1>10, <1>11 DEF IInv

-----------------------------------------------------------------------------
(***************************************************************************)
(* The theorems.                                                            *)
(***************************************************************************)
LEMMA InitInv == Init => IInv /\ Box!Init
  <1> SUFFICES ASSUME Init PROVE IInv /\ Box!Init
    OBVIOUS
  <1> USE DEF Init
  <1>1. /\ IdleMediator \in MediatorType /\ IdleMediator.pc = "idle" /\ IdleMediator.msgs = <<>>
        /\ IdleCaller \in CallerType /\ IdleCaller.pc = "idle" /\ IdleCaller.msgs = <<>>
        /\ IdleHandler \in HandlerType /\ IdleHandler.pc = "idle" /\ IdleHandler.msgs = <<>>
    BY EmptySeq DEF IdleMediator, MediatorType, IdleCaller, CallerType, IdleHandler, HandlerType
  <1>2. MediatorsFine
    BY <1>1, NobodyAssumption DEF MediatorsFine, MediatorFine
  <1>3. StoreFine
    BY EmptySeq, EmptyHasNothing DEF StoreFine, Disjoint
  <1>4. Parcels = {} /\ Tokens = {}
    <2>1. MediatorParcels = {} /\ MediatorTokens = {}
      BY <1>1 DEF MediatorParcels, MediatorTokens, Serves
    <2>2. HandlerParcels = {} /\ HandlerTokens = {}
      BY <1>1 DEF HandlerParcels, HandlerTokens
    <2> QED
      BY <2>1, <2>2 DEF Parcels, Tokens
  <1>5. ParcelsFine
    BY <1>4 DEF ParcelsFine
  <1>6. CallersFine
    <2>1. \A c \in Callers : CallerFine(c)
      <3> TAKE c \in Callers
      <3>1. callers[c].pc = "idle" /\ callers[c].msgs = <<>>
        BY <1>1
      <3>2. <<>> \in Seq(1..added)
        BY EmptySeq
      <3> HIDE DEF Init
      <3> QED
        BY <3>1, <3>2, EmptyHasNothing DEF CallerFine, Disjoint
    <2>2. \A c, d \in Callers : Apart(c, d)
      BY <1>1, EmptyHasNothing DEF Apart, Disjoint
    <2> QED
      BY <1>1, <2>1, <2>2 DEF CallersFine
  <1>7. HandlersFine
    BY <1>1 DEF HandlersFine
  <1>8. CountsFine
    BY DEF CountsFine
  <1>9. QuietFine
    BY <1>4 DEF QuietFine, TokensFine, AllKept
  <1>10. OnTheirWay = {}
    <2>1. ASSUME NEW m PROVE ~Carried(m)
      BY <1>1, <1>4, EmptyHasNothing DEF Carried
    <2> QED
      BY <1>7, <2>1, WayIs
  <1> QED
    BY <1>2, <1>3, <1>5, <1>6, <1>7, <1>8, <1>9, <1>10 DEF IInv, Box!Init

LEMMA NextInv == IInv /\ [Next]_vars => IInv' /\ BoxStep
  <1> SUFFICES ASSUME IInv, [Next]_vars PROVE IInv' /\ BoxStep
    OBVIOUS
  <1>1. CASE \E w \in Mediators : AddMessage(w) \/ Mediator(w) \/ FailMediator(w)
    BY <1>1, AddMessageInv, EnterInv, PutMessageInv, PutRestInv, SendReplyInv, FailMediatorInv
       DEF Mediator
  <1>2. CASE \E w \in Mediators : \E r \in requests : HandleRequest(w, r)
    BY <1>2, HandleRequestInv
  <1>3. CASE \E c \in Callers : \E kind \in Kinds : Call(c, kind)
    BY <1>3, CallInv
  <1>4. CASE \E c \in Callers : Caller(c) \/ Answer(c) \/ Timeout(c) \/ FailCaller(c)
    BY <1>4, SendRequestInv, HandleMessageInv, LeaveInv, TakeAnswerInv, TimeoutInv, FailCallerInv
       DEF Caller, Answer
  <1>5. CASE \E h \in Handlers, r \in replies : HandleReply(h, r)
    BY <1>5, HandleReplyInv
  <1>6. CASE LoseMessage \/ CrashMediator \/ CrashAgent
    BY <1>6, LoseMessageInv, CrashMediatorInv, CrashAgentInv
  <1>7. CASE UNCHANGED vars
    <2>1. UNCHANGED <<inbox, created, added, lock, mediators, requests, replies>>
      BY <1>7 DEF vars, store, net
    <2>2. UNCHANGED <<channels, callers, handlers, handled>>
      BY <1>7 DEF vars, agent
    <2>3. UNCHANGED <<calls, duplicates, failures, crashes, timeouts>>
      BY <1>7 DEF vars, counts
    <2>4. Parcels' = Parcels /\ Tokens' = Tokens
      BY <2>1, <2>2 DEF Parcels, MediatorParcels, HandlerParcels, Tokens, MediatorTokens,
         HandlerTokens, Serves
    <2>5. Shrinks
      BY <2>1, <2>2, <2>4 DEF Shrinks
    <2>6. calls \in Nat
      BY DEF IInv, CountsFine
    <2>7. MediatorsFine' /\ StoreFine' /\ CallersFine' /\ HandlersFine'
      BY <2>1, <2>2, <2>3, <2>6, MediatorsStay, StoreStays, CallersStay, HandlersStay
         DEF IInv, StoreFine
    <2>8. ParcelsFine'
      BY <2>2, <2>3, <2>5, <2>6, ParcelsShrink DEF Awaits
    <2>9. CountsFine'
      BY <2>1, <2>3 DEF IInv, CountsFine
    <2>10. QuietFine'
      <3>1. Quiet' => TokensFine'
        BY <2>2, <2>3, <2>4 DEF Quiet, IInv, QuietFine, TokensFine
      <3>2. Quiet' => Quiet
        BY <2>3 DEF Quiet
      <3> QED
        BY <2>2, <2>4, <2>5, <3>1, <3>2, KeepsQuiet
    <2> QED
      BY <2>5, <2>7, <2>8, <2>9, <2>10, BoxLoses DEF IInv
  <1> QED
    BY <1>1, <1>2, <1>3, <1>4, <1>5, <1>6, <1>7, Zenon DEF Next

LEMMA Invariance == Spec => []IInv
  BY InitInv, NextInv, PTL DEF Spec

\* What a goroutine holds is in the inbox, or is the message it adds, or is a parcel.
LEMMA InvTypes == IInv => TypeOK
  <1> SUFFICES ASSUME IInv PROVE TypeOK
    OBVIOUS
  <1>1. /\ created \in BOOLEAN /\ added \in Nat /\ inbox \in Seq(1..added)
        /\ handled \in Seq(1..added)
    BY DEF IInv, StoreFine
  <1>2. ASSUME NEW s \in Seq(1..added) PROVE s \in Messages
    BY <1>1, NewIsFresh DEF Messages
  <1>3. ASSUME NEW p \in Parcels PROVE p \in [id : Nat, msgs : Messages]
    <2>1. p \in [id : 1..calls, msgs : Seq(1..added)] /\ calls \in Nat
      BY DEF IInv, ParcelsFine, ParcelFine, CountsFine
    <2> QED
      BY <1>2, <2>1
  <1>4. ASSUME NEW w \in Mediators PROVE mediators[w].msgs \in Messages
    <2>1. mediators[w] \in MediatorType /\ MediatorFine(w)
      BY MediatorIsFine
    <2>2. CASE mediators[w].pc \in {"idle", "lock"}
      BY <2>1, <2>2, EmptySeq DEF MediatorFine, Messages
    <2>3. CASE mediators[w].pc = "put"
      <3>1. inbox \in Messages /\ added + 1 \in 1..added + 1
        BY <1>1, <1>2
      <3>2. Append(inbox, added + 1) \in Messages
        BY <3>1, AppendAdds DEF Messages
      <3> QED
        BY <2>1, <2>3, <3>1, <3>2 DEF MediatorFine
    <2>4. CASE mediators[w].pc = "send"
      <3>1. Parcel(mediators[w]) \in Parcels
        BY <2>4 DEF Parcels, MediatorParcels
      <3> QED
        BY <1>3, <3>1 DEF Parcel
    <2> QED
      BY <2>1, <2>2, <2>3, <2>4 DEF MediatorType
  <1>5. ASSUME NEW h \in Handlers PROVE handlers[h].msgs \in Messages
    <2>1. CASE handlers[h].pc = "idle"
      BY <2>1, EmptySeq DEF IInv, HandlersFine, Messages
    <2>2. CASE handlers[h].pc = "answer"
      <3>1. Parcel(handlers[h]) \in Parcels
        BY <2>2 DEF Parcels, HandlerParcels
      <3> QED
        BY <1>3, <3>1 DEF Parcel
    <2> QED
      BY <2>1, <2>2 DEF IInv, HandlersFine, HandlerType
  <1>6. ASSUME NEW c \in Callers PROVE callers[c].msgs \in Messages
    BY <1>2, CallerIsFine DEF CallerFine
  <1>7. mediators \in [Mediators -> [pc : {"idle", "lock", "put", "send"},
                                    kind : Kinds \cup {"none", "add"}, id : Nat, msgs : Messages]]
    BY <1>4 DEF IInv, MediatorsFine, MediatorType
  <1>8. callers \in [Callers -> [pc : {"idle", "send", "wait", "handle", "leave"},
                                kind : Kinds \cup {"none"}, id : Nat, msgs : Messages]]
    BY <1>6 DEF IInv, CallersFine, CallerType
  <1>9. handlers \in [Handlers -> [pc : {"idle", "answer"}, id : Nat, msgs : Messages]]
    BY <1>5 DEF IInv, HandlersFine, HandlerType
  <1>10. /\ lock \in Mediators \cup {Nobody}
         /\ \A w \in Mediators : mediators[w].pc \in {"put", "send"} <=> lock = w
    BY DEF IInv, MediatorsFine, MediatorFine
  <1>11. replies \subseteq [id : Nat, msgs : Messages]
    BY <1>3 DEF Parcels
  <1>12. /\ calls \in Nat /\ duplicates \in Nat /\ failures \in Nat /\ crashes \in Nat
         /\ timeouts \in Nat /\ requests \subseteq [id : Nat, kind : Kinds] /\ channels \subseteq Nat
    <2>1. requests \subseteq [id : 1..calls, kind : Kinds] /\ calls \in Nat
      BY DEF IInv, CountsFine
    <2>2. requests \subseteq [id : Nat, kind : Kinds]
      BY <2>1
    <2> QED
      BY <2>2 DEF IInv, CountsFine, CallersFine
  <1>13. inbox \in Messages /\ handled \in Messages
    BY <1>1, <1>2
  <1> QED
    BY <1>1, <1>7, <1>8, <1>9, <1>10, <1>11, <1>12, <1>13 DEF TypeOK

\* The variables keep their types, and a goroutine of the mediator is past the lock
\* exactly when it holds it: the lock is never held twice and never forgotten.
THEOREM TypeCorrect == Spec => []TypeOK
  BY Invariance, InvTypes, PTL

LEMMA InvKeepsAll == IInv => NothingIsLost
  <1> SUFFICES ASSUME IInv, duplicates + failures + crashes + timeouts = 0
               PROVE  1..added \subseteq ToSet(inbox) \cup OnTheirWay \cup ToSet(handled)
    BY DEF NothingIsLost
  <1>1. Quiet
    BY DEF Quiet, IInv, CountsFine
  <1>2. AllKept
    BY <1>1 DEF IInv, QuietFine
  <1>3. ASSUME NEW m \in 1..added
        PROVE  m \in ToSet(inbox) \cup OnTheirWay \cup ToSet(handled)
    BY <1>2, WayIs DEF AllKept, IInv
  <1> QED
    BY <1>3

\* A message the mediator stored is in the inbox, on its way or handled, unless something
\* was repeated, lost, late, failed or restarted: a put never overwrites another's message,
\* and an answer always finds the channel of its call.
THEOREM NoMessageIsLost == Spec => []NothingIsLost
  BY Invariance, InvKeepsAll, PTL

\* Whatever is repeated, lost, late, failing or restarted, each step of the service is a
\* step of a Mailbox: what is put in comes out in that order and is handled at most once.
THEOREM PickupIsAMailbox == Spec => ImplementsMailbox
  <1>1. Init => Box!Init
    BY InitInv
  <1>2. IInv /\ [Next]_vars => [Box!Next]_(Box!vars)
    BY NextInv DEF BoxStep
  <1> QED
    BY <1>1, <1>2, Invariance, PTL DEF Spec, ImplementsMailbox, Box!Spec

-----------------------------------------------------------------------------
(***************************************************************************)
(* What follows from the promise of a Mailbox alone.                         *)
(***************************************************************************)
\* A message is in one place: in the inbox, on its way or handled.
Placed ==
    /\ added \in Nat /\ OnTheirWay \subseteq 1..added
    /\ inbox \in Seq(1..added) /\ handled \in Seq(1..added)
    /\ ToSet(inbox) \cap (OnTheirWay \cup ToSet(handled)) = {}
    /\ OnTheirWay \cap ToSet(handled) = {}
    /\ NoDup(inbox) /\ NoDup(handled)

BoxInv == Placed /\ Box!InOrder

LEMMA Wider ==
    ASSUME added \in Nat, NEW s \in Seq(1..added)
    PROVE  s \in Seq(1..added + 1) /\ added + 1 \notin ToSet(s)
  <1>1. 1..added \subseteq 1..added + 1 /\ added + 1 \notin 1..added
    OBVIOUS
  <1>2. ToSet(s) \subseteq 1..added
    BY ToSetDef
  <1> QED
    BY <1>1, <1>2, SeqMonotonic

LEMMA BoxStarts == Box!Init => BoxInv
  BY EmptySeq, EmptyHasNothing DEF Box!Init, BoxInv, Placed, Box!InOrder

LEMMA PutInBox ==
    ASSUME BoxInv, Box!Put
    PROVE  BoxInv'
  <1>1. /\ added' = added + 1 /\ inbox' = Append(inbox, added + 1)
        /\ OnTheirWay' = OnTheirWay /\ handled' = handled
    BY DEF Box!Put
  <1>2. /\ added \in Nat /\ OnTheirWay \subseteq 1..added
        /\ inbox \in Seq(1..added) /\ handled \in Seq(1..added)
        /\ NoDup(inbox) /\ NoDup(handled)
    BY DEF BoxInv, Placed
  <1>3. /\ inbox \in Seq(1..added + 1) /\ handled \in Seq(1..added + 1)
        /\ added + 1 \notin ToSet(inbox) \cup ToSet(handled) \cup OnTheirWay
        /\ added + 1 \in 1..added + 1
    BY <1>2, Wider
  <1>4. /\ inbox' \in Seq(1..added + 1) /\ NoDup(inbox')
        /\ ToSet(inbox') = ToSet(inbox) \cup {added + 1}
    BY <1>1, <1>2, <1>3, AppendAdds
  <1>5. Placed'
    <2>1. added' \in Nat /\ OnTheirWay' \subseteq 1..added'
      BY <1>1, <1>2
    <2>2. /\ ToSet(inbox') \cap (OnTheirWay' \cup ToSet(handled')) = {}
          /\ OnTheirWay' \cap ToSet(handled') = {}
      BY <1>1, <1>3, <1>4 DEF BoxInv, Placed
    <2>3. NoDup(inbox)' /\ NoDup(handled)'
      BY <1>1, <1>2, <1>4 DEF NoDup
    <2> QED
      BY <1>1, <1>3, <1>4, <2>1, <2>2, <2>3 DEF Placed
  <1>6. Box!InOrder'
    <2>1. /\ Len(inbox) \in Nat /\ Len(inbox') = Len(inbox) + 1
          /\ \A i \in 1..Len(inbox) : inbox'[i] = inbox[i] /\ inbox[i] \in 1..added
          /\ inbox'[Len(inbox) + 1] = added + 1
      BY <1>1, <1>2, LenProperties, ElementOfSeq
    <2>2. ASSUME NEW i \in 1..Len(inbox'), NEW j \in 1..Len(inbox'), i < j
          PROVE  inbox'[i] < inbox'[j]
      <3>1. i \in 1..Len(inbox) /\ inbox'[i] = inbox[i] /\ inbox[i] \in 1..added
        BY <2>1, <2>2
      <3>2. CASE j \in 1..Len(inbox)
        BY <2>1, <2>2, <3>1, <3>2 DEF BoxInv, Box!InOrder
      <3>3. CASE j = Len(inbox) + 1
        BY <1>2, <2>1, <3>1, <3>3
      <3> QED
        BY <2>1, <3>2, <3>3
    <2> QED
      BY <2>2 DEF Box!InOrder
  <1> QED
    BY <1>5, <1>6 DEF BoxInv

LEMMA TakeFromBox ==
    ASSUME BoxInv, Box!Take
    PROVE  BoxInv'
  <1>1. PICK n \in 1..Len(inbox) :
             /\ inbox' = SubSeq(inbox, n + 1, Len(inbox))
             /\ OnTheirWay' = OnTheirWay \cup {inbox[i] : i \in 1..n}
             /\ added' = added /\ handled' = handled
    BY DEF Box!Take
  <1>2. PICK front : front = SubSeq(inbox, 1, n)
    OBVIOUS
  <1>3. Cut(inbox, n, front, inbox')
    BY <1>1, <1>2 DEF Cut
  <1>4. /\ inbox \in Seq(1..added) /\ Len(inbox) \in Nat /\ n \in 0..Len(inbox)
        /\ NoDup(inbox)
    BY LenProperties DEF BoxInv, Placed
  <1>5. /\ front \in Seq(1..added) /\ inbox' \in Seq(1..added)
        /\ ToSet(front) = {inbox[i] : i \in 1..n}
        /\ ToSet(inbox) = ToSet(front) \cup ToSet(inbox')
        /\ NoDup(inbox') /\ Disjoint(front, inbox')
    BY <1>3, <1>4, CutParts
  <1>6. ToSet(front) \subseteq 1..added
    BY <1>5, ToSetDef
  <1>7. Placed'
    <2>1. OnTheirWay' \subseteq 1..added'
      BY <1>1, <1>5, <1>6 DEF BoxInv, Placed
    <2>2. ToSet(inbox') \cap (OnTheirWay' \cup ToSet(handled')) = {}
      BY <1>1, <1>5 DEF BoxInv, Placed, Disjoint
    <2>3. OnTheirWay' \cap ToSet(handled') = {}
      BY <1>1, <1>5 DEF BoxInv, Placed
    <2>4. NoDup(inbox)' /\ NoDup(handled)'
      BY <1>1, <1>5 DEF BoxInv, Placed, NoDup
    <2> QED
      BY <1>1, <1>5, <2>1, <2>2, <2>3, <2>4 DEF BoxInv, Placed
  <1>8. Box!InOrder'
    <2>1. Len(inbox') = Len(inbox) - n /\ \A i \in 1..Len(inbox') : inbox'[i] = inbox[n + i]
      <3>1. \A i \in 1..Len(inbox) : inbox[i] \in 1..added
        BY <1>4, ElementOfSeq
      <3>2. /\ Len(SubSeq(inbox, n + 1, Len(inbox))) = Len(inbox) - n
            /\ \A i \in 1..Len(inbox) - n : SubSeq(inbox, n + 1, Len(inbox))[i] = inbox[n + i]
        BY <1>4, <3>1, SubSeqProperties
      <3> QED
        BY <1>1, <3>2
    <2>2. ASSUME NEW i \in 1..Len(inbox'), NEW j \in 1..Len(inbox'), i < j
          PROVE  inbox'[i] < inbox'[j]
      <3>1. n + i \in 1..Len(inbox) /\ n + j \in 1..Len(inbox) /\ n + i < n + j
        BY <1>4, <2>1, <2>2
      <3>2. inbox[n + i] < inbox[n + j]
        BY <3>1 DEF Box!InOrder, BoxInv
      <3> QED
        BY <2>1, <3>2
    <2> QED
      BY <2>2 DEF Box!InOrder
  <1> QED
    BY <1>7, <1>8 DEF BoxInv

LEMMA HandleOfBox ==
    ASSUME BoxInv, Box!Handle
    PROVE  BoxInv'
  <1>1. PICK m \in OnTheirWay :
             /\ handled' = Append(handled, m) /\ OnTheirWay' = OnTheirWay \ {m}
             /\ inbox' = inbox /\ added' = added
    BY DEF Box!Handle
  <1>2. m \in 1..added /\ m \notin ToSet(handled) /\ m \notin ToSet(inbox)
    BY DEF BoxInv, Placed
  <1>3. /\ handled' \in Seq(1..added) /\ NoDup(handled')
        /\ ToSet(handled') = ToSet(handled) \cup {m}
    <2>1. handled \in Seq(1..added) /\ NoDup(handled)
      BY DEF BoxInv, Placed
    <2>2. ASSUME NEW S, m \in S, handled \in Seq(S)
          PROVE  /\ Append(handled, m) \in Seq(S) /\ NoDup(Append(handled, m))
                 /\ ToSet(Append(handled, m)) = ToSet(handled) \cup {m}
      BY <1>2, <2>1, <2>2, AppendAdds
    <2> QED
      BY <1>1, <1>2, <2>1, <2>2, Zenon
  <1>4. Placed'
    <2>1. NoDup(inbox)' /\ NoDup(handled)'
      BY <1>1, <1>3 DEF BoxInv, Placed, NoDup
    <2>2. /\ ToSet(inbox') \cap (OnTheirWay' \cup ToSet(handled')) = {}
          /\ OnTheirWay' \cap ToSet(handled') = {}
      BY <1>1, <1>2, <1>3 DEF BoxInv, Placed
    <2> QED
      BY <1>1, <1>3, <2>1, <2>2 DEF BoxInv, Placed
  <1> QED
    BY <1>1, <1>4 DEF BoxInv, Box!InOrder

LEMMA BoxGoesOn == BoxInv /\ [Box!Next]_(Box!vars) => BoxInv'
  <1> SUFFICES ASSUME BoxInv, [Box!Next]_(Box!vars) PROVE BoxInv'
    OBVIOUS
  <1>1. CASE Box!Lose
    BY <1>1 DEF Box!Lose, BoxInv, Placed, Box!InOrder, NoDup
  <1>2. CASE UNCHANGED Box!vars
    BY <1>2 DEF Box!vars, BoxInv, Placed, Box!InOrder, NoDup
  <1> QED
    BY <1>1, <1>2, PutInBox, TakeFromBox, HandleOfBox DEF Box!Next

\* Whatever is lost of what is taken, a mailbox keeps its messages in the order they came
\* and none is handled twice.
THEOREM MailboxPromise == Box!Spec => [](Box!InOrder /\ Box!HandledOnce)
  <1>1. BoxInv => Box!InOrder /\ Box!HandledOnce
    BY DEF BoxInv, Placed, NoDup, Box!HandledOnce
  <1> QED
    BY <1>1, BoxStarts, BoxGoesOn, PTL DEF Box!Spec

\* So messages stay in the order they came, and none is handled twice.
THEOREM HandledAtMostOnce == Spec => [](Box!InOrder /\ Box!HandledOnce)
  BY MailboxPromise, PickupIsAMailbox DEF ImplementsMailbox
=============================================================================
