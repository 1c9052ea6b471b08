---------------------------- MODULE MediatorProofs ----------------------------
(***************************************************************************)
(* What holds of route coordination for any number of calls, goroutines,     *)
(* messages, outages, failures, repetitions and restarts.                    *)
(***************************************************************************)
EXTENDS Mediator, SequenceLemmas, TLAPS

-----------------------------------------------------------------------------
(***************************************************************************)
(* The inductive invariant follows a consent of the mediator's client on its *)
(* way to the agent's configuration (GrantsFine), and an added key on its     *)
(* way to the address that is handed out (RoutesFine, HandlersFine).          *)
(***************************************************************************)
CallerType  == [pc : {"idle", "check", "request", "await", "saveConfig", "saveID", "delete",
                      "config", "update", "wait"},
                kind : {"none", "register", "unregister", "publish"}, id : Nat, via : BOOLEAN]
HandlerType == [pc : {"idle", "answer"}, id : Nat, ok : BOOLEAN]
WorkerType  == [pc : {"idle", "put", "respond", "route", "forward", "queue"},
                id : Nat, msg : Nat, ok : BOOLEAN]

\* What the caller has found is still so, unless the agent has left its router since.
CallerFine(c) ==
    /\ callers[c].id \in Ids \cup {0}
    /\ callers[c].pc # "idle" => callers[c].id \in Ids
    /\ callers[c].pc \in {"update", "wait"} => callers[c].id \in channels
    /\ callers[c].pc = "saveConfig" => callers[c].id \in granted
    /\ callers[c].pc = "saveID" => config # 0
    /\ callers[c].kind = "unregister" => unregisters > 0
    /\ callers[c].pc = "delete" => callers[c].kind = "unregister"
    /\ callers[c].via => registered \/ unregisters > 0

Apart(c, d) == callers[c].pc # "idle" /\ callers[d].pc # "idle" => callers[c].id # callers[d].id

CallersFine ==
    /\ callers \in [Callers -> CallerType]
    /\ \A c \in Callers : CallerFine(c)
    /\ \A c, d \in Callers : c # d => Apart(c, d)
    /\ channels \subseteq Ids

HandlerFine(h) ==
    /\ handlers[h].id \in Ids \cup {0}
    /\ handlers[h].pc = "answer" /\ handlers[h].ok => handlers[h].id \in routes

HandlersFine == handlers \in [Handlers -> HandlerType] /\ \A h \in Handlers : HandlerFine(h)

\* A success is reported of a key that the mediator has.
ReportFine(w) == workers[w].pc = "respond" /\ workers[w].ok => workers[w].id \in routes

WorkerFine(w) ==
    /\ workers[w].id \in Ids \cup {0} /\ workers[w].msg \in 0..sent
    /\ workers[w].pc # "idle" => workers[w].id \in Ids
    /\ ReportFine(w)
    /\ workers[w].pc \in {"route", "forward", "queue"} => workers[w].msg \in 1..sent

WorkersFine == workers \in [Workers -> WorkerType] /\ \A w \in Workers : WorkerFine(w)

GrantsFine ==
    /\ granted \subseteq Ids /\ requests \subseteq Ids /\ events \subseteq Ids
    /\ callbacks \subseteq [id : Ids, ok : BOOLEAN]
    /\ \A cb \in callbacks : cb.ok => cb.id \in granted
    /\ listener \in granted \cup {0}
    /\ replies \subseteq granted /\ grants \subseteq granted
    /\ config \in granted \cup {0}
    /\ registered \in BOOLEAN /\ (registered => config # 0)

RoutesFine ==
    /\ routes \subseteq Ids /\ published \subseteq Ids /\ updates \subseteq Ids
    /\ responses \subseteq [id : Ids, ok : BOOLEAN]
    /\ \A r \in responses : r.ok => r.id \in routes
    /\ unregisters = 0 => published \subseteq routes

MessagesFine ==
    /\ sent \in Nat /\ added \in Nat
    /\ queued \in [1..added -> 1..sent]
    /\ forwards \subseteq [msg : 1..sent, key : Ids]
    /\ delivered \subseteq 1..sent

CountsFine == /\ calls \in Nat /\ unregisters \in Nat /\ outages \in Nat
              /\ duplicates \in Nat /\ troubles \in Nat

IInv == /\ CallersFine /\ HandlersFine /\ WorkersFine
        /\ GrantsFine /\ RoutesFine /\ MessagesFine /\ CountsFine

\* What no step takes back.
Grows ==
    /\ calls' \in Nat /\ calls <= calls'
    /\ unregisters' \in Nat /\ unregisters <= unregisters'
    /\ granted \subseteq granted' /\ routes \subseteq routes'
    /\ sent' \in Nat /\ sent <= sent'
    /\ config # 0 => config' # 0
    /\ registered => registered' \/ unregisters' > 0

-----------------------------------------------------------------------------
(***************************************************************************)
(* The parts of the invariant that a step leaves alone, or in which it moves *)
(* one goroutine.                                                            *)
(***************************************************************************)
\* What held of a caller still does.
LEMMA CallerStays ==
    ASSUME IInv, Grows, NEW c \in Callers, callers'[c] = callers[c],
           callers[c].pc \in {"update", "wait"} /\ callers[c].id \in channels
           => callers[c].id \in channels'
    PROVE  CallerFine(c)'
  <1>1. Ids \subseteq Ids' /\ (unregisters > 0 => unregisters' > 0)
    BY DEF Grows, IInv, CountsFine, Ids
  <1>2. CallerFine(c)
    BY DEF IInv, CallersFine
  <1>3. callers[c].via => registered' \/ unregisters' > 0
    BY <1>1, <1>2, Zenon DEF CallerFine, Grows
  <1> QED
    BY <1>1, <1>2, <1>3 DEF CallerFine, Grows

\* No caller moves.
LEMMA CallersStay ==
    ASSUME IInv, Grows, UNCHANGED <<callers, channels>>
    PROVE  CallersFine'
  <1>1. channels' \subseteq Ids'
    BY DEF Grows, IInv, CallersFine, CountsFine, Ids
  <1> QED
    BY <1>1, CallerStays DEF CallersFine, IInv, Apart

\* One caller moves; it goes on with its own id, or begins with a new one.
LEMMA MoveCaller ==
    ASSUME IInv, Grows, NEW c \in Callers, NEW x \in CallerType,
           callers' = [callers EXCEPT ![c] = x], CallerFine(c)',
           \/ x.pc = "idle"
           \/ callers[c].pc # "idle" /\ x.id = callers[c].id
           \/ x.id = calls + 1,
           \A d \in Callers \ {c} : callers[d].pc \in {"update", "wait"}
               /\ callers[d].id \in channels => callers[d].id \in channels',
           channels' \subseteq Ids'
    PROVE  CallersFine'
  <1>1. callers' \in [Callers -> CallerType]
    BY DEF IInv, CallersFine
  <1>2. callers'[c] = x /\ \A d \in Callers \ {c} : callers'[d] = callers[d]
    BY DEF IInv, CallersFine
  <1>3. \A d \in Callers : CallerFine(d)'
    BY <1>2, CallerStays
  <1>4. \A d \in Callers : callers[d].id \in 0..calls /\ calls \in Nat
    BY DEF IInv, CallersFine, CallerFine, CountsFine, Ids
  <1>5. \A d \in Callers \ {c} : Apart(c, d)' /\ Apart(d, c)'
    BY <1>2, <1>4 DEF IInv, CallersFine, Apart
  <1>6. \A d, e \in Callers : d # e => Apart(d, e)'
    BY <1>2, <1>5 DEF IInv, CallersFine, Apart
  <1> QED
    BY <1>1, <1>3, <1>6 DEF CallersFine

LEMMA HandlerStays ==
    ASSUME IInv, Grows, NEW h \in Handlers, handlers'[h] = handlers[h]
    PROVE  HandlerFine(h)'
  <1>1. Ids \subseteq Ids' /\ HandlerFine(h)
    BY DEF Grows, IInv, CountsFine, HandlersFine, Ids
  <1> QED
    BY <1>1 DEF HandlerFine, Grows

LEMMA HandlersStay ==
    ASSUME IInv, Grows, UNCHANGED handlers
    PROVE  HandlersFine'
  BY HandlerStays DEF IInv, HandlersFine

LEMMA MoveHandler ==
    ASSUME IInv, Grows, NEW h \in Handlers, NEW x \in HandlerType,
           handlers' = [handlers EXCEPT ![h] = x], HandlerFine(h)'
    PROVE  HandlersFine'
  <1>1. \A g \in Handlers \ {h} : handlers'[g] = handlers[g]
    BY DEF IInv, HandlersFine
  <1>2. \A g \in Handlers : HandlerFine(g)'
    BY <1>1, HandlerStays
  <1> QED
    BY <1>2 DEF IInv, HandlersFine

LEMMA WorkerStays ==
    ASSUME IInv, Grows, NEW w \in Workers, workers'[w] = workers[w]
    PROVE  WorkerFine(w)'
  <1>1. Ids \subseteq Ids' /\ 0..sent \subseteq 0..sent' /\ 1..sent \subseteq 1..sent'
    BY DEF Grows, IInv, CountsFine, MessagesFine, Ids
  <1>2. WorkerFine(w)
    BY DEF IInv, WorkersFine
  <1> QED
    BY <1>1, <1>2 DEF WorkerFine, ReportFine, Grows

LEMMA WorkersStay ==
    ASSUME IInv, Grows, UNCHANGED workers
    PROVE  WorkersFine'
  BY WorkerStays DEF IInv, WorkersFine

LEMMA MoveWorker ==
    ASSUME IInv, Grows, NEW w \in Workers, NEW x \in WorkerType,
           workers' = [workers EXCEPT ![w] = x], WorkerFine(w)'
    PROVE  WorkersFine'
  <1>1. \A v \in Workers \ {w} : workers'[v] = workers[v]
    BY DEF IInv, WorkersFine
  <1>2. \A v \in Workers : WorkerFine(v)'
    BY <1>1, WorkerStays
  <1> QED
    BY <1>2 DEF IInv, WorkersFine

LEMMA GrantsStay ==
    ASSUME IInv, UNCHANGED <<calls, granted, requests, events, callbacks, listener, replies,
                             routeStore>>
    PROVE  GrantsFine'
  BY DEF IInv, GrantsFine, routeStore, Ids

LEMMA RoutesStay ==
    ASSUME IInv, UNCHANGED <<calls, unregisters, routes, published, updates, responses>>
    PROVE  RoutesFine'
  BY DEF IInv, RoutesFine, Ids

LEMMA MessagesStay ==
    ASSUME IInv, UNCHANGED <<calls, sent, added, queued, forwards, delivered>>
    PROVE  MessagesFine'
  BY DEF IInv, MessagesFine, Ids

LEMMA NothingGrows ==
    ASSUME IInv, UNCHANGED <<calls, unregisters, granted, routes, sent, config, registered>>
    PROVE  Grows
  BY DEF IInv, CountsFine, MessagesFine, Grows

LEMMA CallerIsFine ==
    ASSUME IInv, NEW c \in Callers
    PROVE  callers[c] \in CallerType /\ CallerFine(c) /\ callers[c].id \in Nat
  BY DEF IInv, CallersFine, CallerType

\* A caller goes on to p, for which it has what p needs.
LEMMA GotoCaller ==
    ASSUME IInv, Grows, NEW c \in Callers,
           NEW p \in {"check", "request", "await", "saveConfig", "saveID", "delete", "update",
                      "wait"},
           callers[c].pc # "idle", Goto(c, p),
           channels \subseteq channels', channels' \subseteq Ids',
           p \in {"update", "wait"} => callers[c].id \in channels',
           p = "saveConfig" => callers[c].id \in granted',
           p = "saveID" => config' # 0,
           p = "delete" => callers[c].kind = "unregister"
    PROVE  CallersFine'
  <1> DEFINE x == [callers[c] EXCEPT !.pc = p]
  <1>1. x \in CallerType /\ x.pc = p /\ x.id = callers[c].id /\ x.kind = callers[c].kind
    BY CallerIsFine DEF CallerType
  <1>2. callers' = [callers EXCEPT ![c] = x] /\ callers'[c] = x
    BY DEF Goto, Become, IInv, CallersFine
  <1>3. x.via => registered' \/ unregisters' > 0
    <2>1. x.via = callers[c].via
      BY CallerIsFine DEF CallerType
    <2>2. unregisters > 0 => unregisters' > 0
      BY DEF Grows, IInv, CountsFine
    <2> QED
      BY <2>1, <2>2, CallerIsFine, Zenon DEF CallerFine, Grows
  <1>4. Ids \subseteq Ids' /\ (unregisters > 0 => unregisters' > 0)
    BY DEF Grows, IInv, CountsFine, Ids
  <1>5. CallerFine(c)'
    BY <1>1, <1>2, <1>3, <1>4, CallerIsFine DEF CallerFine
  <1> QED
    BY <1>1, <1>2, <1>5, MoveCaller

\* A caller returns; a channel may go with it.
LEMMA ReturnCaller ==
    ASSUME IInv, Grows, NEW c \in Callers, Return(c),
           channels' \subseteq channels, channels \ {callers[c].id} \subseteq channels',
           callers[c].pc # "idle" \/ channels' = channels
    PROVE  CallersFine'
  <1>1. IdleCaller \in CallerType
    BY DEF IdleCaller, CallerType
  <1>2. callers' = [callers EXCEPT ![c] = IdleCaller] /\ callers'[c] = IdleCaller
    BY DEF Return, Become, IInv, CallersFine
  <1>3. CallerFine(c)'
    BY <1>2 DEF CallerFine, IdleCaller
  <1>4. channels' \subseteq Ids'
    BY DEF Grows, IInv, CallersFine, CountsFine, Ids
  <1>5. ASSUME NEW d \in Callers \ {c}, callers[d].pc \in {"update", "wait"},
               callers[d].id \in channels
        PROVE  callers[d].id \in channels'
    BY <1>5 DEF IInv, CallersFine, Apart
  <1> QED
    BY <1>1, <1>2, <1>3, <1>4, <1>5, MoveCaller DEF IdleCaller

-----------------------------------------------------------------------------
(***************************************************************************)
(* The steps of the agent.                                                  *)
(***************************************************************************)
LEMMA CallInv ==
    ASSUME IInv, NEW c \in Callers, NEW kind \in {"register", "unregister", "publish"},
           Call(c, kind)
    PROVE  IInv'
  <1> DEFINE x == [pc |-> IF kind = "publish" THEN "config" ELSE "check",
                   kind |-> kind, id |-> calls', via |-> FALSE]
  <1>1. /\ calls \in Nat /\ unregisters \in Nat /\ calls' = calls + 1
        /\ unregisters' = IF kind = "unregister" THEN unregisters + 1 ELSE unregisters
        /\ UNCHANGED <<routeStore, channels, handlers, routes, mailbox, client, workers, net,
                       facts, outages, duplicates, troubles>>
    BY DEF Call, IInv, CountsFine
  <1>2. Grows /\ Ids \subseteq Ids' /\ calls' \in Ids'
    BY <1>1 DEF Grows, routeStore, facts, IInv, MessagesFine, Ids
  <1>3. x \in CallerType
    BY <1>1 DEF CallerType
  <1>4. callers' = [callers EXCEPT ![c] = x] /\ callers'[c] = x
    BY DEF Call, Become, IInv, CallersFine
  <1>5. CallerFine(c)'
    BY <1>1, <1>2, <1>4 DEF CallerFine
  <1>6. CallersFine'
    <2>1. x.id = calls + 1 /\ channels' = channels /\ channels' \subseteq Ids'
      BY <1>1, <1>2 DEF IInv, CallersFine
    <2> QED
      BY <1>2, <1>3, <1>4, <1>5, <2>1, MoveCaller
  <1>7. GrantsFine'
    BY <1>1, <1>2 DEF IInv, GrantsFine, routeStore, client, net, facts
  <1>8. RoutesFine'
    <2>1. UNCHANGED <<routes, published, updates, responses>>
      BY <1>1 DEF net, facts
    <2>2. unregisters' = 0 => unregisters = 0
      BY <1>1
    <2> QED
      BY <1>2, <2>1, <2>2 DEF IInv, RoutesFine
  <1>9. MessagesFine'
    BY <1>1, <1>2 DEF IInv, MessagesFine, mailbox, net, facts
  <1>10. CountsFine'
    BY <1>1 DEF IInv, CountsFine
  <1> QED
    BY <1>1, <1>2, <1>6, <1>7, <1>8, <1>9, <1>10, HandlersStay, WorkersStay DEF IInv

\* Steps that move a caller and nothing else.
OnlyCaller == UNCHANGED <<routeStore, channels, handlers, routes, mailbox, client, workers, net,
                          facts, counts>>

LEMMA OnlyCallerInv ==
    ASSUME IInv, OnlyCaller, CallersFine'
    PROVE  IInv'
  <1>1. UNCHANGED <<grants, config, registered, channels, handlers, routes, added, queued,
                    events, callbacks, listener, workers, requests, replies, updates,
                    responses, forwards, granted, published, sent, delivered,
                    calls, unregisters, outages, duplicates, troubles>>
    BY DEF OnlyCaller, routeStore, mailbox, client, net, facts, counts
  <1>2. CountsFine'
    BY <1>1 DEF IInv, CountsFine
  <1> QED
    BY <1>1, <1>2, NothingGrows, HandlersStay, WorkersStay, GrantsStay, RoutesStay,
       MessagesStay DEF IInv, routeStore

LEMMA OnlyCallerGrows ==
    ASSUME IInv, OnlyCaller
    PROVE  Grows /\ channels' = channels /\ channels' \subseteq Ids'
  <1>1. UNCHANGED <<channels, calls, unregisters, granted, routes, sent, config, registered>>
    BY DEF OnlyCaller, routeStore, facts, counts
  <1> QED
    BY <1>1, NothingGrows DEF IInv, CallersFine, Ids

LEMMA GetRouterConfigInv ==
    ASSUME IInv, NEW c \in Callers, GetRouterConfig(c)
    PROVE  IInv'
  <1> DEFINE x == [callers[c] EXCEPT !.pc = "check", !.via = registered]
  <1>1. OnlyCaller /\ callers[c].pc = "config"
    BY DEF GetRouterConfig, OnlyCaller
  <1>2. registered \in BOOLEAN /\ registered' = registered /\ UNCHANGED <<calls, unregisters>>
    BY <1>1 DEF IInv, GrantsFine, OnlyCaller, routeStore, counts
  <1>3. x \in CallerType /\ x.pc = "check" /\ x.id = callers[c].id /\ x.kind = callers[c].kind
    BY <1>2, CallerIsFine DEF CallerType
  <1>4. callers' = [callers EXCEPT ![c] = x] /\ callers'[c] = x
    BY DEF GetRouterConfig, Become, IInv, CallersFine
  <1>5. x.via => registered'
    BY <1>2, CallerIsFine DEF CallerType
  <1>6. CallerFine(c)'
    BY <1>1, <1>2, <1>3, <1>4, <1>5, CallerIsFine DEF CallerFine, Ids
  <1>7. CallersFine'
    BY <1>1, <1>3, <1>4, <1>6, OnlyCallerGrows, MoveCaller
  <1> QED
    BY <1>1, <1>7, OnlyCallerInv

LEMMA CheckRegisterInv ==
    ASSUME IInv, NEW c \in Callers, CheckRegister(c)
    PROVE  IInv'
  <1>1. OnlyCaller /\ callers[c].pc = "check" /\ (Return(c) \/ Goto(c, "request"))
    BY DEF CheckRegister, OnlyCaller
  <1>2. CallersFine'
    BY <1>1, OnlyCallerGrows, ReturnCaller, GotoCaller
  <1> QED
    BY <1>1, <1>2, OnlyCallerInv

LEMMA CheckUnregisterInv ==
    ASSUME IInv, NEW c \in Callers, CheckUnregister(c)
    PROVE  IInv'
  <1>1. /\ OnlyCaller /\ callers[c].pc = "check" /\ callers[c].kind = "unregister"
        /\ Return(c) \/ Goto(c, "delete")
    BY DEF CheckUnregister, OnlyCaller
  <1>2. CallersFine'
    BY <1>1, OnlyCallerGrows, ReturnCaller, GotoCaller
  <1> QED
    BY <1>1, <1>2, OnlyCallerInv

LEMMA GetGrantInv ==
    ASSUME IInv, NEW c \in Callers, GetGrant(c)
    PROVE  IInv'
  <1>1. OnlyCaller /\ callers[c].pc = "await" /\ Goto(c, "saveConfig")
    BY DEF GetGrant, OnlyCaller
  <1>2. callers[c].id \in granted'
    BY <1>1 DEF GetGrant, OnlyCaller, facts, IInv, GrantsFine
  <1>3. CallersFine'
    BY <1>1, <1>2, OnlyCallerGrows, GotoCaller
  <1> QED
    BY <1>1, <1>3, OnlyCallerInv

LEMMA TimeoutInv ==
    ASSUME IInv, NEW c \in Callers, Timeout(c)
    PROVE  IInv'
  <1>1. OnlyCaller /\ Return(c)
    BY DEF Timeout, OnlyCaller
  <1>2. CallersFine'
    BY <1>1, OnlyCallerGrows, ReturnCaller
  <1> QED
    BY <1>1, <1>2, OnlyCallerInv

\* An address that is handed out without the key was made before the agent left.
LEMMA CheckAddKeyInv ==
    ASSUME IInv, NEW c \in Callers, CheckAddKey(c)
    PROVE  IInv'
  <1>1. UNCHANGED <<grants, config, registered, handlers, routes, added, queued, events,
                    callbacks, listener, workers, requests, replies, updates, responses,
                    forwards, granted, sent, delivered, calls, unregisters, outages,
                    duplicates, troubles>>
    BY DEF CheckAddKey, routeStore, mailbox, client, net, counts
  <1>2. Grows
    BY <1>1, NothingGrows
  <1>3. callers[c].pc = "check" /\ callers[c].id \in Ids /\ Ids' = Ids /\ unregisters \in Nat
    BY <1>1, CallerIsFine DEF CheckAddKey, CallerFine, Ids, IInv, CountsFine
  <1>4. CASE registered
    <2>1. /\ Goto(c, "update") /\ channels' = channels \cup {callers[c].id}
          /\ published' = published
      BY <1>4 DEF CheckAddKey
    <2>2. channels' \subseteq Ids'
      BY <1>3, <2>1 DEF IInv, CallersFine
    <2>3. CallersFine' /\ RoutesFine'
      BY <1>1, <1>2, <1>3, <2>1, <2>2, GotoCaller, RoutesStay
    <2> QED
      BY <1>1, <1>2, <2>1, <2>3, HandlersStay, WorkersStay, GrantsStay, MessagesStay
      DEF IInv, routeStore, CountsFine
  <1>5. CASE ~ registered
    <2>1. Return(c) /\ Publish(c) /\ channels' = channels
      BY <1>5 DEF CheckAddKey
    <2>2. \/ published' = published
          \/ unregisters > 0 /\ published' = published \cup {callers[c].id}
      BY <1>5, <2>1, CallerIsFine, Zenon DEF Publish, CallerFine
    <2>3. RoutesFine'
      BY <1>1, <1>3, <2>2 DEF IInv, RoutesFine
    <2>4. CallersFine'
      BY <1>2, <2>1, ReturnCaller
    <2> QED
      BY <1>1, <1>2, <2>3, <2>4, HandlersStay, WorkersStay, GrantsStay, MessagesStay
      DEF IInv, routeStore, CountsFine
  <1> QED
    BY <1>4, <1>5

\* What a step in which the calls, the agent's registration and the mediator's grants stay
\* leaves alone.
Calm == UNCHANGED <<calls, unregisters, granted, routes, sent, config, registered>>

LEMMA CalmGrows ==
    ASSUME IInv, Calm
    PROVE  Grows /\ Ids' = Ids
  BY NothingGrows DEF Calm, Ids

LEMMA SendRequestInv ==
    ASSUME IInv, NEW c \in Callers, SendRequest(c)
    PROVE  IInv'
  <1>1. UNCHANGED <<grants, config, registered, channels, handlers, routes, added, queued,
                    events, callbacks, listener, workers, replies, updates, responses,
                    forwards, granted, published, sent, delivered, calls, unregisters,
                    outages, duplicates, troubles>>
    BY DEF SendRequest, routeStore, mailbox, client, facts, counts
  <1>2. Grows /\ Ids' = Ids
    BY <1>1, CalmGrows DEF Calm
  <1>3. /\ callers[c].pc = "request" /\ callers[c].id \in Ids /\ Goto(c, "await")
        /\ requests' = requests \cup {callers[c].id}
    BY CallerIsFine DEF SendRequest, CallerFine
  <1>4. CallersFine'
    BY <1>1, <1>2, <1>3, GotoCaller DEF IInv, CallersFine
  <1>5. GrantsFine'
    BY <1>1, <1>2, <1>3 DEF IInv, GrantsFine
  <1>6. CountsFine'
    BY <1>1 DEF IInv, CountsFine
  <1> QED
    BY <1>1, <1>2, <1>4, <1>5, <1>6, HandlersStay, WorkersStay, RoutesStay, MessagesStay
    DEF IInv

LEMMA SaveRouterConfigInv ==
    ASSUME IInv, NEW c \in Callers, SaveRouterConfig(c)
    PROVE  IInv'
  <1>1. UNCHANGED <<grants, registered, channels, handlers, routes, added, queued,
                    events, callbacks, listener, workers, requests, replies, updates,
                    responses, forwards, granted, published, sent, delivered, calls,
                    unregisters, outages, duplicates, troubles>>
    BY DEF SaveRouterConfig, mailbox, client, net, facts, counts
  <1>2. callers[c].pc = "saveConfig" /\ config' = callers[c].id /\ Goto(c, "saveID")
    BY DEF SaveRouterConfig
  <1>3. callers[c].id \in granted /\ callers[c].id \in Ids /\ callers[c].id # 0
    BY <1>2, CallerIsFine DEF CallerFine, Ids, IInv, CountsFine
  <1>4. Grows /\ Ids' = Ids
    BY <1>1, <1>2, <1>3 DEF Grows, Ids, IInv, CountsFine, MessagesFine
  <1>5. CallersFine'
    BY <1>1, <1>2, <1>3, <1>4, GotoCaller DEF IInv, CallersFine
  <1>6. GrantsFine'
    BY <1>1, <1>2, <1>3, <1>4 DEF IInv, GrantsFine
  <1>7. CountsFine'
    BY <1>1 DEF IInv, CountsFine
  <1> QED
    BY <1>1, <1>4, <1>5, <1>6, <1>7, HandlersStay, WorkersStay, RoutesStay, MessagesStay
    DEF IInv

LEMMA SaveRouterConnectionIDInv ==
    ASSUME IInv, NEW c \in Callers, SaveRouterConnectionID(c)
    PROVE  IInv'
  <1>1. UNCHANGED <<grants, config, channels, handlers, routes, added, queued,
                    events, callbacks, listener, workers, requests, replies, updates,
                    responses, forwards, granted, published, sent, delivered, calls,
                    unregisters, outages, duplicates, troubles>>
    BY DEF SaveRouterConnectionID, mailbox, client, net, facts, counts
  <1>2. callers[c].pc = "saveID" /\ registered' = TRUE /\ Return(c)
    BY DEF SaveRouterConnectionID
  <1>3. config # 0
    BY <1>2, CallerIsFine DEF CallerFine
  <1>4. Grows /\ Ids' = Ids
    BY <1>1, <1>2 DEF Grows, Ids, IInv, CountsFine, MessagesFine
  <1>5. CallersFine'
    BY <1>1, <1>2, <1>4, ReturnCaller
  <1>6. GrantsFine'
    BY <1>1, <1>2, <1>3, <1>4 DEF IInv, GrantsFine
  <1>7. CountsFine'
    BY <1>1 DEF IInv, CountsFine
  <1> QED
    BY <1>1, <1>4, <1>5, <1>6, <1>7, HandlersStay, WorkersStay, RoutesStay, MessagesStay
    DEF IInv

\* Only who unregisters deletes the connection id.
LEMMA DeleteRouterConnectionIDInv ==
    ASSUME IInv, NEW c \in Callers, DeleteRouterConnectionID(c)
    PROVE  IInv'
  <1>1. UNCHANGED <<grants, config, channels, handlers, routes, added, queued,
                    events, callbacks, listener, workers, requests, replies, updates,
                    responses, forwards, granted, published, sent, delivered, calls,
                    unregisters, outages, duplicates, troubles>>
    BY DEF DeleteRouterConnectionID, mailbox, client, net, facts, counts
  <1>2. callers[c].pc = "delete" /\ registered' = FALSE /\ Return(c)
    BY DEF DeleteRouterConnectionID
  <1>3. unregisters > 0
    BY <1>2, CallerIsFine DEF CallerFine
  <1>4. Grows /\ Ids' = Ids
    BY <1>1, <1>2, <1>3 DEF Grows, Ids, IInv, CountsFine, MessagesFine
  <1>5. CallersFine'
    BY <1>1, <1>2, <1>4, ReturnCaller
  <1>6. GrantsFine'
    BY <1>1, <1>2, <1>4 DEF IInv, GrantsFine
  <1>7. CountsFine'
    BY <1>1 DEF IInv, CountsFine
  <1> QED
    BY <1>1, <1>4, <1>5, <1>6, <1>7, HandlersStay, WorkersStay, RoutesStay, MessagesStay
    DEF IInv

LEMMA SendUpdateInv ==
    ASSUME IInv, NEW c \in Callers, SendUpdate(c)
    PROVE  IInv'
  <1>1. UNCHANGED <<grants, config, registered, channels, handlers, routes, added, queued,
                    events, callbacks, listener, workers, requests, replies, responses,
                    forwards, granted, published, sent, delivered, calls, unregisters,
                    outages, duplicates, troubles>>
    BY DEF SendUpdate, routeStore, mailbox, client, facts, counts
  <1>2. Grows /\ Ids' = Ids
    BY <1>1, CalmGrows DEF Calm
  <1>3. /\ callers[c].pc = "update" /\ callers[c].id \in Ids /\ callers[c].id \in channels
        /\ updates' = updates \cup {callers[c].id} /\ Goto(c, "wait")
    BY CallerIsFine DEF SendUpdate, CallerFine
  <1>4. CallersFine'
    BY <1>1, <1>2, <1>3, GotoCaller DEF IInv, CallersFine
  <1>5. RoutesFine'
    BY <1>1, <1>2, <1>3 DEF IInv, RoutesFine
  <1>6. CountsFine'
    BY <1>1 DEF IInv, CountsFine
  <1> QED
    BY <1>1, <1>2, <1>4, <1>5, <1>6, HandlersStay, WorkersStay, GrantsStay, MessagesStay
    DEF IInv, routeStore

\* The address is handed out after a success, which the key's route has come before.
LEMMA TakeResponseInv ==
    ASSUME IInv, NEW c \in Callers, NEW h \in Handlers, TakeResponse(c, h)
    PROVE  IInv'
  <1>1. UNCHANGED <<grants, config, registered, routes, added, queued, events, callbacks,
                    listener, workers, requests, replies, updates, responses, forwards,
                    granted, sent, delivered, calls, unregisters, outages, duplicates,
                    troubles>>
    BY DEF TakeResponse, routeStore, mailbox, client, net, counts
  <1>2. Grows /\ Ids' = Ids
    BY <1>1, CalmGrows DEF Calm
  <1>3. /\ callers[c].pc = "wait" /\ Return(c)
        /\ handlers[h].pc = "answer" /\ handlers[h].id = callers[c].id
        /\ handlers' = [handlers EXCEPT ![h] = IdleHandler]
    BY DEF TakeResponse
  <1>4. channels' \subseteq channels /\ channels \ {callers[c].id} \subseteq channels'
    BY DEF TakeResponse
  <1>5. CallersFine'
    BY <1>2, <1>3, <1>4, ReturnCaller
  <1>6. HandlersFine'
    <2>1. IdleHandler \in HandlerType /\ handlers'[h] = IdleHandler
      BY <1>3 DEF IdleHandler, HandlerType, IInv, HandlersFine
    <2>2. HandlerFine(h)'
      BY <2>1 DEF HandlerFine, IdleHandler
    <2> QED
      BY <1>2, <1>3, <2>1, <2>2, MoveHandler
  <1>7. callers[c].id \in Ids
    BY <1>3, CallerIsFine DEF CallerFine
  <1>8. \/ published' = published
        \/ published' = published \cup {callers[c].id} /\ callers[c].id \in routes
    <2>1. handlers[h].ok => callers[c].id \in routes
      BY <1>3, Zenon DEF IInv, HandlersFine, HandlerFine
    <2> QED
      BY <2>1, Zenon DEF TakeResponse, Publish
  <1>9. RoutesFine'
    BY <1>1, <1>2, <1>7, <1>8 DEF IInv, RoutesFine
  <1>10. CountsFine'
    BY <1>1 DEF IInv, CountsFine
  <1> QED
    BY <1>1, <1>2, <1>5, <1>6, <1>9, <1>10, WorkersStay, GrantsStay, MessagesStay
    DEF IInv, routeStore

LEMMA SaveGrantInv ==
    ASSUME IInv, NEW id \in replies, SaveGrant(id)
    PROVE  IInv'
  <1>1. UNCHANGED <<config, registered, channels, callers, handlers, routes, added, queued,
                    events, callbacks, listener, workers, requests, updates, responses,
                    forwards, granted, published, sent, delivered, calls, unregisters,
                    outages, troubles>>
    BY DEF SaveGrant, agent, mailbox, client, facts
  <1>2. Grows /\ Ids' = Ids
    BY <1>1, CalmGrows DEF Calm
  <1>3. replies' \subseteq replies /\ duplicates' \in Nat /\ grants' = grants \cup {id}
    BY DEF SaveGrant, Arrives, IInv, CountsFine
  <1>4. GrantsFine'
    BY <1>1, <1>2, <1>3 DEF IInv, GrantsFine
  <1>5. CountsFine'
    BY <1>1, <1>3 DEF IInv, CountsFine
  <1> QED
    BY <1>1, <1>2, <1>4, <1>5, CallersStay, HandlersStay, WorkersStay, RoutesStay,
       MessagesStay DEF IInv

LEMMA HandleKeylistUpdateResponseInv ==
    ASSUME IInv, NEW h \in Handlers, NEW r \in responses, HandleKeylistUpdateResponse(h, r)
    PROVE  IInv'
  <1>1. UNCHANGED <<grants, config, registered, channels, callers, routes, added, queued,
                    events, callbacks, listener, workers, requests, replies, updates,
                    forwards, granted, published, sent, delivered, calls, unregisters,
                    outages, troubles>>
    BY DEF HandleKeylistUpdateResponse, routeStore, mailbox, client, facts
  <1>2. Grows /\ Ids' = Ids
    BY <1>1, CalmGrows DEF Calm
  <1>3. responses' \subseteq responses /\ duplicates' \in Nat
    BY DEF HandleKeylistUpdateResponse, Arrives, IInv, CountsFine
  <1> DEFINE x == [pc |-> "answer", id |-> r.id, ok |-> r.ok]
  <1>4. handlers' = handlers \/ handlers' = [handlers EXCEPT ![h] = x]
    BY Zenon DEF HandleKeylistUpdateResponse
  <1>5. r \in [id : Ids, ok : BOOLEAN] /\ (r.ok => r.id \in routes)
    BY DEF IInv, RoutesFine
  <1>6. r.id \in Ids /\ r.ok \in BOOLEAN /\ Ids \subseteq Nat
    BY <1>5 DEF Ids, IInv, CountsFine
  <1>7. HandlersFine'
    <2>1. CASE handlers' = handlers
      BY <1>2, <2>1, HandlersStay
    <2>2. CASE handlers' = [handlers EXCEPT ![h] = x]
      <3>1. x \in HandlerType
        BY <1>6 DEF HandlerType
      <3>2. handlers'[h] = x
        BY <2>2 DEF IInv, HandlersFine
      <3>3. handlers'[h].id = r.id /\ handlers'[h].ok = r.ok
        BY <3>2
      <3>4. handlers'[h].id \in Ids' \cup {0}
        BY <1>2, <1>6, <3>3
      <3>5. handlers'[h].ok => handlers'[h].id \in routes'
        BY <1>1, <1>5, <3>3, Zenon
      <3>6. HandlerFine(h)'
        BY <3>4, <3>5, Zenon DEF HandlerFine
      <3> QED
        BY <1>2, <2>2, <3>1, <3>6, MoveHandler
    <2> QED
      BY <1>4, <2>1, <2>2
  <1>8. RoutesFine'
    BY <1>1, <1>2, <1>3 DEF IInv, RoutesFine
  <1>9. CountsFine'
    BY <1>1, <1>3 DEF IInv, CountsFine
  <1> QED
    BY <1>1, <1>2, <1>7, <1>8, <1>9, CallersStay, WorkersStay, GrantsStay, MessagesStay
    DEF IInv, routeStore

-----------------------------------------------------------------------------
(***************************************************************************)
(* The steps of the mediator.                                               *)
(***************************************************************************)
LEMMA HandleRequestInv ==
    ASSUME IInv, NEW id \in requests, HandleRequest(id)
    PROVE  IInv'
  <1>1. UNCHANGED <<grants, config, registered, channels, callers, handlers, routes, added,
                    queued, callbacks, listener, workers, replies, updates, responses,
                    forwards, granted, published, sent, delivered, calls, unregisters,
                    outages, troubles>>
    BY DEF HandleRequest, routeStore, agent, mailbox, facts
  <1>2. Grows /\ Ids' = Ids
    BY <1>1, CalmGrows DEF Calm
  <1>3. requests' \subseteq requests /\ duplicates' \in Nat /\ events' = events \cup {id}
    BY DEF HandleRequest, Arrives, IInv, CountsFine
  <1>4. GrantsFine'
    BY <1>1, <1>2, <1>3 DEF IInv, GrantsFine
  <1>5. CountsFine'
    BY <1>1, <1>3 DEF IInv, CountsFine
  <1> QED
    BY <1>1, <1>2, <1>4, <1>5, CallersStay, HandlersStay, WorkersStay, RoutesStay,
       MessagesStay DEF IInv

\* The client agrees: what it offers to the listener is in granted.
LEMMA AnswerRequestInv ==
    ASSUME IInv, NEW id \in events, NEW ok \in BOOLEAN, AnswerRequest(id, ok)
    PROVE  IInv'
  <1>1. UNCHANGED <<grants, config, registered, channels, callers, handlers, routes, added,
                    queued, listener, workers, requests, replies, updates, responses,
                    forwards, published, sent, delivered, calls, unregisters, outages,
                    duplicates, troubles>>
    BY DEF AnswerRequest, routeStore, agent, mailbox, net, counts
  <1> DEFINE cb == [id |-> id, ok |-> ok]
  <1>2. /\ events' \subseteq events /\ callbacks' = callbacks \cup {cb}
        /\ granted' = IF ok THEN granted \cup {id} ELSE granted
    BY DEF AnswerRequest
  <1>3. Grows /\ Ids' = Ids
    BY <1>1, <1>2 DEF Grows, Ids, IInv, CountsFine, MessagesFine
  <1>4. id \in Ids /\ cb.id = id /\ cb.ok = ok /\ cb \in [id : Ids, ok : BOOLEAN]
    BY DEF IInv, GrantsFine
  <1>5. granted \subseteq granted' /\ granted' \subseteq Ids /\ (ok => id \in granted')
    BY <1>2, <1>4 DEF IInv, GrantsFine
  <1>6. GrantsFine'
    <2>1. \A b \in callbacks' : b.ok => b.id \in granted'
      BY <1>2, <1>4, <1>5, Zenon DEF IInv, GrantsFine
    <2>2. callbacks' \subseteq [id : Ids', ok : BOOLEAN]
      BY <1>2, <1>3, <1>4 DEF IInv, GrantsFine
    <2> QED
      BY <1>1, <1>2, <1>3, <1>5, <2>1, <2>2 DEF IInv, GrantsFine
  <1>7. CountsFine'
    BY <1>1 DEF IInv, CountsFine
  <1> QED
    BY <1>1, <1>3, <1>6, <1>7, CallersStay, HandlersStay, WorkersStay, RoutesStay,
       MessagesStay DEF IInv

LEMMA TakeCallbackInv ==
    ASSUME IInv, NEW cb \in callbacks, TakeCallback(cb)
    PROVE  IInv'
  <1>1. UNCHANGED <<grants, config, registered, channels, callers, handlers, routes, added,
                    queued, events, workers, requests, replies, updates, responses,
                    forwards, granted, published, sent, delivered, calls, unregisters,
                    outages, duplicates, troubles>>
    BY DEF TakeCallback, routeStore, agent, mailbox, net, facts, counts
  <1>2. Grows /\ Ids' = Ids
    BY <1>1, CalmGrows DEF Calm
  <1>3. callbacks' \subseteq callbacks /\ listener' \in granted \cup {0}
    <2>1. cb.ok => cb.id \in granted
      BY DEF IInv, GrantsFine
    <2>2. listener' \in granted \cup {0}
      BY <2>1, Zenon DEF TakeCallback
    <2> QED
      BY <2>2 DEF TakeCallback
  <1>4. GrantsFine'
    BY <1>1, <1>2, <1>3 DEF IInv, GrantsFine
  <1>5. CountsFine'
    BY <1>1 DEF IInv, CountsFine
  <1> QED
    BY <1>1, <1>2, <1>4, <1>5, CallersStay, HandlersStay, WorkersStay, RoutesStay,
       MessagesStay DEF IInv

LEMMA SendGrantInv ==
    ASSUME IInv, SendGrant
    PROVE  IInv'
  <1>1. UNCHANGED <<grants, config, registered, channels, callers, handlers, routes, added,
                    queued, events, callbacks, workers, requests, updates, responses,
                    forwards, granted, published, sent, delivered, calls, unregisters,
                    outages, duplicates, troubles>>
    BY DEF SendGrant, routeStore, agent, mailbox, facts, counts
  <1>2. Grows /\ Ids' = Ids
    BY <1>1, CalmGrows DEF Calm
  <1>3. listener \in granted /\ listener' = 0 /\ replies' = replies \cup {listener}
    BY DEF SendGrant, Grant, IInv, GrantsFine
  <1>4. GrantsFine'
    BY <1>1, <1>2, <1>3 DEF IInv, GrantsFine
  <1>5. CountsFine'
    BY <1>1 DEF IInv, CountsFine
  <1> QED
    BY <1>1, <1>2, <1>4, <1>5, CallersStay, HandlersStay, WorkersStay, RoutesStay,
       MessagesStay DEF IInv

LEMMA WorkerIsFine ==
    ASSUME IInv, NEW w \in Workers
    PROVE  workers[w] \in WorkerType /\ WorkerFine(w)
  BY DEF IInv, WorkersFine

\* A worker ends.
LEMMA WorkerEnds ==
    ASSUME IInv, Grows, NEW w \in Workers, Work(w, IdleWorker)
    PROVE  WorkersFine'
  <1>1. IdleWorker \in WorkerType /\ sent' \in Nat
    BY DEF IdleWorker, WorkerType, Grows
  <1>2. workers' = [workers EXCEPT ![w] = IdleWorker] /\ workers'[w] = IdleWorker
    BY DEF Work, IInv, WorkersFine
  <1>3. WorkerFine(w)'
    BY <1>1, <1>2 DEF WorkerFine, ReportFine, IdleWorker
  <1> QED
    BY <1>1, <1>2, <1>3, MoveWorker

\* A worker goes on to p, for which it has what p needs.
LEMMA WorkerGoesOn ==
    ASSUME IInv, Grows, NEW w \in Workers, NEW p \in {"forward", "queue"},
           workers[w].pc \in {"route", "forward"}, Work(w, [workers[w] EXCEPT !.pc = p])
    PROVE  WorkersFine'
  <1> DEFINE x == [workers[w] EXCEPT !.pc = p]
  <1>1. x \in WorkerType /\ x.pc = p /\ x.id = workers[w].id /\ x.msg = workers[w].msg
    BY WorkerIsFine DEF WorkerType
  <1>2. workers' = [workers EXCEPT ![w] = x] /\ workers'[w] = x
    BY DEF Work, IInv, WorkersFine
  <1>3. Ids \subseteq Ids' /\ 0..sent \subseteq 0..sent' /\ 1..sent \subseteq 1..sent'
    BY DEF Grows, IInv, CountsFine, MessagesFine, Ids
  <1>4. WorkerFine(w)'
    BY <1>1, <1>2, <1>3, WorkerIsFine DEF WorkerFine, ReportFine
  <1> QED
    BY <1>1, <1>2, <1>4, MoveWorker

\* The answer of a worker is one that RoutesFine wants.
LEMMA RespondIsFine ==
    ASSUME IInv, NEW w \in Workers, workers[w].pc = "respond", Respond(w), Ids' = Ids,
           UNCHANGED <<unregisters, routes, published, updates>>
    PROVE  RoutesFine'
  <1> DEFINE r == [id |-> workers[w].id, ok |-> workers[w].ok]
  <1>1. responses' = responses \cup {r}
    BY DEF Respond
  <1>2. r \in [id : Ids, ok : BOOLEAN]
    BY WorkerIsFine DEF WorkerType, WorkerFine
  <1>3. r.ok => r.id \in routes
    BY WorkerIsFine, Zenon DEF WorkerFine, ReportFine
  <1> HIDE DEF r
  <1>4. \A q \in responses' : q.ok => q.id \in routes'
    BY <1>1, <1>3, Zenon DEF IInv, RoutesFine
  <1>5. responses' \subseteq [id : Ids', ok : BOOLEAN]
    BY <1>1, <1>2 DEF IInv, RoutesFine
  <1> QED
    BY <1>4, <1>5 DEF IInv, RoutesFine

LEMMA HandleKeylistUpdateInv ==
    ASSUME IInv, NEW w \in Workers, NEW key \in updates, HandleKeylistUpdate(w, key)
    PROVE  IInv'
  <1>1. UNCHANGED <<grants, config, registered, channels, callers, handlers, routes, added,
                    queued, events, callbacks, listener, requests, replies, responses,
                    forwards, granted, published, sent, delivered, calls, unregisters,
                    outages, troubles>>
    BY DEF HandleKeylistUpdate, routeStore, agent, mailbox, client, facts
  <1>2. Grows /\ Ids' = Ids
    BY <1>1, CalmGrows DEF Calm
  <1>3. updates' \subseteq updates /\ duplicates' \in Nat
    BY DEF HandleKeylistUpdate, Arrives, IInv, CountsFine
  <1> DEFINE x == [IdleWorker EXCEPT !.pc = "put", !.id = key]
  <1>4. workers' = [workers EXCEPT ![w] = x] /\ workers'[w] = x
    BY DEF HandleKeylistUpdate, Work, IInv, WorkersFine
  <1>5. key \in Ids /\ key \in Nat /\ sent \in Nat
    BY DEF IInv, RoutesFine, CountsFine, MessagesFine, Ids
  <1>6. x \in WorkerType /\ x.pc = "put" /\ x.id = key /\ x.msg = 0
    BY <1>5 DEF IdleWorker, WorkerType
  <1> HIDE DEF x
  <1>7. WorkerFine(w)'
    <2>1. workers'[w].pc = "put" /\ workers'[w].id \in Ids' /\ workers'[w].msg \in 0..sent'
      BY <1>1, <1>2, <1>4, <1>5, <1>6
    <2>2. /\ workers'[w].id \in Ids' \cup {0} /\ workers'[w].pc # "respond"
          /\ workers'[w].pc \notin {"route", "forward", "queue"}
      BY <2>1
    <2>3. ReportFine(w)'
      BY <2>2, Zenon DEF ReportFine
    <2> QED
      BY <2>1, <2>2, <2>3 DEF WorkerFine
  <1>8. WorkersFine'
    BY <1>2, <1>4, <1>6, <1>7, MoveWorker
  <1>9. RoutesFine'
    BY <1>1, <1>2, <1>3 DEF IInv, RoutesFine
  <1>10. CountsFine'
    BY <1>1, <1>3 DEF IInv, CountsFine
  <1> QED
    BY <1>1, <1>2, <1>8, <1>9, <1>10, CallersStay, HandlersStay, GrantsStay, MessagesStay
    DEF IInv, routeStore

\* The mediator reports a success only after the key is in its store.
LEMMA PutRouteInv ==
    ASSUME IInv, NEW w \in Workers, PutRoute(w)
    PROVE  IInv'
  <1>1. UNCHANGED <<grants, config, registered, channels, callers, handlers, added,
                    queued, events, callbacks, listener, requests, replies, updates,
                    responses, forwards, granted, published, sent, delivered, calls,
                    unregisters, outages>>
    BY DEF PutRoute, routeStore, agent, mailbox, client, net, facts
  <1> DEFINE x(ok) == [workers[w] EXCEPT !.pc = "respond", !.ok = ok]
  <1>2. /\ workers[w].pc = "put" /\ duplicates' \in Nat /\ troubles' \in Nat
        /\ \/ routes' = routes \cup {workers[w].id} /\ Work(w, x(TRUE))
           \/ routes' = routes /\ Work(w, x(FALSE))
    BY DEF PutRoute, Trouble, IInv, CountsFine
  <1>3. workers[w] \in WorkerType /\ workers[w].id \in Ids /\ workers[w].msg \in 0..sent
    BY <1>2, WorkerIsFine DEF WorkerFine
  <1>4. routes \subseteq routes' /\ routes' \subseteq Ids
    BY <1>2, <1>3 DEF IInv, RoutesFine
  <1>5. Grows /\ Ids' = Ids
    BY <1>1, <1>4 DEF Grows, Ids, IInv, CountsFine, MessagesFine
  <1>6. ASSUME NEW ok \in BOOLEAN, Work(w, x(ok)), ok => workers[w].id \in routes'
        PROVE  WorkersFine'
    <2>1. x(ok) \in WorkerType
      BY <1>3 DEF WorkerType
    <2>2. x(ok).pc = "respond" /\ x(ok).id = workers[w].id /\ x(ok).msg = workers[w].msg
      BY <1>3 DEF WorkerType
    <2>3. x(ok).ok => workers[w].id \in routes'
      BY <1>3, <1>6 DEF WorkerType
    <2>4. workers' = [workers EXCEPT ![w] = x(ok)] /\ workers'[w] = x(ok)
      BY <1>6 DEF Work, IInv, WorkersFine
    <2> HIDE DEF x
    <2>5. /\ workers'[w].pc = "respond" /\ workers'[w].id \in Ids'
          /\ workers'[w].msg \in 0..sent'
      BY <1>1, <1>3, <1>5, <2>2, <2>4
    <2>6. workers'[w].ok => workers'[w].id \in routes'
      BY <2>2, <2>3, <2>4, Zenon
    <2>7. /\ workers'[w].id \in Ids' \cup {0}
          /\ workers'[w].pc \notin {"route", "forward", "queue"}
      BY <2>5
    <2>8. WorkerFine(w)'
      <3>1. ReportFine(w)'
        BY <2>6, Zenon DEF ReportFine
      <3> QED
        BY <2>5, <2>7, <3>1 DEF WorkerFine
    <2> QED
      BY <1>5, <2>1, <2>4, <2>8, MoveWorker
  <1>7. WorkersFine'
    BY <1>2, <1>6
  <1>8. RoutesFine'
    BY <1>1, <1>4, <1>5 DEF IInv, RoutesFine
  <1>9. CountsFine'
    BY <1>1, <1>2 DEF IInv, CountsFine
  <1> QED
    BY <1>1, <1>5, <1>7, <1>8, <1>9, CallersStay, HandlersStay, GrantsStay, MessagesStay
    DEF IInv, routeStore

LEMMA SendResponseInv ==
    ASSUME IInv, NEW w \in Workers, SendResponse(w)
    PROVE  IInv'
  <1>1. UNCHANGED <<grants, config, registered, channels, callers, handlers, routes, added,
                    queued, events, callbacks, listener, requests, replies, updates,
                    forwards, granted, published, sent, delivered, calls, unregisters,
                    outages, duplicates, troubles>>
    BY DEF SendResponse, routeStore, agent, mailbox, client, facts, counts
  <1>2. Grows /\ Ids' = Ids
    BY <1>1, CalmGrows DEF Calm
  <1>3. workers[w].pc = "respond" /\ Respond(w) /\ Work(w, IdleWorker)
    BY DEF SendResponse
  <1>4. RoutesFine'
    BY <1>1, <1>2, <1>3, RespondIsFine
  <1>5. CountsFine'
    BY <1>1 DEF IInv, CountsFine
  <1> QED
    BY <1>1, <1>2, <1>3, <1>4, <1>5, WorkerEnds, CallersStay, HandlersStay, GrantsStay,
       MessagesStay DEF IInv, routeStore

LEMMA SendForwardInv ==
    ASSUME IInv, NEW key \in published, SendForward(key)
    PROVE  IInv'
  <1>1. UNCHANGED <<grants, config, registered, channels, callers, handlers, routes, added,
                    queued, events, callbacks, listener, workers, requests, replies, updates,
                    responses, granted, published, delivered, calls, unregisters, outages,
                    duplicates, troubles>>
    BY DEF SendForward, routeStore, agent, mailbox, client, counts
  <1>2. /\ sent \in Nat /\ sent' = sent + 1 /\ 1..sent \subseteq 1..sent' /\ sent' \in 1..sent'
        /\ forwards' = forwards \cup {[msg |-> sent', key |-> key]}
    BY DEF SendForward, IInv, MessagesFine
  <1>3. Grows /\ Ids' = Ids
    BY <1>1, <1>2 DEF Grows, Ids, IInv, CountsFine
  <1>4. MessagesFine'
    <2>1. key \in Ids
      BY DEF IInv, RoutesFine
    <2>2. forwards' \subseteq [msg : 1..sent', key : Ids']
      BY <1>2, <1>3, <2>1 DEF IInv, MessagesFine
    <2>3. queued' \in [1..added' -> 1..sent']
      BY <1>1, <1>2 DEF IInv, MessagesFine
    <2> QED
      BY <1>1, <1>2, <2>2, <2>3 DEF IInv, MessagesFine
  <1>5. CountsFine'
    BY <1>1 DEF IInv, CountsFine
  <1> QED
    BY <1>1, <1>3, <1>4, <1>5, CallersStay, HandlersStay, WorkersStay, GrantsStay, RoutesStay
    DEF IInv, routeStore

LEMMA HandleForwardInv ==
    ASSUME IInv, NEW w \in Workers, NEW f \in forwards, HandleForward(w, f)
    PROVE  IInv'
  <1>1. UNCHANGED <<grants, config, registered, channels, callers, handlers, routes, added,
                    queued, events, callbacks, listener, requests, replies, updates,
                    responses, granted, published, sent, delivered, calls, unregisters,
                    outages, troubles>>
    BY DEF HandleForward, routeStore, agent, mailbox, client, facts
  <1>2. Grows /\ Ids' = Ids
    BY <1>1, CalmGrows DEF Calm
  <1>3. forwards' \subseteq forwards /\ duplicates' \in Nat
    BY DEF HandleForward, Arrives, IInv, CountsFine
  <1> DEFINE x == [IdleWorker EXCEPT !.pc = "route", !.id = f.key, !.msg = f.msg]
  <1>4. workers' = [workers EXCEPT ![w] = x] /\ workers'[w] = x
    BY DEF HandleForward, Work, IInv, WorkersFine
  <1>5. f.key \in Ids /\ f.key \in Nat /\ f.msg \in 1..sent /\ f.msg \in Nat /\ f.msg \in 0..sent
    BY DEF IInv, CountsFine, MessagesFine, Ids
  <1>6. x \in WorkerType /\ x.pc = "route" /\ x.id = f.key /\ x.msg = f.msg
    BY <1>5 DEF IdleWorker, WorkerType
  <1> HIDE DEF x
  <1>7. WorkerFine(w)'
    <2>1. /\ workers'[w].pc = "route" /\ workers'[w].id \in Ids'
          /\ workers'[w].msg \in 0..sent' /\ workers'[w].msg \in 1..sent'
      BY <1>1, <1>2, <1>4, <1>5, <1>6
    <2>2. workers'[w].pc # "respond"
      BY <2>1
    <2>3. ReportFine(w)'
      BY <2>2, Zenon DEF ReportFine
    <2> QED
      BY <2>1, <2>3 DEF WorkerFine
  <1>8. WorkersFine'
    BY <1>2, <1>4, <1>6, <1>7, MoveWorker
  <1>9. MessagesFine'
    BY <1>1, <1>2, <1>3 DEF IInv, MessagesFine
  <1>10. CountsFine'
    BY <1>1, <1>3 DEF IInv, CountsFine
  <1> QED
    BY <1>1, <1>2, <1>8, <1>9, <1>10, CallersStay, HandlersStay, GrantsStay, RoutesStay
    DEF IInv, routeStore

LEMMA FindRouteInv ==
    ASSUME IInv, NEW w \in Workers, FindRoute(w)
    PROVE  IInv'
  <1>1. UNCHANGED <<grants, config, registered, channels, callers, handlers, routes, added,
                    queued, events, callbacks, listener, requests, replies, updates,
                    responses, forwards, granted, published, sent, delivered, calls,
                    unregisters, outages, duplicates, troubles>>
    BY DEF FindRoute, routeStore, agent, mailbox, client, net, facts, counts
  <1>2. Grows /\ Ids' = Ids
    BY <1>1, CalmGrows DEF Calm
  <1>3. /\ workers[w].pc = "route"
        /\ Work(w, [workers[w] EXCEPT !.pc = "forward"]) \/ Work(w, IdleWorker)
    BY DEF FindRoute
  <1>4. WorkersFine'
    BY <1>2, <1>3, WorkerGoesOn, WorkerEnds
  <1>5. CountsFine'
    BY <1>1 DEF IInv, CountsFine
  <1> QED
    BY <1>1, <1>2, <1>4, <1>5, CallersStay, HandlersStay, GrantsStay, RoutesStay,
       MessagesStay DEF IInv, routeStore

LEMMA ForwardInv ==
    ASSUME IInv, NEW w \in Workers, Forward(w)
    PROVE  IInv'
  <1>1. UNCHANGED <<grants, config, registered, channels, callers, handlers, routes, added,
                    queued, events, callbacks, listener, requests, replies, updates,
                    responses, forwards, granted, published, sent, calls, unregisters,
                    duplicates, troubles>>
    BY DEF Forward, routeStore, agent, mailbox, client, net
  <1>2. Grows /\ Ids' = Ids
    BY <1>1, CalmGrows DEF Calm
  <1>3. /\ workers[w].pc = "forward" /\ outages' \in Nat
        /\ Work(w, [workers[w] EXCEPT !.pc = "queue"]) \/ Work(w, IdleWorker)
        /\ delivered' \subseteq delivered \cup {workers[w].msg}
    BY DEF Forward, IInv, CountsFine
  <1>4. WorkersFine'
    BY <1>2, <1>3, WorkerGoesOn, WorkerEnds
  <1>5. MessagesFine'
    <2>1. workers[w].msg \in 1..sent
      BY <1>3, WorkerIsFine DEF WorkerFine
    <2> QED
      BY <1>1, <1>2, <1>3, <2>1 DEF IInv, MessagesFine
  <1>6. CountsFine'
    BY <1>1, <1>3 DEF IInv, CountsFine
  <1> QED
    BY <1>1, <1>2, <1>4, <1>5, <1>6, CallersStay, HandlersStay, GrantsStay, RoutesStay
    DEF IInv, routeStore

LEMMA AddMessageInv ==
    ASSUME IInv, NEW w \in Workers, AddMessage(w)
    PROVE  IInv'
  <1>1. UNCHANGED <<grants, config, registered, channels, callers, handlers, routes,
                    events, callbacks, listener, requests, replies, updates,
                    responses, forwards, granted, published, sent, delivered, calls,
                    unregisters, outages, duplicates, troubles>>
    BY DEF AddMessage, routeStore, agent, client, net, facts, counts
  <1>2. Grows /\ Ids' = Ids
    BY <1>1, CalmGrows DEF Calm
  <1>3. /\ workers[w].pc = "queue" /\ Work(w, IdleWorker)
        /\ added \in Nat /\ added' = added + 1
        /\ queued' = [n \in 1..added' |-> IF n = added' THEN workers[w].msg ELSE queued[n]]
    BY DEF AddMessage, Inbox!Put, IInv, MessagesFine
  <1>4. MessagesFine'
    <2>1. workers[w].msg \in 1..sent
      BY <1>3, WorkerIsFine DEF WorkerFine
    <2>2. queued' \in [1..added' -> 1..sent]
      BY <1>3, <2>1 DEF IInv, MessagesFine
    <2> QED
      BY <1>1, <1>2, <1>3, <2>2 DEF IInv, MessagesFine
  <1>5. CountsFine'
    BY <1>1 DEF IInv, CountsFine
  <1> QED
    BY <1>1, <1>2, <1>3, <1>4, <1>5, WorkerEnds, CallersStay, HandlersStay, GrantsStay,
       RoutesStay DEF IInv, routeStore

LEMMA PickupInv ==
    ASSUME IInv, Pickup
    PROVE  IInv'
  <1>1. UNCHANGED <<grants, config, registered, channels, callers, handlers, routes, added,
                    queued, events, callbacks, listener, workers, requests, replies, updates,
                    responses, forwards, granted, published, sent, delivered, calls,
                    unregisters, outages, duplicates, troubles>>
    BY DEF Pickup, Inbox!Take, Inbox!Handle, routeStore, agent, client, net, facts, counts
  <1>2. Grows /\ Ids' = Ids
    BY <1>1, CalmGrows DEF Calm
  <1>3. CountsFine'
    BY <1>1 DEF IInv, CountsFine
  <1> QED
    BY <1>1, <1>2, <1>3, WorkersStay, CallersStay, HandlersStay, GrantsStay,
       RoutesStay, MessagesStay DEF IInv, routeStore

-----------------------------------------------------------------------------
(***************************************************************************)
(* Failures and restarts.                                                   *)
(***************************************************************************)
LEMMA TroubleCounts ==
    ASSUME IInv, Trouble, UNCHANGED <<calls, unregisters, outages>>
    PROVE  CountsFine'
  BY DEF IInv, CountsFine, Trouble

LEMMA FailCallerInv ==
    ASSUME IInv, NEW c \in Callers, FailCaller(c)
    PROVE  IInv'
  <1>1. UNCHANGED <<grants, config, registered, channels, handlers, routes, added, queued,
                    events, callbacks, listener, workers, replies, responses, forwards,
                    granted, published, sent, delivered, calls, unregisters, outages>>
    BY DEF FailCaller, routeStore, mailbox, client, net, facts
  <1>2. Grows /\ Ids' = Ids /\ CountsFine'
    BY <1>1, CalmGrows, TroubleCounts DEF Calm, FailCaller
  <1>3. /\ callers[c].pc # "idle" /\ Return(c)
        /\ requests' \subseteq requests \cup {callers[c].id}
        /\ updates' \subseteq updates \cup {callers[c].id}
    BY DEF FailCaller, net
  <1>4. callers[c].id \in Ids
    BY <1>3, CallerIsFine DEF CallerFine
  <1>5. CallersFine'
    BY <1>1, <1>2, <1>3, ReturnCaller
  <1>6. GrantsFine' /\ RoutesFine'
    BY <1>1, <1>2, <1>3, <1>4 DEF IInv, GrantsFine, RoutesFine
  <1> QED
    BY <1>1, <1>2, <1>5, <1>6, HandlersStay, WorkersStay, MessagesStay DEF IInv

LEMMA FailMediatorInv ==
    ASSUME IInv, FailMediator
    PROVE  IInv'
  <1>1. UNCHANGED <<grants, config, registered, channels, callers, handlers, routes, added,
                    queued, events, callbacks, requests, updates, forwards,
                    granted, published, sent, delivered, calls, unregisters, outages>>
    BY DEF FailMediator, routeStore, agent, mailbox, facts
  <1>2. Grows /\ Ids' = Ids /\ CountsFine'
    BY <1>1, CalmGrows, TroubleCounts DEF Calm, FailMediator
  <1>3. CASE /\ listener # 0 /\ listener' = 0
             /\ Grant \/ UNCHANGED replies
             /\ UNCHANGED <<workers, responses>>
    <2>1. listener \in granted /\ replies' \subseteq replies \cup {listener}
      BY <1>3 DEF Grant, IInv, GrantsFine
    <2>2. GrantsFine'
      BY <1>1, <1>2, <1>3, <2>1 DEF IInv, GrantsFine
    <2> QED
      BY <1>1, <1>2, <1>3, <2>2, CallersStay, HandlersStay, WorkersStay, RoutesStay,
         MessagesStay DEF IInv
  <1>4. ASSUME NEW w \in Workers,
               workers[w].pc \in {"respond", "route", "forward", "queue"},
               Work(w, IdleWorker),
               UNCHANGED responses \/ (workers[w].pc = "respond" /\ Respond(w)),
               UNCHANGED <<listener, replies>>
        PROVE  IInv'
    <2>1. RoutesFine'
      BY <1>1, <1>2, <1>4, RoutesStay, RespondIsFine
    <2> QED
      BY <1>1, <1>2, <1>4, <2>1, CallersStay, HandlersStay, WorkerEnds, GrantsStay,
         MessagesStay DEF IInv, routeStore
  <1> QED
    BY <1>3, <1>4 DEF FailMediator

LEMMA LoseMessageInv ==
    ASSUME IInv, LoseMessage
    PROVE  IInv'
  <1>1. UNCHANGED <<grants, config, registered, channels, callers, handlers, routes, added,
                    queued, events, callbacks, listener, workers, granted, published, sent,
                    delivered, calls, unregisters, outages>>
    BY DEF LoseMessage, routeStore, agent, mailbox, client, facts
  <1>2. Grows /\ Ids' = Ids /\ CountsFine'
    BY <1>1, CalmGrows, TroubleCounts DEF Calm, LoseMessage
  <1>3. /\ requests' \subseteq requests /\ replies' \subseteq replies
        /\ updates' \subseteq updates /\ responses' \subseteq responses
        /\ forwards' \subseteq forwards
    BY DEF LoseMessage
  <1>4. GrantsFine' /\ RoutesFine' /\ MessagesFine'
    BY <1>1, <1>2, <1>3 DEF IInv, GrantsFine, RoutesFine, MessagesFine
  <1> QED
    BY <1>1, <1>2, <1>4, CallersStay, HandlersStay, WorkersStay DEF IInv

\* The calls and the channels of the agent are gone, its store is not.
LEMMA CrashAgentInv ==
    ASSUME IInv, CrashAgent
    PROVE  IInv'
  <1>1. UNCHANGED <<grants, config, registered, routes, added, queued, events, callbacks,
                    listener, workers, requests, replies, updates, responses, forwards,
                    granted, published, sent, delivered, calls, unregisters, outages>>
    BY DEF CrashAgent, routeStore, mailbox, client, net, facts
  <1>2. Grows /\ Ids' = Ids /\ CountsFine'
    BY <1>1, CalmGrows, TroubleCounts DEF Calm, CrashAgent
  <1>3. /\ channels' = {} /\ callers'  = [c \in Callers |-> IdleCaller]
        /\ handlers' = [h \in Handlers |-> IdleHandler]
    BY DEF CrashAgent
  <1>4. CallersFine' /\ HandlersFine'
    BY <1>3 DEF CallersFine, CallerFine, Apart, IdleCaller, CallerType,
                HandlersFine, HandlerFine, IdleHandler, HandlerType
  <1> QED
    BY <1>1, <1>2, <1>4, WorkersStay, GrantsStay, RoutesStay, MessagesStay
    DEF IInv, routeStore

LEMMA CrashMediatorInv ==
    ASSUME IInv, CrashMediator
    PROVE  IInv'
  <1>1. UNCHANGED <<grants, config, registered, channels, callers, handlers, routes, added,
                    queued, requests, replies, updates, responses, forwards,
                    granted, published, sent, delivered, calls, unregisters, outages>>
    BY DEF CrashMediator, routeStore, agent, mailbox, net, facts
  <1>2. Grows /\ Ids' = Ids /\ CountsFine'
    BY <1>1, CalmGrows, TroubleCounts DEF Calm, CrashMediator
  <1>3. /\ events' = {} /\ callbacks' = {} /\ listener' = 0
        /\ workers' = [w \in Workers |-> IdleWorker]
    BY DEF CrashMediator
  <1>4. GrantsFine'
    BY <1>1, <1>2, <1>3 DEF IInv, GrantsFine
  <1>5. WorkersFine'
    <2>1. sent' \in Nat
      BY <1>1 DEF IInv, MessagesFine
    <2> QED
      BY <1>3, <2>1 DEF WorkersFine, WorkerFine, ReportFine, IdleWorker, WorkerType
  <1> QED
    BY <1>1, <1>2, <1>4, <1>5, CallersStay, HandlersStay, RoutesStay, MessagesStay DEF IInv

-----------------------------------------------------------------------------
LEMMA InitInv == Init => IInv
  <1> SUFFICES ASSUME Init PROVE IInv
    OBVIOUS
  <1>1. CallersFine
    BY DEF Init, CallersFine, CallerFine, Apart, IdleCaller, CallerType
  <1>2. HandlersFine
    BY DEF Init, HandlersFine, HandlerFine, IdleHandler, HandlerType
  <1>3. WorkersFine
    BY DEF Init, WorkersFine, WorkerFine, ReportFine, IdleWorker, WorkerType
  <1>4. GrantsFine /\ RoutesFine /\ CountsFine
    BY DEF Init, GrantsFine, RoutesFine, CountsFine
  <1>5. MessagesFine
    BY DEF Init, Inbox!Init, MessagesFine
  <1> QED
    BY <1>1, <1>2, <1>3, <1>4, <1>5 DEF IInv

LEMMA NextInv == IInv /\ [Next]_vars => IInv'
  <1> SUFFICES ASSUME IInv, [Next]_vars PROVE IInv'
    OBVIOUS
  <1>1. ASSUME NEW c \in Callers, Caller(c) PROVE IInv'
    BY <1>1, GetRouterConfigInv, CheckRegisterInv, CheckUnregisterInv, CheckAddKeyInv,
       SendRequestInv, GetGrantInv, SaveRouterConfigInv, SaveRouterConnectionIDInv,
       DeleteRouterConnectionIDInv, SendUpdateInv, Zenon DEF Caller
  <1>2. ASSUME NEW w \in Workers, Worker(w) PROVE IInv'
    BY <1>2, PutRouteInv, SendResponseInv, FindRouteInv, ForwardInv, AddMessageInv, Zenon
    DEF Worker
  <1>3. CASE Receive
    BY <1>3, HandleRequestInv, SaveGrantInv, HandleKeylistUpdateResponseInv,
       HandleKeylistUpdateInv, HandleForwardInv, Zenon DEF Receive
  <1>4. CASE Listen
    BY <1>4, SendGrantInv, TakeCallbackInv, Zenon DEF Listen
  <1>5. CASE Next
    BY <1>1, <1>2, <1>3, <1>4, <1>5, CallInv, TimeoutInv, FailCallerInv, TakeResponseInv,
       AnswerRequestInv, SendForwardInv, PickupInv, FailMediatorInv, LoseMessageInv,
       CrashAgentInv, CrashMediatorInv, Zenon DEF Next, Answer
  <1>6. CASE UNCHANGED vars
    <2>1. UNCHANGED <<grants, config, registered, channels, callers, handlers, routes, added,
                      queued, events, callbacks, listener, workers, requests, replies,
                      updates, responses, forwards, granted, published, sent, delivered,
                      calls, unregisters, outages, duplicates, troubles>>
      BY <1>6 DEF vars, routeStore, agent, mailbox, client, net, facts, counts
    <2>2. Grows
      BY <2>1, CalmGrows DEF Calm
    <2>3. CountsFine'
      BY <2>1 DEF IInv, CountsFine
    <2> QED
      BY <2>1, <2>2, <2>3, CallersStay, HandlersStay, WorkersStay, GrantsStay, RoutesStay,
         MessagesStay DEF IInv, routeStore
  <1> QED
    BY <1>5, <1>6

LEMMA Invariance == Spec => []IInv
  BY InitInv, NextInv, PTL DEF Spec

-----------------------------------------------------------------------------
\* Whatever is lost, repeated, refused or restarted, every variable holds a value of its
\* kind, what is queued, sent and delivered is what was sent, and a goroutine that asks the
\* mediator for a key or waits for the answer has its channel.
THEOREM TypeCorrect == Spec => []TypeOK
  <1>1. IInv => TypeOK
    <2> SUFFICES ASSUME IInv PROVE TypeOK
      OBVIOUS
    <2>1. callers \in [Callers -> [pc : {"idle", "check", "request", "await", "saveConfig",
                                         "saveID", "delete", "config", "update", "wait"},
                                   kind : {"none", "register", "unregister", "publish"},
                                   id : Ids \cup {0}, via : BOOLEAN]]
      BY DEF IInv, CallersFine, CallerFine, CallerType
    <2>2. handlers \in [Handlers -> [pc : {"idle", "answer"}, id : Ids \cup {0}, ok : BOOLEAN]]
      BY DEF IInv, HandlersFine, HandlerFine, HandlerType
    <2>3. workers \in [Workers -> [pc : {"idle", "put", "respond", "route", "forward", "queue"},
                                   id : Ids \cup {0}, msg : 0..sent, ok : BOOLEAN]]
      BY DEF IInv, WorkersFine, WorkerFine, WorkerType
    <2>4. /\ \A c \in Callers : callers[c].pc \in {"update", "wait"}
                                => callers[c].id \in channels
          /\ channels \subseteq Ids
      BY DEF IInv, CallersFine, CallerFine
    <2>5. /\ grants \subseteq Ids /\ config \in Ids \cup {0} /\ registered \in BOOLEAN
          /\ events \subseteq Ids /\ callbacks \subseteq [id : Ids, ok : BOOLEAN]
          /\ listener \in Ids \cup {0} /\ requests \subseteq Ids /\ replies \subseteq Ids
          /\ granted \subseteq Ids
      BY DEF IInv, GrantsFine
    <2> QED
      BY <2>1, <2>2, <2>3, <2>4, <2>5
      DEF TypeOK, IInv, RoutesFine, MessagesFine, CountsFine
  <1> QED
    BY Invariance, <1>1, PTL

\* An agent that holds itself for registered has the endpoint and the routing keys of a
\* grant that the mediator's client agreed to: the configuration is saved before the
\* connection id, whatever calls overlap and wherever one is stopped.
THEOREM RegistrationIsGranted == Spec => []RegisteredIsGranted
  <1>1. IInv => RegisteredIsGranted
    BY DEF IInv, GrantsFine, RegisteredIsGranted
  <1> QED
    BY Invariance, <1>1, PTL

\* An agent that has never left its router hands an address that leads through it out only
\* once the mediator has the key, for any number of overlapping calls, failed puts, lost,
\* repeated or late answers, and restarts of either side.
THEOREM AddressesAreRouted == Spec => []PublishedIsRouted
  <1>1. IInv => PublishedIsRouted
    BY DEF IInv, RoutesFine, PublishedIsRouted
  <1> QED
    BY Invariance, <1>1, PTL

-----------------------------------------------------------------------------
(***************************************************************************)
(* No message is lost: it moves from the wire to the goroutine that forwards *)
(* it, and from there to the agent or into the inbox; and what was added to  *)
(* the inbox is in it, taken from it or handled.                             *)
(***************************************************************************)
HeldFine ==
    /\ inbox \in Seq(Nat) /\ taken \subseteq Nat /\ handled \in Seq(Nat)
    /\ 1..added \subseteq ToSet(inbox) \cup taken \cup ToSet(handled)

\* Every message there is has an address that the mediator knows.
AddressedFine ==
    unregisters = 0
    => /\ \A f \in forwards : f.key \in routes
       /\ \A w \in Workers : workers[w].pc = "route" => workers[w].id \in routes

Sending   == {"route", "forward", "queue"}
InHand(m) == \E w \in Workers : workers[w].pc \in Sending /\ workers[w].msg = m
Queued(m) == \E n \in 1..added : queued[n] = m
OnWire(m) == \E f \in forwards : f.msg = m
Safe(m)   == OnWire(m) \/ InHand(m) \/ m \in delivered \/ Queued(m)

Untroubled == unregisters = 0 /\ duplicates = 0 /\ troubles = 0
NoneLost   == Untroubled => \A m \in 1..sent : Safe(m)

AInv == IInv /\ HeldFine /\ AddressedFine /\ NoneLost

\* What no step takes back, of the routes and of the exceptions.
NoWay ==
    /\ unregisters \in Nat /\ unregisters' \in Nat /\ unregisters <= unregisters'
    /\ duplicates \in Nat /\ duplicates' \in Nat /\ duplicates <= duplicates'
    /\ troubles \in Nat /\ troubles' \in Nat /\ troubles <= troubles'
    /\ routes \subseteq routes'

LEMMA NoWayBack == IInv /\ Next => NoWay
  <1> SUFFICES ASSUME IInv, Next PROVE NoWay
    OBVIOUS
  <1> USE DEF NoWay
  <1>1. IInv /\ IInv' /\ CountsFine /\ CountsFine'
    BY NextInv DEF IInv
  <1>2. ASSUME NEW c \in Callers, Caller(c) PROVE NoWay
    BY <1>1, <1>2 DEF CountsFine, Caller, GetRouterConfig, CheckRegister, CheckUnregister,
       CheckAddKey, SendRequest, GetGrant, SaveRouterConfig, SaveRouterConnectionID,
       DeleteRouterConnectionID, SendUpdate, counts
  <1>3. ASSUME NEW c \in Callers, NEW kind \in {"register", "unregister", "publish"},
               Call(c, kind) \/ Timeout(c) \/ FailCaller(c)
        PROVE  NoWay
    BY <1>1, <1>3 DEF CountsFine, Call, Timeout, FailCaller, Trouble, counts
  <1>4. CASE Receive
    <2>1. UNCHANGED <<unregisters, troubles, routes>>
      BY <1>4 DEF Receive, HandleRequest, SaveGrant, HandleKeylistUpdateResponse,
         HandleKeylistUpdate, HandleForward
    <2>2. duplicates' = duplicates \/ duplicates' = duplicates + 1
      BY <1>4 DEF Receive, HandleRequest, SaveGrant, HandleKeylistUpdateResponse,
         HandleKeylistUpdate, HandleForward, Arrives
    <2> QED
      BY <1>1, <2>1, <2>2 DEF CountsFine
  <1>5. CASE Listen
    BY <1>1, <1>5 DEF CountsFine, Listen, SendGrant, TakeCallback, counts
  <1>6. ASSUME NEW w \in Workers, Worker(w) PROVE NoWay
    BY <1>1, <1>6 DEF CountsFine, Worker, PutRoute, SendResponse, FindRoute, Forward,
       AddMessage, Trouble, counts
  <1>7. ASSUME NEW h \in Handlers, Answer(h) PROVE NoWay
    BY <1>1, <1>7 DEF CountsFine, Answer, TakeResponse, counts
  <1>8. CASE \/ \E id \in events, ok \in BOOLEAN : AnswerRequest(id, ok)
             \/ \E key \in published : SendForward(key)
             \/ Pickup
    BY <1>1, <1>8 DEF CountsFine, AnswerRequest, SendForward, Pickup, counts
  <1>9. CASE FailMediator \/ LoseMessage \/ CrashAgent \/ CrashMediator
    BY <1>1, <1>9 DEF CountsFine, FailMediator, LoseMessage, CrashAgent, CrashMediator,
       Trouble
  <1> QED
    BY <1>2, <1>3, <1>4, <1>5, <1>6, <1>7, <1>8, <1>9, Zenon DEF Next

-----------------------------------------------------------------------------
\* The part of the steps that has to do with messages.
Messages == <<workers, forwards, sent, delivered, mailbox>>

LEMMA MessagesStayPut ==
    ASSUME AInv, IInv', NoWay, UNCHANGED Messages
    PROVE  AInv'
  <1>1. UNCHANGED <<workers, forwards, sent, delivered, inbox, added, taken, handled, queued>>
    BY DEF Messages, mailbox
  <1>2. HeldFine'
    BY <1>1 DEF AInv, HeldFine
  <1>3. AddressedFine'
    <2>1. unregisters' = 0 => unregisters = 0
      BY DEF NoWay
    <2> QED
      BY <1>1, <2>1 DEF AInv, AddressedFine, NoWay
  <1>4. Untroubled' => Untroubled
    BY DEF NoWay, Untroubled
  <1>5. NoneLost'
    BY <1>1, <1>4 DEF AInv, NoneLost, Safe, OnWire, InHand, Queued
  <1> QED
    BY <1>2, <1>3, <1>5 DEF AInv

\* The mailbox is left alone, and no message but m is touched.
LEMMA OthersStaySafe ==
    ASSUME AInv, NEW m, Safe(m), NEW w \in Workers, NEW x,
           workers' = [workers EXCEPT ![w] = x],
           workers[w].pc \notin Sending \/ workers[w].msg # m,
           \A f \in forwards : f.msg = m => f \in forwards',
           delivered \subseteq delivered',
           Queued(m) => Queued(m)'
    PROVE  Safe(m)'
  <1>1. workers \in [Workers -> WorkerType]
    BY DEF AInv, IInv, WorkersFine
  <1>2. \A v \in Workers \ {w} : workers'[v] = workers[v]
    BY <1>1
  <1>3. InHand(m) => InHand(m)'
    BY <1>2 DEF InHand
  <1>4. OnWire(m) => OnWire(m)'
    BY DEF OnWire
  <1> QED
    BY <1>3, <1>4 DEF Safe

\* A goroutine moves on to x; if it has a message, the message is safe.
LEMMA WorkerMoves ==
    ASSUME AInv, IInv', NoWay, NEW w \in Workers, NEW x \in WorkerType,
           workers' = [workers EXCEPT ![w] = x],
           x.pc = "route" /\ unregisters' = 0 => x.id \in routes',
           forwards' \subseteq forwards, UNCHANGED <<sent, mailbox>>,
           delivered \subseteq delivered',
           Untroubled' => /\ \A f \in forwards \ forwards' : Safe(f.msg)'
                          /\ \A m \in 1..sent : workers[w].pc \in Sending
                                              /\ workers[w].msg = m => Safe(m)'
    PROVE  AInv'
  <1>1. UNCHANGED <<inbox, added, taken, handled, queued>>
    BY DEF mailbox
  <1>2. workers \in [Workers -> WorkerType]
    BY DEF AInv, IInv, WorkersFine
  <1>3. workers'[w] = x /\ \A v \in Workers \ {w} : workers'[v] = workers[v]
    BY <1>2
  <1>4. HeldFine'
    BY <1>1 DEF AInv, HeldFine
  <1>5. AddressedFine'
    <2>1. unregisters' = 0 => unregisters = 0
      BY DEF NoWay
    <2> QED
      BY <1>3, <2>1 DEF AInv, AddressedFine, NoWay
  <1>6. ASSUME Untroubled', NEW m \in 1..sent' PROVE Safe(m)'
    <2>1. Untroubled
      BY <1>6 DEF NoWay, Untroubled
    <2>2. Safe(m)
      BY <2>1 DEF AInv, NoneLost
    <2>3. Queued(m) => Queued(m)'
      BY <1>1 DEF Queued
    <2>4. CASE \E f \in forwards \ forwards' : f.msg = m
      BY <1>6, <2>4
    <2>5. CASE workers[w].pc \in Sending /\ workers[w].msg = m
      BY <1>6, <2>5
    <2>6. CASE /\ ~ \E f \in forwards \ forwards' : f.msg = m
               /\ workers[w].pc \notin Sending \/ workers[w].msg # m
      <3>1. \A f \in forwards : f.msg = m => f \in forwards'
        BY <2>6
      <3> QED
        BY <2>2, <2>3, <2>6, <3>1, OthersStaySafe
    <2> QED
      BY <2>4, <2>5, <2>6
  <1>7. NoneLost'
    BY <1>6 DEF NoneLost
  <1> QED
    BY <1>4, <1>5, <1>7 DEF AInv

\* The messages of a step that loses some are nobody's concern.
LEMMA TroubledIsExcused ==
    ASSUME AInv, IInv', NoWay, ~Untroubled', UNCHANGED mailbox, forwards' \subseteq forwards,
           \A w \in Workers : workers'[w] = workers[w] \/ workers'[w].pc # "route"
    PROVE  AInv'
  <1>1. HeldFine'
    BY DEF mailbox, AInv, HeldFine
  <1>2. AddressedFine'
    <2>1. unregisters' = 0 => unregisters = 0
      BY DEF NoWay
    <2> QED
      BY <2>1 DEF AInv, AddressedFine, NoWay
  <1> QED
    BY <1>1, <1>2 DEF AInv, NoneLost

\* A goroutine moves without a message.
LEMMA WorkerWorks ==
    ASSUME AInv, IInv', NoWay, NEW w \in Workers, NEW x \in WorkerType, Work(w, x),
           workers[w].pc \notin Sending, x.pc # "route",
           UNCHANGED <<forwards, sent, delivered, mailbox>>
    PROVE  AInv'
  BY WorkerMoves DEF Work

LEMMA HandleKeylistUpdateArrives ==
    ASSUME AInv, IInv', NoWay, NEW w \in Workers, NEW key \in updates,
           HandleKeylistUpdate(w, key)
    PROVE  AInv'
  <1>1. PICK x : x = [IdleWorker EXCEPT !.pc = "put", !.id = key]
    OBVIOUS
  <1>2. key \in Nat
    BY DEF AInv, IInv, RoutesFine, CountsFine, Ids
  <1>3. x \in WorkerType /\ x.pc = "put"
    BY <1>1, <1>2 DEF IdleWorker, WorkerType
  <1>4. Work(w, x) /\ workers[w].pc = "idle" /\ UNCHANGED <<forwards, sent, delivered, mailbox>>
    BY <1>1 DEF HandleKeylistUpdate, facts
  <1> QED
    BY <1>3, <1>4, WorkerWorks DEF Sending

LEMMA PutRouteArrives ==
    ASSUME AInv, IInv', NoWay, NEW w \in Workers, PutRoute(w)
    PROVE  AInv'
  <1>1. PICK b \in BOOLEAN : Work(w, [workers[w] EXCEPT !.pc = "respond", !.ok = b])
    BY DEF PutRoute
  <1>2. PICK x : x = [workers[w] EXCEPT !.pc = "respond", !.ok = b]
    OBVIOUS
  <1>3. x \in WorkerType /\ x.pc = "respond"
    BY <1>2 DEF AInv, IInv, WorkersFine, WorkerType
  <1>4. Work(w, x) /\ workers[w].pc = "put" /\ UNCHANGED <<forwards, sent, delivered, mailbox>>
    BY <1>1, <1>2 DEF PutRoute, facts, net
  <1> QED
    BY <1>3, <1>4, WorkerWorks DEF Sending

LEMMA IdleIsIdle == IdleWorker \in WorkerType /\ IdleWorker.pc = "idle"
  BY DEF IdleWorker, WorkerType

LEMMA SendResponseArrives ==
    ASSUME AInv, IInv', NoWay, NEW w \in Workers, SendResponse(w)
    PROVE  AInv'
  <1>1. /\ Work(w, IdleWorker) /\ workers[w].pc = "respond"
        /\ UNCHANGED <<forwards, sent, delivered, mailbox>>
    BY DEF SendResponse, facts
  <1> QED
    BY <1>1, IdleIsIdle, WorkerWorks DEF Sending

\* The message leaves the wire for the goroutine's hands, with an address that the
\* mediator knows.
LEMMA HandleForwardArrives ==
    ASSUME AInv, IInv', NoWay, NEW w \in Workers, NEW f \in forwards, HandleForward(w, f)
    PROVE  AInv'
  <1>1. PICK x : x = [IdleWorker EXCEPT !.pc = "route", !.id = f.key, !.msg = f.msg]
    OBVIOUS
  <1>2. f.key \in Nat /\ f.msg \in Nat
    <2>1. f \in [msg : 1..sent, key : 1..calls] /\ sent \in Nat /\ calls \in Nat
      BY DEF AInv, IInv, MessagesFine, CountsFine, Ids
    <2>2. f.msg \in 1..sent /\ f.key \in 1..calls
      BY <2>1
    <2> QED
      BY <2>1, <2>2
  <1>3. x \in WorkerType /\ x.pc = "route" /\ x.id = f.key /\ x.msg = f.msg
    BY <1>1, <1>2 DEF IdleWorker, WorkerType
  <1>4. /\ workers' = [workers EXCEPT ![w] = x] /\ workers[w].pc = "idle"
        /\ UNCHANGED <<sent, delivered, mailbox>>
    BY <1>1 DEF HandleForward, facts, Work
  <1>5. forwards' = forwards \ {f} \/ forwards' = forwards
    BY DEF HandleForward, Arrives
  <1>6. workers'[w] = x
    BY <1>4 DEF AInv, IInv, WorkersFine
  <1>7. \A g \in forwards \ forwards' : Safe(g.msg)'
    BY <1>3, <1>5, <1>6 DEF Safe, InHand, Sending
  <1>8. unregisters' = 0 => x.id \in routes'
    BY <1>3 DEF AInv, AddressedFine, NoWay
  <1>9. workers[w].pc \notin Sending
    BY <1>4 DEF Sending
  <1> QED
    BY <1>3, <1>4, <1>5, <1>7, <1>8, <1>9, WorkerMoves

LEMMA FindRouteArrives ==
    ASSUME AInv, IInv', NoWay, NEW w \in Workers, FindRoute(w)
    PROVE  AInv'
  <1>1. /\ workers[w].pc = "route"
        /\ UNCHANGED <<forwards, sent, delivered, mailbox, routes, unregisters>>
    BY DEF FindRoute, net, facts, counts
  <1>2. CASE workers[w].id \in routes
    <2>1. PICK x : x = [workers[w] EXCEPT !.pc = "forward"]
      OBVIOUS
    <2>2. x \in WorkerType /\ x.pc = "forward" /\ x.msg = workers[w].msg
      BY <2>1 DEF AInv, IInv, WorkersFine, WorkerType
    <2>3. workers' = [workers EXCEPT ![w] = x]
      BY <1>2, <2>1 DEF FindRoute, Work
    <2>4. workers'[w] = x
      BY <2>3 DEF AInv, IInv, WorkersFine
    <2>5. \A m \in 1..sent : workers[w].msg = m => Safe(m)'
      BY <2>2, <2>4 DEF Safe, InHand, Sending
    <2> QED
      BY <1>1, <2>2, <2>3, <2>5, WorkerMoves
  <1>3. CASE workers[w].id \notin routes
    <2>1. unregisters # 0 /\ ~Untroubled'
      BY <1>1, <1>3 DEF AInv, AddressedFine, Untroubled
    <2>2. workers' = [workers EXCEPT ![w] = IdleWorker]
      BY <1>3 DEF FindRoute, Work
    <2> QED
      BY <1>1, <2>1, <2>2, IdleIsIdle, WorkerMoves
  <1> QED
    BY <1>2, <1>3

\* What could not be forwarded stays in the goroutine's hands, for the inbox.
LEMMA ForwardArrives ==
    ASSUME AInv, IInv', NoWay, NEW w \in Workers, Forward(w)
    PROVE  AInv'
  <1>1. /\ workers[w].pc = "forward" /\ UNCHANGED <<forwards, sent, mailbox>>
        /\ delivered \subseteq delivered'
    BY DEF Forward, net
  <1>2. CASE Work(w, IdleWorker) /\ delivered' = delivered \cup {workers[w].msg}
    <2>1. \A m \in 1..sent : workers[w].msg = m => Safe(m)'
      BY <1>2 DEF Safe
    <2> QED
      BY <1>1, <1>2, <2>1, IdleIsIdle, WorkerMoves DEF Work
  <1>3. CASE Work(w, [workers[w] EXCEPT !.pc = "queue"])
    <2>1. PICK x : x = [workers[w] EXCEPT !.pc = "queue"]
      OBVIOUS
    <2>2. x \in WorkerType /\ x.pc = "queue" /\ x.msg = workers[w].msg
      BY <2>1 DEF AInv, IInv, WorkersFine, WorkerType
    <2>3. workers' = [workers EXCEPT ![w] = x]
      BY <1>3, <2>1 DEF Work
    <2>4. workers'[w] = x
      BY <2>3 DEF AInv, IInv, WorkersFine
    <2>5. \A m \in 1..sent : workers[w].msg = m => Safe(m)'
      BY <2>2, <2>4 DEF Safe, InHand, Sending
    <2> QED
      BY <1>1, <2>2, <2>3, <2>5, WorkerMoves
  <1> QED
    BY <1>2, <1>3 DEF Forward

\* The message is put into the inbox, under the next number.
LEMMA AddMessageArrives ==
    ASSUME AInv, IInv', NoWay, NEW w \in Workers, AddMessage(w)
    PROVE  AInv'
  <1>1. /\ workers' = [workers EXCEPT ![w] = IdleWorker]
        /\ added \in Nat /\ added' = added + 1 /\ inbox' = Append(inbox, added + 1)
        /\ queued' = [n \in 1..added' |-> IF n = added' THEN workers[w].msg ELSE queued[n]]
        /\ UNCHANGED <<taken, handled, forwards, sent, delivered>>
    BY DEF AddMessage, Work, Inbox!Put, net, facts, AInv, IInv, MessagesFine
  <1>2. HeldFine'
    <2>1. inbox' \in Seq(Nat) /\ ToSet(inbox') = ToSet(inbox) \cup {added + 1}
      BY <1>1, AppendAdds DEF AInv, HeldFine
    <2>2. 1..added' = 1..added \cup {added + 1}
      BY <1>1
    <2> QED
      BY <1>1, <2>1, <2>2 DEF AInv, HeldFine
  <1>3. AddressedFine'
    <2>1. \A v \in Workers : workers'[v] = workers[v] \/ workers'[v].pc # "route"
      BY <1>1, IdleIsIdle DEF AInv, IInv, WorkersFine
    <2>2. unregisters' = 0 => unregisters = 0
      BY DEF NoWay
    <2> QED
      BY <1>1, <2>1, <2>2 DEF AInv, AddressedFine, NoWay
  <1>4. ASSUME Untroubled', NEW m \in 1..sent' PROVE Safe(m)'
    <2>1. Untroubled
      BY <1>4 DEF NoWay, Untroubled
    <2>2. Safe(m)
      BY <1>1, <2>1 DEF AInv, NoneLost
    <2>3. Queued(m) => Queued(m)'
      <3> SUFFICES ASSUME NEW n \in 1..added, queued[n] = m PROVE Queued(m)'
        BY DEF Queued
      <3>1. n \in 1..added' /\ n # added' /\ queued'[n] = queued[n]
        BY <1>1
      <3> QED
        BY <3>1 DEF Queued
    <2>4. CASE workers[w].pc \in Sending /\ workers[w].msg = m
      <3>1. added' \in 1..added' /\ queued'[added'] = m
        BY <1>1, <2>4
      <3> QED
        BY <3>1 DEF Queued, Safe
    <2>5. CASE workers[w].pc \notin Sending \/ workers[w].msg # m
      BY <1>1, <2>2, <2>3, <2>5, OthersStaySafe
    <2> QED
      BY <2>4, <2>5
  <1>5. NoneLost'
    BY <1>4 DEF NoneLost
  <1> QED
    BY <1>2, <1>3, <1>5 DEF AInv

\* Somebody sends one message more, to an address that was handed out.
LEMMA SendForwardArrives ==
    ASSUME AInv, IInv', NoWay, NEW key \in published, SendForward(key)
    PROVE  AInv'
  <1>1. /\ sent \in Nat /\ sent' = sent + 1
        /\ forwards' = forwards \cup {[msg |-> sent + 1, key |-> key]}
        /\ UNCHANGED <<workers, inbox, added, taken, handled, queued, delivered, routes,
                       unregisters, duplicates, troubles>>
    BY DEF SendForward, mailbox, counts, AInv, IInv, MessagesFine
  <1>2. HeldFine'
    BY <1>1 DEF AInv, HeldFine
  <1>3. AddressedFine'
    <2>1. unregisters = 0 => key \in routes
      BY DEF AInv, IInv, RoutesFine
    <2> QED
      BY <1>1, <2>1 DEF AInv, AddressedFine
  <1>4. ASSUME Untroubled', NEW m \in 1..sent' PROVE Safe(m)'
    <2>1. CASE m = sent + 1
      <3>1. PICK f \in forwards' : f = [msg |-> sent + 1, key |-> key]
        BY <1>1
      <3> QED
        BY <2>1, <3>1 DEF Safe, OnWire
    <2>2. CASE m \in 1..sent
      <3>1. Safe(m)
        BY <1>1, <1>4, <2>2 DEF AInv, NoneLost, Untroubled
      <3> QED
        BY <1>1, <3>1 DEF Safe, OnWire, InHand, Queued
    <2> QED
      BY <1>1, <2>1, <2>2
  <1>5. NoneLost'
    BY <1>4 DEF NoneLost
  <1> QED
    BY <1>2, <1>3, <1>5 DEF AInv

\* The agent takes the first messages out of the inbox, or handles one it has taken.
LEMMA PickupArrives ==
    ASSUME AInv, IInv', NoWay, Pickup
    PROVE  AInv'
  <1>1. UNCHANGED <<workers, forwards, sent, delivered, added, queued>>
    BY DEF Pickup, Inbox!Take, Inbox!Handle, net, facts
  <1>2. inbox \in Seq(Nat) /\ handled \in Seq(Nat)
    BY DEF AInv, HeldFine
  <1>3. ASSUME NEW n \in 1..Len(inbox), inbox' = SubSeq(inbox, n + 1, Len(inbox)),
               taken' = taken \cup {inbox[i] : i \in 1..n}, handled' = handled
        PROVE  HeldFine'
    <2>1. PICK front : front = SubSeq(inbox, 1, n)
      OBVIOUS
    <2>2. n \in 0..Len(inbox) /\ Cut(inbox, n, front, inbox')
      BY <1>2, <1>3, <2>1, LenProperties DEF Cut
    <2>3. /\ inbox' \in Seq(Nat) /\ ToSet(front) = {inbox[i] : i \in 1..n}
          /\ ToSet(inbox) = ToSet(front) \cup ToSet(inbox')
      BY <1>2, <2>2, CutParts
    <2>4. {inbox[i] : i \in 1..n} \subseteq Nat
      BY <2>2, <2>3, <1>2, CutParts, ToSetDef
    <2> QED
      BY <1>1, <1>3, <2>3, <2>4 DEF AInv, HeldFine
  <1>4. ASSUME NEW m \in taken, handled' = Append(handled, m), taken' = taken \ {m},
               inbox' = inbox
        PROVE  HeldFine'
    <2>1. m \in Nat
      BY DEF AInv, HeldFine
    <2>2. handled' \in Seq(Nat) /\ ToSet(handled') = ToSet(handled) \cup {m}
      BY <1>2, <1>4, <2>1, AppendAdds
    <2> QED
      BY <1>1, <1>4, <2>2 DEF AInv, HeldFine
  <1>5. HeldFine'
    BY <1>3, <1>4 DEF Pickup, Inbox!Take, Inbox!Handle
  <1>6. AddressedFine'
    <2>1. unregisters' = 0 => unregisters = 0
      BY DEF NoWay
    <2> QED
      BY <1>1, <2>1 DEF AInv, AddressedFine, NoWay
  <1>7. Untroubled' => Untroubled
    BY DEF NoWay, Untroubled
  <1>8. NoneLost'
    BY <1>1, <1>7 DEF AInv, NoneLost, Safe, OnWire, InHand, Queued
  <1> QED
    BY <1>5, <1>6, <1>8 DEF AInv

-----------------------------------------------------------------------------
\* The calls, the responses and the grants have nothing to do with messages.
LEMMA OtherStepsArrive ==
    ASSUME AInv, IInv', NoWay,
           \/ \E c \in Callers :
                 \/ \E kind \in {"register", "unregister", "publish"} : Call(c, kind)
                 \/ Caller(c) \/ Timeout(c) \/ FailCaller(c)
           \/ \E h \in Handlers : Answer(h)
           \/ \E id \in events, ok \in BOOLEAN : AnswerRequest(id, ok)
           \/ Listen
           \/ \E id \in requests : HandleRequest(id)
           \/ \E id \in replies  : SaveGrant(id)
           \/ \E h \in Handlers, r \in responses : HandleKeylistUpdateResponse(h, r)
           \/ CrashAgent
    PROVE  AInv'
  <1>1. ASSUME NEW c \in Callers, Caller(c) PROVE UNCHANGED Messages
    BY <1>1 DEF Messages, Caller, GetRouterConfig, CheckRegister, CheckUnregister, CheckAddKey,
       SendRequest, GetGrant, SaveRouterConfig, SaveRouterConnectionID,
       DeleteRouterConnectionID, SendUpdate, net, facts
  <1>2. ASSUME NEW c \in Callers, NEW kind \in {"register", "unregister", "publish"},
               Call(c, kind) \/ Timeout(c) \/ FailCaller(c)
        PROVE  UNCHANGED Messages
    BY <1>2 DEF Messages, Call, Timeout, FailCaller, net, facts
  <1>3. ASSUME NEW h \in Handlers, Answer(h) PROVE UNCHANGED Messages
    BY <1>3 DEF Messages, Answer, TakeResponse, net, facts
  <1>4. ASSUME NEW id, NEW ok,
               AnswerRequest(id, ok) \/ HandleRequest(id) \/ SaveGrant(id) \/ CrashAgent
        PROVE  UNCHANGED Messages
    BY <1>4 DEF Messages, AnswerRequest, HandleRequest, SaveGrant, CrashAgent, net, facts
  <1>5. CASE Listen
    BY <1>5, MessagesStayPut DEF Messages, Listen, SendGrant, TakeCallback, net, facts
  <1>6. ASSUME NEW h \in Handlers, NEW r \in responses, HandleKeylistUpdateResponse(h, r)
        PROVE  UNCHANGED Messages
    BY <1>6 DEF Messages, HandleKeylistUpdateResponse, net, facts
  <1> QED
    BY <1>1, <1>2, <1>3, <1>4, <1>5, <1>6, MessagesStayPut, Zenon

\* A trouble: what it touches may be lost.
LEMMA TroublesArrive ==
    ASSUME AInv, IInv', NoWay, FailMediator \/ LoseMessage \/ CrashMediator
    PROVE  AInv'
  <1>1. /\ troubles' = troubles + 1 /\ UNCHANGED mailbox /\ forwards' \subseteq forwards
        /\ workers \in [Workers -> WorkerType]
    BY DEF FailMediator, LoseMessage, CrashMediator, Trouble, net, AInv, IInv, WorkersFine
  <1>2. ~Untroubled'
    BY <1>1 DEF NoWay, Untroubled
  <1>3. \A w \in Workers : workers'[w] = workers[w] \/ workers'[w] = IdleWorker
    BY <1>1 DEF FailMediator, LoseMessage, CrashMediator, Work
  <1> QED
    BY <1>1, <1>2, <1>3, IdleIsIdle, TroubledIsExcused

LEMMA NextArrives == AInv /\ [Next]_vars => AInv'
  <1> SUFFICES ASSUME AInv, [Next]_vars PROVE AInv'
    OBVIOUS
  <1>1. IInv'
    BY NextInv DEF AInv
  <1>2. CASE UNCHANGED vars
    <2>1. UNCHANGED <<Messages, unregisters, duplicates, troubles, routes>>
      BY <1>2 DEF vars, Messages, facts, net, counts
    <2>2. NoWay
      BY <2>1 DEF NoWay, AInv, IInv, CountsFine
    <2> QED
      BY <1>1, <2>1, <2>2, MessagesStayPut
  <1>3. CASE Next
    <2>1. NoWay
      BY <1>3, NoWayBack DEF AInv
    <2>2. ASSUME NEW w \in Workers, Worker(w) PROVE AInv'
      BY <1>1, <2>1, <2>2, PutRouteArrives, SendResponseArrives, FindRouteArrives,
         ForwardArrives, AddMessageArrives, Zenon DEF Worker
    <2>3. CASE Receive
      BY <1>1, <2>1, <2>3, OtherStepsArrive, HandleKeylistUpdateArrives, HandleForwardArrives,
         Zenon DEF Receive
    <2> QED
      BY <1>1, <1>3, <2>1, <2>2, <2>3, OtherStepsArrive, SendForwardArrives, PickupArrives,
         TroublesArrive, Zenon DEF Next
  <1> QED
    BY <1>2, <1>3

LEMMA InitArrives == Init => AInv
  <1> SUFFICES ASSUME Init PROVE AInv
    OBVIOUS
  <1>1. IInv
    BY InitInv
  <1>2. HeldFine
    BY EmptySeq DEF Init, Inbox!Init, HeldFine
  <1>3. AddressedFine
    BY DEF Init, AddressedFine, IdleWorker
  <1>4. NoneLost
    BY DEF Init, NoneLost
  <1> QED
    BY <1>1, <1>2, <1>3, <1>4 DEF AInv

\* As long as nothing fails, is repeated or restarts, and the agent does not leave its
\* router, a message sent to an address of the agent is never lost, whatever number of
\* forwards fails because the agent is offline: it is on its way, has arrived, or is in the
\* inbox or was picked up from there.
THEOREM NoMessageIsDropped == Spec => []MessagesArrive
  <1>1. AInv => MessagesArrive
    <2> SUFFICES ASSUME AInv, unregisters + duplicates + troubles = 0, NEW m \in 1..sent
                 PROVE  m \in OnTheirWay \cup delivered \cup Waiting
      BY DEF MessagesArrive
    <2>1. Safe(m)
      BY DEF AInv, IInv, CountsFine, Untroubled, NoneLost
    <2>2. CASE OnWire(m) \/ InHand(m)
      BY <2>2 DEF OnWire, InHand, OnTheirWay
    <2>3. ASSUME NEW n \in 1..added, queued[n] = m PROVE m \in Waiting
      <3>1. /\ ToSet(inbox) = {inbox[i] : i \in DOMAIN inbox}
            /\ ToSet(handled) = {handled[i] : i \in DOMAIN handled}
        BY DEF ToSet
      <3>2. n \in ToSet(inbox) \cup taken \cup ToSet(handled)
        BY DEF AInv, HeldFine
      <3> QED
        BY <2>3, <3>1, <3>2 DEF Waiting
    <2> QED
      BY <2>1, <2>2, <2>3 DEF Safe, Queued
  <1> QED
    BY <1>1, InitArrives, NextArrives, PTL DEF Spec
=============================================================================
