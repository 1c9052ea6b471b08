------------------------------- MODULE Mediator -------------------------------
(***************************************************************************)
(* The route coordination service of pkg/didcomm/protocol/mediator, once in *)
(* a mediator and once in an agent that registers with it, publishes        *)
(* addresses that lead through it, and is sent messages to those addresses. *)
(*                                                                          *)
(*   register:   check - request - await the grant in the store - save the  *)
(*               configuration - save the connection id                     *)
(*   publish:    read the configuration - check - a channel - keylist       *)
(*               update - wait - hand out the address                       *)
(*   forward:    look the key up - send to its agent - or else the inbox    *)
(*                                                                          *)
(* The inbox is the Mailbox that message pickup implements.                 *)
(***************************************************************************)
EXTENDS Naturals, FiniteSets

CONSTANTS
    Callers,        \* goroutines of the agent that call the service
    Handlers,       \* goroutines of the agent for keylist update responses
    Workers,        \* goroutines of the mediator for inbound messages
    MaxCalls, MaxMessages, MaxUnregisters, MaxOutages, MaxTroubles
                    \* bounds of the exploration: an outage is a forward that fails, a
                    \* trouble is a duplicate, a loss, any other failure or a crash

ASSUME LimitsAssumption ==
    /\ MaxCalls \in Nat /\ MaxMessages \in Nat /\ MaxUnregisters \in Nat
    /\ MaxOutages \in Nat /\ MaxTroubles \in Nat

VARIABLES
    \* the agent's route store
    grants,       \* the grants saved, by the id of their request
    config,       \* the grant whose endpoint and routing keys are saved, or 0
    registered,   \* the connection id is saved
    \* the agent's memory
    channels,     \* keylistUpdateMap
    callers, handlers,
    \* the mediator's route store, and its inbox for the agent
    routes,       \* the keys that lead to the agent
    inbox, added, taken, handled,
    queued,       \* what message the n-th one added to the inbox is
    \* the mediator's memory
    events,       \* requests the mediator's client has not answered
    callbacks,    \* its answers that the listener has not taken
    listener,     \* the request the listener works on, or 0
    workers,
    \* the network
    requests, replies, updates, responses, forwards,
    \* what has happened
    granted,      \* requests the mediator's client agreed to
    published,    \* keys whose address leads through the mediator
    sent,         \* how many messages were sent to such addresses
    delivered,    \* those that reached the agent
    calls, unregisters, outages, duplicates, troubles

routeStore == <<grants, config, registered>>
agent      == <<channels, callers, handlers>>
mailbox    == <<inbox, added, taken, handled, queued>>
client     == <<events, callbacks, listener>>
net        == <<requests, replies, updates, responses, forwards>>
facts      == <<granted, published, sent, delivered>>
counts     == <<calls, unregisters, outages, duplicates, troubles>>
vars       == <<routeStore, agent, routes, mailbox, client, workers, net, facts, counts>>

Inbox == INSTANCE Mailbox

IdleCaller  == [pc |-> "idle", kind |-> "none", id |-> 0, via |-> FALSE]
IdleHandler == [pc |-> "idle", id |-> 0, ok |-> FALSE]
IdleWorker  == [pc |-> "idle", id |-> 0, msg |-> 0, ok |-> FALSE]

Init ==
    /\ grants = {} /\ config = 0 /\ registered = FALSE
    /\ channels = {}
    /\ callers  = [c \in Callers |-> IdleCaller]
    /\ handlers = [h \in Handlers |-> IdleHandler]
    /\ routes = {}
    /\ Inbox!Init /\ queued = <<>>
    /\ events = {} /\ callbacks = {} /\ listener = 0
    /\ workers = [w \in Workers |-> IdleWorker]
    /\ requests = {} /\ replies = {} /\ updates = {} /\ responses = {} /\ forwards = {}
    /\ granted = {} /\ published = {} /\ sent = 0 /\ delivered = {}
    /\ calls = 0 /\ unregisters = 0 /\ outages = 0
    /\ duplicates = 0 /\ troubles = 0

MayTrouble == duplicates + troubles < MaxTroubles
Trouble    == MayTrouble /\ troubles' = troubles + 1 /\ UNCHANGED duplicates

\* A message that arrives is gone, or will arrive again.
Arrives(m, wire, rest) ==
    /\ m \in wire
    /\ \/ rest = wire \ {m} /\ UNCHANGED duplicates
       \/ MayTrouble /\ rest = wire /\ duplicates' = duplicates + 1

-----------------------------------------------------------------------------
(***************************************************************************)
(* The agent's calls.  Each names what it creates: its request and grant,   *)
(* its key, its keylist update and the channel of the answer.               *)
(***************************************************************************)
Become(c, me) == callers' = [callers EXCEPT ![c] = me]
Goto(c, pc)   == Become(c, [callers[c] EXCEPT !.pc = pc])
Return(c)     == Become(c, IdleCaller)

Call(c, kind) ==
    /\ callers[c].pc = "idle"
    /\ calls < MaxCalls /\ calls' = calls + 1
    /\ kind = "unregister" => unregisters < MaxUnregisters
    /\ unregisters' = IF kind = "unregister" THEN unregisters + 1 ELSE unregisters
    /\ Become(c, [pc |-> IF kind = "publish" THEN "config" ELSE "check",
                  kind |-> kind, id |-> calls', via |-> FALSE])
    /\ UNCHANGED <<routeStore, channels, handlers, routes, mailbox, client, workers, net,
                   facts, outages, duplicates, troubles>>

\* GetRouterConfig: the endpoint of an address is the router's if there is one.
GetRouterConfig(c) ==
    /\ callers[c].pc = "config"
    /\ Become(c, [callers[c] EXCEPT !.pc = "check", !.via = registered])
    /\ UNCHANGED <<routeStore, channels, handlers, routes, mailbox, client, workers, net,
                   facts, counts>>

\* The address of the new key is handed out.
Publish(c) == published' = IF callers[c].via THEN published \cup {callers[c].id} ELSE published

\* ensureConnectionExists in Register, ...
CheckRegister(c) ==
    /\ callers[c].pc = "check" /\ callers[c].kind = "register"
    /\ IF registered THEN Return(c) ELSE Goto(c, "request")
    /\ UNCHANGED <<routeStore, channels, handlers, routes, mailbox, client, workers, net,
                   facts, counts>>

\* ... in Unregister, ...
CheckUnregister(c) ==
    /\ callers[c].pc = "check" /\ callers[c].kind = "unregister"
    /\ IF registered THEN Goto(c, "delete") ELSE Return(c)
    /\ UNCHANGED <<routeStore, channels, handlers, routes, mailbox, client, workers, net,
                   facts, counts>>

\* Mutant: the channel is not registered.
CheckAddKeyOnly(c) ==
    /\ callers[c].pc = "check" /\ callers[c].kind = "publish"
    /\ IF registered THEN Goto(c, "update") /\ UNCHANGED published
                     ELSE Return(c) /\ Publish(c)
    /\ UNCHANGED <<routeStore, channels, handlers, routes, mailbox, client, workers, net,
                   granted, sent, delivered, counts>>

\* ... and in AddKey, which makes a channel for the answer; AddKeyToRouter takes "not
\* registered" for success.
CheckAddKey(c) ==
    /\ callers[c].pc = "check" /\ callers[c].kind = "publish"
    /\ IF registered
       THEN /\ Goto(c, "update") /\ channels' = channels \cup {callers[c].id}
            /\ UNCHANGED published
       ELSE /\ Return(c) /\ Publish(c)
            /\ UNCHANGED channels
    /\ UNCHANGED <<routeStore, handlers, routes, mailbox, client, workers, net,
                   granted, sent, delivered, counts>>

SendRequest(c) ==
    /\ callers[c].pc = "request"
    /\ requests' = requests \cup {callers[c].id}
    /\ Goto(c, "await")
    /\ UNCHANGED <<routeStore, channels, handlers, routes, mailbox, client, workers,
                   replies, updates, responses, forwards, facts, counts>>

\* getGrant finds the grant of its request, ...
GetGrant(c) ==
    /\ callers[c].pc = "await" /\ callers[c].id \in grants
    /\ Goto(c, "saveConfig")
    /\ UNCHANGED <<routeStore, channels, handlers, routes, mailbox, client, workers, net,
                   facts, counts>>

\* Mutant: the configuration is not saved.
SkipRouterConfig(c) ==
    /\ callers[c].pc = "saveConfig"
    /\ Goto(c, "saveID")
    /\ UNCHANGED <<routeStore, channels, handlers, routes, mailbox, client, workers, net,
                   facts, counts>>

SaveRouterConfig(c) ==
    /\ callers[c].pc = "saveConfig"
    /\ config' = callers[c].id
    /\ Goto(c, "saveID")
    /\ UNCHANGED <<grants, registered, channels, handlers, routes, mailbox, client, workers,
                   net, facts, counts>>

SaveRouterConnectionID(c) ==
    /\ callers[c].pc = "saveID"
    /\ registered' = TRUE
    /\ Return(c)
    /\ UNCHANGED <<grants, config, channels, handlers, routes, mailbox, client, workers,
                   net, facts, counts>>

DeleteRouterConnectionID(c) ==
    /\ callers[c].pc = "delete"
    /\ registered' = FALSE
    /\ Return(c)
    /\ UNCHANGED <<grants, config, channels, handlers, routes, mailbox, client, workers,
                   net, facts, counts>>

SendUpdate(c) ==
    /\ callers[c].pc = "update"
    /\ updates' = updates \cup {callers[c].id}
    /\ Goto(c, "wait")
    /\ UNCHANGED <<routeStore, channels, handlers, routes, mailbox, client, workers,
                   requests, replies, responses, forwards, facts, counts>>

\* Mutant: any answer of the mediator is taken for a success.
TakeAnyResponse(c, h) ==
    /\ callers[c].pc = "wait"
    /\ handlers[h].pc = "answer" /\ handlers[h].id = callers[c].id
    /\ handlers' = [handlers EXCEPT ![h] = IdleHandler]
    /\ Return(c) /\ Publish(c)
    /\ channels' = channels \ {callers[c].id}
    /\ UNCHANGED <<routeStore, routes, mailbox, client, workers, net,
                   granted, sent, delivered, counts>>

\* The answer comes over the unbuffered channel; only after a success is the channel
\* removed.
TakeResponse(c, h) ==
    /\ callers[c].pc = "wait"
    /\ handlers[h].pc = "answer" /\ handlers[h].id = callers[c].id
    /\ handlers' = [handlers EXCEPT ![h] = IdleHandler]
    /\ Return(c)
    /\ IF handlers[h].ok
       THEN Publish(c) /\ channels' = channels \ {callers[c].id}
       ELSE UNCHANGED <<published, channels>>
    /\ UNCHANGED <<routeStore, routes, mailbox, client, workers, net,
                   granted, sent, delivered, counts>>

\* Mutant: only the wait for a grant ends.
TimeoutOfGrant(c) ==
    /\ callers[c].pc = "await"
    /\ Return(c)
    /\ UNCHANGED <<routeStore, channels, handlers, routes, mailbox, client, workers, net,
                   facts, counts>>

\* The last retry of getGrant, or updateTimeout: the call fails, the channel stays.
Timeout(c) ==
    /\ callers[c].pc \in {"await", "wait"}
    /\ Return(c)
    /\ UNCHANGED <<routeStore, channels, handlers, routes, mailbox, client, workers, net,
                   facts, counts>>

\* HandleInbound of a grant: saveGrant, whether somebody still waits or not.
SaveGrant(id) ==
    /\ Arrives(id, replies, replies')
    /\ grants' = grants \cup {id}
    /\ UNCHANGED <<config, registered, agent, routes, mailbox, client, workers,
                   requests, updates, responses, forwards, facts,
                   calls, unregisters, outages, troubles>>

\* Mutant: an answer without a channel is answered to (a nil channel blocks for ever).
HandleAnyResponse(h, r) ==
    /\ handlers[h].pc = "idle"
    /\ Arrives(r, responses, responses')
    /\ handlers' = [handlers EXCEPT ![h] = [pc |-> "answer", id |-> r.id, ok |-> r.ok]]
    /\ UNCHANGED <<routeStore, channels, callers, routes, mailbox, client, workers,
                   requests, replies, updates, forwards, facts,
                   calls, unregisters, outages, troubles>>

HandleKeylistUpdateResponse(h, r) ==
    /\ handlers[h].pc = "idle"
    /\ Arrives(r, responses, responses')
    /\ handlers' = IF r.id \in channels
                   THEN [handlers EXCEPT ![h] = [pc |-> "answer", id |-> r.id, ok |-> r.ok]]
                   ELSE handlers
    /\ UNCHANGED <<routeStore, channels, callers, routes, mailbox, client, workers,
                   requests, replies, updates, forwards, facts,
                   calls, unregisters, outages, troubles>>

-----------------------------------------------------------------------------
(***************************************************************************)
(* The mediator.                                                            *)
(***************************************************************************)
\* HandleInbound of a request: an action event for the client.
HandleRequest(id) ==
    /\ Arrives(id, requests, requests')
    /\ events' = events \cup {id}
    /\ UNCHANGED <<routeStore, agent, routes, mailbox, callbacks, listener, workers,
                   replies, updates, responses, forwards, facts,
                   calls, unregisters, outages, troubles>>

\* Continue and Stop: the client's goroutine offers the callback to the listener.
AnswerRequest(id, ok) ==
    /\ id \in events
    /\ events' = events \ {id}
    /\ callbacks' = callbacks \cup {[id |-> id, ok |-> ok]}
    /\ granted' = IF ok THEN granted \cup {id} ELSE granted
    /\ UNCHANGED <<routeStore, agent, routes, mailbox, listener, workers, net,
                   published, sent, delivered, counts>>

\* listenForCallbacks takes one when it has finished the last; a rejection is logged.
TakeCallback(cb) ==
    /\ listener = 0 /\ cb \in callbacks
    /\ callbacks' = callbacks \ {cb}
    /\ listener' = IF cb.ok THEN cb.id ELSE 0
    /\ UNCHANGED <<routeStore, agent, routes, mailbox, events, workers, net, facts, counts>>

Grant == replies' = replies \cup {listener}

\* handleInboundRequest: the grant has the request's id.
SendGrant ==
    /\ listener # 0
    /\ Grant /\ listener' = 0
    /\ UNCHANGED <<routeStore, agent, routes, mailbox, events, callbacks, workers,
                   requests, updates, responses, forwards, facts, counts>>

Work(w, me) == workers' = [workers EXCEPT ![w] = me]

HandleKeylistUpdate(w, key) ==
    /\ workers[w].pc = "idle"
    /\ Arrives(key, updates, updates')
    /\ Work(w, [IdleWorker EXCEPT !.pc = "put", !.id = key])
    /\ UNCHANGED <<routeStore, agent, routes, mailbox, client, requests, replies,
                   responses, forwards, facts,
                   calls, unregisters, outages, troubles>>

\* The key is put into the route store; if that fails, the agent is told so.
PutRoute(w) ==
    /\ workers[w].pc = "put"
    /\ \/ /\ routes' = routes \cup {workers[w].id}
          /\ Work(w, [workers[w] EXCEPT !.pc = "respond", !.ok = TRUE])
          /\ UNCHANGED <<duplicates, troubles>>
       \/ /\ Trouble /\ UNCHANGED routes
          /\ Work(w, [workers[w] EXCEPT !.pc = "respond", !.ok = FALSE])
    /\ UNCHANGED <<routeStore, agent, mailbox, client, net, facts,
                   calls, unregisters, outages>>

Respond(w) == responses' = responses \cup {[id |-> workers[w].id, ok |-> workers[w].ok]}

SendResponse(w) ==
    /\ workers[w].pc = "respond"
    /\ Respond(w) /\ Work(w, IdleWorker)
    /\ UNCHANGED <<routeStore, agent, routes, mailbox, client, requests, replies, updates,
                   forwards, facts, counts>>

\* Somebody who has an address sends a message to it.
SendForward(key) ==
    /\ key \in published /\ sent < MaxMessages
    /\ sent' = sent + 1
    /\ forwards' = forwards \cup {[msg |-> sent', key |-> key]}
    /\ UNCHANGED <<routeStore, agent, routes, mailbox, client, workers, requests, replies,
                   updates, responses, granted, published, delivered, counts>>

HandleForward(w, f) ==
    /\ workers[w].pc = "idle"
    /\ Arrives(f, forwards, forwards')
    /\ Work(w, [IdleWorker EXCEPT !.pc = "route", !.id = f.key, !.msg = f.msg])
    /\ UNCHANGED <<routeStore, agent, routes, mailbox, client, requests, replies, updates,
                   responses, facts,
                   calls, unregisters, outages, troubles>>

\* A message to a key nobody added is dropped.
FindRoute(w) ==
    /\ workers[w].pc = "route"
    /\ Work(w, IF workers[w].id \in routes THEN [workers[w] EXCEPT !.pc = "forward"]
                                           ELSE IdleWorker)
    /\ UNCHANGED <<routeStore, agent, routes, mailbox, client, net, facts, counts>>

\* Mutant: a message that cannot be forwarded is given up.
ForwardOrDrop(w) ==
    /\ workers[w].pc = "forward"
    /\ \/ delivered' = delivered \cup {workers[w].msg} /\ UNCHANGED outages
       \/ outages < MaxOutages /\ outages' = outages + 1 /\ UNCHANGED delivered
    /\ Work(w, IdleWorker)
    /\ UNCHANGED <<routeStore, agent, routes, mailbox, client, net,
                   granted, published, sent, calls, unregisters, duplicates, troubles>>

\* outbound.Forward; one that fails, though the message may be out, is for the inbox.
Forward(w) ==
    /\ workers[w].pc = "forward"
    /\ \/ /\ delivered' = delivered \cup {workers[w].msg} /\ UNCHANGED outages
          /\ Work(w, IdleWorker)
       \/ /\ outages < MaxOutages /\ outages' = outages + 1
          /\ UNCHANGED delivered \/ delivered' = delivered \cup {workers[w].msg}
          /\ Work(w, [workers[w] EXCEPT !.pc = "queue"])
    /\ UNCHANGED <<routeStore, agent, routes, mailbox, client, net,
                   granted, published, sent, calls, unregisters, duplicates, troubles>>

\* AddMessage of message pickup.
AddMessage(w) ==
    /\ workers[w].pc = "queue"
    /\ Inbox!Put
    /\ queued' = [n \in 1..added' |-> IF n = added' THEN workers[w].msg ELSE queued[n]]
    /\ Work(w, IdleWorker)
    /\ UNCHANGED <<routeStore, agent, routes, client, net, facts, counts>>

\* The agent picks its messages up.
Pickup ==
    /\ Inbox!Take \/ Inbox!Handle
    /\ UNCHANGED <<routeStore, agent, routes, queued, client, workers, net, facts, counts>>

-----------------------------------------------------------------------------
(***************************************************************************)
(* Failures: an access to a store fails, a send fails though its message    *)
(* may be out, a message is lost; restarts.                                 *)
(***************************************************************************)
FailCaller(c) ==
    /\ Trouble
    /\ callers[c].pc \notin {"idle", "await", "wait"}
    /\ Return(c)
    /\ \/ UNCHANGED net
       \/ /\ callers[c].pc = "request" /\ requests' = requests \cup {callers[c].id}
          /\ UNCHANGED <<replies, updates, responses, forwards>>
       \/ /\ callers[c].pc = "update" /\ updates' = updates \cup {callers[c].id}
          /\ UNCHANGED <<requests, replies, responses, forwards>>
    /\ UNCHANGED <<routeStore, channels, handlers, routes, mailbox, client, workers,
                   facts,
                   calls, unregisters, outages>>

\* The listener goes on with the next callback, a worker ends; a failed put of a key is
\* PutRoute's, a failed forward is Forward's.
FailMediator ==
    /\ Trouble
    /\ \/ /\ listener # 0 /\ listener' = 0
          /\ Grant \/ UNCHANGED replies
          /\ UNCHANGED <<workers, responses>>
       \/ \E w \in Workers :
            /\ workers[w].pc \in {"respond", "route", "forward", "queue"}
            /\ Work(w, IdleWorker)
            /\ UNCHANGED responses \/ (workers[w].pc = "respond" /\ Respond(w))
            /\ UNCHANGED <<listener, replies>>
    /\ UNCHANGED <<routeStore, agent, routes, mailbox, events, callbacks, requests, updates,
                   forwards, facts,
                   calls, unregisters, outages>>

LoseMessage ==
    /\ Trouble
    /\ \/ \E m \in requests  : requests' = requests \ {m}
                               /\ UNCHANGED <<replies, updates, responses, forwards>>
       \/ \E m \in replies   : replies' = replies \ {m}
                               /\ UNCHANGED <<requests, updates, responses, forwards>>
       \/ \E m \in updates   : updates' = updates \ {m}
                               /\ UNCHANGED <<requests, replies, responses, forwards>>
       \/ \E m \in responses : responses' = responses \ {m}
                               /\ UNCHANGED <<requests, replies, updates, forwards>>
       \/ \E m \in forwards  : forwards' = forwards \ {m}
                               /\ UNCHANGED <<requests, replies, updates, responses>>
    /\ UNCHANGED <<routeStore, agent, routes, mailbox, client, workers, facts,
                   calls, unregisters, outages>>

CrashAgent ==
    /\ Trouble
    /\ channels' = {}
    /\ callers'  = [c \in Callers |-> IdleCaller]
    /\ handlers' = [h \in Handlers |-> IdleHandler]
    /\ UNCHANGED <<routeStore, routes, mailbox, client, workers, net, facts,
                   calls, unregisters, outages>>

CrashMediator ==
    /\ Trouble
    /\ events' = {} /\ callbacks' = {} /\ listener' = 0
    /\ workers' = [w \in Workers |-> IdleWorker]
    /\ UNCHANGED <<routeStore, agent, routes, mailbox, net, facts,
                   calls, unregisters, outages>>

-----------------------------------------------------------------------------
Caller(c) ==
    \/ GetRouterConfig(c) \/ CheckRegister(c) \/ CheckUnregister(c) \/ CheckAddKey(c)
    \/ SendRequest(c) \/ GetGrant(c) \/ SaveRouterConfig(c) \/ SaveRouterConnectionID(c)
    \/ DeleteRouterConnectionID(c) \/ SendUpdate(c)

Answer(h)   == \E c \in Callers : TakeResponse(c, h)
Listen      == SendGrant \/ \E cb \in callbacks : TakeCallback(cb)
Worker(w)   == PutRoute(w) \/ SendResponse(w) \/ FindRoute(w) \/ Forward(w) \/ AddMessage(w)

Receive ==
    \/ \E id \in requests : HandleRequest(id)
    \/ \E id \in replies  : SaveGrant(id)
    \/ \E h \in Handlers, r \in responses : HandleKeylistUpdateResponse(h, r)
    \/ \E w \in Workers : \/ \E key \in updates : HandleKeylistUpdate(w, key)
                          \/ \E f \in forwards  : HandleForward(w, f)

Next ==
    \/ \E c \in Callers : \/ \E kind \in {"register", "unregister", "publish"} : Call(c, kind)
                          \/ Caller(c) \/ Timeout(c) \/ FailCaller(c)
    \/ \E h \in Handlers : Answer(h)
    \/ \E id \in events, ok \in BOOLEAN : AnswerRequest(id, ok)
    \/ Listen
    \/ \E w \in Workers : Worker(w)
    \/ Receive
    \/ \E key \in published : SendForward(key)
    \/ Pickup
    \/ FailMediator \/ LoseMessage \/ CrashAgent \/ CrashMediator

Spec == Init /\ [][Next]_vars

\* The scheduler runs every goroutine, the timers of the calls fire, and what the
\* network does not lose it delivers.
FairSpec ==
    /\ Spec
    /\ \A c \in Callers : WF_vars(Caller(c)) /\ WF_vars(Timeout(c))
    /\ \A h \in Handlers : WF_vars(Answer(h))
    /\ \A w \in Workers : WF_vars(Worker(w))
    /\ WF_vars(Listen)
    /\ WF_vars(Receive)
-----------------------------------------------------------------------------
Ids == 1..calls

\* Every variable holds a value of its kind, and whoever waits for an answer has a channel.
TypeOK ==
    /\ grants \subseteq Ids /\ config \in Ids \cup {0} /\ registered \in BOOLEAN
    /\ channels \subseteq Ids
    /\ callers \in [Callers -> [pc : {"idle", "check", "request", "await", "saveConfig",
                                      "saveID", "delete", "config", "update", "wait"},
                                kind : {"none", "register", "unregister", "publish"},
                                id : Ids \cup {0}, via : BOOLEAN]]
    /\ \A c \in Callers : callers[c].pc \in {"update", "wait"} => callers[c].id \in channels
    /\ handlers \in [Handlers -> [pc : {"idle", "answer"}, id : Ids \cup {0}, ok : BOOLEAN]]
    /\ routes \subseteq Ids
    /\ queued \in [1..added -> 1..sent]
    /\ events \subseteq Ids /\ callbacks \subseteq [id : Ids, ok : BOOLEAN]
    /\ listener \in Ids \cup {0}
    /\ workers \in [Workers -> [pc : {"idle", "put", "respond", "route", "forward", "queue"},
                                id : Ids \cup {0}, msg : 0..sent, ok : BOOLEAN]]
    /\ requests \subseteq Ids /\ replies \subseteq Ids /\ updates \subseteq Ids
    /\ responses \subseteq [id : Ids, ok : BOOLEAN]
    /\ forwards \subseteq [msg : 1..sent, key : Ids]
    /\ granted \subseteq Ids /\ published \subseteq Ids /\ sent \in Nat
    /\ delivered \subseteq 1..sent
    /\ calls \in Nat /\ unregisters \in Nat /\ outages \in Nat
    /\ duplicates \in Nat /\ troubles \in Nat

\* An agent that holds itself for registered has the endpoint and the keys of a grant
\* that the mediator's client agreed to, wherever it was stopped.
RegisteredIsGranted == registered => config \in granted

\* An address that leads through the mediator is only handed out once the mediator
\* has the key, whatever fails.  (Unless the agent unregisters while it makes the
\* address: AddKeyToRouter then reports success without having added the key.)
PublishedIsRouted == unregisters = 0 => published \subseteq routes

OnTheirWay == {f.msg : f \in forwards} \cup {workers[w].msg : w \in Workers}
Waiting    == {queued[n] : n \in {inbox[i] : i \in DOMAIN inbox} \cup taken
                                 \cup {handled[i] : i \in DOMAIN handled}}

\* Whatever agents are offline, a message sent to an address the agent has handed out
\* is on its way, has reached the agent, or is in its inbox or picked up from there.
MessagesArrive ==
    unregisters + duplicates + troubles = 0
    => 1..sent \subseteq OnTheirWay \cup delivered \cup Waiting

\* Every call returns, also when the mediator never answers.
CallsReturn == \A c \in Callers : callers[c].pc # "idle" ~> callers[c].pc = "idle"

\* The call that made the channel has returned without an answer, and left the channel.
LeftOpen(id) == id \in channels /\ \A c \in Callers : callers[c].id # id

\* If nothing is repeated, the goroutine of an answer goes on unless its call has given
\* up; in particular one whose call died in a restart does.
AnswersAreTaken ==
    \A h \in Handlers :
        handlers[h].pc = "answer"
        ~> handlers[h].pc = "idle" \/ LeftOpen(handlers[h].id) \/ duplicates > 0
=============================================================================
