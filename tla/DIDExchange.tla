----------------------------- MODULE DIDExchange -----------------------------
(***************************************************************************)
(* One thread of the DID exchange protocol between two agents, each running *)
(* the service of pkg/didcomm/protocol/didexchange.  An agent's inbound     *)
(* goroutines, its single callback listener and the goroutines of its API   *)
(* calls are workers that interleave at every access to a store or to the   *)
(* network; the transition check of HandleInbound is made once, by the      *)
(* first of those steps, and never again.                                   *)
(*                                                                          *)
(* A worker walks through                                                   *)
(*   record -> (execute -> persist [-> mapping] [-> permanent -> did]       *)
(*              -> act [-> event])*  -> idle                                *)
(* which are the statements of Service.HandleInbound and Service.handle.    *)
(***************************************************************************)
EXTENDS Naturals, Sequences, FiniteSets

CONSTANTS
    Invitee,        \* the agent the invitation is given to (namespace "my")
    Inviter,        \* the agent that made the invitation (namespace "their")
    Handlers,       \* goroutines an agent has for inbound messages and API calls
    Listener,       \* the goroutine of startInternalListener
    Opening,        \* how the exchange starts, one of Openings
    Listening,      \* agents whose client registered an action event channel
    Duplicates,     \* TRUE iff the transport may deliver a message again
    AnswerTwice,    \* TRUE iff a client may answer one action event twice
    Durable,        \* TRUE iff the protocol state store survives a restart
    NoDID, NoMsg,   \* absent values
    MaxConns, MaxAccepts, MaxFailures, MaxCrashes   \* bounds of the exploration

Openings == {"invitation", "oob-invitation", "implicit"}

ASSUME AgentsAssumption ==
    /\ Invitee # Inviter
    /\ Listener \notin Handlers
    /\ Opening \in Openings
    /\ Listening \subseteq {Invitee, Inviter}
    /\ Duplicates \in BOOLEAN /\ AnswerTwice \in BOOLEAN /\ Durable \in BOOLEAN

ASSUME BoundsAssumption ==
    MaxConns \in Nat /\ MaxAccepts \in Nat /\ MaxFailures \in Nat /\ MaxCrashes \in Nat

Agents  == {Invitee, Inviter}
Workers == Handlers \cup {Listener}

Peer(a) == IF a = Invitee THEN Inviter ELSE Invitee

-----------------------------------------------------------------------------
(***************************************************************************)
(* Data.  A DID is the agent that created it and a serial number.  A        *)
(* message carries the DID of its sender (requests and responses).          *)
(***************************************************************************)
DIDs     == (Agents \X Nat) \cup {NoDID}
MsgTypes == {"invitation", "oob-invitation", "request", "response", "complete"}
Messages == [type : MsgTypes, did : DIDs]

ASSUME AbsentAssumption == NoDID \notin Agents \X Nat /\ NoMsg \notin Messages

States   == {"null", "invited", "requested", "responded", "completed", "abandoned"}
NoConn   == 0
Conns    == 1 .. MaxConns
Records  == [conn : Conns \cup {NoConn}, state : States, myDID : DIDs, theirDID : DIDs]

NoRec == [conn |-> NoConn, state |-> "null", myDID |-> NoDID, theirDID |-> NoDID]

Msg(type, did) == [type |-> type, did |-> did]

Invitations == {"invitation", "oob-invitation"}

\* The agent a message type is meant for, and the namespace of its thread there.
Receiver(type) == IF type \in {"request", "complete"} THEN Inviter ELSE Invitee
FindNamespace(type) ==
    IF type \in Invitations \cup {"response"} THEN "my" ELSE "their"

-----------------------------------------------------------------------------
(***************************************************************************)
(* The state machine of states.go.                                          *)
(***************************************************************************)
CanTransitionTo(s, t) ==
    <<s, t>> \in { <<"null", "invited">>, <<"null", "requested">>,
                   <<"invited", "requested">>, <<"requested", "responded">>,
                   <<"responded", "completed">> }

StateFromMsgType(type) ==
    CASE type \in Invitations -> "invited"
      [] type = "request"     -> "requested"
      [] type = "response"    -> "responded"
      [] type = "complete"    -> "completed"

FollowupMissing(s, type) == IF s = "invited" THEN "requested" ELSE "noop"   \* mutant

\* The state handle() goes on with after `s`; "noop" ends the loop.
Followup(s, type) ==
    CASE s = "invited"                              -> "requested"
      [] s = "requested" /\ type = "request"        -> "responded"
      [] s = "responded" /\ type # "request"        -> "completed"
      [] OTHER                                      -> "noop"

CanTriggerActionEvents(s, ns) ==
    \/ s = "invited"   /\ ns = "my"
    \/ s = "requested" /\ ns = "their"

\* update() stores the thread mapping with the first state of a thread only.
SavesMapping(s, type) ==
    \/ s = "requested" /\ type = "request"
    \/ s = "invited"   /\ type \in Invitations

-----------------------------------------------------------------------------
VARIABLES
    records,     \* protocol state store: connection id -> record
    threads,     \* protocol state store: the connection id of the thread
    events,      \* protocol state store: connection id -> saved event data
    permanent,   \* permanent store: connection id -> record
    dids,        \* connection store of DIDs: the DIDs whose keys are saved
    sent,        \* every message ever given to the transport
    delivered,   \* the messages delivered at least once
    workers,     \* the goroutines of each agent
    actions,     \* action events the client holds
    callbacks,   \* callbackChannel
    answered,    \* connections whose action event the client has answered
    created,     \* number of connection records created so far
    minted,      \* number of DIDs created so far
    saved,       \* history: the DIDs an agent has persisted as its own
    accepts, failures, crashes  \* how much of each bound is used up

stores == <<records, threads, events, permanent, dids, saved>>
client == <<actions, callbacks, answered>>
net    == <<sent, delivered>>
used   == <<created, minted, accepts, failures, crashes>>
vars   == <<stores, client, net, used, workers>>

PCs   == {"idle", "record", "execute", "persist", "mapping", "permanent",
          "did", "act", "event", "abandon", "saveabandoned"}

IdleWorker == [pc |-> "idle", msg |-> NoMsg, next |-> "noop", rec |-> NoRec, out |-> NoMsg]

\* The data of an action event, as saved in the store and as held by its callback.
EventWithoutMsg(w) == [msg |-> NoMsg, next |-> w.next, rec |-> w.rec]   \* mutant
Event(w) == [msg |-> w.msg, next |-> w.next, rec |-> w.rec]
NoEvent  == [msg |-> NoMsg, next |-> "noop", rec |-> NoRec]
EventData == [msg : Messages, next : States \cup {"noop"}, rec : Records]

Goto(a, w, next) == workers' = [workers EXCEPT ![a][w] = next]
Idle(a, w)       == Goto(a, w, IdleWorker)

\* GetConnectionRecordByNSThreadID, GetConnectionRecord and currentState.
ThreadRecord(a) == IF threads[a] = NoConn THEN NoRec ELSE records[a][threads[a]]
ConnectionRecord(a, c) ==
    IF permanent[a][c] # NoRec THEN permanent[a][c] ELSE records[a][c]
CurrentState(a) == ThreadRecord(a).state

Init ==
    /\ records   = [a \in Agents |-> [c \in Conns |-> NoRec]]
    /\ threads   = [a \in Agents |-> NoConn]
    /\ events    = [a \in Agents |-> [c \in Conns |-> NoEvent]]
    /\ permanent = [a \in Agents |-> [c \in Conns |-> NoRec]]
    /\ dids      = [a \in Agents |-> {}]
    /\ saved     = {}
    /\ sent      = IF Opening = "implicit" THEN {} ELSE {Msg(Opening, NoDID)}
    /\ delivered = {}
    /\ workers   = [a \in Agents |-> [w \in Workers |-> IdleWorker]]
    /\ actions   = [a \in Agents |-> {}]
    /\ callbacks = [a \in Agents |-> << >>]
    /\ answered  = [a \in Agents |-> {}]
    /\ created   = [a \in Agents |-> 0]
    /\ minted    = [a \in Agents |-> 0]
    /\ accepts   = 0 /\ failures = 0 /\ crashes = 0

-----------------------------------------------------------------------------
(***************************************************************************)
(* Service.HandleInbound: the transition check, and the goroutine's start.  *)
(***************************************************************************)
CreatesRecord(type) == type \in Invitations \cup {"request"}

Deliverable(a, m) ==
    /\ m \in sent /\ Receiver(m.type) = a
    /\ Duplicates \/ m \notin delivered
    /\ CreatesRecord(m.type) => created[a] < MaxConns

HandleInbound(a, w, m) ==
    /\ workers[a][w].pc = "idle"
    /\ Deliverable(a, m)
    /\ CanTransitionTo(CurrentState(a), StateFromMsgType(m.type))
    /\ delivered' = delivered \cup {m}
    /\ Goto(a, w, [IdleWorker EXCEPT !.pc = "record", !.msg = m,
                                     !.next = StateFromMsgType(m.type)])
    /\ UNCHANGED <<stores, client, sent, used>>

RejectInbound(a, w, m) ==
    /\ workers[a][w].pc = "idle"
    /\ Deliverable(a, m)
    /\ ~ CanTransitionTo(CurrentState(a), StateFromMsgType(m.type))
    /\ delivered' = delivered \cup {m}
    /\ UNCHANGED <<stores, client, sent, used, workers>>

\* connectionRecord(): a new record, not yet mapped from the thread ...
NewRecord(a, w) ==
    LET me == workers[a][w]
        c  == created[a] + 1
        r  == [conn |-> c, state |-> "null", myDID |-> NoDID,
               theirDID |-> IF me.msg.type = "request" THEN me.msg.did ELSE NoDID]
    IN  /\ me.pc = "record" /\ CreatesRecord(me.msg.type)
        /\ c \in Conns
        /\ records' = [records EXCEPT ![a][c] = r]
        /\ created' = [created EXCEPT ![a] = c]
        /\ Goto(a, w, [me EXCEPT !.pc = "execute", !.rec = r])
        /\ UNCHANGED <<threads, events, permanent, dids, saved, client, net,
                       minted, accepts, failures, crashes>>

\* ... or the record the thread is mapped to, when it still is.
FetchRecord(a, w) ==
    LET me == workers[a][w]
        r  == ThreadRecord(a)
    IN  /\ me.pc = "record" /\ ~ CreatesRecord(me.msg.type)
        /\ IF r = NoRec
           THEN Idle(a, w)
           ELSE Goto(a, w, [me EXCEPT !.pc = "execute", !.rec = r])
        /\ UNCHANGED <<stores, client, net, used>>

\* CreateImplicitInvitation: a mapped record, and handle() from "requested" on.
CreateImplicitInvitation(w) ==
    LET a == Invitee
        r == [NoRec EXCEPT !.conn = 1]
    IN  /\ Opening = "implicit" /\ created[a] = 0 /\ 1 \in Conns
        /\ workers[a][w].pc = "idle"
        /\ records' = [records EXCEPT ![a][1] = r]
        /\ threads' = [threads EXCEPT ![a] = 1]
        /\ created' = [created EXCEPT ![a] = 1]
        /\ Goto(a, w, [IdleWorker EXCEPT !.pc = "execute", !.next = "requested",
                              !.msg = Msg("invitation", NoDID), !.rec = r])
        /\ UNCHANGED <<events, permanent, dids, saved, client, net,
                       minted, accepts, failures, crashes>>

-----------------------------------------------------------------------------
(***************************************************************************)
(* Service.handle: ExecuteInbound of the next state ...                     *)
(***************************************************************************)
\* The states that only hand the record on, and a completed inviter.
ExecutePlain(a, w) ==
    LET me == workers[a][w]
    IN  /\ me.pc = "execute"
        /\ \/ me.next = "invited"
           \/ me.next = "requested" /\ me.msg.type = "request"
           \/ me.next = "responded" /\ me.msg.type # "request"
           \/ me.next = "completed" /\ me.msg.type = "complete"
        /\ Goto(a, w, [me EXCEPT !.pc = "persist", !.rec.state = me.next])
        /\ UNCHANGED <<stores, client, net, used>>

\* getMyDIDDoc: a new DID, whose keys are saved before it is used.
Mint(a) ==
    /\ minted' = [minted EXCEPT ![a] = @ + 1]
    /\ dids'   = [dids EXCEPT ![a] = @ \cup {<<a, minted'[a]>>}]

\* Mutant: the request goes out before its record is persisted.
ExecuteInvitationUnsaved(a, w) ==
    LET me == workers[a][w]
        d  == <<a, minted[a] + 1>>
    IN  /\ me.pc = "execute"
        /\ me.next = "requested" /\ me.msg.type \in Invitations
        /\ Mint(a)
        /\ Goto(a, w, [me EXCEPT !.pc = "act", !.out = Msg("request", d),
                                 !.rec.state = "requested", !.rec.myDID = d])
        /\ UNCHANGED <<records, threads, events, permanent, saved, client, net,
                       created, accepts, failures, crashes>>

\* createInvitedRequest: the invitee answers the invitation.
ExecuteInvitation(a, w) ==
    LET me == workers[a][w]
        d  == <<a, minted[a] + 1>>
    IN  /\ me.pc = "execute"
        /\ me.next = "requested" /\ me.msg.type \in Invitations
        /\ Mint(a)
        /\ Goto(a, w, [me EXCEPT !.pc = "persist", !.out = Msg("request", d),
                                 !.rec.state = "requested", !.rec.myDID = d])
        /\ UNCHANGED <<records, threads, events, permanent, saved, client, net,
                       created, accepts, failures, crashes>>

\* handleInboundRequest: the inviter answers the request.
ExecuteRequest(a, w) ==
    LET me == workers[a][w]
        d  == <<a, minted[a] + 1>>
    IN  /\ me.pc = "execute"
        /\ me.next = "responded" /\ me.msg.type = "request"
        /\ Mint(a)
        /\ Goto(a, w, [me EXCEPT !.pc = "persist", !.out = Msg("response", d),
                                 !.rec.state = "responded", !.rec.myDID = d,
                                 !.rec.theirDID = me.msg.did])
        /\ UNCHANGED <<records, threads, events, permanent, saved, client, net,
                       created, accepts, failures, crashes>>

\* Mutant: the responder's DID is not kept.
ExecuteResponseForgets(a, w) ==
    LET me == workers[a][w]
        r  == ThreadRecord(a)
    IN  /\ me.pc = "execute"
        /\ me.next = "completed" /\ me.msg.type = "response"
        /\ Goto(a, w, [me EXCEPT !.pc = "persist", !.out = Msg("complete", NoDID),
                                 !.rec = [r EXCEPT !.state = "completed"]])
        /\ UNCHANGED <<stores, client, net, used>>

\* handleInboundResponse: the record is read again; without a DID of its own
\* there is nothing to complete.
ExecuteResponse(a, w) ==
    LET me == workers[a][w]
        r  == ThreadRecord(a)
    IN  /\ me.pc = "execute"
        /\ me.next = "completed" /\ me.msg.type = "response"
        /\ IF r.myDID = NoDID
           THEN Idle(a, w)
           ELSE Goto(a, w, [me EXCEPT !.pc = "persist", !.out = Msg("complete", NoDID),
                               !.rec = [r EXCEPT !.state = "completed",
                                                 !.theirDID = me.msg.did]])
        /\ UNCHANGED <<stores, client, net, used>>

(***************************************************************************)
(* ... update(): one Put after the other ...                                *)
(***************************************************************************)
Persist(a, w) ==
    LET me == workers[a][w]
    IN  /\ me.pc = "persist"
        /\ records' = [records EXCEPT ![a][me.rec.conn] = me.rec]
        /\ saved'   = saved \cup ({me.rec.myDID} \ {NoDID})
        /\ Goto(a, w, [me EXCEPT !.pc =
               CASE SavesMapping(me.next, me.msg.type) -> "mapping"
                 [] me.next = "completed"              -> "permanent"
                 [] OTHER                              -> "act"])
        /\ UNCHANGED <<threads, events, permanent, dids, client, net, used>>

SaveMapping(a, w) ==
    LET me == workers[a][w]
    IN  /\ me.pc = "mapping"
        /\ threads' = [threads EXCEPT ![a] = me.rec.conn]
        /\ Goto(a, w, [me EXCEPT !.pc = "act"])
        /\ UNCHANGED <<records, events, permanent, dids, saved, client, net, used>>

SavePermanent(a, w) ==
    LET me == workers[a][w]
    IN  /\ me.pc = "permanent"
        /\ permanent' = [permanent EXCEPT ![a][me.rec.conn] = me.rec]
        /\ Goto(a, w, [me EXCEPT !.pc = "did"])
        /\ UNCHANGED <<records, threads, events, dids, saved, client, net, used>>

\* Mutant: the peer's DID is not saved before Complete goes out.
SaveDIDSkipped(a, w) ==
    /\ workers[a][w].pc = "did"
    /\ Goto(a, w, [workers[a][w] EXCEPT !.pc = "act"])
    /\ UNCHANGED <<stores, client, net, used>>

\* SaveDIDByResolving(TheirDID)
SaveDID(a, w) ==
    LET me == workers[a][w]
    IN  /\ me.pc = "did"
        /\ dids' = [dids EXCEPT ![a] = @ \cup {me.rec.theirDID}]
        /\ Goto(a, w, [me EXCEPT !.pc = "act"])
        /\ UNCHANGED <<records, threads, events, permanent, saved, client, net, used>>

(***************************************************************************)
(* ... the state's action, then the next state, an action event or the end. *)
(***************************************************************************)
Act(a, w) ==
    LET me   == workers[a][w]
        next == Followup(me.next, me.msg.type)
        halt == /\ me.msg.type # "oob-invitation"
                /\ CanTriggerActionEvents(me.next, FindNamespace(me.msg.type))
    IN  /\ me.pc = "act"
        /\ sent' = IF me.out = NoMsg THEN sent ELSE sent \cup {me.out}
        /\ IF halt \/ next # "noop"
           THEN Goto(a, w, [me EXCEPT !.next = next, !.out = NoMsg,
                                      !.pc = IF halt THEN "event" ELSE "execute"])
           ELSE Idle(a, w)
        /\ UNCHANGED <<stores, client, delivered, used>>

\* Mutant: nothing is saved for a client that listens.
SendActionEventOnly(a, w) ==
    LET me == workers[a][w]
    IN  /\ me.pc = "event"
        /\ actions' = IF a \in Listening
                      THEN [actions EXCEPT ![a] = @ \cup {Event(me)}] ELSE actions
        /\ Idle(a, w)
        /\ UNCHANGED <<stores, callbacks, answered, net, used>>

\* sendActionEvent: save the event's data, then hand the event to the client.
SendActionEvent(a, w) ==
    LET me == workers[a][w]
    IN  /\ me.pc = "event"
        /\ events' = [events EXCEPT ![a][me.rec.conn] = Event(me)]
        /\ actions' = IF a \in Listening
                      THEN [actions EXCEPT ![a] = @ \cup {Event(me)}] ELSE actions
        /\ Idle(a, w)
        /\ UNCHANGED <<records, threads, permanent, dids, saved, callbacks, answered,
                       net, used>>

-----------------------------------------------------------------------------
(***************************************************************************)
(* The client answers an action event: Continue, Stop, or, without the      *)
(* callback, AcceptInvitation and AcceptExchangeRequest.                    *)
(***************************************************************************)
MayAnswer(a, c) == AnswerTwice \/ c \notin answered[a]

Answer(a, e, stop) ==
    /\ e \in actions[a] /\ MayAnswer(a, e.rec.conn)
    /\ actions'   = [actions EXCEPT ![a] = @ \ {e}]
    /\ answered'  = [answered EXCEPT ![a] = @ \cup {e.rec.conn}]
    /\ callbacks' = [callbacks EXCEPT ![a] = Append(@, [event |-> e, stop |-> stop])]
    /\ UNCHANGED <<stores, net, used, workers>>

Continue(a, e) == Answer(a, e, FALSE)
Stop(a, e)     == Answer(a, e, TRUE)

\* The state an event waits in: the one before its next state.
AwaitedState(e) == IF e.next = "requested" THEN "invited" ELSE "requested"

\* Mutant: the state of the connection is not validated.
MayAcceptAnyState(a, c) == events[a][c] # NoEvent

\* validateState: the event data is there and the connection still waits.
MayAccept(a, c) ==
    /\ events[a][c] # NoEvent
    /\ ConnectionRecord(a, c).state = AwaitedState(events[a][c])

Accept(a, w, c) ==
    LET e == events[a][c]
    IN  /\ workers[a][w].pc = "idle"
        /\ accepts < MaxAccepts /\ MayAnswer(a, c) /\ MayAccept(a, c)
        /\ accepts'  = accepts + 1
        /\ answered' = [answered EXCEPT ![a] = @ \cup {c}]
        /\ Goto(a, w, [pc |-> "execute", msg |-> e.msg, next |-> e.next,
                       rec |-> e.rec, out |-> NoMsg])
        /\ UNCHANGED <<stores, actions, callbacks, net, created, minted,
                       failures, crashes>>

(***************************************************************************)
(* startInternalListener and abandon().                                     *)
(***************************************************************************)
TakeCallback(a) ==
    /\ workers[a][Listener].pc = "idle" /\ callbacks[a] # << >>
    /\ LET b == Head(callbacks[a])
       IN  Goto(a, Listener, [pc   |-> IF b.stop THEN "abandon" ELSE "execute",
                              msg  |-> b.event.msg, next |-> b.event.next,
                              rec  |-> b.event.rec, out  |-> NoMsg])
    /\ callbacks' = [callbacks EXCEPT ![a] = Tail(@)]
    /\ UNCHANGED <<stores, actions, answered, net, used>>

Abandon(a, w) ==
    LET me == workers[a][w]
    IN  /\ me.pc = "abandon"
        /\ IF ThreadRecord(a) = NoRec
           THEN Idle(a, w)
           ELSE Goto(a, w, [me EXCEPT !.pc = "saveabandoned",
                      !.rec = [ThreadRecord(a) EXCEPT !.state = "abandoned"]])
        /\ UNCHANGED <<stores, client, net, used>>

SaveAbandoned(a, w) ==
    LET me == workers[a][w]
    IN  /\ me.pc = "saveabandoned"
        /\ records' = [records EXCEPT ![a][me.rec.conn] = me.rec]
        /\ Idle(a, w)
        /\ UNCHANGED <<threads, events, permanent, dids, saved, client, net, used>>

-----------------------------------------------------------------------------
(***************************************************************************)
(* Failures.  An error ends an inbound goroutine or an API call and makes   *)
(* the listener abandon; an action may fail after the message is out.       *)
(***************************************************************************)
Fail(a, w) ==
    LET me == workers[a][w]
    IN  /\ me.pc # "idle" /\ failures < MaxFailures
        /\ failures' = failures + 1
        /\ \/ UNCHANGED sent
           \/ me.pc = "act" /\ me.out # NoMsg /\ sent' = sent \cup {me.out}
        /\ IF w = Listener /\ me.pc \notin {"abandon", "saveabandoned"}
           THEN Goto(a, w, [me EXCEPT !.pc = "abandon"])
           ELSE Idle(a, w)
        /\ UNCHANGED <<stores, client, delivered, created, minted, accepts, crashes>>

\* A restart of an agent's process: its goroutines and channels are gone.
Crash(a) ==
    /\ crashes < MaxCrashes /\ crashes' = crashes + 1
    /\ workers'   = [workers EXCEPT ![a] = [w \in Workers |-> IdleWorker]]
    /\ actions'   = [actions EXCEPT ![a] = {}]
    /\ callbacks' = [callbacks EXCEPT ![a] = << >>]
    /\ answered'  = [answered EXCEPT ![a] = {}]
    /\ IF Durable
       THEN UNCHANGED <<records, threads, events>>
       ELSE /\ records' = [records EXCEPT ![a] = [c \in Conns |-> NoRec]]
            /\ threads' = [threads EXCEPT ![a] = NoConn]
            /\ events'  = [events EXCEPT ![a] = [c \in Conns |-> NoEvent]]
    /\ UNCHANGED <<permanent, dids, saved, net, created, minted, accepts, failures>>

-----------------------------------------------------------------------------
Execute(a, w) == \/ ExecutePlain(a, w)      \/ ExecuteInvitation(a, w)
                 \/ ExecuteRequest(a, w)    \/ ExecuteResponse(a, w)
Save(a, w)    == \/ Persist(a, w)           \/ SaveMapping(a, w)
                 \/ SavePermanent(a, w)     \/ SaveDID(a, w)

\* What a goroutine does once it has started.
Run(a, w) == \/ NewRecord(a, w) \/ FetchRecord(a, w)
             \/ Execute(a, w)   \/ Save(a, w)
             \/ Act(a, w)       \/ SendActionEvent(a, w)
             \/ Abandon(a, w)   \/ SaveAbandoned(a, w)

Next ==
    \/ \E w \in Handlers : CreateImplicitInvitation(w)
    \/ \E a \in Agents :
          \/ \E w \in Handlers, m \in sent : HandleInbound(a, w, m) \/ RejectInbound(a, w, m)
          \/ \E w \in Workers : Run(a, w) \/ Fail(a, w)
          \/ \E e \in actions[a] : Continue(a, e) \/ Stop(a, e)
          \/ \E w \in Handlers, c \in Conns : Accept(a, w, c)
          \/ TakeCallback(a)
          \/ Crash(a)

Spec == Init /\ [][Next]_vars

-----------------------------------------------------------------------------
(***************************************************************************)
(* Fairness: the Go scheduler runs every goroutine, the transport delivers  *)
(* a message at least once, and a client answers the events it is given.    *)
(***************************************************************************)
Receive(a) == \E w \in Handlers, m \in sent \ delivered :
                  HandleInbound(a, w, m) \/ RejectInbound(a, w, m)
Respond(a) == \/ \E e \in actions[a] : Continue(a, e) \/ Stop(a, e)
              \/ a \notin Listening /\ \E w \in Handlers, c \in Conns : Accept(a, w, c)

Fairness ==
    /\ \A a \in Agents, w \in Workers : WF_vars(Run(a, w))
    /\ \A a \in Agents : /\ WF_vars(TakeCallback(a))
                         /\ WF_vars(Receive(a))
                         /\ WF_vars(Respond(a))
    /\ WF_vars(\E w \in Handlers : CreateImplicitInvitation(w))

FairSpec == Spec /\ Fairness

-----------------------------------------------------------------------------
\* Every variable holds a value of its kind.
TypeOK ==
    /\ records   \in [Agents -> [Conns -> Records]]
    /\ threads   \in [Agents -> Conns \cup {NoConn}]
    /\ events    \in [Agents -> [Conns -> EventData \cup {NoEvent}]]
    /\ permanent \in [Agents -> [Conns -> Records]]
    /\ dids      \in [Agents -> SUBSET DIDs]
    /\ saved     \in SUBSET DIDs
    /\ sent      \in SUBSET Messages
    /\ delivered \in SUBSET Messages
    /\ workers   \in [Agents -> [Workers ->
           [pc : PCs, msg : Messages \cup {NoMsg}, next : States \cup {"noop"},
            rec : Records, out : Messages \cup {NoMsg}]]]
    /\ \A a \in Agents, w \in Workers : workers[a][w].pc # "idle" => workers[a][w].msg # NoMsg
    /\ actions   \in [Agents -> SUBSET EventData]
    /\ callbacks \in [Agents -> Seq([event : EventData, stop : BOOLEAN])]
    /\ answered  \in [Agents -> SUBSET (Conns \cup {NoConn})]
    /\ created   \in [Agents -> 0 .. MaxConns]
    /\ minted    \in [Agents -> Nat]
    /\ accepts \in Nat /\ failures \in Nat /\ crashes \in Nat

\* Persist before send: a DID an agent has learned from its peer is one the peer
\* had already persisted in a record of its own, so whatever comes back on that
\* DID finds the record.  Holds whatever is lost, repeated, reordered or crashes.
LearnedIsPersisted ==
    \A a \in Agents, c \in Conns : \A r \in {records[a][c], permanent[a][c]} :
        r.theirDID # NoDID => r.theirDID \in saved \cap ({Peer(a)} \X Nat)

\* The inviter never believes a connection complete that the invitee has not put
\* into its permanent store, with the keys of an inviter DID saved: Complete is
\* the last thing the invitee does.
InviterCompletesLast ==
    \A c \in Conns :
        "completed" \in {records[Inviter][c].state, permanent[Inviter][c].state} =>
            /\ \E k \in Conns : permanent[Invitee][k].state = "completed"
            /\ dids[Invitee] \cap ({Inviter} \X Nat) # {}

\* A thread that waits for its client, and that no goroutine is working on, has
\* the event data AcceptInvitation and AcceptExchangeRequest need, as long as no
\* write failed and no agent restarted.
WaitingIsAnswerable == failures + crashes = 0 =>
    \A a \in Agents :
        LET c == threads[a]
            waiting == \/ a = Invitee /\ ThreadRecord(a).state = "invited"
                       \/ a = Inviter /\ ThreadRecord(a).state = "requested"
            busy == \E w \in Workers : workers[a][w].pc # "idle" /\ workers[a][w].rec.conn = c
        IN  waiting /\ ~ busy => events[a][c] # NoEvent

\* Two completed agents hold the same pair of DIDs (each message delivered once,
\* each action event answered once).
Agreement ==
    \A i, r \in Conns :
        LET x == records[Invitee][i]
            y == records[Inviter][r]
        IN  x.state = "completed" /\ y.state = "completed" =>
                x.theirDID = y.myDID /\ y.theirDID = x.myDID

\* GetConnectionRecord prefers the permanent store: it never answers with a record
\* the protocol has moved on from (no duplicates, no failures).
StoresAgree ==
    \A a \in Agents, c \in Conns : permanent[a][c] # NoRec => records[a][c] = permanent[a][c]

\* CanTransitionTo of "completed" and "abandoned" is always FALSE: what is stored
\* for the thread never leaves those states (each message delivered once, no failures).
CompletedNeverReopened ==
    [][\A a \in Agents : ThreadRecord(a).state = "completed" =>
          ThreadRecord(a)'.state = "completed"]_vars
AbandonedIsFinal ==
    [][\A a \in Agents : ThreadRecord(a).state = "abandoned" =>
          ThreadRecord(a)'.state = "abandoned"]_vars

\* An exchange nobody disturbs ends: both agents complete, or one client stopped
\* it and that agent's record is abandoned for good.
ExchangeSettles ==
    <>[](\/ failures + crashes > 0
         \/ \A a \in Agents : ThreadRecord(a).state = "completed"
         \/ \E a \in Agents : ThreadRecord(a).state = "abandoned")

-----------------------------------------------------------------------------
(***************************************************************************)
(* The thread as Handshake sees it: its record in the protocol state store. *)
(***************************************************************************)
Phase(a) ==
    LET s == ThreadRecord(a).state
    IN  CASE s = "completed" -> "paired"
          [] s = "abandoned" -> "abandoned"
          [] s = "responded" /\ a = Inviter                -> "answered"
          [] s \in {"requested", "responded"} /\ a = Invitee -> "asked"
          [] OTHER -> "open"

HS == INSTANCE Handshake WITH
          phase <- [a \in Agents |-> Phase(a)],
          my    <- [a \in Agents |-> ThreadRecord(a).myDID],
          their <- [a \in Agents |-> IF ThreadRecord(a).myDID = NoDID THEN NoDID
                                     ELSE ThreadRecord(a).theirDID]

\* The exchange implements Handshake (each message delivered once, each event
\* answered once, no failures; restarts with a durable store are allowed).
ImplementsHandshake == HS!Spec
=============================================================================
