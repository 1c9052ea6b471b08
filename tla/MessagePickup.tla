---------------------------- MODULE MessagePickup ----------------------------
(***************************************************************************)
(* The service of pkg/didcomm/protocol/messagepickup, once in a mediator    *)
(* that keeps an inbox for an agent, and once in that agent, which asks for *)
(* the inbox's status or for a batch of its messages.                       *)
(*                                                                          *)
(* The mediator's goroutines do everything to the inbox under one lock,     *)
(*   lock -> (put ->) send.                                                 *)
(* The agent's calls register a channel, send, wait, and give up after a    *)
(* while; the goroutine of an answer looks the channel up and then waits on *)
(* it, with no lock and for as long as it takes.                            *)
(***************************************************************************)
EXTENDS Naturals, Sequences, FiniteSets, SequencesExt

CONSTANTS
    Mediators,      \* goroutines of the mediator
    Callers,        \* goroutines of the agent that call StatusRequest and BatchPickup
    Handlers,       \* goroutines of the agent for inbound messages
    Nobody,         \* the holder of a lock that is free
    BatchSize,      \* how many messages a call asks for
    MaxMessages, MaxCalls, MaxTroubles
                    \* bounds of the exploration: a trouble is a duplicate, failure or crash

ASSUME NobodyAssumption == Nobody \notin Mediators
ASSUME SizeAssumption   == BatchSize \in Nat
ASSUME LimitsAssumption ==
    MaxMessages \in Nat /\ MaxCalls \in Nat /\ MaxTroubles \in Nat

Kinds == {"status", "batch"}

VARIABLES
    inbox,       \* the mediator's store: the messages, named by the order they were stored
    created,     \* the mediator's store has the inbox
    added,       \* how many messages have been stored
    lock,        \* inboxLock
    mediators,   \* the mediator's goroutines
    requests,    \* on their way to the mediator
    replies,     \* on their way to the agent
    channels,    \* batchMap and statusMap: the calls that have a channel
    callers,     \* the agent's calls
    handlers,    \* the agent's goroutines for replies
    handled,     \* messages given to the agent's message handler
    calls, duplicates, failures, crashes, timeouts

counts == <<calls, duplicates, failures, crashes, timeouts>>
store  == <<inbox, created, added>>
net    == <<requests, replies>>
agent  == <<channels, callers, handlers, handled>>
vars   == <<store, lock, mediators, net, agent, counts>>

IdleMediator == [pc |-> "idle", kind |-> "none", id |-> 0, msgs |-> <<>>]
IdleCaller   == [pc |-> "idle", kind |-> "none", id |-> 0, msgs |-> <<>>]
IdleHandler  == [pc |-> "idle", id |-> 0, msgs |-> <<>>]

Init ==
    /\ inbox = <<>> /\ created = FALSE /\ added = 0
    /\ lock = Nobody
    /\ mediators = [w \in Mediators |-> IdleMediator]
    /\ requests = {} /\ replies = {}
    /\ channels = {}
    /\ callers  = [c \in Callers |-> IdleCaller]
    /\ handlers = [h \in Handlers |-> IdleHandler]
    /\ handled = <<>>
    /\ calls = 0 /\ duplicates = 0 /\ failures = 0 /\ crashes = 0 /\ timeouts = 0

MayTrouble == duplicates + failures + crashes < MaxTroubles

\* A message that arrives is gone, or will arrive again.
Arrives(m, wire, rest) ==
    /\ m \in wire
    /\ \/ rest = wire \ {m} /\ UNCHANGED duplicates
       \/ MayTrouble /\ duplicates' = duplicates + 1 /\ rest = wire

-----------------------------------------------------------------------------
(***************************************************************************)
(* The mediator.                                                            *)
(***************************************************************************)
Mediate(w, me) == mediators' = [mediators EXCEPT ![w] = me]
Unlock(w)      == lock' = Nobody /\ Mediate(w, IdleMediator)

\* Mutant: an early return that forgets the lock.
UnlockForgotten(w) == Mediate(w, IdleMediator) /\ UNCHANGED lock

\* The deferred unlock of a return with an error.
GiveBack(w) == Unlock(w)

\* AddMessage of a message to forward.
AddMessage(w) ==
    /\ mediators[w].pc = "idle"
    /\ added + Cardinality({v \in Mediators : mediators[v].kind = "add"}) < MaxMessages
    /\ Mediate(w, [IdleMediator EXCEPT !.pc = "lock", !.kind = "add"])
    /\ UNCHANGED <<store, lock, net, agent, counts>>

\* HandleInbound of a status request or a batch pickup.
HandleRequest(w, r) ==
    /\ mediators[w].pc = "idle"
    /\ Arrives(r, requests, requests')
    /\ Mediate(w, [IdleMediator EXCEPT !.pc = "lock", !.kind = r.kind, !.id = r.id])
    /\ UNCHANGED <<store, lock, replies, agent, calls, failures, crashes, timeouts>>

EnterWith(w) ==
    LET me == mediators[w]
    IN  CASE me.kind = "add" ->
               /\ created' = TRUE /\ lock' = w
               /\ Mediate(w, [me EXCEPT !.pc = "put", !.msgs = Append(inbox, added + 1)])
          [] me.kind # "add" /\ created ->
               /\ lock' = w /\ UNCHANGED created
               /\ Mediate(w, [me EXCEPT !.pc = IF me.kind = "batch" THEN "put" ELSE "send",
                                        !.msgs = IF me.kind = "batch" THEN inbox ELSE <<>>])
          [] OTHER -> Mediate(w, IdleMediator) /\ UNCHANGED <<created, lock>>

\* Mutant: the lock is not waited for.
EnterUnlocked(w) ==
    /\ mediators[w].pc = "lock"
    /\ EnterWith(w)
    /\ UNCHANGED <<inbox, added, net, agent, counts>>

\* The lock, and getInbox or createInbox; without an inbox only a message is served.
Enter(w) ==
    /\ mediators[w].pc = "lock" /\ lock = Nobody
    /\ EnterWith(w)
    /\ UNCHANGED <<inbox, added, net, agent, counts>>

\* putInbox of a message added.
PutMessage(w) ==
    /\ mediators[w].pc = "put" /\ mediators[w].kind = "add"
    /\ inbox' = mediators[w].msgs /\ added' = added + 1
    /\ Unlock(w)
    /\ UNCHANGED <<created, net, agent, counts>>

\* Where a batch ends.
End(msgs) == IF BatchSize < Len(msgs) THEN BatchSize ELSE Len(msgs)

\* Mutant: the messages stay in the inbox.
PutNothing(w) ==
    LET msgs == mediators[w].msgs
    IN  /\ mediators[w].pc = "put" /\ mediators[w].kind = "batch"
        /\ Mediate(w, [mediators[w] EXCEPT !.pc = "send", !.msgs = SubSeq(msgs, 1, End(msgs))])
        /\ UNCHANGED <<store, lock, net, agent, counts>>

\* putInbox of what a batch leaves.
PutRest(w) ==
    LET msgs == mediators[w].msgs
    IN  /\ mediators[w].pc = "put" /\ mediators[w].kind = "batch"
        /\ inbox' = SubSeq(msgs, End(msgs) + 1, Len(msgs))
        /\ Mediate(w, [mediators[w] EXCEPT !.pc = "send", !.msgs = SubSeq(msgs, 1, End(msgs))])
        /\ UNCHANGED <<created, added, lock, net, agent, counts>>

Reply(w) == replies' = replies \cup {[id |-> mediators[w].id, msgs |-> mediators[w].msgs]}

SendReply(w) ==
    /\ mediators[w].pc = "send"
    /\ Reply(w) /\ Unlock(w)
    /\ UNCHANGED <<store, requests, agent, counts>>

-----------------------------------------------------------------------------
(***************************************************************************)
(* The agent.                                                               *)
(***************************************************************************)
Become(c, me) == callers' = [callers EXCEPT ![c] = me]

\* StatusRequest and BatchPickup: a channel of the call's own, ...
Call(c, kind) ==
    /\ callers[c].pc = "idle"
    /\ calls < MaxCalls /\ calls' = calls + 1
    /\ channels' = channels \cup {calls'}
    /\ Become(c, [IdleCaller EXCEPT !.pc = "send", !.kind = kind, !.id = calls'])
    /\ UNCHANGED <<store, lock, mediators, net, handlers, handled,
                   duplicates, failures, crashes, timeouts>>

Request(c) == requests' = requests \cup {[id |-> callers[c].id, kind |-> callers[c].kind]}

\* ... the request, ...
SendRequest(c) ==
    /\ callers[c].pc = "send"
    /\ Request(c)
    /\ Become(c, [callers[c] EXCEPT !.pc = "wait"])
    /\ UNCHANGED <<store, lock, mediators, replies, channels, handlers, handled, counts>>

\* ... and whatever comes first: nothing for too long, ...
Timeout(c) ==
    /\ callers[c].pc = "wait"
    /\ Become(c, [callers[c] EXCEPT !.pc = "leave"])
    /\ timeouts' = timeouts + 1
    /\ UNCHANGED <<store, lock, mediators, net, channels, handlers, handled,
                   calls, duplicates, failures, crashes>>

\* ... or the answer, over the unbuffered channel.
TakeAnswer(c, h) ==
    /\ callers[c].pc = "wait" /\ handlers[h].pc = "answer"
    /\ handlers[h].id = callers[c].id
    /\ Become(c, [callers[c] EXCEPT !.pc = "handle", !.msgs = handlers[h].msgs])
    /\ handlers' = [handlers EXCEPT ![h] = IdleHandler]
    /\ UNCHANGED <<store, lock, mediators, net, channels, handled, counts>>

\* Each message of a batch goes to the message handler; the call ends either way.
HandleMessage(c) ==
    /\ callers[c].pc = "handle" /\ callers[c].msgs # <<>>
    /\ handled' = Append(handled, Head(callers[c].msgs))
    /\ Become(c, [callers[c] EXCEPT !.msgs = Tail(@)])
    /\ UNCHANGED <<store, lock, mediators, net, channels, handlers, counts>>

\* The deferred removal of the channel.
Leave(c) ==
    /\ callers[c].pc = "leave" \/ (callers[c].pc = "handle" /\ callers[c].msgs = <<>>)
    /\ channels' = channels \ {callers[c].id}
    /\ Become(c, IdleCaller)
    /\ UNCHANGED <<store, lock, mediators, net, handlers, handled, counts>>

\* Mutant: the channel is used though nobody registered it (a nil channel blocks).
HandleUnchecked(h, r) ==
    /\ handlers[h].pc = "idle"
    /\ Arrives(r, replies, replies')
    /\ handlers' = [handlers EXCEPT ![h] = [pc |-> "answer", id |-> r.id, msgs |-> r.msgs]]
    /\ UNCHANGED <<store, lock, mediators, requests, channels, callers, handled,
                   calls, failures, crashes, timeouts>>

\* handleStatus and handleBatch: an answer nobody has a channel for is dropped.
HandleReply(h, r) ==
    /\ handlers[h].pc = "idle"
    /\ Arrives(r, replies, replies')
    /\ handlers' = IF r.id \in channels
                   THEN [handlers EXCEPT ![h] = [pc |-> "answer", id |-> r.id, msgs |-> r.msgs]]
                   ELSE handlers
    /\ UNCHANGED <<store, lock, mediators, requests, channels, callers, handled,
                   calls, failures, crashes, timeouts>>

-----------------------------------------------------------------------------
(***************************************************************************)
(* Failures: a read or write of the store fails, a send fails though its     *)
(* message may be out, a message cannot be handled or is lost; restarts.    *)
(***************************************************************************)
Failed == MayTrouble /\ failures' = failures + 1
          /\ UNCHANGED <<calls, duplicates, crashes, timeouts>>

FailMediator(w) ==
    /\ Failed
    /\ mediators[w].pc \in {"put", "send"} \/ (mediators[w].pc = "lock" /\ lock = Nobody)
    /\ GiveBack(w)
    /\ UNCHANGED replies \/ (mediators[w].pc = "send" /\ Reply(w))
    /\ UNCHANGED <<store, requests, agent>>

FailCaller(c) ==
    /\ Failed
    /\ \/ /\ callers[c].pc = "send" /\ Become(c, [callers[c] EXCEPT !.pc = "leave"])
          /\ Request(c) \/ UNCHANGED requests
       \/ /\ callers[c].pc = "handle" /\ callers[c].msgs # <<>>
          /\ Become(c, [callers[c] EXCEPT !.msgs = Tail(@)])
          /\ UNCHANGED requests
    /\ UNCHANGED <<store, lock, mediators, replies, channels, handlers, handled>>

LoseMessage ==
    /\ Failed
    /\ \/ \E r \in requests : requests' = requests \ {r} /\ UNCHANGED replies
       \/ \E r \in replies  : replies' = replies \ {r} /\ UNCHANGED requests
    /\ UNCHANGED <<store, lock, mediators, agent>>

Crashed == MayTrouble /\ crashes' = crashes + 1
           /\ UNCHANGED <<calls, duplicates, failures, timeouts>>

CrashMediator ==
    /\ Crashed
    /\ lock' = Nobody /\ mediators' = [w \in Mediators |-> IdleMediator]
    /\ UNCHANGED <<store, net, agent>>

CrashAgent ==
    /\ Crashed
    /\ channels' = {} /\ callers' = [c \in Callers |-> IdleCaller]
    /\ handlers' = [h \in Handlers |-> IdleHandler]
    /\ UNCHANGED <<store, lock, mediators, net, handled>>

-----------------------------------------------------------------------------
Mediator(w) == Enter(w) \/ PutMessage(w) \/ PutRest(w) \/ SendReply(w)
Caller(c)   == SendRequest(c) \/ HandleMessage(c) \/ Leave(c)
Answer(c)   == \E h \in Handlers : TakeAnswer(c, h)

Next ==
    \/ \E w \in Mediators : \/ AddMessage(w) \/ Mediator(w) \/ FailMediator(w)
                            \/ \E r \in requests : HandleRequest(w, r)
    \/ \E c \in Callers : \/ \E kind \in Kinds : Call(c, kind)
                          \/ Caller(c) \/ Answer(c) \/ Timeout(c) \/ FailCaller(c)
    \/ \E h \in Handlers, r \in replies : HandleReply(h, r)
    \/ LoseMessage \/ CrashMediator \/ CrashAgent

Spec == Init /\ [][Next]_vars

\* The scheduler runs every goroutine, the mutex starves none (sync.Mutex), and the
\* timer of a call fires.
FairSpec == /\ Spec
            /\ \A w \in Mediators : SF_vars(Enter(w)) /\ WF_vars(Mediator(w))
            /\ \A c \in Callers : WF_vars(Caller(c)) /\ WF_vars(Answer(c)) /\ WF_vars(Timeout(c))
-----------------------------------------------------------------------------
Messages == Seq(1..added + 1)

\* Every variable holds a value of its kind, and whoever is past the lock holds it.
TypeOK ==
    /\ inbox \in Messages /\ created \in BOOLEAN /\ added \in Nat
    /\ lock \in Mediators \cup {Nobody}
    /\ mediators \in [Mediators -> [pc : {"idle", "lock", "put", "send"},
                                    kind : Kinds \cup {"none", "add"}, id : Nat, msgs : Messages]]
    /\ \A w \in Mediators : mediators[w].pc \in {"put", "send"} <=> lock = w
    /\ requests \subseteq [id : Nat, kind : Kinds]
    /\ replies  \subseteq [id : Nat, msgs : Messages]
    /\ channels \subseteq Nat
    /\ callers  \in [Callers -> [pc : {"idle", "send", "wait", "handle", "leave"},
                                 kind : Kinds \cup {"none"}, id : Nat, msgs : Messages]]
    /\ handlers \in [Handlers -> [pc : {"idle", "answer"}, id : Nat, msgs : Messages]]
    /\ handled \in Messages
    /\ calls \in Nat /\ duplicates \in Nat /\ failures \in Nat /\ crashes \in Nat /\ timeouts \in Nat

\* Messages out of the inbox that may still be handled.
OnTheirWay ==
    LET carried == UNION ({ToSet(mediators[w].msgs) :
                               w \in {v \in Mediators : mediators[v].pc = "send"}}
                          \cup {ToSet(r.msgs) : r \in replies}
                          \cup {ToSet(handlers[h].msgs) : h \in Handlers}
                          \cup {ToSet(callers[c].msgs) : c \in Callers})
    IN  carried \ ToSet(handled)

\* If nothing is repeated, lost or late, nothing fails and nobody restarts, every
\* message stored is in the inbox, on its way or handled, whoever adds and takes at
\* the same time.
NothingIsLost ==
    duplicates + failures + crashes + timeouts = 0
    => 1..added \subseteq ToSet(inbox) \cup OnTheirWay \cup ToSet(handled)

\* Whatever happens, every call returns and every goroutine of the mediator gives
\* the lock back.
EverythingReturns ==
    /\ \A c \in Callers : callers[c].pc # "idle" ~> callers[c].pc = "idle"
    /\ \A w \in Mediators : mediators[w].pc # "idle" ~> mediators[w].pc = "idle"

\* A goroutine with an answer hands it over, unless the answer was late or repeated or
\* the call failed (then it may wait for ever); a restart does not leave it waiting
\* for a call that is gone.
AnswersAreTaken ==
    \A h \in Handlers :
        handlers[h].pc = "answer"
        ~> handlers[h].pc = "idle" \/ timeouts + duplicates + failures > 0

Box == INSTANCE Mailbox WITH taken <- OnTheirWay

\* Whatever is repeated, lost, late, failing or restarted: messages leave the inbox in
\* the order they came and are handled at most once.
ImplementsMailbox == Box!Spec
=============================================================================
