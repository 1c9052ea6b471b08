----------------------------- MODULE PresentProof -----------------------------
(***************************************************************************)
(* One thread of the present-proof protocol between a prover and a verifier, *)
(* each running the service of pkg/didcomm/protocol/presentproof, with the  *)
(* SavePresentation middleware on the verifier's side.                      *)
(*                                                                          *)
(* Workers walk as those of IssueCredential do, with one difference that     *)
(* matters: handle() stores every state it goes through and runs the action *)
(* of each before it executes the next,                                     *)
(*   (execute -> save -> act)*,                                             *)
(* and what it stores beside the name of the state is whether the verifier  *)
(* promised an ack, a value read when the message came in.                  *)
(***************************************************************************)
EXTENDS Naturals

CONSTANTS
    Prover, Verifier,
    Handlers,       \* goroutines of an agent for inbound messages and client calls
    Listener,       \* the goroutine of startInternalListener
    Opening,        \* the first message: "propose" or one of Requests
    ByEvent,        \* agents whose client answers the events it gets; the others
                    \* look up Actions() and answer with ActionContinue, ActionStop
    MaxRounds, MaxDuplicates, MaxDoubles, MaxFailures, MaxCrashes
                    \* bounds of the exploration: counter-proposals, messages delivered
                    \* again, payloads answered by two calls at a time, failures, restarts

\* A request says with will_confirm whether the presentation will be acknowledged.
Requests       == {"request", "request-confirm"}
WillConfirm(t) == t = "request-confirm"

ASSUME PartiesAssumption ==
    /\ Prover # Verifier
    /\ Listener \notin Handlers
    /\ Opening \in Requests \cup {"propose"}
    /\ ByEvent \subseteq {Prover, Verifier}

ASSUME LimitsAssumption ==
    /\ MaxRounds \in Nat /\ MaxDuplicates \in Nat /\ MaxDoubles \in Nat
    /\ MaxFailures \in Nat /\ MaxCrashes \in Nat

Agents  == {Prover, Verifier}
Workers == Handlers \cup {Listener}
Peer(a) == IF a = Prover THEN Verifier ELSE Prover

Types == Requests \cup {"propose", "presentation", "ack", "problem-report"}

\* What a client may add to its answer: a message of its own, or nothing.
Options == Requests \cup {"none", "propose", "presentation"}

States == {"start", "abandoned", "done",
           "request-sent", "presentation-received", "proposal-received",
           "request-received", "presentation-sent", "proposal-sent"}

-----------------------------------------------------------------------------
(***************************************************************************)
(* The state machine of states.go.                                          *)
(***************************************************************************)
CanTransitionTo(s, t) ==
    t \in CASE s = "start"             -> {"request-sent", "proposal-received",
                                           "proposal-sent", "request-received"}
            [] s = "request-received"  -> {"presentation-sent", "proposal-sent", "abandoned"}
            [] s = "request-sent"      -> {"presentation-received", "proposal-received", "abandoned"}
            [] s = "presentation-sent"     -> {"abandoned", "done"}
            [] s = "presentation-received" -> {"abandoned", "done"}
            [] s = "proposal-sent"         -> {"request-received", "abandoned"}
            [] s = "proposal-received"     -> {"request-sent", "abandoned"}
            [] s \in {"abandoned", "done"} -> {}

\* nextState of an inbound message, and of the message a client opens with.
NextState(type) ==
    CASE type \in Requests        -> "request-received"
      [] type = "propose"         -> "proposal-received"
      [] type = "presentation"    -> "presentation-received"
      [] type = "ack"             -> "done"
      [] type = "problem-report"  -> "abandoned"
OpeningState == IF Opening = "propose" THEN "proposal-sent" ELSE "request-sent"

Opener == IF Opening = "propose" THEN Prover ELSE Verifier

CanTriggerActionEvents(type) == type # "ack"
EventTypes == {t \in Types : CanTriggerActionEvents(t)}

\* A message as a payload or an event holds it: with the AckRequired of its metaData.
Held == [type : EventTypes, ack : BOOLEAN]
None == [type |-> "none", ack |-> FALSE]

-----------------------------------------------------------------------------
VARIABLES
    data,        \* the store: internalData of the thread (the start state if absent)
    payload,     \* the store: the transitional payload, or None
    saved,       \* the verifier's verifiable store has the presentation
    net,         \* copies of each message on their way to an agent
    events,      \* action events of each message that the client still holds
    workers,     \* the goroutines of each agent
    opened, rounds, duplicates, doubles, failures, crashes   \* how much of each bound is used up

used == <<opened, rounds, duplicates, doubles, failures, crashes>>
vars == <<data, payload, saved, net, events, workers, used>>

PCs == {"idle", "payload", "event", "delete", "push", "execute", "save", "act"}

\* at is the state handle() has come to, next the one to follow ("noop" if none),
\* out the message of its action; abandons: the listener has given up the thread.
IdleWorker == [pc |-> "idle", type |-> "none", ack |-> FALSE, opt |-> "none", stop |-> FALSE,
               abandons |-> FALSE, at |-> "start", next |-> "noop", out |-> "none"]

Goto(a, w, me) == workers' = [workers EXCEPT ![a][w] = me]
Idle(a, w)     == Goto(a, w, IdleWorker)

Init ==
    /\ data    = [a \in Agents |-> [name |-> "start", ack |-> FALSE]]
    /\ payload = [a \in Agents |-> None]
    /\ saved   = FALSE
    /\ net     = [a \in Agents |-> [t \in Types |-> 0]]
    /\ events  = [a \in Agents |-> [h \in Held |-> 0]]
    /\ workers = [a \in Agents |-> [w \in Workers |-> IdleWorker]]
    /\ opened = FALSE /\ rounds = 0 /\ duplicates = 0 /\ doubles = 0 /\ failures = 0 /\ crashes = 0

-----------------------------------------------------------------------------
\* HandleOutbound of the message that starts the thread; its goroutine handles it.
HandleOutbound(w) ==
    /\ ~ opened /\ opened' = TRUE
    /\ workers[Opener][w].pc = "idle"
    /\ Goto(Opener, w, [IdleWorker EXCEPT !.pc = "execute", !.at = OpeningState, !.opt = Opening])
    /\ UNCHANGED <<data, payload, saved, net, events, rounds, duplicates, doubles, failures, crashes>>

Deliver(a, t) ==
    /\ net[a][t] > 0
    /\ \/ net' = [net EXCEPT ![a][t] = @ - 1] /\ UNCHANGED duplicates
       \/ duplicates < MaxDuplicates /\ duplicates' = duplicates + 1 /\ UNCHANGED net

\* buildMetaData looks at what is stored, here and only here.
HandleInbound(a, w, t) ==
    LET next == NextState(t)
        me   == [IdleWorker EXCEPT !.type = t, !.ack = data[a].ack, !.at = next]
    IN  /\ workers[a][w].pc = "idle"
        /\ Deliver(a, t)
        /\ IF ~ CanTransitionTo(data[a].name, next) THEN UNCHANGED workers
           ELSE Goto(a, w, [me EXCEPT !.pc = IF CanTriggerActionEvents(t) THEN "payload"
                                             ELSE "execute"])
        /\ UNCHANGED <<data, payload, saved, events, opened, rounds, doubles, failures, crashes>>

Holding(me) == [type |-> me.type, ack |-> me.ack]

SaveTransitionalPayload(a, w) ==
    /\ workers[a][w].pc = "payload"
    /\ payload' = [payload EXCEPT ![a] = Holding(workers[a][w])]
    /\ Goto(a, w, [workers[a][w] EXCEPT !.pc = "event"])
    /\ UNCHANGED <<data, saved, net, events, used>>

SendActionEvent(a, w) ==
    /\ workers[a][w].pc = "event"
    /\ events' = [events EXCEPT ![a][Holding(workers[a][w])] = @ + 1]
    /\ Idle(a, w)
    /\ UNCHANGED <<data, payload, saved, net, used>>

-----------------------------------------------------------------------------
(***************************************************************************)
(* The client continues, with a message of its own where one is called for, *)
(* or stops.  Either deletes the payload before the listener has it.        *)
(***************************************************************************)
Offers(t) == CASE t = "propose"    -> Requests \cup {"none"}
               [] t \in Requests   -> {"presentation", "none"}
                                      \cup (IF rounds < MaxRounds THEN {"propose"} ELSE {})
               [] OTHER            -> {"none"}

Decide(a, w, held) ==
    /\ workers[a][w].pc = "idle"
    /\ \E opt \in Offers(held.type), stop \in BOOLEAN :
          /\ stop => opt = "none"
          /\ rounds' = IF opt = "propose" THEN rounds + 1 ELSE rounds
          /\ Goto(a, w, [IdleWorker EXCEPT !.pc = "delete", !.type = held.type, !.ack = held.ack,
                                           !.opt = opt, !.stop = stop, !.at = NextState(held.type)])
    /\ UNCHANGED <<data, payload, saved, net, opened, duplicates, failures, crashes>>

\* The closures of newDIDCommActionMsg.
AnswerEvent(a, w, held) ==
    /\ a \in ByEvent /\ events[a][held] > 0
    /\ events' = [events EXCEPT ![a][held] = @ - 1]
    /\ Decide(a, w, held)
    /\ UNCHANGED doubles

\* ActionContinue and ActionStop: the payload is read here and deleted later.
AnswerAction(a, w) ==
    /\ a \notin ByEvent /\ payload[a] # None
    /\ IF \E x \in Handlers : workers[a][x].pc = "delete"
       THEN doubles < MaxDoubles /\ doubles' = doubles + 1 ELSE UNCHANGED doubles
    /\ Decide(a, w, payload[a])
    /\ UNCHANGED events

\* Mutant: the payload stays.
DeletePayloadSkipped(a, w) ==
    /\ workers[a][w].pc = "delete"
    /\ Goto(a, w, [workers[a][w] EXCEPT !.pc = "push"])
    /\ UNCHANGED <<data, payload, saved, net, events, used>>

DeleteTransitionalPayload(a, w) ==
    /\ workers[a][w].pc = "delete"
    /\ payload' = [payload EXCEPT ![a] = None]
    /\ Goto(a, w, [workers[a][w] EXCEPT !.pc = "push"])
    /\ UNCHANGED <<data, saved, net, events, used>>

\* The abandoned state the listener puts in the place of any other.
GiveUp(me) == [me EXCEPT !.pc = "execute", !.at = "abandoned", !.abandons = TRUE]

\* processCallback meets the listener on the unbuffered channel.
TakeCallback(a, w) ==
    LET me == workers[a][w]
    IN  /\ me.pc = "push" /\ workers[a][Listener].pc = "idle"
        /\ workers' = [workers EXCEPT
               ![a][w] = IdleWorker,
               ![a][Listener] = IF me.stop THEN GiveUp(me) ELSE [me EXCEPT !.pc = "execute"]]
        /\ UNCHANGED <<data, payload, saved, net, events, used>>

-----------------------------------------------------------------------------
(***************************************************************************)
(* handle(): execute, check, save, act, and again for the state that        *)
(* follows.                                                                 *)
(***************************************************************************)
Then(me, next, out) == [me EXCEPT !.pc = "save", !.next = next, !.out = out]
CannotGoOn(me)      == [me EXCEPT !.pc = "error"]

\* Mutants: a request leaves AckRequired as it was, a thread is abandoned and the
\* other agent never told, any goroutine gives up as the listener does.
PromiseForgotten(me) == me.ack
ReportNothing(me)    == "none"
GiveUpAnywhere(w, me) == IF ~ me.abandons THEN GiveUp(me) ELSE IdleWorker

Promise(me) == WillConfirm(me.opt)
Confirm(me) == IF me.ack THEN "ack" ELSE "none"
Report(me)  == IF ~ me.abandons \/ me.type = "problem-report" THEN "none" ELSE "problem-report"

\* Execute of the state `me` has come to.
ExecuteState(me) ==
    CASE me.at = "request-received" ->
            Then(me, IF me.opt = "presentation" THEN "presentation-sent" ELSE "proposal-sent", "none")
      [] me.at = "presentation-sent" ->
            Then(me, IF WillConfirm(me.type) THEN "noop" ELSE "done", "presentation")
      [] me.at = "proposal-sent" /\ me.opt = "propose" -> Then(me, "noop", "propose")
      [] me.at = "proposal-received" -> Then(me, "request-sent", "none")
      [] me.at = "request-sent" /\ me.opt \in Requests ->
            Then([me EXCEPT !.ack = Promise(me)], "noop", me.opt)
      [] me.at = "presentation-received" -> Then(me, "done", Confirm(me))
      [] me.at = "done"      -> Then(me, "noop", "none")
      [] me.at = "abandoned" -> Then(me, "noop", Report(me))
      [] OTHER               -> CannotGoOn(me)

\* An error: the listener gives the thread up, once; another goroutine returns it.
AfterError(w, me) == IF w = Listener /\ ~ me.abandons THEN GiveUp(me) ELSE IdleWorker

Conclude(w, me) ==
    LET done == ExecuteState(me)
    IN  IF done.pc = "error" \/ (done.next # "noop" /\ ~ CanTransitionTo(me.at, done.next))
        THEN AfterError(w, me) ELSE done

\* Mutant: nothing is saved.
SavePresentationSkipped(a, w) ==
    LET me == workers[a][w]
    IN  /\ me.pc = "execute" /\ me.at = "presentation-received"
        /\ Goto(a, w, Conclude(w, me))
        /\ UNCHANGED <<data, payload, saved, net, events, used>>

\* The SavePresentation middleware; a presentation of that name may be there already.
SavePresentation(a, w) ==
    LET me == workers[a][w]
    IN  /\ me.pc = "execute" /\ me.at = "presentation-received"
        /\ \/ Goto(a, w, Conclude(w, me))
           \/ saved /\ Goto(a, w, AfterError(w, me))
        /\ saved' = TRUE
        /\ UNCHANGED <<data, payload, net, events, used>>

Execute(a, w) ==
    LET me == workers[a][w]
    IN  /\ me.pc = "execute" /\ me.at # "presentation-received"
        /\ Goto(a, w, Conclude(w, me))
        /\ UNCHANGED <<data, payload, saved, net, events, used>>

Proceed(a, w) ==
    LET me == workers[a][w]
    IN  IF me.next = "noop" THEN Idle(a, w)
        ELSE Goto(a, w, [me EXCEPT !.pc = "execute", !.at = me.next])

\* Mutant: only the last state is stored, as issue-credential does.
SaveLastOnly(a, w) ==
    LET me == workers[a][w]
    IN  /\ me.pc = "save"
        /\ IF me.next # "noop" THEN UNCHANGED data
           ELSE data' = [data EXCEPT ![a] = [name |-> me.at, ack |-> me.ack]]
        /\ IF me.out = "none" THEN Proceed(a, w) ELSE Goto(a, w, [me EXCEPT !.pc = "act"])
        /\ UNCHANGED <<payload, saved, net, events, used>>

SaveInternalData(a, w) ==
    LET me == workers[a][w]
    IN  /\ me.pc = "save"
        /\ data' = [data EXCEPT ![a] = [name |-> me.at, ack |-> me.ack]]
        /\ IF me.out = "none" THEN Proceed(a, w) ELSE Goto(a, w, [me EXCEPT !.pc = "act"])
        /\ UNCHANGED <<payload, saved, net, events, used>>

Send(a, t) == net' = [net EXCEPT ![Peer(a)][t] = @ + 1]

Act(a, w) ==
    /\ workers[a][w].pc = "act"
    /\ Send(a, workers[a][w].out)
    /\ Proceed(a, w)
    /\ UNCHANGED <<data, payload, saved, events, used>>

-----------------------------------------------------------------------------
(***************************************************************************)
(* Failures.  A closure of an event only logs a failed delete.  A send may  *)
(* fail after the message is out; a message may be lost.                    *)
(***************************************************************************)
Fail(a, w) ==
    LET me == workers[a][w]
    IN  /\ me.pc \notin {"idle", "push"}
        /\ failures < MaxFailures /\ failures' = failures + 1
        /\ \/ UNCHANGED net
           \/ me.pc = "act" /\ Send(a, me.out)
        /\ Goto(a, w, IF me.pc = "delete" /\ a \in ByEvent THEN [me EXCEPT !.pc = "push"]
                      ELSE AfterError(w, me))
        /\ UNCHANGED <<data, payload, saved, events, opened, rounds, duplicates, doubles, crashes>>

Lose(a, t) ==
    /\ net[a][t] > 0 /\ net' = [net EXCEPT ![a][t] = @ - 1]
    /\ failures < MaxFailures /\ failures' = failures + 1
    /\ UNCHANGED <<data, payload, saved, events, workers, opened, rounds, duplicates, doubles, crashes>>

\* A restart: goroutines, events and the callback channel are gone, stores are not.
Crash(a) ==
    /\ crashes < MaxCrashes /\ crashes' = crashes + 1
    /\ workers' = [workers EXCEPT ![a] = [w \in Workers |-> IdleWorker]]
    /\ events'  = [events EXCEPT ![a] = [h \in Held |-> 0]]
    /\ UNCHANGED <<data, payload, saved, net, opened, rounds, duplicates, doubles, failures>>

-----------------------------------------------------------------------------
Run(a, w) == \/ SaveTransitionalPayload(a, w) \/ SendActionEvent(a, w)
             \/ DeleteTransitionalPayload(a, w) \/ TakeCallback(a, w)
             \/ SavePresentation(a, w) \/ Execute(a, w)
             \/ SaveInternalData(a, w) \/ Act(a, w)

Answer(a) == \E w \in Handlers : AnswerAction(a, w) \/ \E h \in Held : AnswerEvent(a, w, h)

Receive(a) == \E w \in Handlers, t \in Types : HandleInbound(a, w, t)

Next ==
    \/ \E w \in Handlers : HandleOutbound(w)
    \/ \E a \in Agents :
          \/ Receive(a) \/ Answer(a) \/ Crash(a)
          \/ \E w \in Workers : Run(a, w) \/ Fail(a, w)
          \/ \E t \in Types : Lose(a, t)

Spec == Init /\ [][Next]_vars

\* The Go scheduler runs every goroutine, the transport delivers, clients answer.
FairSpec == /\ Spec
            /\ WF_vars(\E w \in Handlers : HandleOutbound(w))
            /\ \A a \in Agents :
                  /\ WF_vars(Receive(a)) /\ WF_vars(Answer(a))
                  /\ \A w \in Workers : WF_vars(Run(a, w))
-----------------------------------------------------------------------------
\* Every variable holds a value of its kind; presentations are only received, and
\* the thread only given up, in the listener.
Followers == {"noop", "done", "presentation-sent", "proposal-sent", "request-sent"}
Worker == [pc : PCs, type : Types \cup {"none"}, ack : BOOLEAN, opt : Options, stop : BOOLEAN,
           abandons : BOOLEAN, at : States, next : Followers,
           out : Types \cup {"none"}]
WorkerOK(w, me) ==
    /\ me \in Worker
    /\ me.pc \in {"payload", "event", "delete", "push"} => me.type \in EventTypes
    /\ me.at = "presentation-received" /\ me.pc \in {"execute", "save", "act"} => w = Listener
    /\ me.abandons => w = Listener
    /\ me.pc = "act" => me.out # "none"

TypeOK ==
    /\ data    \in [Agents -> [name : States, ack : BOOLEAN]]
    /\ payload \in [Agents -> Held \cup {None}]
    /\ saved   \in BOOLEAN
    /\ net     \in [Agents -> [Types -> Nat]]
    /\ events  \in [Agents -> [Held -> Nat]]
    /\ workers \in [Agents -> [Workers -> Worker]]
    /\ \A a \in Agents, w \in Workers : WorkerOK(w, workers[a][w])
    /\ opened  \in BOOLEAN
    /\ rounds \in Nat /\ duplicates \in Nat /\ doubles \in Nat /\ failures \in Nat /\ crashes \in Nat

\* A prover that is told its presentation was accepted, by an ack or by a verifier
\* that is done, was told so by one that has it in its verifiable store, whatever
\* is repeated, lost, failing or restarted.
AcceptedMeansSaved ==
    \/ net[Prover]["ack"] > 0
    \/ \E w \in Workers : workers[Prover][w].type = "ack"
    \/ data[Verifier].name = "done"
    => saved

Final == {"abandoned", "done"}

\* Whoever is sent a message has stored a state that takes it, and so has whoever
\* waits for its client.  The exception the code makes: a prover that expects no ack is
\* done as soon as it has sent, and refuses the report that its presentation was not
\* accepted (each message delivered once, no failures; restarts are allowed).
NobodyIsSurprised ==
    \A a \in Agents, t \in Types :
        \/ net[a][t] > 0 \/ payload[a].type = t
        \/ \E w \in Workers : workers[a][w].pc = "payload" /\ workers[a][w].type = t
        => \/ CanTransitionTo(data[a].name, NextState(t))
           \/ a = Prover /\ t = "problem-report" /\ data[a].name = "done"

\* A prover that waits for an ack waits for a verifier that will send it, or has
\* given up: the promise in the last request is the one the verifier goes by, even
\* after counter-proposals with other promises (no failures or restarts).
PromiseIsKept ==
    /\ failures + crashes = 0
    /\ data[Prover].name = "presentation-sent" /\ workers[Prover][Listener].pc = "idle"
    => data[Verifier].ack \/ data[Verifier].name = "abandoned"

\* A thread that no failure or restart disturbs ends, for both agents, whatever the
\* clients decide.
ThreadSettles == <>[](\/ \A a \in Agents : data[a].name \in Final
                      \/ failures + crashes > 0)

\* The thread as Fulfilment sees it, from what the two agents have stored.
Took  == data[Verifier].name = "done"
Over  == Took \/ \E a \in Agents : data[a].name = "abandoned"
Given == data[Prover].name \in {"presentation-sent", "done"}
Asked == data[Verifier].name = "request-sent" \/ rounds > 0
Phase ==
    CASE Took                        -> "taken"
      [] Over /\ ~ Took              -> "dropped"
      [] Given /\ ~ Over             -> "given"
      [] Asked /\ ~ Given /\ ~ Over  -> "asked"
      [] ~ (Asked \/ Given \/ Over)  -> "open"

F == INSTANCE Fulfilment WITH phase <- Phase

\* The thread implements Fulfilment (each message delivered once, no failures).
ImplementsFulfilment == F!Spec
=============================================================================
