--------------------------- MODULE IssueCredential ---------------------------
(***************************************************************************)
(* One thread of the issue-credential protocol between a holder and an      *)
(* issuer, each running the service of pkg/didcomm/protocol/issuecredential *)
(* with the SaveCredentials middleware on the holder's side.                *)
(*                                                                          *)
(* Inbound messages and client calls run in goroutines; what the client     *)
(* decides is handled by the one goroutine of startInternalListener, which  *)
(* never looks at the stored state again.  Workers walk through             *)
(*   inbound:  payload -> event                        (an event's message) *)
(*             save                                    (an ack)             *)
(*   client:   delete -> push, or save -> act          (the first message)  *)
(*   listener: handle -> save -> act, with abandon -> save -> act on errors *)
(***************************************************************************)
EXTENDS Naturals

CONSTANTS
    Holder, Issuer,
    Handlers,       \* goroutines of an agent for inbound messages and client calls
    Listener,       \* the goroutine of startInternalListener
    Opening,        \* the first message: "propose", "offer" or "request"
    ByEvent,        \* agents whose client answers the events it gets; the others
                    \* look up Actions() and answer with ActionContinue, ActionStop
    MaxRounds, MaxDuplicates, MaxDoubles, MaxFailures, MaxCrashes
                    \* bounds of the exploration: counter-proposals, messages delivered
                    \* again, payloads answered by two calls at a time, failures, restarts

ASSUME PartiesAssumption ==
    /\ Holder # Issuer
    /\ Listener \notin Handlers
    /\ Opening \in {"propose", "offer", "request"}
    /\ ByEvent \subseteq {Holder, Issuer}

ASSUME LimitsAssumption ==
    /\ MaxRounds \in Nat /\ MaxDuplicates \in Nat /\ MaxDoubles \in Nat
    /\ MaxFailures \in Nat /\ MaxCrashes \in Nat

Agents  == {Holder, Issuer}
Workers == Handlers \cup {Listener}
Peer(a) == IF a = Holder THEN Issuer ELSE Holder

Types == {"propose", "offer", "request", "issue", "ack", "problem-report"}

\* What a client may add to its answer: a message of its own, the property
\* skip-credential-save, or nothing.
Options == {"none", "propose", "offer", "issue", "skip"}

StoredStates == {"start", "done", "proposal-sent", "offer-sent", "request-sent",
                 "credential-issued"}
Received     == {"proposal-received", "offer-received", "request-received",
                 "credential-received", "abandoning"}
States       == StoredStates \cup Received

-----------------------------------------------------------------------------
(***************************************************************************)
(* The state machine of states.go.                                          *)
(***************************************************************************)
CanTransitionTo(s, t) ==
    t \in CASE s = "start"             -> {"proposal-received", "offer-sent", "request-received",
                                           "proposal-sent", "offer-received", "request-sent"}
            [] s = "offer-sent"        -> {"proposal-received", "request-received", "abandoning"}
            [] s = "proposal-sent"     -> {"offer-received", "abandoning"}
            [] s = "request-sent"      -> {"credential-received", "abandoning"}
            [] s = "credential-issued" -> {"done", "abandoning"}
            [] s = "done"              -> {}

\* nextState of an inbound message, and of the message a client opens with.
NextState(type) ==
    CASE type = "propose"        -> "proposal-received"
      [] type = "offer"          -> "offer-received"
      [] type = "request"        -> "request-received"
      [] type = "issue"          -> "credential-received"
      [] type = "ack"            -> "done"
      [] type = "problem-report" -> "abandoning"
OpeningState == CASE Opening = "propose" -> "proposal-sent"
                  [] Opening = "offer"   -> "offer-sent"
                  [] Opening = "request" -> "request-sent"

Opener == IF Opening = "offer" THEN Issuer ELSE Holder

CanTriggerActionEvents(type) == type # "ack"
EventTypes == {t \in Types : CanTriggerActionEvents(t)}

\* Mutants: the credential is accepted but its state never followed by done, ...
Result(last, out) == [last |-> last, out |-> out]
CannotGoOn        == Result("start", "none")
ExecuteNotDone(s, opt) ==
    CASE s = "credential-received" -> Result("credential-received", "ack")
      [] s = "request-received"    -> Result("credential-issued", "issue")
      [] OTHER                     -> CannotGoOn

\* ... a thread is abandoned and the other agent never told.
AbandonedQuietly(type) == Result("done", "none")

\* ExecuteInbound of `s` and of the states that follow it at once: the last of
\* them, the only one handle() stores, and the message its actions send.
ExecuteInbound(s, opt) ==
    CASE s = "proposal-received" /\ opt = "offer"  -> Result("offer-sent", "offer")
      [] s = "request-received" /\ opt = "issue"   -> Result("credential-issued", "issue")
      [] s = "offer-received" /\ opt = "propose"   -> Result("proposal-sent", "propose")
      [] s = "offer-received" /\ opt # "propose"   -> Result("request-sent", "request")
      [] s = "credential-received"                 -> Result("done", "ack")
      [] s \in {"abandoning", "done"}              -> Result("done", "none")
      [] OTHER                                     -> CannotGoOn

\* The abandoning state of startInternalListener: a problem report is not answered.
Abandoned(type) == Result("done", IF type = "problem-report" THEN "none" ELSE "problem-report")

-----------------------------------------------------------------------------
VARIABLES
    state,       \* the store: the state name of the thread ("start" if absent)
    payload,     \* the store: the message of the transitional payload, or "none"
    wallet,      \* what became of the credential at the holder: nothing ("empty"),
                 \* accepted without being stored ("skipped"), or in its verifiable
                 \* store ("saved")
    net,         \* copies of each message on their way to an agent
    events,      \* action events of each message that the client still holds
    workers,     \* the goroutines of each agent
    opened, rounds, duplicates, doubles, failures, crashes   \* how much of each bound is used up

used == <<opened, rounds, duplicates, doubles, failures, crashes>>
vars == <<state, payload, wallet, net, events, workers, used>>

PCs == {"idle", "payload", "event", "delete", "push", "handle", "abandon", "save", "act"}
IdleWorker == [pc |-> "idle", type |-> "none", opt |-> "none", stop |-> FALSE,
               abandons |-> FALSE, last |-> "start", out |-> "none"]

Goto(a, w, next) == workers' = [workers EXCEPT ![a][w] = next]
Idle(a, w)       == Goto(a, w, IdleWorker)

Init ==
    /\ state   = [a \in Agents |-> "start"]
    /\ payload = [a \in Agents |-> "none"]
    /\ wallet  = "empty"
    /\ net     = [a \in Agents |-> [t \in Types |-> 0]]
    /\ events  = [a \in Agents |-> [t \in EventTypes |-> 0]]
    /\ workers = [a \in Agents |-> [w \in Workers |-> IdleWorker]]
    /\ opened = FALSE /\ rounds = 0 /\ duplicates = 0 /\ doubles = 0 /\ failures = 0 /\ crashes = 0

-----------------------------------------------------------------------------
(***************************************************************************)
(* HandleOutbound of the message that starts the thread: there is no stored *)
(* state yet, and the states of handle() are executed before any step.      *)
(***************************************************************************)
HandleOutbound(w) ==
    /\ ~ opened /\ opened' = TRUE
    /\ workers[Opener][w].pc = "idle"
    /\ Goto(Opener, w, [IdleWorker EXCEPT !.pc = "save", !.last = OpeningState,
                                          !.out = Opening])
    /\ UNCHANGED <<state, payload, wallet, net, events, rounds, duplicates, doubles,
                   failures, crashes>>

(***************************************************************************)
(* HandleInbound: the stored state is looked at here, and only here.        *)
(***************************************************************************)
Deliver(a, t) ==
    /\ net[a][t] > 0
    /\ \/ net' = [net EXCEPT ![a][t] = @ - 1] /\ UNCHANGED duplicates
       \/ duplicates < MaxDuplicates /\ duplicates' = duplicates + 1 /\ UNCHANGED net

HandleInbound(a, w, t) ==
    /\ workers[a][w].pc = "idle"
    /\ Deliver(a, t)
    /\ LET s == NextState(t)
       IN  IF ~ CanTransitionTo(state[a], s) THEN UNCHANGED workers
           ELSE IF CanTriggerActionEvents(t)
           THEN Goto(a, w, [IdleWorker EXCEPT !.pc = "payload", !.type = t])
           ELSE Goto(a, w, [IdleWorker EXCEPT !.pc = "save", !.type = t,
                                              !.last = ExecuteInbound(s, "none").last])
    /\ UNCHANGED <<state, payload, wallet, events, opened, rounds, doubles, failures,
                   crashes>>

SaveTransitionalPayload(a, w) ==
    /\ workers[a][w].pc = "payload"
    /\ payload' = [payload EXCEPT ![a] = workers[a][w].type]
    /\ Goto(a, w, [workers[a][w] EXCEPT !.pc = "event"])
    /\ UNCHANGED <<state, wallet, net, events, used>>

SendActionEvent(a, w) ==
    /\ workers[a][w].pc = "event"
    /\ events' = [events EXCEPT ![a][workers[a][w].type] = @ + 1]
    /\ Idle(a, w)
    /\ UNCHANGED <<state, payload, wallet, net, used>>

-----------------------------------------------------------------------------
(***************************************************************************)
(* The client continues (with a message of its own, where one is called     *)
(* for, or accepting a credential it wants nobody to save) or stops.        *)
(* Either deletes the payload before the listener has it.                   *)
(***************************************************************************)
Offers(t) == CASE t = "propose" -> {"offer", "none"}
               [] t = "offer"   -> IF rounds < MaxRounds THEN {"none", "propose"} ELSE {"none"}
               [] t = "request" -> {"issue", "none"}
               [] t = "issue"   -> {"none", "skip"}
               [] OTHER         -> {"none"}

Decide(a, w, t) ==
    /\ workers[a][w].pc = "idle"
    /\ \E opt \in Offers(t), stop \in BOOLEAN :
          /\ stop => opt = "none"
          /\ rounds' = IF opt = "propose" THEN rounds + 1 ELSE rounds
          /\ Goto(a, w, [IdleWorker EXCEPT !.pc = "delete", !.type = t,
                                           !.opt = opt, !.stop = stop])
    /\ UNCHANGED <<state, payload, wallet, net, opened, duplicates, failures, crashes>>

\* The closures of newDIDCommActionMsg.
AnswerEvent(a, w, t) ==
    /\ a \in ByEvent /\ events[a][t] > 0
    /\ events' = [events EXCEPT ![a][t] = @ - 1]
    /\ Decide(a, w, t)
    /\ UNCHANGED doubles

\* ActionContinue and ActionStop: the payload is read here and deleted later.
AnswerAction(a, w) ==
    /\ a \notin ByEvent /\ payload[a] # "none"
    /\ IF \E x \in Handlers : workers[a][x].pc = "delete"
       THEN doubles < MaxDoubles /\ doubles' = doubles + 1 ELSE UNCHANGED doubles
    /\ Decide(a, w, payload[a])
    /\ UNCHANGED events

\* Mutant: the payload stays.
DeletePayloadSkipped(a, w) ==
    /\ workers[a][w].pc = "delete"
    /\ Goto(a, w, [workers[a][w] EXCEPT !.pc = "push"])
    /\ UNCHANGED <<state, payload, wallet, net, events, used>>

DeleteTransitionalPayload(a, w) ==
    /\ workers[a][w].pc = "delete"
    /\ payload' = [payload EXCEPT ![a] = "none"]
    /\ Goto(a, w, [workers[a][w] EXCEPT !.pc = "push"])
    /\ UNCHANGED <<state, wallet, net, events, used>>

\* processCallback meets the listener on the unbuffered channel.
TakeCallback(a, w) ==
    /\ workers[a][w].pc = "push" /\ workers[a][Listener].pc = "idle"
    /\ workers' = [workers EXCEPT
           ![a][w] = IdleWorker,
           ![a][Listener] = [workers[a][w] EXCEPT
               !.pc = IF workers[a][w].stop THEN "abandon" ELSE "handle"]]
    /\ UNCHANGED <<state, payload, wallet, net, events, used>>

-----------------------------------------------------------------------------
(***************************************************************************)
(* handle(): all the states, then the name of the last, then all actions.   *)
(***************************************************************************)
\* Mutant: a state with an action is not stored.
ConcludeUnsaved(a, w, result) ==
    Goto(a, w, [workers[a][w] EXCEPT !.pc = IF result.out = "none" THEN "save" ELSE "act",
                                     !.last = result.last, !.out = result.out])

Conclude(a, w, result) ==
    Goto(a, w, [workers[a][w] EXCEPT !.pc = "save", !.last = result.last, !.out = result.out])

\* Accepting without saving; what was saved before stays.
AcceptUnsaved(a, w) ==
    /\ Conclude(a, w, ExecuteInbound("credential-received", workers[a][w].opt))
    /\ wallet' = IF wallet = "empty" THEN "skipped" ELSE wallet

\* Mutant: the property need not be there for the credential not to be saved.
SaveCredentialSkipped(a, w) ==
    /\ workers[a][w].pc = "handle" /\ NextState(workers[a][w].type) = "credential-received"
    /\ AcceptUnsaved(a, w)
    /\ UNCHANGED <<state, payload, net, events, used>>

\* The SaveCredentials middleware.  A credential that comes again finds its name
\* taken, or is saved under another one.
SaveCredential(a, w) ==
    LET me == workers[a][w]
    IN  /\ me.pc = "handle" /\ NextState(me.type) = "credential-received"
        /\ \/ me.opt = "skip" /\ AcceptUnsaved(a, w)
           \/ /\ me.opt # "skip"
              /\ Conclude(a, w, ExecuteInbound("credential-received", me.opt))
              /\ wallet' = "saved"
           \/ /\ me.opt # "skip" /\ wallet = "saved"
              /\ Goto(a, w, [me EXCEPT !.pc = "abandon"])
              /\ UNCHANGED wallet
        /\ UNCHANGED <<state, payload, net, events, used>>

Execute(a, w) ==
    LET me     == workers[a][w]
        result == ExecuteInbound(NextState(me.type), me.opt)
    IN  /\ me.pc = "handle" /\ NextState(me.type) # "credential-received"
        /\ IF result = CannotGoOn THEN Goto(a, w, [me EXCEPT !.pc = "abandon"])
           ELSE Conclude(a, w, result)
        /\ UNCHANGED <<state, payload, wallet, net, events, used>>

Abandon(a, w) ==
    LET me     == workers[a][w]
        result == Abandoned(me.type)
    IN  /\ me.pc = "abandon"
        /\ Goto(a, w, [me EXCEPT !.pc = "save", !.abandons = TRUE,
                                 !.last = result.last, !.out = result.out])
        /\ UNCHANGED <<state, payload, wallet, net, events, used>>

SaveStateName(a, w) ==
    LET me == workers[a][w]
    IN  /\ me.pc = "save"
        /\ state' = [state EXCEPT ![a] = me.last]
        /\ IF me.out = "none" THEN Idle(a, w) ELSE Goto(a, w, [me EXCEPT !.pc = "act"])
        /\ UNCHANGED <<payload, wallet, net, events, used>>

Send(a, t) == net' = [net EXCEPT ![Peer(a)][t] = @ + 1]

Act(a, w) ==
    /\ workers[a][w].pc = "act"
    /\ Send(a, workers[a][w].out)
    /\ Idle(a, w)
    /\ UNCHANGED <<state, payload, wallet, events, used>>

-----------------------------------------------------------------------------
(***************************************************************************)
(* Failures.  An error of handle() makes the listener abandon once; any     *)
(* other goroutine returns it.  A closure of an event only logs a failed    *)
(* delete.  A send may fail after the message is out; one may be lost.      *)
(***************************************************************************)
Fail(a, w) ==
    LET me == workers[a][w]
    IN  /\ me.pc \notin {"idle", "push"}
        /\ failures < MaxFailures /\ failures' = failures + 1
        /\ \/ UNCHANGED net
           \/ me.pc = "act" /\ Send(a, me.out)
        /\ IF w = Listener /\ ~ me.abandons /\ me.pc # "abandon"
           THEN Goto(a, w, [me EXCEPT !.pc = "abandon"])
           ELSE IF me.pc = "delete" /\ a \in ByEvent
           THEN Goto(a, w, [me EXCEPT !.pc = "push"])
           ELSE Idle(a, w)
        /\ UNCHANGED <<state, payload, wallet, events, opened, rounds, duplicates, doubles, crashes>>

Lose(a, t) ==
    /\ net[a][t] > 0 /\ net' = [net EXCEPT ![a][t] = @ - 1]
    /\ failures < MaxFailures /\ failures' = failures + 1
    /\ UNCHANGED <<state, payload, wallet, events, workers, opened, rounds, duplicates, doubles, crashes>>

\* A restart: goroutines, events and the callback channel are gone, stores are not.
Crash(a) ==
    /\ crashes < MaxCrashes /\ crashes' = crashes + 1
    /\ workers' = [workers EXCEPT ![a] = [w \in Workers |-> IdleWorker]]
    /\ events'  = [events EXCEPT ![a] = [t \in EventTypes |-> 0]]
    /\ UNCHANGED <<state, payload, wallet, net, opened, rounds, duplicates, doubles,
                   failures>>

-----------------------------------------------------------------------------
Run(a, w) == \/ SaveTransitionalPayload(a, w) \/ SendActionEvent(a, w)
             \/ DeleteTransitionalPayload(a, w) \/ TakeCallback(a, w)
             \/ SaveCredential(a, w) \/ Execute(a, w) \/ Abandon(a, w)
             \/ SaveStateName(a, w) \/ Act(a, w)

Answer(a) == \E w \in Handlers : AnswerAction(a, w) \/ \E t \in EventTypes : AnswerEvent(a, w, t)

Receive(a) == \E w \in Handlers, t \in Types : HandleInbound(a, w, t)

Next ==
    \/ \E w \in Handlers : HandleOutbound(w)
    \/ \E a \in Agents :
          \/ Receive(a) \/ Answer(a) \/ Crash(a)
          \/ \E w \in Workers : Run(a, w) \/ Fail(a, w)
          \/ \E t \in Types : Lose(a, t)

Spec == Init /\ [][Next]_vars

\* The Go scheduler runs every goroutine, the transport delivers, clients answer.
FairSpec == /\ Spec
            /\ WF_vars(\E w \in Handlers : HandleOutbound(w))
            /\ \A a \in Agents :
                  /\ WF_vars(Receive(a)) /\ WF_vars(Answer(a))
                  /\ \A w \in Workers : WF_vars(Run(a, w))
-----------------------------------------------------------------------------
\* Every variable holds a value of its kind; only the listener executes and abandons.
Worker == [pc : PCs, type : Types \cup {"none"}, opt : Options, stop : BOOLEAN,
           abandons : BOOLEAN, last : StoredStates, out : Types \cup {"none"}]
WorkerOK(w, me) ==
    /\ me \in Worker
    /\ me.pc \in {"handle", "abandon"} => w = Listener
    /\ me.pc \in {"payload", "event", "delete", "push", "handle"} => me.type \in EventTypes
    /\ me.pc = "act" => me.out # "none"

TypeOK ==
    /\ state   \in [Agents -> StoredStates]
    /\ payload \in [Agents -> EventTypes \cup {"none"}]
    /\ wallet  \in {"empty", "skipped", "saved"}
    /\ net     \in [Agents -> [Types -> Nat]]
    /\ events  \in [Agents -> [EventTypes -> Nat]]
    /\ workers \in [Agents -> [Workers -> Worker]]
    /\ \A a \in Agents, w \in Workers : WorkerOK(w, workers[a][w])
    /\ opened  \in BOOLEAN
    /\ rounds \in Nat /\ duplicates \in Nat /\ doubles \in Nat /\ failures \in Nat /\ crashes \in Nat

\* An ack on its way, or being handled, finds the credential accepted by the holder;
\* and a goroutine that is to send one has it in the verifiable store, unless its own
\* client asked for it not to be saved.  Whatever is repeated, answered twice, lost,
\* failing or restarted.
AckMeansSaved ==
    /\ \/ net[Issuer]["ack"] > 0
       \/ \E w \in Workers : workers[Issuer][w].type = "ack"
       => wallet # "empty"
    /\ \A w \in Workers :
          workers[Holder][w].out = "ack" /\ workers[Holder][w].opt # "skip" => wallet = "saved"

\* Whoever is sent a message has stored a state that takes it, and so has whoever
\* waits for its client: no message is refused and no payload is out of date
\* (each message delivered once, no failures; restarts are allowed).
NobodyIsSurprised ==
    \A a \in Agents, t \in Types :
        \/ net[a][t] > 0 \/ payload[a] = t
        \/ \E w \in Workers : workers[a][w].pc = "payload" /\ workers[a][w].type = t
        => CanTransitionTo(state[a], NextState(t))

\* CanTransitionTo of "done" is always FALSE: a thread that is done stays done
\* (each message delivered once, no failures).
DoneIsFinal == [][\A a \in Agents : state[a] = "done" => state'[a] = "done"]_vars

\* A thread that no failure or restart disturbs ends, for both agents, whatever the
\* clients decide.
ThreadSettles == <>[](\/ \A a \in Agents : state[a] = "done"
                      \/ failures + crashes > 0)

\* The thread as Fulfilment sees it, from what the two agents have stored; a credential
\* accepted without being saved is taken.
Took  == wallet # "empty" /\ state[Holder] = "done"
Over  == \E a \in Agents : state[a] = "done"
Asked == ~ Over /\ state[Holder] = "request-sent"
Given == Asked /\ state[Issuer] = "credential-issued"
Phase ==
    CASE Took              -> "taken"
      [] Over /\ ~ Took    -> "dropped"
      [] Given             -> "given"
      [] Asked /\ ~ Given  -> "asked"
      [] ~ Over /\ ~ Asked -> "open"

F == INSTANCE Fulfilment WITH phase <- Phase

\* The thread implements Fulfilment (each message delivered once, no failures).
ImplementsFulfilment == F!Spec
=============================================================================
