# The DIDComm agent of aries-framework-go: specifications, checks and proofs

This directory holds TLA+ specifications of the agent in `src/`, the TLC
configurations that check them, and proofs that TLAPS checks.  Every definition
that stands for code is listed in `PROJECT.json` under `map` with its lines.

## 1. The system

An agent is a process with a set of DIDComm services.  A transport hands an
envelope to the inbound dispatcher, which unpacks it, lets the DID rotation
middleware look at it and calls the service that accepts its message type.  A
service runs a state machine per thread, keeps the thread in a store, tells its
client through channels (action events that need an answer, message events that
do not), and answers the peer through the outbound dispatcher or the messenger.

| Component | State it keeps | Operations | Talks to |
|---|---|---|---|
| DID exchange (`pkg/didcomm/protocol/didexchange`) | connection records, thread mappings, event data, a callback channel | inbound invitation, request, response, complete; accept; implicit invitation; callback listener | connection recorder, DID store, outbound dispatcher, client |
| Connection recorder and lookup (`pkg/store/connection`) | two stores: protocol state and permanent | save, save with mapping, remove, lookups by id, thread, DIDs | storage |
| DID connection store (`pkg/store/did`) | key to DID, DIDs | save by resolving, save from document, lookup | VDR, storage |
| Cached, batched, formatted store (`component/storageutil`) | a cache; a list of pending operations; the documents of encrypted data | get, put, delete, query, batch, flush, close | the store underneath |
| Message pickup (`.../messagepickup`) | an inbox per DID, waiting channels | status request, batch pickup, add message, noop | storage, outbound dispatcher |
| Issue credential, present proof (`.../issuecredential`, `.../presentproof`) | state name and transitional payload per thread | propose, offer, request, issue, ack; accept and decline; continue and stop | messenger, client, middleware |
| Out of band 1 and 2, introduce | transitional payloads per thread | invitation, accept, reuse; proposal, response, ack | DID exchange events, messenger |
| Mediator (`.../mediator`) | routes, the router's configuration, waiting channels, a callback channel | register, unregister, add key, grant, keylist update, forward | pickup, outbound dispatcher, client |
| DID rotation (`pkg/didcomm/common/middleware`) | rotations in the connection records, a backup record | rotate; look at inbound and outbound messages | both dispatchers |
| Inbound, outbound dispatchers, messenger | thread metadata, connection records | dispatch, send, forward | all services |
| Transports (HTTP, WebSocket pool) | open connections | send, listen | network |
| Notifier, controllers, wallet, KMS, VDR, documents | subscribers, sessions, keys | commands | clients |

Hard behaviour: every inbound message is a goroutine; the transition check is
made before that goroutine starts and never again; a step is several writes to
two stores that are not a transaction; clients answer over a channel or through
an API call that starts another goroutine; transports repeat and lose messages;
a send may report failure after the message is out; an agent may restart.

### What makes each part correct

* DID exchange: an agent learns only DIDs their owner has persisted; the inviter
  is the last to complete; two completed agents hold the same pair of DIDs; a
  thread that waits for its client can be answered; a thread that ended stays so.
* Issue credential, present proof: nobody is told of a success that is not in
  the verifiable store, except of a credential the holder's client asked not to be
  saved (`skip-credential-save`); whoever is sent a message takes it; the client's answer
  is executed once; a thread ends for both agents; done is final.
* Message pickup: messages leave in order and are handled at most once; nothing
  stored is lost without a failure; every call returns and the lock is given back.
* Connection recorder: the permanent store never contradicts the protocol store;
  a removed record leaves nothing behind and does not come back.
* Cached, batched and formatted stores: together they are one value per key; a
  read sees a value of its time; nothing accepted is dropped by a flush or brought
  back by a restart; a key has one document.
* Mediator: registered means granted and configured; an address is handed out only
  once its key leads there; forwarded messages reach the agent or wait for it;
  every waiting call returns.
* DID rotation: each agent takes the next message of the other, whatever was in
  flight when either of them rotated.
* Out of band, introduce: an invitation is accepted once; a proposal ends for
  all three agents.
* Inbound, outbound dispatcher: one connection record per pair of DIDs.
* WebSocket pool: one live connection per endpoint; a closed one is replaced.
* Wallet: a token works until its session ends and not after.

## 2. Plan

Done: `DIDExchange` over `Handshake`; `IssueCredential` and `PresentProof` over
`Fulfilment`; `MessagePickup` over `Mailbox`; `Mediator`, which forwards into the
same `Mailbox`; the storage stack `CachedStore` over `BatchedStore` over
`FormattedStore`, over `KeyValue`; `DIDRotation` with the dispatchers; the proofs
of section 6.

Next, in this order (a new component takes the place of a run whose question
another one answers too):

1. `ConnectionStore`: the removals of the recorder over two stores that fail
   separately.  To look at: a removal that fails half way cannot be repeated, and
   `removeMappings` (`connection_recorder.go:262`) deletes from the permanent store
   a mapping that was put into the protocol state store.
2. `OutOfBand` and `Introduce`, reacting to the exchange's events; the transition
   table of the legacy connection service in `DIDExchange`'s frame.
3. The WebSocket pool, the notifier, wallet sessions.

Every property that a passing run checks is proved except liveness, so the theorems to
come are those of the new components.

## 3. The modules

Every module is one thread, one inbox, one connection or one store: services keep
threads apart by their thread id, and nothing but the connection lookup crosses
them.  A goroutine is a record with a program counter; a step is one access to a store, a channel, a lock
or the network, with the computation up to the next one.  Messages on the wire
are sets or counts, so they arrive in any order.

| Module | Code | State | Actions |
|---|---|---|---|
| `DIDExchange` | `didexchange/service.go`, `states.go`, with the saves and reads of `store/connection` and `store/did` | the protocol state store (`records`, `threads`, `events`), the permanent store, the saved DIDs, the messages sent, each agent's goroutines, the client's events and `callbackChannel` | `HandleInbound` and `RejectInbound`; `NewRecord`, `FetchRecord` (`connectionRecord`); `Execute*` (`ExecuteInbound` of each state); `Persist`, `SaveMapping`, `SavePermanent`, `SaveDID` (`update` and `SaveConnectionRecord`); `Act`; `SendActionEvent`; `Continue`, `Stop`, `Accept`; `TakeCallback`, `Abandon`, `SaveAbandoned`; `CreateImplicitInvitation`; `Fail`, `Crash` |
| `Handshake` | what the exchange promises | phase and DIDs of each agent | ask, answer, pair, confirm, abandon |
| `IssueCredential` | `issuecredential/service.go`, `states.go`, its `SaveCredentials` middleware | stored state name, transitional payload, the wallet, the network, events, goroutines | `HandleOutbound`, `HandleInbound`, payload and event, `AnswerEvent` (closures of the event) or `AnswerAction` (`ActionContinue`, `ActionStop`), `DeleteTransitionalPayload`, `TakeCallback`, `SaveCredential`, `Execute`, `Abandon`, `SaveStateName`, `Act`; `Fail`, `Lose`, `Crash` |
| `PresentProof` | `presentproof/service.go`, `states.go`, its `SavePresentation` middleware | the same with `AckRequired`; the internal data is stored once per state | as above, but each state is stored (`SaveInternalData`) and acted on (`Act`) before the next one is executed |
| `Fulfilment` | what either protocol promises | one phase | ask, give, take (a credential that is accepted without being saved is taken too), drop |
| `MessagePickup` | `messagepickup/service.go`, on a mediator and on its agent | the inbox, `inboxLock`, `batchMap` and `statusMap`, goroutines, messages handled | `AddMessage`, `HandleRequest`, `Enter`, `PutMessage`, `PutRest`, `SendReply`; `Call`, `SendRequest`, `TakeAnswer`, `HandleMessage`, `Timeout`, `Leave`; `HandleReply`; `Fail*`, `LoseMessage`, `Crash*` |
| `Mailbox` | what the inbox promises | inbox, messages taken, messages handled | put, take, handle, lose |
| `Mediator` | `mediator/service.go`, `mediator/util.go`, on a mediator and on one agent, with the inbox as a `Mailbox` | the agent's route store (`grants`, `config`, `registered`) and `keylistUpdateMap`; the mediator's `routes` and inbox; its client's `events` and `callbacks`; goroutines and the network | `Call` and the steps of `Register`, `Unregister`, `AddKey` (`Check*`, `SendRequest`, `GetGrant`, `SaveRouterConfig`, `SendUpdate`, `TakeResponse`, ...), `Timeout`; `SaveGrant`, `HandleKeylistUpdateResponse`; `HandleRequest`, `AnswerRequest`, `TakeCallback`, `Grant`; `HandleKeylistUpdate`, `PutRoute`, `Respond`; `HandleForward`, `FindRoute`, `Forward`, `AddMessage`, `Pickup`; `Fail*`, crashes |
| `FormattedStore` | `formattedstore/formattedstore.go` with random document ids | the documents underneath | operators: how a batch is resolved to documents and performed, wholly or half way |
| `BatchedStore` | `batchedstore/batchedstore.go` | `currentBatch` | operators: `Enqueue`, `Flush` |
| `CachedStore` | `cachedstore/cachedstore.go` over the two | the cache, goroutines | `Write` (put, delete, batch), `WriteMain`, `WriteCache`, `Get`, `GetBulk`, `FlushStore`, `FlushFirst`, `ReadMain`, `FillCache`, `Hit`; `Restart` |
| `KeyValue` | what the stack promises | a value per key, the views a restart may go back to, how often something failed | call, write, flush, fail, restart |
| `DIDRotation` | `common/middleware/middleware.go`, with `getOrCreateConnection` of the outbound and the record lookup of the inbound dispatcher | the connection records of two agents, goroutines, the network | `Rotate`, `SaveNew`, `SaveBackup`; `Send`, `FindAndSend`, `FindNothing`, `CreateAndSend`; `Receive`, `Refuse`, `SaveReceived`; `Lose`, `Fail`, `Restart` |

`MC...` modules add the symmetry of goroutines; `...Proofs` modules hold theorems.

What is abstracted.  A DID is its owner and a serial number; keys, documents,
signatures and attachments are data no step depends on, except through success or
failure, which is `Fail`.  A presentation is one Boolean: in the verifiable store or
not.  A credential is one of three values, since the client that accepts it may set
the property `skip-credential-save`: not accepted, accepted without being saved,
saved.  One that comes again may find its name taken, which is an error, or get
another name.  A batch or a status is the list of messages it carries; times and
sizes are left out.  Message events (`MsgEvents`) inform and change nothing.
Message versions 2 and 3 share the states modelled.  `Noop` of message pickup has no
effect.  The two protocols with payloads assume a client that is registered, as the
services require before they answer, and their `HandleOutbound` is the one message
that opens a thread.  `CreateConnection` of the DID exchange, which saves a
completed record of a connection of its own and has no thread, is left out.  Stores
are durable in `IssueCredential`, `PresentProof` and `MessagePickup`; `DIDExchange`
has both a durable and a volatile protocol state store, because the framework allows
either.  A write is atomic, as the providers' are, and one that fails has not
happened; a send that fails may have.

In `Mediator`, calls name what they create (request, grant, key, update), and the
options of a registration are left out.  In the storage stack a document is a key's
tag, an id and a value: other tags, the deterministic formatter, direct puts and
deletes of the formatted store (the batched store above it sends batches only) and
closing and opening a store again are left out.  In `DIDRotation` the queries of
one received message are one step; the DIDs are public and not peer DIDs, so no
initial state travels along; an agent rotates one DID at a time; a connection that
comes from an out-of-band invitation, the copy of a record in the protocol state
store and a destination that cannot be resolved (which is `Fail`) are left out.

## 4. The runs

| Run | What may happen | What it shows |
|---|---|---|
| `exchange_hostile` | everything delivered again at will, events answered twice, a failure, a restart that loses the protocol state store | a learned DID is one its owner had persisted; the inviter completes last; without failure or restart a waiting thread has its event data |
| `exchange_orderly` | two restarts with durable stores, clients that stop or continue | the two stores agree, ended threads stay ended, the exchange implements `Handshake`, and it ends |
| `exchange_failures` | two failures anywhere and two restarts, from an implicit invitation | agreement holds |
| `issue_hostile` | a duplicate, two calls of the holder's client for one payload at a time, with or without `skip-credential-save`, a failure or lost message, a restart | no ack of a credential that was not accepted; no ack leaves a goroutine that has not saved it, unless its client said so |
| `issue_orderly` | counter-proposals, two restarts | nobody refuses a message or holds a stale payload; done is final; implements `Fulfilment`; ends for both |
| `proof_hostile` | a duplicate, two calls of the verifier's client for one payload at a time, a failure or lost message | no success told without the presentation saved |
| `proof_orderly` | a counter-proposal, requests with and without an ack promised, two restarts | nobody refuses a message but the report to a prover already done; the verifier goes by its last promise; implements `Fulfilment`; ends for both |
| `message_pickup` | two calls, each of which may time out; one duplicate, loss, failure or restart | the lock excludes; nothing is lost without trouble; every call and goroutine of the mediator returns; a restart leaves no answer waiting for a call that is gone; implements `Mailbox` |
| `mediator` | three calls by two goroutines, a message, a registration that is left, an agent that is offline; one duplicate, loss, failure or restart | registered means granted and configured; addresses are routed; messages arrive or wait in the inbox; every call returns; no answer waits for a call that is gone |
| `cached_store` | three writes and a read by two goroutines; four failures, half way through a batch too, or restarts | one document per key; reads of their time; a key used by one call at a time is right in the cache; implements `KeyValue` |
| `did_rotation` | each agent rotates once; five messages and replies; one duplicate, loss, failure or restart | each agent takes the other's next message |
| `rotations_pile_up` | an agent rotates twice | the counterexample of section 7 |

Bounds.  Two handler goroutines per agent, plus the listener, are what it takes
for two messages to be in work at once while the client's answer is executed;
every hazard listed is a race of two.  Two connection records let a repeated
request make a second one.  One or two failures and restarts can fall on every
step, also on the recovery from the first; one duplicate of any message
is enough to be late or early.  Message pickup has two goroutines of the mediator,
two callers and one goroutine for their answers, so that an answer nobody takes
holds up the next one.  Counter-proposals are bounded because each is the
same loop once more.  Two messages and batches of one make the batch end inside
the inbox and make two calls share it.  Three calls
on the mediator let a registration, its end and a publication overlap; one worker is
enough there because routes and inbox are only added to, each in one access.  A
batch limit of two with three writes over two keys makes a batch end inside a call
of `Batch`, fail half way, and be tried again with a later write of the same key
behind it; four troubles let the second try fail half way too and a restart end the
third.  One rotation of each agent lets both announcements cross with messages
to every DID; the second rotation of one agent is the violation run.  The counts
are guards of the actions that use them up, and are named in each configuration.
Goroutines, and the agents of a rotation, keys and values, are symmetric where no
liveness is checked.

Deadlock is not checked: a thread that is over has no step left, and an exchange
whose message was lost rightly waits for ever.

Each property is broken by at least one mutant listed in `PROJECT.json`: an
action that forgets a write, sends before it stores, skips a guard or a lock, or
returns early without giving something back.

## 5. Fairness

* The goroutines: weak fairness of each `Run`, `Mediator`, `Worker`, `Caller`,
  `Listen` and `Answer` to a caller that waits, since the Go scheduler starves no
  goroutine that can go on.
* The mutex of message pickup: strong fairness of `Enter`, since `sync.Mutex`
  hands itself to a goroutine that has waited for a millisecond.
* The transport: weak fairness of `Receive`.  It is assumed only by the runs that
  lose nothing, and by `mediator`, where it is fairness of taking something while
  something is there: what is lost is not there, and the calls return by their
  timers anyway.
* The clients: weak fairness of an answer, whichever it is.  A client that never
  answers leaves the thread waiting, which the code means it to do.
* The timers of the calls of pickup and mediator: weak fairness of `Timeout`.

`ExchangeSettles` and `ThreadSettles` except threads that a failure or a restart
has hit: the services have no retry and no timer, so such a thread may wait for
ever.  `AnswersAreTaken` excepts late and repeated answers, which the code leaves
waiting on an unbuffered channel (see the hazards).

## 6. Proofs

The theorems hold for every value of the constants that the modules' named
assumptions allow: any number of goroutines, calls, messages, retries, counter-proposals
and restarts, and any size of a batch.  Those that need more say so by a hypothesis in
their statement, which is always a condition on the constants that say what the
environment may do, and which the run of the property satisfies:

* `Once` (DID exchange): a message is handled once and an event answered once.
  Anything may fail and anybody may restart.
* `Orderly`: besides, no write fails (and in the DID exchange the protocol state store
  survives a restart).  Agents still restart at any step.

Without them the properties are false, as the hostile runs' excepted properties and
section 7 show.

* `DIDExchangeProofs`, whatever happens.  `TypeCorrect`; `PersistBeforeSend`
  (`LearnedIsPersisted`); `CompletionOrder` (`InviterCompletesLast`);
  `WaitingThreadsAreAnswerable` (`WaitingIsAnswerable`).  Neither of the first two
  safety properties is inductive: what an agent learns depends on messages, these
  on goroutines, and these on stored events of earlier steps.  The invariant
  gives each of them the same two obligations: a DID it carries is persisted by
  its owner (`Known`), and a Complete exists only once the invitee has stored the
  record and a DID of the inviter (`Done`).  It is stated for `saved` and `Facts`,
  which only grow, so whatever a step leaves alone stays good; what remains is one
  lemma per action about the worker that moves.  `OutInv` carries the obligation
  of a message through the stores it must pass before it is sent.
* `DIDExchangeProofs`, under `Once`: `CompletedAgentsAgree` (`Agreement`).
  `OnceInv` says that each agent is led to its one request or response by a single
  *claim*: the message that opens its thread, the goroutine that handles it, the
  client's event and its callback are one token that is handed on.  Whoever has the
  claim is the only one to choose a DID, and nothing is sent before it is chosen; so
  each agent sends one DID, and what the other has learned is that one.
* `DIDExchangeProofs`, under `Orderly`: `PermanentStoreIsCurrent` (`StoresAgree`),
  `CompletedStaysCompleted` (`CompletedNeverReopened`), `AbandonedStaysAbandoned`
  (`AbandonedIsFinal`) and the refinement `ExchangeIsHandshake`
  (`ImplementsHandshake`).  `OrderlyInv` says that the two agents take turns: after
  the claims there is at most one answer, on the wire or in a goroutine's hands
  (`OneReply`), and so the record a goroutine holds is the one in the store until the
  goroutine itself replaces it (`Steady`).  Of this record, `StepKnows` tells what a
  step does; `ViewStep` reads it as a step of `Handshake`: storing the reply is `Ask`
  or `Answer`, storing "completed" is `Pair` or `Confirm`, giving up is `Abandon`, and
  everything else is a stutter.
* `DIDExchangeProofs`, at its end: `HandshakeAgrees`, that the abstract handshake makes
  paired agents agree, and `ExchangeAgrees`, the same of orderly exchanges by the
  refinement.  This says more than `Agreement`: the first agent to complete already
  holds the DID the other has stored.
* `IssueCredentialProofs`.  `TypeCorrect`; `AckAfterSave` (`AckMeansSaved`): an
  ack exists, in a goroutine about to send it, on the wire or in one that handles
  it, only when the holder has accepted the credential.  A goroutine that sends one has
  saved the credential, or its own client asked it not to (`Backed`).  Neither is ever
  undone (`WalletKept`), so that what one goroutine relies on no other takes away.  Under
  `Orderly`: `NobodyIsEverSurprised` (`NobodyIsSurprised`), `ThreadStaysDone`
  (`DoneIsFinal`) and the refinement `IssueFulfils` (`ImplementsFulfilment`).  The
  invariant `OrderlyInv` has three parts: there is one turn, which is a message on the
  wire or a goroutine that works on one (`OneTurn`); the payload, the client's event
  and its answer are one token (`OneClaim`); and whoever has the turn, the states of
  *both* stores are the ones it was written for (`Steps`: `Fits` for a message,
  `FitsSave` for a goroutine that is about to store, when one store is a step ahead of
  the other).
* `PresentProofProofs`.  `TypeCorrect`; `RolesKept`; `AcceptedAfterSave`
  (`AcceptedMeansSaved`).  The property alone is not inductive, since a prover is
  done as well without an ack having been sent: `Roles` says that only a
  verifier's goroutines tell of success and only a prover is told, and `Telling`
  that whoever tells, or is told, has a saved presentation behind it.  Under
  `Orderly`: `NobodyIsEverSurprised` (`NobodyIsSurprised`), `PromisesAreKept`
  (`PromiseIsKept`) and the refinement `ProofFulfils` (`ImplementsFulfilment`).
  `OrderlyInv` is that of `IssueCredentialProofs` with two additions: a listener that
  has sent its message may still have a state to go through and to store
  (`Trails`) while the peer has the turn; and a prover that waits without a promise
  of an ack is on its way to done (`Waits`), which makes `PromiseIsKept` inductive.

* `MediatorProofs`.  `TypeCorrect`; `RegistrationIsGranted`
  (`RegisteredIsGranted`); `AddressesAreRouted` (`PublishedIsRouted`).  A
  registration is backed by a consent that was given long before: `GrantsFine`
  follows it from the client's answer through the callback, the listener, the reply
  on the wire and the saved grant to the configuration.  In the same way
  `RoutesFine` and `HandlersFine` follow a key from the mediator's route store
  through the response and the channel to the address that is handed out.  Both are
  stated over facts that only grow (`Grows`), so a step has to answer only for what
  it moves.  `NoMessageIsDropped` (`MessagesArrive`) needs more: every forward is for a
  key that the mediator has (`AddressedFine`, a consequence of `RoutesFine`), so that
  no lookup fails; a message is always on the wire, in the hands of a goroutine that
  forwards it, delivered or queued (`NoneLost`); and what was queued is in the inbox,
  taken or handled (`HeldFine`).
* `MessagePickupProofs`.  `TypeCorrect`, whose last part is mutual exclusion and
  that the lock is always given back; `NoMessageIsLost` (`NothingIsLost`);
  `PickupIsAMailbox` (`ImplementsMailbox`), the refinement for every behaviour, with
  duplicates, losses, timeouts, failures and restarts.  The invariant says that
  messages out of the inbox are in parcels (an answer being sent, on the wire or in
  a goroutine) or in a call's hands; a parcel for a call that still waits has none
  of its messages handled, and parcels for different calls share none.  This is why
  a repeated answer is handled at most once: the first one ends the wait.  Nothing
  is lost because without trouble every request has one token, held by whoever
  serves it, and the one call that waits for it has its channel.  Every action has
  one lemma, which gives both the invariant and the step of `Mailbox`.
* `MessagePickupProofs`, at its end.  `MailboxPromise`: whoever implements `Mailbox` keeps
  its messages in order and handles none twice; this uses nothing of message pickup.
  `HandledAtMostOnce` carries it over to message pickup by the refinement.
* `DIDRotationProofs`.  `Types` (`TypeOK`), for any number of rotations: an id is given to
  a record when it is saved, from the number of records there are, so the invariant `TInv`
  numbers the records of an agent from 1 and every save must replace one or add the next.
  `AgentsStayReachable` (`StaysReachable`), for one rotation of each agent and any number
  of goroutines, messages, replies, losses, failures and restarts.  The property speaks of
  the records alone, but what an agent will have in them depends on messages in the net and
  on saves not yet made.  `CalmInv` (`CalmHolds`) says of every record, saved or about to
  be, and of every message: a rotation is no longer announced, and a message goes to the
  new DID, only if the other agent has been told of it (`Told`).  The hard part is the
  backup record an agent keeps under its old DID, from which replies are sent as well: one
  message from before the *other* agent's rotation could end the backup's announcement, one
  from after it could bring it the new DID, and a reply from the backup would then
  acknowledge a rotation that the connection itself has not learned of.  `OneWay` says
  that both messages cannot exist while this would do harm, which is while the connection
  has not learned and the other agent has no backup.
* `CachedStoreProofs`, whatever fails.  `Types` (`TypeOK`); `EveryKeyHasOneDocument`
  (`OneDocumentPerKey`); `ReadersSeeTheirTime` (`ReadsAreCurrent`); `CachesAreRight`
  (`CacheIsRight`); `Refines` (`ImplementsKeyValue`).  They rest on two facts about
  batches of any length.  `PlanResolves`: the formatted operations of a batch, performed,
  make of the documents what the batch makes of the keys, and any first part of them what a
  first part of the batch does, always with one document for a key and for an id (`Good`).
  `AgainFromTheStart`: a batch performed in part and then from its start makes what it
  would have made at once.  So the value of a key never depends on what a failed flush
  has left behind, and the invariant `IInv` can speak of it: `AllCurrent` says what a
  reader may yet be answered, `AllRight` what the one call that uses a key will leave in
  the cache, `Recoverable` what a restart can go back to.  The last one depends on how
  much has failed: without a failure every first part of the waiting batch is a view there
  has been; after one the documents still are; after two each key's value has been there,
  but not all of them at one time (section 7), and this is all that `KeyValue` promises.
* `SequenceLemmas` holds what the proofs need about sequences, among it induction.  The
  library's induction theorems take the statement as an operator, which the provers cannot
  instantiate; stated for the *set* of the numbers or sequences that satisfy it
  (`SetInduction`, `SequenceInduction`), from the well-foundedness of the order, they can be
  used.  `FoldExists`, `FoldRuns` and `RunsAgree` open `FoldLeft` of the community modules,
  a recursive function over sets of positions, into a run through the sequence.

Only model-checked: liveness (`ExchangeSettles`, `ThreadSettles`, `EverythingReturns`,
`CallsReturn`, `AnswersAreTaken`), which like `ENABLED` is out of the prover's reach.

## 7. What the code does otherwise

One run ends in a counterexample to a comment in the code:

* `rotations_pile_up`: a rotation leaves a backup record under the old DID, with
  the rotation's announcement in it, and nothing removes either.  A message is
  looked up by its sender only, so after a second rotation, even if the first was
  acknowledged, the record found may be the first backup, whose two DIDs are neither
  of those in use: the message to the current DID is refused.

Met while modelling, and kept out of the properties by the exceptions they name:

* The DID exchange checks a transition once, in `HandleInbound`, and runs the rest
  in a goroutine; of two copies of a response the slower one stores `responded`
  over `completed` (`CompletedNeverReopened` is checked without duplicates).
* The listener abandons when a send reports an error though the message is out; it
  reads the record before, and writes it after, the exchange completed
  (`AbandonedIsFinal` is checked without failures).
* A repeated offer gives the holder two events; the second answer is executed over
  a thread that is done, which goes back to `request-sent`.
* A client that answers by a call deletes whatever payload is stored by then: a second
  message that has overwritten the first one's in the meantime is lost unread.
* A prover that expects no ack sends its presentation before it stores `done`; a
  report that lets itself in between stores `abandoned` over `done`, with nothing
  repeated, lost or failing.
* Two concurrent calls of `Register` both pass the check and register twice;
  "an error if the agent is already registered" (`mediator/service.go:593`) is
  what one call after another gets.
* Two calls that use one key at once leave a stale value in the cache: a read that
  missed fills the cache after a write has gone by (`cachedstore.go:200`).  The fill
  also drops the tags of the value, which a query of the main store does not.
* A batch that deletes only what is not there resolves to nothing, which the store
  underneath refuses (`formattedstore.go:845`, `mem.go:325`).  The batched store keeps
  such a batch, so every read and flush fails until something is put.
* A batch that failed half way, was tried again and failed half way again, and was lost in
  a restart leaves documents of which some come from the first try and some from the
  second (`batchedstore.go:353`): each key has a value it had since the last flush, but all
  of them together never were the content of the store.
* A document that is overwritten is formatted under its document id instead of its
  key (`formattedstore.go:950`), so the iterator's `Key()` returns that id.
* `getOrCreateConnection` makes a new connection for DIDs that "never had a
  connection" (`outbound.go:217`); after a rotation that happens to DIDs that had
  one, when a reply goes from a DID whose record has been replaced.
* A rotation stopped between its two saves leaves no record under the old DID;
  messages to it that announce the peer's own rotation are refused.

Hazards without a property, with the reason, are marked in `PROJECT.json`.

## 8. Not modelled

The components of `PROJECT.json` with status `not_modelled`.  Those of section 2
are still to come.  The others have no state the protocols depend on (packers,
KMS and crypto, verifiable documents, VDR dispatch, HTTP), are adapters
(controllers, REST, mobile bindings), or are straight-line calls into remote
services (the 5G command).  They are most of the repository's lines: documents,
cryptography, command and REST layers and storage adapters parse, convert and call,
one request at a time, and have no interleaving or ordering for a model to explore.
What does keep state across concurrent steps is a small part, and the share of the
lines the map covers stays small with it.

Of the modelled components: the copies of a pending request that a client answers
one by one merge into one event of `Mediator`; a keylist update of kind `remove`,
which the service refuses without doing anything, is not sent; several routers of
one agent and several inboxes of one mediator are instances beside each other.
