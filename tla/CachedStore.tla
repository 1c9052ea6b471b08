----------------------------- MODULE CachedStore -----------------------------
(***************************************************************************)
(* The store of component/storageutil/cachedstore, a cache in memory before   *)
(* a BatchedStore over a FormattedStore, with the goroutines that use it.      *)
(* There is no lock around the cache and the main store:                       *)
(*   write:  main store - cache                                               *)
(*   Get:    cache - (flush - read of the main store - fill of the cache)      *)
(*   others: flush - read of the main store                                    *)
(***************************************************************************)
EXTENDS BatchedStore

CONSTANTS
    Clients,        \* goroutines
    MaxWrites, MaxReads, MaxTroubles
                    \* bounds of the exploration: a trouble is a failure or a restart

ASSUME LimitsAssumption == MaxWrites \in Nat /\ MaxReads \in Nat /\ MaxTroubles \in Nat

VARIABLES
    cache,          \* the cache's value of each key, or Absent
    clients,
    \* what has happened
    possible,       \* the views of the main store since it was flushed
    seen,           \* the values a reader's key has had since the call
    disturbed,      \* keys used by two calls at once, or by one that failed half way
    writes, reads, failures, restarts

store  == <<docs, currentBatch>>
facts  == <<possible, seen, disturbed>>
counts == <<writes, reads, failures, restarts>>
vars   == <<store, cache, clients, facts, counts>>

Idle == [pc |-> "idle", kind |-> "none", key |-> Absent, ops |-> <<>>, next |-> 0, val |-> Absent]

Init ==
    /\ docs = {} /\ currentBatch = <<>>
    /\ cache = [key \in Keys |-> Absent]
    /\ clients = [c \in Clients |-> Idle]
    /\ possible = {View} /\ seen = [c \in Clients |-> {}] /\ disturbed = {}
    /\ writes = 0 /\ reads = 0 /\ failures = 0 /\ restarts = 0

Become(c, me) == clients' = [clients EXCEPT ![c] = me]
Goto(c, pc)   == Become(c, [clients[c] EXCEPT !.pc = pc])
Return(c)     == Become(c, Idle)

MayTrouble == failures + restarts < MaxTroubles

\* A step succeeds, or fails: because it must, or because of the store underneath.
Failure(ok, must) ==
    \/ ok /\ UNCHANGED failures
    \/ ~ok /\ must /\ UNCHANGED failures
    \/ ~ok /\ ~must /\ MayTrouble /\ failures' = failures + 1

\* The keys a call is about.
KeysOf(me) == {me.ops[i].key : i \in DOMAIN me.ops} \cup {me.key}
InUse(c)   == UNION {KeysOf(clients[d]) : d \in Clients \ {c}}

-----------------------------------------------------------------------------
(***************************************************************************)
(* Put and Delete, with one operation, and Batch.                           *)
(***************************************************************************)
Write(c, ops) ==
    /\ clients[c].pc = "idle" /\ writes + Len(ops) <= MaxWrites
    /\ writes' = writes + Len(ops)
    /\ Become(c, [Idle EXCEPT !.pc = "main", !.ops = ops, !.next = 1])
    /\ disturbed' = disturbed \cup (InUse(c) \cap {ops[i].key : i \in DOMAIN ops})
    /\ UNCHANGED <<store, cache, possible, seen, reads, failures, restarts>>

\* One operation goes to the main store; if that fails the call ends, though the
\* operation waits in the batch.
WriteMain(c, ok) ==
    LET me == clients[c]
        o  == me.ops[me.next]
    IN  /\ me.pc = "main"
        /\ Enqueue(o, ok) /\ Failure(ok, MustFail(Append(currentBatch, o)))
        /\ possible' = IF ok /\ currentBatch' = <<>> THEN {View'} ELSE possible \cup {View'}
        /\ seen' = [d \in Clients |-> IF clients[d].key = o.key THEN seen[d] \cup {o.val}
                                                                ELSE seen[d]]
        /\ IF ok THEN /\ Become(c, IF me.next < Len(me.ops) THEN [me EXCEPT !.next = @ + 1]
                                                            ELSE [me EXCEPT !.pc = "cache"])
                      /\ UNCHANGED disturbed
                 ELSE Return(c) /\ disturbed' = disturbed \cup KeysOf(me)
        /\ UNCHANGED <<cache, writes, reads, restarts>>

\* Mutant: what is deleted stays in the cache.
CachedStill(ops) ==
    FoldLeft(LAMBDA s, o : IF o.val = Absent THEN s ELSE [s EXCEPT ![o.key] = o.val], cache, ops)

\* What the cache makes of operations.
Cached(ops) == After(cache, ops)

\* ... and then all of them to the cache.
WriteCache(c, ok) ==
    /\ clients[c].pc = "cache"
    /\ Failure(ok, FALSE)
    /\ IF ok THEN cache' = Cached(clients[c].ops) /\ UNCHANGED disturbed
             ELSE UNCHANGED cache /\ disturbed' = disturbed \cup KeysOf(clients[c])
    /\ Return(c)
    /\ UNCHANGED <<store, possible, seen, writes, reads, restarts>>

-----------------------------------------------------------------------------
(***************************************************************************)
(* Get, GetBulk (and Query), Flush.                                         *)
(***************************************************************************)
Get(c, key) ==
    /\ clients[c].pc = "idle" /\ reads < MaxReads /\ reads' = reads + 1
    /\ Become(c, [Idle EXCEPT !.pc = IF cache[key] = Absent THEN "flush" ELSE "hit",
                              !.kind = "get", !.key = key, !.val = cache[key]])
    /\ seen' = [seen EXCEPT ![c] = {View[key]}]
    /\ disturbed' = disturbed \cup (InUse(c) \cap {key})
    /\ UNCHANGED <<store, cache, possible, writes, failures, restarts>>

GetBulk(c, key) ==
    /\ clients[c].pc = "idle" /\ reads < MaxReads /\ reads' = reads + 1
    /\ Become(c, [Idle EXCEPT !.pc = "flush", !.kind = "bulk", !.key = key])
    /\ seen' = [seen EXCEPT ![c] = {View[key]}]
    /\ UNCHANGED <<store, cache, possible, disturbed, writes, failures, restarts>>

FlushStore(c) ==
    /\ clients[c].pc = "idle" /\ reads < MaxReads /\ reads' = reads + 1
    /\ Become(c, [Idle EXCEPT !.pc = "flush", !.kind = "flush"])
    /\ UNCHANGED <<store, cache, facts, writes, failures, restarts>>

\* Mutant: a read does not flush.
ReadUnflushed(c, ok) ==
    /\ clients[c].pc = "flush" /\ ok
    /\ IF clients[c].kind = "flush" THEN Return(c) ELSE Goto(c, "read")
    /\ UNCHANGED <<store, cache, facts, counts>>

FlushFirst(c, ok) ==
    /\ clients[c].pc = "flush"
    /\ Flush(ok) /\ Failure(ok, MustFail(currentBatch))
    /\ possible' = IF ok THEN {View} ELSE possible
    /\ IF ok /\ clients[c].kind # "flush" THEN Goto(c, "read") ELSE Return(c)
    /\ UNCHANGED <<cache, seen, disturbed, writes, reads, restarts>>

\* The main store's value; without one, or after a failure, the call ends.
ReadMain(c, ok) ==
    LET val == Content(docs)[clients[c].key]
    IN  /\ clients[c].pc = "read"
        /\ Failure(ok, Cardinality(Query(clients[c].key)) > 1)
        /\ IF ok THEN Become(c, [clients[c] EXCEPT !.pc = "found", !.val = val]) ELSE Return(c)
        /\ UNCHANGED <<store, cache, facts, writes, reads, restarts>>

\* Get fills the cache with what it found.
FillCache(c, ok) ==
    LET me == clients[c]
    IN  /\ me.pc = "found"
        /\ IF me.kind = "get" /\ me.val # Absent
           THEN /\ Failure(ok, FALSE)
                /\ cache' = IF ok THEN [cache EXCEPT ![me.key] = me.val] ELSE cache
           ELSE ok /\ UNCHANGED <<cache, failures>>
        /\ Return(c)
        /\ UNCHANGED <<store, facts, writes, reads, restarts>>

\* A hit ends the call.
Hit(c) ==
    /\ clients[c].pc = "hit"
    /\ Return(c)
    /\ UNCHANGED <<store, cache, facts, counts>>

\* The process ends, and another one starts with an empty batch and an empty cache.
Restart ==
    /\ MayTrouble /\ restarts' = restarts + 1
    /\ currentBatch' = <<>> /\ UNCHANGED docs
    /\ cache' = [key \in Keys |-> Absent]
    /\ clients' = [c \in Clients |-> Idle]
    /\ possible' = {View'} /\ seen' = [c \in Clients |-> {}] /\ disturbed' = {}
    /\ UNCHANGED <<writes, reads, failures>>

-----------------------------------------------------------------------------
Step(c, ok) ==
    \/ WriteMain(c, ok) \/ WriteCache(c, ok)
    \/ FlushFirst(c, ok) \/ ReadMain(c, ok) \/ FillCache(c, ok)

Next ==
    \/ \E c \in Clients :
        \/ \E o \in Operations : Write(c, <<o>>) \/ \E p \in Operations : Write(c, <<o, p>>)
        \/ \E key \in Keys : Get(c, key) \/ GetBulk(c, key)
        \/ FlushStore(c) \/ Hit(c)
        \/ \E ok \in BOOLEAN : Step(c, ok)
    \/ Restart

Spec == Init /\ [][Next]_vars
-----------------------------------------------------------------------------
\* Every variable holds a value of its kind, and a batch that has not failed is short of
\* its limit.
TypeOK ==
    /\ docs \subseteq Documents /\ currentBatch \in Seq(Operations)
    /\ failures = 0 /\ currentBatch # <<>> /\ Performable(currentBatch)
       => Len(currentBatch) < BatchSizeLimit
    /\ cache \in [Keys -> Values \cup {Absent}]
    /\ clients \in [Clients -> [pc : {"idle", "main", "cache", "flush", "read", "found", "hit"},
                                kind : {"none", "get", "bulk", "flush"},
                                key : Keys \cup {Absent}, ops : Seq(Operations), next : Nat,
                                val : Values \cup {Absent}]]
    /\ possible \subseteq [Keys -> Values \cup {Absent}]
    /\ seen \in [Clients -> SUBSET (Values \cup {Absent})]
    /\ disturbed \subseteq Keys \cup {Absent}
    /\ writes \in Nat /\ reads \in Nat /\ failures \in Nat /\ restarts \in Nat

\* What the main store answers is a value the key had while the call lasted, although
\* writes wait in a batch, batches fail half way and documents are found by a query.
ReadsAreCurrent ==
    \A c \in Clients : clients[c].pc = "found" => clients[c].val \in seen[c]

\* Whoever uses a key alone finds in the cache what the main store would answer.
CacheIsRight ==
    \A key \in Keys \ (disturbed \cup UNION {KeysOf(clients[c]) : c \in Clients}) :
        cache[key] \in {Absent, View[key]}

\* What the calls in progress have yet to put in the main store.
Wanted == UNION {{clients[c].ops[i] : i \in clients[c].next..Len(clients[c].ops)}
                 : c \in {d \in Clients : clients[d].pc = "main"}}

KV == INSTANCE KeyValue WITH view <- View, wanted <- Wanted, failed <- failures

\* Batches, the failures that leave them half performed, and restarts implement one
\* value per key: no write is lost, repeated over a later one, or brought back.
ImplementsKeyValue == KV!Spec
=============================================================================
