----------------------------- MODULE BatchedStore -----------------------------
(***************************************************************************)
(* The store of component/storageutil/batchedstore over a FormattedStore.     *)
(* Operations wait in currentBatch until there are batchSizeLimit of them,     *)
(* or somebody reads, flushes or closes.  A batch that fails is kept, and      *)
(* tried again in front of the operations that come later.                     *)
(***************************************************************************)
EXTENDS FormattedStore

CONSTANT BatchSizeLimit

ASSUME BatchSizeLimitAssumption == BatchSizeLimit \in Nat

VARIABLE currentBatch

\* What a client has the right to read: the store after the operations that wait.
View == After(Content(docs), currentBatch)

\* flush of a batch, with its result.
FlushBatch(batch, ok) ==
    IF batch = <<>>
    THEN ok /\ currentBatch' = <<>> /\ UNCHANGED docs
    ELSE \/ ok  /\ BatchOK(batch) /\ currentBatch' = <<>>
         \/ ~ok /\ BatchFails(batch) /\ currentBatch' = batch

\* A flush fails by itself when the batch has nothing to perform.
MustFail(batch) == batch # <<>> /\ ~Performable(batch)

\* Mutant: the batch is emptied before it is performed, whether it succeeds or not.
EnqueueAndForget(o, ok) ==
    LET batch == Append(currentBatch, o)
    IN  IF Len(batch) >= BatchSizeLimit
        THEN currentBatch' = <<>> /\ IF ok THEN BatchOK(batch) ELSE BatchFails(batch)
        ELSE ok /\ currentBatch' = batch /\ UNCHANGED docs

\* Mutant: a batch is performed one operation too late.
EnqueueLate(o, ok) ==
    LET batch == Append(currentBatch, o)
    IN  IF Len(batch) > BatchSizeLimit
        THEN FlushBatch(batch, ok)
        ELSE ok /\ currentBatch' = batch /\ UNCHANGED docs

\* Put, Delete and each operation of Batch, under the lock.
Enqueue(o, ok) ==
    LET batch == Append(currentBatch, o)
    IN  IF Len(batch) >= BatchSizeLimit
        THEN FlushBatch(batch, ok)
        ELSE ok /\ currentBatch' = batch /\ UNCHANGED docs

\* Flush, which every read and Close begin with.
Flush(ok) == FlushBatch(currentBatch, ok)
=============================================================================
