---------------------------- MODULE FormattedStore ----------------------------
(***************************************************************************)
(* The store of component/storageutil/formattedstore when the formatter      *)
(* makes random document ids (UsesDeterministicKeyFormatting is FALSE): a    *)
(* key is found again by a tag of its document, so there must never be two   *)
(* documents with one tag.  Every operation holds the store's lock from the  *)
(* query to the write, and is one step.                                      *)
(***************************************************************************)
EXTENDS Naturals, Sequences, FiniteSets, SequencesExt

CONSTANTS
    Keys, Values,
    Absent          \* no value, no key; the value of an operation that deletes

ASSUME AbsentAssumption == Absent \notin Values \cup Keys

VARIABLE docs       \* the documents of the underlying store

Operations == [key : Keys, val : Values \cup {Absent}]
\* The tag is made from the key.
Documents  == [id : Nat \ {0}, tag : Keys, val : Values]

\* The answer of a query by the key's tag.
Query(key) == {d \in docs : d.tag = key}

\* What an operation makes of a content, and several in order.
Then(content, o)    == [content EXCEPT ![o.key] = o.val]
After(content, ops) == FoldLeft(Then, content, ops)

\* What the store holds for a client.
Content(ds) == [key \in Keys |->
    IF \E d \in ds : d.tag = key THEN (CHOOSE d \in ds : d.tag = key).val ELSE Absent]

-----------------------------------------------------------------------------
(***************************************************************************)
(* Batch: each operation is resolved to a document id, first by what the     *)
(* batch has resolved before, then by a query.  0 is a key that is marked    *)
(* for deletion, or has no document.                                         *)
(***************************************************************************)
\* A random id, new to the store and to the batch.
NewID(st) == CHOOSE n \in 1..(Cardinality(docs) + Len(st.ops) + 1) :
                 n \notin {d.id : d \in docs} \cup {st.ops[i].id : i \in DOMAIN st.ops}

\* determineFormattedKeyToUse
FormattedKey(st, key) ==
    IF key \in DOMAIN st.resolved THEN st.resolved[key]
    ELSE IF Query(key) = {} THEN 0 ELSE (CHOOSE d \in Query(key) : TRUE).id

Resolved(st, key, id) ==
    [k \in DOMAIN st.resolved \cup {key} |-> IF k = key THEN id ELSE st.resolved[k]]

\* A new document, or the old one overwritten.
Formatted(st, o) ==
    LET id == FormattedKey(st, o.key)
    IN  [id |-> IF id = 0 THEN NewID(st) ELSE id, tag |-> o.key, val |-> o.val]

\* Mutant: a new document id is not remembered for the rest of the batch.
PutOperationForgets(st, o) == [st EXCEPT !.ops = Append(@, Formatted(st, o))]

\* createFormattedPutOperation
PutOperation(st, o) ==
    [ops |-> Append(st.ops, Formatted(st, o)),
     resolved |-> Resolved(st, o.key, Formatted(st, o).id)]

\* createFormattedDeleteOperation: what is not there is not deleted.
DeleteOperation(st, o) ==
    LET id == FormattedKey(st, o.key)
    IN  IF id = 0 THEN st
        ELSE [ops |-> Append(st.ops, [id |-> id, val |-> Absent]),
              resolved |-> Resolved(st, o.key, 0)]

\* generateFormattedOperationsUsingNonDeterministicKeys
Planned(st, o) == IF o.val = Absent THEN DeleteOperation(st, o) ELSE PutOperation(st, o)
Plan(ops)      == FoldLeft(Planned, [ops |-> <<>>, resolved |-> <<>>], ops)
FormattedOperations(ops) == Plan(ops).ops

\* What the underlying store makes of them, in order.
Performed(ds, f)  == {d \in ds : d.id # f.id} \cup (IF f.val = Absent THEN {} ELSE {f})
Perform(ds, fops) == FoldLeft(Performed, ds, fops)

\* A query by tag must find one document, or the operation fails.
Readable(ops) == \A i \in DOMAIN ops : Cardinality(Query(ops[i].key)) <= 1

\* The underlying store refuses an empty batch, and FormattedStore does not look.
Performable(ops) == Readable(ops) /\ FormattedOperations(ops) # <<>>

\* Batch succeeds, ...
BatchOK(ops) ==
    /\ Performable(ops)
    /\ docs' = Perform(docs, FormattedOperations(ops))

\* ... or the underlying store fails after it has performed some operations.
BatchFails(ops) ==
    \E n \in 0..Len(FormattedOperations(ops)) :
        docs' = Perform(docs, SubSeq(FormattedOperations(ops), 1, n))

-----------------------------------------------------------------------------
\* No key has two documents: the next query for it, or for a batch with it, would fail
\* for good.
OneDocumentPerKey == \A key \in Keys : Cardinality(Query(key)) <= 1
=============================================================================
