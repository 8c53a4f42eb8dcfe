---------------------------- MODULE MutationCalls ----------------------------
(***************************************************************************)
(* One mutation at a time, call by call: apply reads and writes through    *)
(* tx, and the transaction flushes the buffer or is rolled back            *)
(* (packages/server/src/engine-core.ts, #applyMutation in do.ts).  Every   *)
(* mutator is some order of these calls; a sweep is a list and a del of    *)
(* each row it returned.                                                   *)
(***************************************************************************)
EXTENDS WriteSet

VARIABLES
  storage,  \* the rows of storage
  open,     \* a mutation is being applied
  run,      \* its buffer over the rows it began with
  model     \* history variable: the rows its calls make, each call taking effect at once

callVars == <<storage, open, run, model>>

CallInit ==
  /\ storage \in Rows
  /\ open = FALSE
  /\ run = Begin(storage)
  /\ model = storage

BeginMutation ==
  /\ ~open
  /\ open' = TRUE
  /\ run' = Begin(storage)
  /\ model' = storage
  /\ UNCHANGED storage

\* tx.put, refused when the row does not parse or is too large.
CallPut(k, x) ==
  /\ open /\ run.ok
  /\ run' = TryPut(run, k, x)
  /\ model' = IF Allowed(Put(k, x)) THEN Effect(model, Put(k, x)) ELSE model
  /\ UNCHANGED <<storage, open>>

CallDel(k) ==
  /\ open /\ run.ok
  /\ run' = [run EXCEPT !.ws = DelRow(run.rows, @, k)]
  /\ model' = Effect(model, Del(k))
  /\ UNCHANGED <<storage, open>>

\* tx.get leaves the stored row it read behind, as the before-image of the row.
CallGet(k) ==
  /\ open /\ run.ok
  /\ run' = IF k \in run.ws.dels \/ run.ws.puts[k] # None THEN run
            ELSE [run EXCEPT !.ws = Remember(run.rows, @, k)]
  /\ UNCHANGED <<storage, open, model>>

\* apply returned: the buffer is flushed.
CommitMutation ==
  /\ open /\ run.ok
  /\ storage' = RowsAfter(run)
  /\ open' = FALSE
  /\ UNCHANGED <<run, model>>

\* apply threw, a refusal or anything else: nothing is written.
AbandonMutation ==
  /\ open
  /\ open' = FALSE
  /\ UNCHANGED <<storage, run, model>>

CallNext ==
  \/ BeginMutation \/ CommitMutation \/ AbandonMutation
  \/ \E k \in Keys : CallDel(k) \/ CallGet(k) \/ \E x \in Inputs : CallPut(k, x)

CallSpec == CallInit /\ [][CallNext]_callVars

-----------------------------------------------------------------------------
(* Properties *)

\* Every call sees the calls before it: a get returns the row they made of it, and a list
\* with a filter exactly the rows that match by now, though storage is asked with a looser
\* test and knows none of the buffered writes (WriteSet.tx, SqlRowStore.list).  A filter with
\* an undefined value is left out: storage returns no row for it and compileWhere every row.
ReadsOwnWrites ==
  open /\ run.ok =>
    /\ \A k \in Keys : Get(run.rows, run.ws, k) = model[k]
    /\ \A t \in Tables, f \in Filters \ {"undefined"} :
         Listed(run.rows, run.ws, t, f) = Live(model, t, f)

\* The before-images are the stored rows, one a row, and there is one for every row the flush
\* may write, however the calls alternated (#rememberBefore, tx.get).
ImagesStored ==
  open =>
    /\ \A i \in DOMAIN run.ws.before : run.ws.before[i].row = storage[run.ws.before[i].key]
    /\ \A i, j \in DOMAIN run.ws.before :
         run.ws.before[i].key = run.ws.before[j].key => i = j
    /\ \A k \in Written(run) : k \in Touched(run.ws)

\* What a mutation leaves in storage is what its calls made of the rows it began with, or
\* nothing at all (WriteSet.flush inside transactionSync).
CommitsModel == [][storage' # storage => open /\ run.ok /\ storage' = model]_callVars
===============================================================================
