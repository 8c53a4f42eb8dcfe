------------------------------- MODULE WriteSet -------------------------------
(***************************************************************************)
(* The buffers a mutation writes into: the server's WriteSet over the rows *)
(* of SQLite (packages/server/src/engine-core.ts, sql-row-store.ts), whose *)
(* change list goes to the post-commit hook, and the client's LocalWriteSet*)
(* over what its collections show (packages/client/src/local-writes.ts).   *)
(***************************************************************************)
EXTENDS Mutators, SequencesExt

Buffer == [puts : [Keys -> Scalars \cup {None}],
           dels : SUBSET Keys,
           before : Seq([key : Keys, row : Scalars \cup {Deleted}])]

NoWrites == [puts |-> [k \in Keys |-> None], dels |-> {}, before |-> <<>>]

\* filter: the elements of s at the kept positions, in order.
Filtered(s, kept) ==
  FoldLeftDomain(LAMBDA out, i : IF i \in kept THEN Append(out, s[i]) ELSE out, <<>>, s)

IsEmpty(ws) == ws.dels = {} /\ \A k \in Keys : ws.puts[k] = None

\* tx.get: the mutation's own writes first.
Get(rows, ws, k) ==
  IF k \in ws.dels THEN Deleted
  ELSE IF ws.puts[k] # None THEN ws.puts[k] ELSE rows[k]

BufferPut(ws, k, v) == [ws EXCEPT !.puts[k] = v, !.dels = @ \ {k}]
BufferDel(ws, k) == [ws EXCEPT !.puts[k] = None, !.dels = @ \cup {k}]

-----------------------------------------------------------------------------
(* The server *)

Touched(ws) == {ws.before[i].key : i \in DOMAIN ws.before}

\* Mutant: the before-image is what the mutation sees when it last writes the row.
RememberSeen(rows, ws, k) ==
  [ws EXCEPT !.before = Append(Filtered(@, {i \in DOMAIN @ : @[i].key # k}),
                               [key |-> k, row |-> Get(rows, ws, k)])]

\* #rememberBefore: the stored row at the mutation's first touch of it.
Remember(rows, ws, k) ==
  IF k \in Touched(ws) THEN ws
  ELSE [ws EXCEPT !.before = Append(@, [key |-> k, row |-> rows[k]])]

PutRow(rows, ws, k, v) == BufferPut(Remember(rows, ws, k), k, v)
DelRow(rows, ws, k) == BufferDel(Remember(rows, ws, k), k)

\* json_extract reads true as 1 and a missing field as NULL.
SqlReads(v) == CASE v = "true" -> "one" [] v = "missing" -> "null" [] OTHER -> v

\* The WHERE clause of SqlRowStore.list.  An undefined filter value is bound like any other and
\* equals no row.
Selects(f, v) ==
  \/ f = "none"
  \/ f = "null" /\ SqlReads(v) = "null"
  \/ f \in {"true", "one"} /\ SqlReads(v) = SqlReads(f)

\* Mutant: the rows of storage are not checked again.
ListedLoose(rows, ws, t, f) ==
  LET table == {k \in Keys : k[1] = t}
      stored == {k \in table : rows[k] # Deleted /\ Selects(f, rows[k])}
      rewritten == {k \in table : ws.puts[k] # None}
  IN  (stored \ (ws.dels \cup rewritten)) \cup {k \in rewritten : Matches(f, ws.puts[k])}

\* tx.list: the rows storage selects, checked again, under the mutation's own writes.
Listed(rows, ws, t, f) ==
  LET table == {k \in Keys : k[1] = t}
      stored == {k \in table : rows[k] # Deleted /\ Selects(f, rows[k]) /\ Matches(f, rows[k])}
      rewritten == {k \in table : ws.puts[k] # None}
  IN  (stored \ (ws.dels \cup rewritten)) \cup {k \in rewritten : Matches(f, ws.puts[k])}

\* The buffer of a mutation and whether it still runs.
Begin(rows) == [rows |-> rows, ws |-> NoWrites, ok |-> TRUE]

\* Mutant: the row is buffered as the mutator wrote it.
TryPutRaw(run, k, x) ==
  IF Valid(x) /\ Fits(x)
  THEN [run EXCEPT !.ws = PutRow(run.rows, @, k, x)]
  ELSE [run EXCEPT !.ok = FALSE]

\* tx.put: the row is parsed and measured before it is buffered.
TryPut(run, k, x) ==
  IF Valid(x) /\ Fits(x)
  THEN [run EXCEPT !.ws = PutRow(run.rows, @, k, Parsed(x))]
  ELSE [run EXCEPT !.ok = FALSE]

\* tx.get, and tx.put if there is a row.
ReadModifyWrite(run, k) ==
  LET row == Get(run.rows, run.ws, k)
      read == Remember(run.rows, run.ws, k)
  IN  [run EXCEPT !.ws = IF row = Deleted THEN read
                         ELSE PutRow(run.rows, read, k, Flipped(row))]

DelAll(rows, ws, K) == FoldLeft(LAMBDA b, k : DelRow(rows, b, k), ws, SetToSeq(K))

Take(run, step) ==
  CASE ~run.ok -> run
    [] run.ok /\ step.do = "put" -> TryPut(run, step.key, step.input)
    [] run.ok /\ step.do = "del" -> [run EXCEPT !.ws = DelRow(run.rows, @, step.key)]
    [] run.ok /\ step.do = "flip" -> ReadModifyWrite(run, step.key)
    [] run.ok /\ step.do = "sweep" ->
         [run EXCEPT !.ws = DelAll(run.rows, @, Listed(run.rows, @, step.table, step.filter))]

\* apply inside the transaction of #applyMutation.
Run(rows, program) == FoldLeft(Take, Begin(rows), program)

\* The rows flush writes or deletes; deleting a row that is not there writes nothing.
Written(run) ==
  {k \in Keys : run.ws.puts[k] # None \/ (k \in run.ws.dels /\ run.rows[k] # Deleted)}

RowsAfter(run) == [k \in Keys |-> IF run.ws.puts[k] # None THEN run.ws.puts[k]
                                  ELSE IF k \in run.ws.dels THEN Deleted ELSE run.rows[k]]

\* The change list of flush, in first-touch order.
Changes(run) ==
  LET before == run.ws.before
      kept == Filtered(before, {i \in DOMAIN before : before[i].key \in Written(run)})
  IN  [i \in DOMAIN kept |-> [key |-> kept[i].key, before |-> kept[i].row,
                              after |-> RowsAfter(run)[kept[i].key]]]

-----------------------------------------------------------------------------
(* The client *)

\* verdict: the run goes on, threw an AppError, or met a table without a collection.
BeginLocal(view) == [rows |-> view, ws |-> NoWrites, verdict |-> "ok"]

\* Mutant: the overlay carries the row as the mutator wrote it.
LocalPutRaw(run, k, x) == [run EXCEPT !.ws = BufferPut(@, k, IF x = "unset" THEN "missing" ELSE Parsed(x))]

LocalPut(run, k, x) == [run EXCEPT !.ws = BufferPut(@, k, Parsed(x))]

LocalFlip(run, k) ==
  LET row == Get(run.rows, run.ws, k)
  IN  IF row = Deleted THEN run ELSE [run EXCEPT !.ws = BufferPut(@, k, Flipped(row))]

LocalListed(run, t, f) ==
  {k \in Keys : /\ k[1] = t
                /\ Get(run.rows, run.ws, k) # Deleted
                /\ Matches(f, Get(run.rows, run.ws, k))}

LocalSweep(run, t, f) ==
  LET swept == LocalListed(run, t, f)
  IN  [run EXCEPT !.ws.puts = [k \in Keys |-> IF k \in swept THEN None ELSE @[k]],
                  !.ws.dels = @ \cup swept]

StepTable(step) == IF step.do = "sweep" THEN step.table ELSE step.key[1]

\* A put is parsed before its table's collection is looked for; everything else looks first.
TakeLocal(appliers, run, step) ==
  CASE run.verdict # "ok" -> run
    [] run.verdict = "ok" /\ step.do = "put" /\ ~Valid(step.input) ->
         [run EXCEPT !.verdict = "failed"]
    [] /\ run.verdict = "ok" /\ StepTable(step) \notin appliers
       /\ (step.do = "put" => Valid(step.input)) -> [run EXCEPT !.verdict = "degraded"]
    [] OTHER -> CASE step.do = "put" -> LocalPut(run, step.key, step.input)
                  [] step.do = "del" -> [run EXCEPT !.ws = BufferDel(@, step.key)]
                  [] step.do = "flip" -> LocalFlip(run, step.key)
                  [] step.do = "sweep" -> LocalSweep(run, step.table, step.filter)

RunLocal(view, appliers, program) ==
  FoldLeft(LAMBDA run, step : TakeLocal(appliers, run, step), BeginLocal(view), program)
===============================================================================
