---------------------------- MODULE WriteSetProofs ----------------------------
(***************************************************************************)
(* Proofs about MutationCalls, for any tables, ids and stored rows and for *)
(* mutations of any length: a mutation reads its own writes, its before-   *)
(* images are the stored rows, and the flush leaves what the calls made.   *)
(***************************************************************************)
EXTENDS MutationCalls, FiniteSetTheorems, WellFoundedInduction, TLAPS

Cells == Scalars \cup {Deleted}
Images == [key : Keys, row : Cells]

\* A buffer: a row is put or deleted, not both, and a row that is either has a before-image,
\* the stored one.
BufferOK(stored, ws) ==
  /\ ws \in [puts : [Keys -> Scalars \cup {None}], dels : SUBSET Keys, before : Seq(Images)]
  /\ \A k \in ws.dels : ws.puts[k] = None
  /\ \A k \in Keys : ws.puts[k] # None \/ k \in ws.dels => k \in Touched(ws)
  /\ \A i \in DOMAIN ws.before : ws.before[i].row = stored[ws.before[i].key]
  /\ \A i, j \in DOMAIN ws.before : ws.before[i].key = ws.before[j].key => i = j

RunOK ==
  /\ run \in [rows : Rows, ws : [puts : [Keys -> Scalars \cup {None}], dels : SUBSET Keys,
                                 before : Seq(Images)], ok : BOOLEAN]
  /\ run.rows = storage
  /\ BufferOK(run.rows, run.ws)

CallInv ==
  /\ storage \in Rows /\ open \in BOOLEAN
  /\ model \in Rows
  /\ open => RunOK
  /\ open /\ run.ok => \A k \in Keys : Get(run.rows, run.ws, k) = model[k]

-----------------------------------------------------------------------------
(* The buffer *)

\* An empty buffer shows the stored rows.
LEMMA EmptyBuffer ==
  ASSUME NEW stored \in Rows
  PROVE  /\ BufferOK(stored, NoWrites)
         /\ \A k \in Keys : Get(stored, NoWrites, k) = stored[k]
  BY MutatorsAssumption DEF BufferOK, NoWrites, Get, Images, Touched

\* Remembering a row leaves the writes as they are and gives the row its before-image.
LEMMA RememberKeeps ==
  ASSUME NEW stored \in Rows, NEW ws, NEW k \in Keys, BufferOK(stored, ws)
  PROVE  /\ BufferOK(stored, Remember(stored, ws, k))
         /\ Remember(stored, ws, k).puts = ws.puts
         /\ Remember(stored, ws, k).dels = ws.dels
         /\ k \in Touched(Remember(stored, ws, k))
<1> DEFINE image == [key |-> k, row |-> stored[k]]
           before == Append(ws.before, image)
<1>1. CASE k \in Touched(ws)
  BY <1>1 DEF Remember
<1>2. CASE k \notin Touched(ws)
  <2>1. Remember(stored, ws, k) = [ws EXCEPT !.before = before]
    BY <1>2 DEF Remember
  <2>2. image \in Images /\ ws.before \in Seq(Images)
    BY DEF BufferOK, Images, Rows, Cells
  <2>3. /\ before \in Seq(Images)
        /\ DOMAIN before = DOMAIN ws.before \cup {Len(ws.before) + 1}
        /\ \A i \in DOMAIN ws.before : before[i] = ws.before[i]
        /\ before[Len(ws.before) + 1] = image
    BY <2>2
  <2> DEFINE after == [ws EXCEPT !.before = before]
  <2>4. /\ after.before = before /\ after.puts = ws.puts /\ after.dels = ws.dels
        /\ after \in [puts : [Keys -> Scalars \cup {None}], dels : SUBSET Keys,
                      before : Seq(Images)]
    BY <2>3 DEF BufferOK
  <2> HIDE DEF before
  <2>5. Touched(after) = Touched(ws) \cup {k}
    <3>1. Touched(after) = {before[i].key : i \in DOMAIN before}
      BY <2>4 DEF Touched
    <3>2. QED
      BY <3>1, <2>3 DEF Touched
  <2>6. \A i \in DOMAIN before : before[i].row = stored[before[i].key]
    BY <2>3 DEF BufferOK
  <2>7. \A i, j \in DOMAIN before : before[i].key = before[j].key => i = j
    <3>1. \A i \in DOMAIN ws.before : before[i].key # k
      BY <1>2, <2>3 DEF Touched
    <3>2. QED
      BY <2>3, <3>1 DEF BufferOK
  <2>8. BufferOK(stored, after)
    <3> HIDE DEF after
    <3>1. /\ \A j \in after.dels : after.puts[j] = None
          /\ \A j \in Keys : after.puts[j] # None \/ j \in after.dels => j \in Touched(after)
      BY <2>4, <2>5 DEF BufferOK
    <3>2. QED
      BY <3>1, <2>4, <2>6, <2>7 DEF BufferOK
  <2>9. QED
    BY <2>1, <2>4, <2>5, <2>8
<1>3. QED
  BY <1>1, <1>2

\* A put shows at its row and nowhere else.
LEMMA PutShows ==
  ASSUME NEW stored \in Rows, NEW ws, NEW k \in Keys, NEW v \in Scalars, BufferOK(stored, ws)
  PROVE  /\ BufferOK(stored, PutRow(stored, ws, k, v))
         /\ \A j \in Keys : Get(stored, PutRow(stored, ws, k, v), j)
                              = IF j = k THEN v ELSE Get(stored, ws, j)
<1> DEFINE r == Remember(stored, ws, k)
           after == [r EXCEPT !.puts[k] = v, !.dels = @ \ {k}]
<1>1. BufferOK(stored, r) /\ r.puts = ws.puts /\ r.dels = ws.dels /\ k \in Touched(r)
  BY RememberKeeps
<1> HIDE DEF r
<1>2. PutRow(stored, ws, k, v) = after
  BY DEF PutRow, BufferPut, r
<1>3. r \in [puts : [Keys -> Scalars \cup {None}], dels : SUBSET Keys, before : Seq(Images)]
  BY <1>1 DEF BufferOK
<1>4. /\ after \in [puts : [Keys -> Scalars \cup {None}], dels : SUBSET Keys, before : Seq(Images)]
      /\ after.puts = [r.puts EXCEPT ![k] = v]
      /\ after.dels = r.dels \ {k} /\ after.before = r.before
  BY <1>3
<1> HIDE DEF after
<1>5. v # None
  BY MutatorsAssumption
<1>6. Touched(after) = Touched(r)
  BY <1>4 DEF Touched
<1>7. BufferOK(stored, after)
  BY <1>1, <1>3, <1>4, <1>6 DEF BufferOK
<1>8. \A j \in Keys : Get(stored, after, j) = IF j = k THEN v ELSE Get(stored, ws, j)
  BY <1>1, <1>3, <1>4, <1>5 DEF Get
<1>9. QED
  BY <1>2, <1>7, <1>8

\* A delete shows at its row and nowhere else.
LEMMA DelShows ==
  ASSUME NEW stored \in Rows, NEW ws, NEW k \in Keys, BufferOK(stored, ws)
  PROVE  /\ BufferOK(stored, DelRow(stored, ws, k))
         /\ \A j \in Keys : Get(stored, DelRow(stored, ws, k), j)
                              = IF j = k THEN Deleted ELSE Get(stored, ws, j)
<1> DEFINE r == Remember(stored, ws, k)
           after == [r EXCEPT !.puts[k] = None, !.dels = @ \cup {k}]
<1>1. BufferOK(stored, r) /\ r.puts = ws.puts /\ r.dels = ws.dels /\ k \in Touched(r)
  BY RememberKeeps
<1> HIDE DEF r
<1>2. DelRow(stored, ws, k) = after
  BY DEF DelRow, BufferDel, r
<1>3. r \in [puts : [Keys -> Scalars \cup {None}], dels : SUBSET Keys, before : Seq(Images)]
  BY <1>1 DEF BufferOK
<1>4. /\ after \in [puts : [Keys -> Scalars \cup {None}], dels : SUBSET Keys, before : Seq(Images)]
      /\ after.puts = [r.puts EXCEPT ![k] = None]
      /\ after.dels = r.dels \cup {k} /\ after.before = r.before
  BY <1>3
<1> HIDE DEF after
<1>5. Touched(after) = Touched(r)
  BY <1>4 DEF Touched
<1>6. BufferOK(stored, after)
  BY <1>1, <1>3, <1>4, <1>5 DEF BufferOK
<1>7. \A j \in Keys : Get(stored, after, j) = IF j = k THEN Deleted ELSE Get(stored, ws, j)
  BY <1>1, <1>3, <1>4 DEF Get
<1>8. QED
  BY <1>2, <1>6, <1>7

\* The storage query returns every row that matches a filter, and perhaps more.
LEMMA PrefilterIsSuperset ==
  ASSUME NEW f \in Filters \ {"undefined"}, NEW v \in Scalars, Matches(f, v)
  PROVE  Selects(f, v)
  BY DEF Filters, Scalars, Matches, Selects, SqlReads

\* A list returns exactly the rows of the table that the buffer shows and the filter matches.
LEMMA ListedExactly ==
  ASSUME NEW stored \in Rows, NEW ws, BufferOK(stored, ws), NEW seen \in Rows,
         \A k \in Keys : Get(stored, ws, k) = seen[k],
         NEW t \in Tables, NEW f \in Filters \ {"undefined"}
  PROVE  Listed(stored, ws, t, f) = Live(seen, t, f)
<1> SUFFICES ASSUME NEW k \in Keys, k[1] = t
             PROVE  k \in Listed(stored, ws, t, f) <=> k \in Live(seen, t, f)
  BY DEF Listed, Live
<1>1. /\ stored[k] \in Cells /\ seen[k] = Get(stored, ws, k)
      /\ ws.puts[k] \in Scalars \cup {None}
      /\ k \in ws.dels => ws.puts[k] = None
  BY DEF BufferOK, Rows, Cells
<1>2. stored[k] # Deleted /\ Matches(f, stored[k]) => Selects(f, stored[k])
  BY <1>1, PrefilterIsSuperset DEF Cells
<1>3. k \in Live(seen, t, f) <=> Get(stored, ws, k) # Deleted /\ Matches(f, Get(stored, ws, k))
  BY <1>1 DEF Live
<1>4. k \in Listed(stored, ws, t, f) <=>
        \/ /\ stored[k] # Deleted /\ Selects(f, stored[k]) /\ Matches(f, stored[k])
           /\ k \notin ws.dels /\ ws.puts[k] = None
        \/ ws.puts[k] # None /\ Matches(f, ws.puts[k])
  BY DEF Listed
<1>5. CASE k \in ws.dels
  BY <1>1, <1>3, <1>4, <1>5 DEF Get
<1>6. CASE ws.puts[k] # None
  BY <1>1, <1>3, <1>4, <1>6, MutatorsAssumption DEF Get
<1>7. CASE k \notin ws.dels /\ ws.puts[k] = None
  BY <1>2, <1>3, <1>4, <1>7 DEF Get
<1>8. QED
  BY <1>5, <1>6, <1>7

\* What the flush leaves is what the buffer shows.
LEMMA FlushIsSeen ==
  ASSUME NEW r, r.rows \in Rows, BufferOK(r.rows, r.ws), NEW seen \in Rows,
         \A k \in Keys : Get(r.rows, r.ws, k) = seen[k]
  PROVE  RowsAfter(r) = seen
<1>1. \A k \in Keys : RowsAfter(r)[k] = seen[k]
  BY DEF RowsAfter, Get, BufferOK
<1>2. QED
  BY <1>1 DEF RowsAfter, Rows

-----------------------------------------------------------------------------
(* The calls *)

\* A call that keeps the buffer in order and the run at its rows keeps the run in order.
LEMMA RunKept ==
  ASSUME RunOK, NEW ws, BufferOK(storage, ws), UNCHANGED storage,
         run' = [run EXCEPT !.ws = ws]
  PROVE  RunOK' /\ run'.rows = storage /\ run'.ws = ws /\ run'.ok = run.ok
<1>1. ws \in [puts : [Keys -> Scalars \cup {None}], dels : SUBSET Keys, before : Seq(Images)]
  BY DEF BufferOK
<1>2. run'.rows = run.rows /\ run'.ws = ws /\ run'.ok = run.ok
  BY DEF RunOK
<1>3. BufferOK(run'.rows, run'.ws)
  BY <1>2 DEF RunOK
<1>4. RunOK'
  BY <1>1, <1>2, <1>3 DEF RunOK, BufferOK, Touched
<1>5. QED
  BY <1>2, <1>4 DEF RunOK

LEMMA CallInitHolds == CallInit => CallInv
<1> SUFFICES ASSUME CallInit PROVE CallInv
  OBVIOUS
<1>1. QED
  BY DEF CallInit, CallInv

LEMMA BeginKeeps == ASSUME CallInv, BeginMutation PROVE CallInv'
<1>1. storage' \in Rows /\ storage' = storage /\ open' = TRUE /\ model' = storage /\ run' = Begin(storage)
  BY DEF CallInv, BeginMutation
<1>2. run'.rows = storage /\ run'.ws = NoWrites /\ run'.ok = TRUE
  BY <1>1 DEF Begin
<1>3. BufferOK(storage, NoWrites) /\ \A k \in Keys : Get(storage, NoWrites, k) = storage[k]
  BY EmptyBuffer DEF CallInv
<1>4. run' \in [rows : Rows, ws : [puts : [Keys -> Scalars \cup {None}], dels : SUBSET Keys,
                                   before : Seq(Images)], ok : BOOLEAN]
  BY <1>1, <1>3 DEF Begin, BufferOK, CallInv
<1>5. RunOK'
  BY <1>1, <1>2, <1>3, <1>4 DEF RunOK, BufferOK, Touched
<1>6. QED
  BY <1>1, <1>2, <1>3, <1>5 DEF CallInv

LEMMA PutKeeps ==
  ASSUME CallInv, NEW k \in Keys, NEW x \in Inputs, CallPut(k, x) PROVE CallInv'
<1>1. RunOK /\ run.ok /\ open /\ UNCHANGED <<storage, open>> /\ run.rows = storage
  BY DEF CallInv, CallPut, RunOK
<1>2. Put(k, x).do = "put" /\ Put(k, x).key = k /\ Put(k, x).input = x
  BY DEF Put
<1>3. CASE Valid(x) /\ Fits(x)
  <2>1. Parsed(x) \in Scalars
    BY <1>3 DEF Parsed, Inputs, Scalars, Valid, Fits
  <2> DEFINE ws == PutRow(storage, run.ws, k, Parsed(x))
  <2>2. /\ BufferOK(storage, ws)
        /\ \A j \in Keys : Get(storage, ws, j) = IF j = k THEN Parsed(x) ELSE Get(storage, run.ws, j)
    BY <1>1, <2>1, PutShows DEF CallInv, RunOK
  <2>3. run' = [run EXCEPT !.ws = ws]
    BY <1>1, <1>3 DEF CallPut, TryPut
  <2> HIDE DEF ws
  <2>4. RunOK' /\ run'.rows = storage /\ run'.ws = ws /\ run'.ok = run.ok
    BY <1>1, <2>2, <2>3, RunKept
  <2>5. model' = [model EXCEPT ![k] = Parsed(x)]
    BY <1>2, <1>3 DEF CallPut, Allowed, Effect
  <2>6. model' \in Rows /\ \A j \in Keys : model'[j] = IF j = k THEN Parsed(x) ELSE model[j]
    BY <2>1, <2>5 DEF CallInv, Rows
  <2>7. QED
    BY <1>1, <2>2, <2>4, <2>6 DEF CallInv
<1>4. CASE ~(Valid(x) /\ Fits(x))
  <2>1. run' = [run EXCEPT !.ok = FALSE] /\ model' = model
    BY <1>2, <1>4 DEF CallPut, TryPut, Allowed
  <2>2. run'.ok = FALSE /\ run'.rows = run.rows /\ run'.ws = run.ws
        /\ run' \in [rows : Rows, ws : [puts : [Keys -> Scalars \cup {None}], dels : SUBSET Keys,
                                        before : Seq(Images)], ok : BOOLEAN]
    BY <1>1, <2>1 DEF RunOK
  <2>3. RunOK'
    BY <1>1, <2>2 DEF RunOK, BufferOK, Touched
  <2>4. QED
    BY <1>1, <2>1, <2>2, <2>3 DEF CallInv
<1>5. QED
  BY <1>3, <1>4

LEMMA DelKeeps == ASSUME CallInv, NEW k \in Keys, CallDel(k) PROVE CallInv'
<1>1. RunOK /\ run.ok /\ open /\ UNCHANGED <<storage, open>> /\ run.rows = storage
  BY DEF CallInv, CallDel, RunOK
<1> DEFINE ws == DelRow(storage, run.ws, k)
<1>2. /\ BufferOK(storage, ws)
      /\ \A j \in Keys : Get(storage, ws, j) = IF j = k THEN Deleted ELSE Get(storage, run.ws, j)
  BY <1>1, DelShows DEF CallInv, RunOK
<1>3. run' = [run EXCEPT !.ws = ws]
  BY <1>1 DEF CallDel
<1> HIDE DEF ws
<1>4. RunOK' /\ run'.rows = storage /\ run'.ws = ws /\ run'.ok = run.ok
  BY <1>1, <1>2, <1>3, RunKept
<1>5. Del(k).do = "del" /\ Del(k).key = k
  BY DEF Del
<1>6. model' = [model EXCEPT ![k] = Deleted]
  BY <1>5 DEF CallDel, Effect
<1>7. model' \in Rows /\ \A j \in Keys : model'[j] = IF j = k THEN Deleted ELSE model[j]
  BY <1>6 DEF CallInv, Rows
<1>8. QED
  BY <1>1, <1>2, <1>4, <1>7 DEF CallInv

LEMMA GetKeeps == ASSUME CallInv, NEW k \in Keys, CallGet(k) PROVE CallInv'
<1>1. RunOK /\ run.ok /\ open /\ UNCHANGED <<storage, open, model>> /\ run.rows = storage
  BY DEF CallInv, CallGet, RunOK
<1>2. CASE k \in run.ws.dels \/ run.ws.puts[k] # None
  <2>1. run' = run
    BY <1>2 DEF CallGet
  <2>2. QED
    BY <1>1, <2>1 DEF CallInv, RunOK, BufferOK, Touched
<1>3. CASE ~(k \in run.ws.dels \/ run.ws.puts[k] # None)
  <2> DEFINE ws == Remember(storage, run.ws, k)
  <2>1. BufferOK(storage, ws) /\ ws.puts = run.ws.puts /\ ws.dels = run.ws.dels
    BY <1>1, RememberKeeps DEF CallInv, RunOK
  <2>2. run' = [run EXCEPT !.ws = ws]
    BY <1>1, <1>3 DEF CallGet
  <2> HIDE DEF ws
  <2>3. RunOK' /\ run'.rows = storage /\ run'.ws = ws /\ run'.ok = run.ok
    BY <1>1, <2>1, <2>2, RunKept
  <2>4. \A j \in Keys : Get(storage, ws, j) = Get(storage, run.ws, j)
    BY <2>1 DEF Get
  <2>5. QED
    BY <1>1, <2>3, <2>4 DEF CallInv
<1>4. QED
  BY <1>2, <1>3

\* A commit writes what the buffer shows.
LEMMA CommitWrites == ASSUME CallInv, CommitMutation PROVE storage' = model
  BY FlushIsSeen DEF CallInv, RunOK, CommitMutation

LEMMA CallStepHolds == CallInv /\ [CallNext]_callVars => CallInv'
<1> SUFFICES ASSUME CallInv, [CallNext]_callVars PROVE CallInv'
  OBVIOUS
<1>1. CASE BeginMutation
  BY <1>1, BeginKeeps
<1>2. CASE CommitMutation
  BY <1>2, CommitWrites DEF CallInv, CommitMutation
<1>3. CASE AbandonMutation
  BY <1>3 DEF CallInv, AbandonMutation
<1>4. ASSUME NEW k \in Keys, CallDel(k) PROVE CallInv'
  BY <1>4, DelKeeps
<1>5. ASSUME NEW k \in Keys, CallGet(k) PROVE CallInv'
  BY <1>5, GetKeeps
<1>6. ASSUME NEW k \in Keys, NEW x \in Inputs, CallPut(k, x) PROVE CallInv'
  BY <1>6, PutKeeps
<1>7. CASE UNCHANGED callVars
  BY <1>7 DEF callVars, CallInv, RunOK, BufferOK, Touched
<1>8. QED
  BY <1>1, <1>2, <1>3, <1>4, <1>5, <1>6, <1>7 DEF CallNext

-----------------------------------------------------------------------------
(* Theorems *)

\* The inductive invariant: while a mutation runs, its buffer is in order over the rows it began
\* with, and as long as no call was refused it shows what the calls made of them.
THEOREM CallsCorrect == CallSpec => []CallInv
<1>1. QED
  BY CallInitHolds, CallStepHolds, PTL DEF CallSpec

LEMMA InvReadsOwnWrites == CallInv => ReadsOwnWrites
<1> SUFFICES ASSUME CallInv, open, run.ok
             PROVE  /\ \A k \in Keys : Get(run.rows, run.ws, k) = model[k]
                    /\ \A t \in Tables, f \in Filters \ {"undefined"} :
                         Listed(run.rows, run.ws, t, f) = Live(model, t, f)
  BY DEF ReadsOwnWrites
<1>1. /\ run.rows \in Rows /\ BufferOK(run.rows, run.ws) /\ model \in Rows
      /\ \A k \in Keys : Get(run.rows, run.ws, k) = model[k]
  BY DEF CallInv, RunOK
<1>2. ASSUME NEW t \in Tables, NEW f \in Filters \ {"undefined"}
      PROVE  Listed(run.rows, run.ws, t, f) = Live(model, t, f)
  BY <1>1, ListedExactly
<1>3. QED
  BY <1>1, <1>2

\* A mutation reads its own writes: tx.get and tx.list answer as if every call before had
\* taken effect at once, whatever storage's looser query returns.
THEOREM MutationsReadOwnWrites == CallSpec => []ReadsOwnWrites
<1>1. QED
  BY CallsCorrect, InvReadsOwnWrites, PTL

LEMMA InvImagesStored == CallInv => ImagesStored
  BY DEF CallInv, RunOK, BufferOK, ImagesStored, Written

\* What the hook is told of a row's past is the stored row, once for each row that is written.
THEOREM HookSeesStored == CallSpec => []ImagesStored
<1>1. QED
  BY CallsCorrect, InvImagesStored, PTL

LEMMA StepCommitsModel ==
  CallInv /\ [CallNext]_callVars => [storage' # storage => open /\ run.ok /\ storage' = model]_callVars
<1> SUFFICES ASSUME CallInv, CallNext, storage' # storage
             PROVE  open /\ run.ok /\ storage' = model
  BY DEF callVars
<1>1. CommitMutation
  BY DEF CallNext, BeginMutation, AbandonMutation, CallDel, CallGet, CallPut
<1>2. QED
  BY <1>1, CommitWrites DEF CommitMutation

\* Storage changes only by whole mutations, to what their calls made of the rows.
THEOREM MutationsAreWhole == CallSpec => CommitsModel
<1>1. QED
  BY CallsCorrect, StepCommitsModel, PTL DEF CallSpec, CommitsModel

-----------------------------------------------------------------------------
(* Induction, in its set form, and folds *)

LEMMA NatLess == \E R : IsWellFoundedOn(R, Nat) /\ R = {p \in Nat \X Nat : p[1] < p[2]}
<1>1. IsWellFoundedOn(OpToRel(<, Nat), Nat)
  BY NatLessThanWellFounded, Zenon
<1>2. OpToRel(<, Nat) = {p \in Nat \X Nat : p[1] < p[2]}
  BY DEF OpToRel
<1> QED BY <1>1, <1>2

\* A set of naturals has a least element.
LEMMA Least ==
  ASSUME NEW T, T \subseteq Nat, T # {}
  PROVE  \E x \in T : \A y \in T : x <= y
<1>1. PICK R : IsWellFoundedOn(R, Nat) /\ R = {p \in Nat \X Nat : p[1] < p[2]}
  BY NatLess
<1>2. PICK x \in T : \A y \in T : ~(<<y, x>> \in R)
  BY <1>1, WFMin, Zenon
<1>3. \A y \in T : ~(y < x) /\ y \in Nat /\ x \in Nat
  BY <1>1, <1>2
<1> QED BY <1>2, <1>3

\* Induction up to a bound.
LEMMA UpTo ==
  ASSUME NEW N \in Nat, NEW T, 0 \in T, \A n \in 0..(N - 1) : n \in T => n + 1 \in T
  PROVE  \A n \in 0..N : n \in T
<1> SUFFICES ASSUME (0..N) \ T # {} PROVE FALSE
  OBVIOUS
<1>0. (0..N) \ T \subseteq Nat
  OBVIOUS
<1>1. PICK x \in (0..N) \ T : \A y \in (0..N) \ T : x <= y
  BY <1>0, Least
<1>2. x # 0 /\ x - 1 \in 0..(N - 1) /\ x - 1 \in T
  BY <1>1
<1>3. (x - 1) + 1 \in T
  BY <1>2
<1> QED BY <1>1, <1>2, <1>3

LEMMA MaxIs ==
  ASSUME NEW n \in Nat, NEW s \in SUBSET (1..n), s # {}
  PROVE  Max(s) \in s /\ \A y \in s : Max(s) >= y
<1> DEFINE above == {m \in Nat : \A y \in s : m >= y}
<1>1. n \in above /\ above \subseteq Nat
  OBVIOUS
<1>2. PICK m \in above : \A k \in above : m <= k
  BY <1>1, Least
<1>3. m \in s
  <2> SUFFICES ASSUME m \notin s PROVE FALSE
    OBVIOUS
  <2>1. PICK y \in s : TRUE
    OBVIOUS
  <2>2. m # 0 /\ m - 1 \in Nat
    BY <1>2, <2>1
  <2>3. m - 1 \in above
    BY <1>2, <2>2
  <2> QED BY <1>2, <2>2, <2>3
<1>4. \E x \in s : \A y \in s : x >= y
  BY <1>2, <1>3
<1> QED BY <1>4 DEF Max

LEMMA MaxUpTo ==
  ASSUME NEW n \in Nat \ {0}
  PROVE  Max(1..n) = n /\ (1..n) \ {n} = 1..(n - 1) /\ 1..n # {}
<1>1. n \in 1..n
  OBVIOUS
<1>2. Max(1..n) \in 1..n /\ Max(1..n) >= n
  BY <1>1, MaxIs
<1> QED BY <1>1, <1>2

\* The value of a fold at every set of positions, the largest last, and at 1..n, n after n.
FoldsTo(N, S, b, G, g) ==
  /\ g \in [SUBSET (1..N) -> S]
  /\ \A s \in SUBSET (1..N) : g[s] = IF s = {} THEN b ELSE G[<<g[s \ {Max(s)}], Max(s)>>]
Unfolds(N, S, b, G, iter) ==
  \A s \in SUBSET (1..N) :
    /\ s = {} => iter[s] = b
    /\ s # {} /\ iter[s \ {Max(s)}] \in S => iter[s] = G[<<iter[s \ {Max(s)}], Max(s)>>]
Steady(N, S, b, G, tr, last) ==
  /\ tr \in [0..N -> S] /\ tr[0] = b /\ tr[N] = last
  /\ \A n \in 1..N : tr[n] = G[<<tr[n - 1], n>>]

LEMMA FoldExists ==
  ASSUME NEW N \in Nat, NEW S, NEW b \in S, NEW G \in [S \X (1..N) -> S]
  PROVE  \E g : FoldsTo(N, S, b, G, g)
<1> DEFINE T == {n \in 0..N : \E g : FoldsTo(n, S, b, G, g)}
<1>1. 0 \in T
  <2> DEFINE g == [s \in SUBSET (1..0) |-> b]
  <2>1. 1..0 = {}
    OBVIOUS
  <2>2. FoldsTo(0, S, b, G, g)
    BY <2>1 DEF FoldsTo
  <2> QED BY <2>2
<1>2. ASSUME NEW n \in 0..(N - 1), n \in T PROVE n + 1 \in T
  <2>1. PICK g : FoldsTo(n, S, b, G, g)
    BY <1>2
  <2> DEFINE h == [s \in SUBSET (1..(n + 1)) |->
                     IF n + 1 \in s THEN G[<<g[s \ {n + 1}], n + 1>>] ELSE g[s]]
  <2>2. \A s \in SUBSET (1..(n + 1)) : s \ {n + 1} \in SUBSET (1..n)
    OBVIOUS
  <2>3. h \in [SUBSET (1..(n + 1)) -> S]
    <3> SUFFICES ASSUME NEW s \in SUBSET (1..(n + 1))
                 PROVE  (IF n + 1 \in s THEN G[<<g[s \ {n + 1}], n + 1>>] ELSE g[s]) \in S
      OBVIOUS
    <3>1. CASE n + 1 \in s
      <4>1. g[s \ {n + 1}] \in S /\ n + 1 \in 1..N
        BY <2>1, <2>2 DEF FoldsTo
      <4> QED BY <3>1, <4>1
    <3>2. CASE n + 1 \notin s
      <4>1. s \in SUBSET (1..n)
        BY <2>2, <3>2
      <4> QED BY <2>1, <3>2, <4>1 DEF FoldsTo
    <3> QED BY <3>1, <3>2
  <2>4. ASSUME NEW s \in SUBSET (1..(n + 1))
        PROVE  h[s] = IF s = {} THEN b ELSE G[<<h[s \ {Max(s)}], Max(s)>>]
    <3>1. CASE n + 1 \in s
      <4>1. Max(s) \in s /\ Max(s) >= n + 1
        <5>1. n + 1 \in Nat /\ s # {}
          BY <3>1
        <5> QED BY <3>1, <5>1, MaxIs
      <4>2. Max(s) = n + 1
        <5>1. Max(s) \in 1..(n + 1)
          BY <4>1
        <5> QED BY <4>1, <5>1
      <4>3. h[s \ {n + 1}] = g[s \ {n + 1}]
        BY <2>2
      <4> QED BY <3>1, <4>2, <4>3
    <3>2. CASE n + 1 \notin s
      <4>1. s \in SUBSET (1..n) /\ s \ {Max(s)} \in SUBSET (1..n)
        BY <2>2, <3>2
      <4>2. h[s] = g[s] /\ h[s \ {Max(s)}] = g[s \ {Max(s)}]
        BY <3>2, <4>1
      <4> HIDE DEF h
      <4> QED BY <2>1, <4>1, <4>2 DEF FoldsTo
    <3> QED BY <3>1, <3>2
  <2>5. FoldsTo(n + 1, S, b, G, h)
    <3> HIDE DEF h
    <3> QED BY <2>3, <2>4 DEF FoldsTo
  <2> HIDE DEF h
  <2> QED BY <2>5
<1>3. N \in T
  <2> HIDE DEF T
  <2> QED BY <1>1, <1>2, UpTo
<1> QED BY <1>3

\* What it makes of 1..n, n after n.
LEMMA FoldTrace ==
  ASSUME NEW N \in Nat, NEW S, NEW b \in S, NEW G \in [S \X (1..N) -> S], NEW iter,
         Unfolds(N, S, b, G, iter)
  PROVE  \E tr : Steady(N, S, b, G, tr, iter[1..N])
<1> DEFINE T == {n \in 0..N : iter[1..n] \in S}
           tr == [n \in 0..N |-> iter[1..n]]
<1>1. iter[1..0] = b
  <2>1. 1..0 = {} /\ {} \in SUBSET (1..N)
    OBVIOUS
  <2>2. iter[{}] = b
    BY <2>1 DEF Unfolds
  <2> QED BY <2>1, <2>2
<1>2. ASSUME NEW n \in 1..N, iter[1..(n - 1)] \in S
      PROVE  iter[1..n] = G[<<iter[1..(n - 1)], n>>] /\ iter[1..n] \in S
  <2>0. n \in Nat \ {0}
    OBVIOUS
  <2>1. Max(1..n) = n /\ (1..n) \ {n} = 1..(n - 1) /\ 1..n # {}
    BY <2>0, MaxUpTo
  <2>2. 1..n \in SUBSET (1..N)
    OBVIOUS
  <2>3. iter[1..n] = G[<<iter[1..(n - 1)], n>>]
    BY <1>2, <2>1, <2>2 DEF Unfolds
  <2> QED BY <1>2, <2>3
<1>3. \A n \in 0..N : n \in T
  <2>1. 0 \in T
    BY <1>1
  <2>2. ASSUME NEW n \in 0..(N - 1), n \in T PROVE n + 1 \in T
    <3>1. n + 1 \in 1..N /\ (n + 1) - 1 = n
      OBVIOUS
    <3>2. iter[1..((n + 1) - 1)] \in S
      BY <2>2, <3>1
    <3>3. iter[1..(n + 1)] \in S
      BY <1>2, <3>1, <3>2
    <3> QED BY <3>1, <3>3
  <2> HIDE DEF T
  <2> QED BY <2>1, <2>2, UpTo
<1>4. tr \in [0..N -> S]
  BY <1>3
<1>5. \A n \in 1..N : tr[n] = G[<<tr[n - 1], n>>]
  <2> TAKE n \in 1..N
  <2>1. n \in 0..N /\ n - 1 \in 0..N
    OBVIOUS
  <2> QED BY <1>2, <1>3, <2>1
<1>6. tr[0] = b /\ tr[N] = iter[1..N]
  BY <1>1
<1> HIDE DEF tr
<1> QED BY <1>4, <1>5, <1>6 DEF Steady

-----------------------------------------------------------------------------
(* Filters, sweeps and programs, step by step *)

\* The elements of s that are kept, by their positions.
Sieved(s, kept, m, e, out) ==
  /\ m \in Nat /\ e \in [1..m -> kept] /\ out = [i \in 1..m |-> s[e[i]]]
  /\ \A i, j \in 1..m : i < j => e[i] < e[j]
  /\ \A p \in kept : \E i \in 1..m : e[i] = p

\* A filter goes through the positions one after the other.
LEMMA FilterTrace ==
  ASSUME NEW A, NEW q \in Seq(A), NEW kept \in SUBSET (1..Len(q))
  PROVE  \E tr \in [0..Len(q) -> Seq(A)] :
           /\ tr[0] = <<>> /\ tr[Len(q)] = Filtered(q, kept)
           /\ \A n \in 1..Len(q) : tr[n] = IF n \in kept THEN Append(tr[n - 1], q[n]) ELSE tr[n - 1]
<1> DEFINE N == Len(q)
           S == Seq(A)
           op(out, i) == IF i \in kept THEN Append(out, q[i]) ELSE out
           G == [p \in S \X (1..N) |-> op(p[1], p[2])]
           ids == [i \in DOMAIN q |-> i]
           iter == CHOOSE h : h = [s \in SUBSET (1..N) |->
                     IF s = {} THEN <<>> ELSE op(h[s \ {Max(s)}], ids[Max(s)])]
<1>1. N \in Nat /\ DOMAIN q = 1..N /\ (\A n \in 1..N : q[n] \in A) /\ <<>> \in S
  OBVIOUS
<1>2. Filtered(q, kept) = iter[1..N]
  <2>1. DOMAIN ids = 1..N
    BY <1>1
  <2> HIDE DEF N, ids
  <2> QED BY <1>1, <2>1 DEF Filtered, FoldLeftDomain, FoldLeft, MapThenFoldSet, ids
<1>3. ASSUME NEW out \in S, NEW n \in 1..N PROVE op(out, n) \in S
  OBVIOUS
<1> HIDE DEF N, S
<1>4. G \in [S \X (1..N) -> S]
  <2> HIDE DEF op
  <2> QED BY <1>3
<1>5. PICK g : FoldsTo(N, S, <<>>, G, g)
  <2> HIDE DEF G
  <2> QED BY <1>1, <1>4, FoldExists
<1>6. \A s \in SUBSET (1..N), r \in S : s # {} => G[<<r, Max(s)>>] = op(r, ids[Max(s)])
  <2> TAKE s \in SUBSET (1..N), r \in S
  <2> HAVE s # {}
  <2>1. Max(s) \in 1..N
    BY <1>1, MaxIs
  <2>2. ids[Max(s)] = Max(s)
    BY <1>1, <2>1
  <2> HIDE DEF op
  <2> QED BY <2>1, <2>2
<1>7. g = [s \in SUBSET (1..N) |-> IF s = {} THEN <<>> ELSE op(g[s \ {Max(s)}], ids[Max(s)])]
  <2> HIDE DEF G, op, ids
  <2>1. \A s \in SUBSET (1..N) : g[s \ {Max(s)}] \in S
    BY <1>5 DEF FoldsTo
  <2> QED BY <1>5, <1>6, <2>1 DEF FoldsTo
<1>8. iter = [s \in SUBSET (1..N) |->
                IF s = {} THEN <<>> ELSE op(iter[s \ {Max(s)}], ids[Max(s)])]
  <2> HIDE DEF op, ids
  <2> QED BY <1>7
<1>9. Unfolds(N, S, <<>>, G, iter)
  <2> HIDE DEF G, iter, op, ids
  <2> QED BY <1>6, <1>8 DEF Unfolds
<1>10. PICK tr : Steady(N, S, <<>>, G, tr, iter[1..N])
  <2> HIDE DEF G, iter
  <2> QED BY <1>1, <1>4, <1>9, FoldTrace
<1>11. \A n \in 1..N : tr[n] = op(tr[n - 1], n)
  <2> TAKE n \in 1..N
  <2> HIDE DEF op
  <2>1. n - 1 \in 0..N
    BY <1>1
  <2>2. tr[n - 1] \in S /\ tr[n] = G[<<tr[n - 1], n>>]
    <3> HIDE DEF G
    <3> QED BY <1>10, <2>1 DEF Steady
  <2> QED BY <2>2
<1> HIDE DEF iter, G
<1> QED BY <1>2, <1>10, <1>11 DEF N, S, Steady

\* The states a fold goes through.
RunSteps(stored, program, S, tr) ==
  /\ tr \in [0..Len(program) -> S] /\ tr[0] = Begin(stored) /\ tr[Len(program)] = Run(stored, program)
  /\ \A n \in 1..Len(program) : tr[n] = Take(tr[n - 1], program[n])

EffectSteps(seen, program, S, tr) ==
  /\ tr \in [0..Len(program) -> S] /\ tr[0] = seen /\ tr[Len(program)] = FoldLeft(Effect, seen, program)
  /\ \A n \in 1..Len(program) : tr[n] = Effect(tr[n - 1], program[n])

\* A program is taken step by step.
LEMMA RunTrace ==
  ASSUME NEW stored, NEW program \in Seq(Steps), NEW S, Begin(stored) \in S,
         \A r \in S, step \in Steps : Take(r, step) \in S
  PROVE  \E tr : RunSteps(stored, program, S, tr)
<1> DEFINE N == Len(program)
           b == Begin(stored)
           G == [p \in S \X (1..N) |-> Take(p[1], program[p[2]])]
           iter == CHOOSE h : h = [s \in SUBSET (1..N) |->
                     IF s = {} THEN b ELSE Take(h[s \ {Max(s)}], program[Max(s)])]
<1>1. N \in Nat /\ DOMAIN program = 1..N /\ (\A n \in 1..N : program[n] \in Steps) /\ b \in S
  OBVIOUS
<1>2. Run(stored, program) = iter[1..N]
  <2> HIDE DEF N
  <2> QED BY <1>1 DEF Run, FoldLeft, MapThenFoldSet
<1> HIDE DEF N, b
<1>3. G \in [S \X (1..N) -> S]
  BY <1>1
<1>4. PICK g : FoldsTo(N, S, b, G, g)
  <2> HIDE DEF G
  <2> QED BY <1>1, <1>3, FoldExists
<1>5. \A s \in SUBSET (1..N), r \in S : s # {} => G[<<r, Max(s)>>] = Take(r, program[Max(s)])
  <2> TAKE s \in SUBSET (1..N), r \in S
  <2> HAVE s # {}
  <2>1. Max(s) \in 1..N
    BY <1>1, MaxIs
  <2> QED BY <2>1
<1>6. g = [s \in SUBSET (1..N) |-> IF s = {} THEN b ELSE Take(g[s \ {Max(s)}], program[Max(s)])]
  <2> HIDE DEF G
  <2>1. \A s \in SUBSET (1..N) : g[s \ {Max(s)}] \in S
    BY <1>4 DEF FoldsTo
  <2> QED BY <1>4, <1>5, <2>1 DEF FoldsTo
<1>7. iter = [s \in SUBSET (1..N) |->
                IF s = {} THEN b ELSE Take(iter[s \ {Max(s)}], program[Max(s)])]
  BY <1>6
<1>8. Unfolds(N, S, b, G, iter)
  <2> HIDE DEF G, iter
  <2> QED BY <1>5, <1>7 DEF Unfolds
<1>9. PICK tr : Steady(N, S, b, G, tr, iter[1..N])
  <2> HIDE DEF G, iter
  <2> QED BY <1>1, <1>3, <1>8, FoldTrace
<1>10. \A n \in 1..N : tr[n] = Take(tr[n - 1], program[n])
  <2> TAKE n \in 1..N
  <2>1. n - 1 \in 0..N
    BY <1>1
  <2>2. tr[n - 1] \in S /\ tr[n] = G[<<tr[n - 1], n>>]
    <3> HIDE DEF G
    <3> QED BY <1>9, <2>1 DEF Steady
  <2> QED BY <2>2
<1> HIDE DEF iter, G
<1> QED BY <1>2, <1>9, <1>10 DEF N, b, Steady, RunSteps

\* What its steps mean, one after the other.
LEMMA EffectTrace ==
  ASSUME NEW seen, NEW program \in Seq(Steps), NEW S, seen \in S,
         \A r \in S, step \in Steps : Effect(r, step) \in S
  PROVE  \E tr : EffectSteps(seen, program, S, tr)
<1> DEFINE N == Len(program)
           b == seen
           G == [p \in S \X (1..N) |-> Effect(p[1], program[p[2]])]
           iter == CHOOSE h : h = [s \in SUBSET (1..N) |->
                     IF s = {} THEN b ELSE Effect(h[s \ {Max(s)}], program[Max(s)])]
<1>1. N \in Nat /\ DOMAIN program = 1..N /\ (\A n \in 1..N : program[n] \in Steps) /\ b \in S
  OBVIOUS
<1>2. FoldLeft(Effect, seen, program) = iter[1..N]
  <2> HIDE DEF N
  <2> QED BY <1>1 DEF FoldLeft, MapThenFoldSet
<1> HIDE DEF N, b
<1>3. G \in [S \X (1..N) -> S]
  BY <1>1
<1>4. PICK g : FoldsTo(N, S, b, G, g)
  <2> HIDE DEF G
  <2> QED BY <1>1, <1>3, FoldExists
<1>5. \A s \in SUBSET (1..N), r \in S : s # {} => G[<<r, Max(s)>>] = Effect(r, program[Max(s)])
  <2> TAKE s \in SUBSET (1..N), r \in S
  <2> HAVE s # {}
  <2>1. Max(s) \in 1..N
    BY <1>1, MaxIs
  <2> QED BY <2>1
<1>6. g = [s \in SUBSET (1..N) |-> IF s = {} THEN b ELSE Effect(g[s \ {Max(s)}], program[Max(s)])]
  <2> HIDE DEF G
  <2>1. \A s \in SUBSET (1..N) : g[s \ {Max(s)}] \in S
    BY <1>4 DEF FoldsTo
  <2> QED BY <1>4, <1>5, <2>1 DEF FoldsTo
<1>7. iter = [s \in SUBSET (1..N) |->
                IF s = {} THEN b ELSE Effect(iter[s \ {Max(s)}], program[Max(s)])]
  BY <1>6
<1>8. Unfolds(N, S, b, G, iter)
  <2> HIDE DEF G, iter
  <2> QED BY <1>5, <1>7 DEF Unfolds
<1>9. PICK tr : Steady(N, S, b, G, tr, iter[1..N])
  <2> HIDE DEF G, iter
  <2> QED BY <1>1, <1>3, <1>8, FoldTrace
<1>10. \A n \in 1..N : tr[n] = Effect(tr[n - 1], program[n])
  <2> TAKE n \in 1..N
  <2>1. n - 1 \in 0..N
    BY <1>1
  <2>2. tr[n - 1] \in S /\ tr[n] = G[<<tr[n - 1], n>>]
    <3> HIDE DEF G
    <3> QED BY <1>9, <2>1 DEF Steady
  <2> QED BY <2>2
<1> HIDE DEF iter, G
<1> QED BY <1>2, <1>9, <1>10 DEF N, b, Steady, EffectSteps

DelSteps(stored, ws, keys, S, tr, last) ==
  /\ tr \in [0..Len(keys) -> S] /\ tr[0] = ws /\ tr[Len(keys)] = last
  /\ \A n \in 1..Len(keys) : tr[n] = DelRow(stored, tr[n - 1], keys[n])

\* A sweep deletes one row after the other.
LEMMA DelTrace ==
  ASSUME NEW stored, NEW K, NEW keys \in Seq(Keys), keys = SetToSeq(K), NEW ws, NEW S, ws \in S,
         \A r \in S, k \in Keys : DelRow(stored, r, k) \in S
  PROVE  \E tr : DelSteps(stored, ws, keys, S, tr, DelAll(stored, ws, K))
<1> DEFINE N == Len(keys)
           b == ws
           G == [p \in S \X (1..N) |-> DelRow(stored, p[1], keys[p[2]])]
           iter == CHOOSE h : h = [s \in SUBSET (1..N) |->
                     IF s = {} THEN b ELSE DelRow(stored, h[s \ {Max(s)}], keys[Max(s)])]
<1>1. N \in Nat /\ DOMAIN keys = 1..N /\ (\A n \in 1..N : keys[n] \in Keys) /\ b \in S
  OBVIOUS
<1>2. DelAll(stored, ws, K) = iter[1..N]
  <2> HIDE DEF N
  <2> QED BY <1>1 DEF DelAll, FoldLeft, MapThenFoldSet
<1> HIDE DEF N, b
<1>3. G \in [S \X (1..N) -> S]
  BY <1>1
<1>4. PICK g : FoldsTo(N, S, b, G, g)
  <2> HIDE DEF G
  <2> QED BY <1>1, <1>3, FoldExists
<1>5. \A s \in SUBSET (1..N), r \in S : s # {} => G[<<r, Max(s)>>] = DelRow(stored, r, keys[Max(s)])
  <2> TAKE s \in SUBSET (1..N), r \in S
  <2> HAVE s # {}
  <2>1. Max(s) \in 1..N
    BY <1>1, MaxIs
  <2> QED BY <2>1
<1>6. g = [s \in SUBSET (1..N) |-> IF s = {} THEN b ELSE DelRow(stored, g[s \ {Max(s)}], keys[Max(s)])]
  <2> HIDE DEF G
  <2>1. \A s \in SUBSET (1..N) : g[s \ {Max(s)}] \in S
    BY <1>4 DEF FoldsTo
  <2> QED BY <1>4, <1>5, <2>1 DEF FoldsTo
<1>7. iter = [s \in SUBSET (1..N) |->
                IF s = {} THEN b ELSE DelRow(stored, iter[s \ {Max(s)}], keys[Max(s)])]
  BY <1>6
<1>8. Unfolds(N, S, b, G, iter)
  <2> HIDE DEF G, iter
  <2> QED BY <1>5, <1>7 DEF Unfolds
<1>9. PICK tr : Steady(N, S, b, G, tr, iter[1..N])
  <2> HIDE DEF G, iter
  <2> QED BY <1>1, <1>3, <1>8, FoldTrace
<1>10. \A n \in 1..N : tr[n] = DelRow(stored, tr[n - 1], keys[n])
  <2> TAKE n \in 1..N
  <2>1. n - 1 \in 0..N
    BY <1>1
  <2>2. tr[n - 1] \in S /\ tr[n] = G[<<tr[n - 1], n>>]
    <3> HIDE DEF G
    <3> QED BY <1>9, <2>1 DEF Steady
  <2> QED BY <2>2
<1> HIDE DEF iter, G
<1> QED BY <1>2, <1>9, <1>10 DEF N, b, Steady, DelSteps

\* What a filter returns: the kept elements, in order, each once.
LEMMA FilteredIs ==
  ASSUME NEW A, NEW q \in Seq(A), NEW kept \in SUBSET (1..Len(q))
  PROVE  \E m, e : Sieved(q, kept, m, e, Filtered(q, kept))
<1> DEFINE N == Len(q)
<1>1. N \in Nat
  OBVIOUS
<1>2. PICK tr \in [0..N -> Seq(A)] :
        /\ tr[0] = <<>> /\ tr[N] = Filtered(q, kept)
        /\ \A n \in 1..N : tr[n] = IF n \in kept THEN Append(tr[n - 1], q[n]) ELSE tr[n - 1]
  BY FilterTrace
<1> DEFINE T == {n \in 0..N : \E m, e : Sieved(q, kept \cap 1..n, m, e, tr[n])}
<1>3. 0 \in T
  <2> DEFINE e == [i \in 1..0 |-> 0]
  <2>1. kept \cap 1..0 = {} /\ e \in [1..0 -> {}] /\ <<>> = [i \in 1..0 |-> q[e[i]]]
    OBVIOUS
  <2>2. Sieved(q, {}, 0, e, <<>>)
    BY <2>1 DEF Sieved
  <2> HIDE DEF e
  <2> QED BY <1>1, <1>2, <2>1, <2>2
<1>4. ASSUME NEW n \in 0..(N - 1), n \in T PROVE n + 1 \in T
  <2> DEFINE old == kept \cap 1..n
             new == kept \cap 1..(n + 1)
  <2>1. PICK m, e : Sieved(q, old, m, e, tr[n])
    BY <1>4
  <2>2. n + 1 \in 1..N /\ (n + 1) - 1 = n /\ n + 1 \in 0..N
    BY <1>1
  <2>3. tr[n + 1] = IF n + 1 \in kept THEN Append(tr[n], q[n + 1]) ELSE tr[n]
    BY <1>2, <2>2
  <2>4. CASE n + 1 \notin kept
    <3>1. new = old
      BY <2>4
    <3> HIDE DEF old, new
    <3> QED BY <2>1, <2>2, <2>3, <2>4, <3>1 DEF new
  <2>5. CASE n + 1 \in kept
    <3> DEFINE f == [i \in 1..(m + 1) |-> IF i = m + 1 THEN n + 1 ELSE e[i]]
    <3>1. new = old \cup {n + 1} /\ \A p \in old : p \in Int /\ p < n + 1
      BY <2>5
    <3> HIDE DEF old, new
    <3>2. /\ m \in Nat /\ e \in [1..m -> old] /\ tr[n] = [i \in 1..m |-> q[e[i]]]
          /\ \A i, j \in 1..m : i < j => e[i] < e[j]
          /\ \A p \in old : \E i \in 1..m : e[i] = p
      BY <2>1 DEF Sieved
    <3>3. f \in [1..(m + 1) -> new]
      BY <3>1, <3>2
    <3>4. \A i, j \in 1..(m + 1) : i < j => f[i] < f[j]
      <4> SUFFICES ASSUME NEW i \in 1..(m + 1), NEW j \in 1..(m + 1), i < j PROVE f[i] < f[j]
        OBVIOUS
      <4>1. i \in 1..m /\ f[i] = e[i] /\ e[i] \in old
        BY <3>2
      <4>2. CASE j = m + 1
        BY <3>1, <4>1, <4>2
      <4>3. CASE j # m + 1
        BY <3>2, <4>1, <4>3
      <4> QED BY <4>2, <4>3
    <3>5. \A p \in new : \E i \in 1..(m + 1) : f[i] = p
      <4> SUFFICES ASSUME NEW p \in new PROVE \E i \in 1..(m + 1) : f[i] = p
        OBVIOUS
      <4>1. CASE p = n + 1
        <5>1. m + 1 \in 1..(m + 1) /\ f[m + 1] = n + 1
          BY <3>2
        <5> QED BY <4>1, <5>1
      <4>2. CASE p # n + 1
        <5>1. PICK i \in 1..m : e[i] = p
          BY <3>1, <3>2, <4>2
        <5>2. i \in 1..(m + 1) /\ f[i] = p
          BY <3>2, <5>1
        <5> QED BY <5>2
      <4> QED BY <4>1, <4>2
    <3>6. Append(tr[n], q[n + 1]) = [i \in 1..(m + 1) |-> q[f[i]]]
      <4>1. Append(tr[n], q[n + 1]) = [i \in 1..(m + 1) |-> IF i = m + 1 THEN q[n + 1] ELSE q[e[i]]]
        BY <3>2
      <4> QED BY <3>2, <4>1
    <3>7. Sieved(q, new, m + 1, f, tr[n + 1])
      <4>1. tr[n + 1] = [i \in 1..(m + 1) |-> q[f[i]]] /\ m + 1 \in Nat
        BY <2>3, <2>5, <3>2, <3>6
      <4> HIDE DEF f
      <4> QED BY <3>3, <3>4, <3>5, <4>1 DEF Sieved
    <3> HIDE DEF f
    <3> QED BY <2>2, <3>7 DEF new
  <2> QED BY <2>4, <2>5
<1>5. N \in T
  <2> HIDE DEF T, N
  <2>1. \A n \in 0..N : n \in T
    BY <1>1, <1>3, <1>4, UpTo
  <2> QED BY <1>1, <2>1
<1>6. kept \cap 1..N = kept
  OBVIOUS
<1> QED BY <1>2, <1>5, <1>6

\* A finite set as a sequence: each element once.
LEMMA SetAsSeq ==
  ASSUME NEW K, IsFiniteSet(K)
  PROVE  /\ SetToSeq(K) \in Seq(K) /\ Len(SetToSeq(K)) = Cardinality(K) /\ Cardinality(K) \in Nat
         /\ DOMAIN SetToSeq(K) = 1..Cardinality(K)
         /\ \A k \in K : \E i \in 1..Cardinality(K) : SetToSeq(K)[i] = k
         /\ \A i, j \in 1..Cardinality(K) : SetToSeq(K)[i] = SetToSeq(K)[j] => i = j
<1> DEFINE n == Cardinality(K)
           f == SetToSeq(K)
<1>1. n \in Nat /\ \E h : h \in Bijection(1..n, K)
  BY FS_CardinalityType DEF ExistsBijection
<1>2. \E h \in [1..n -> K] : IsInjective(h)
  BY <1>1 DEF Bijection, Injection
<1>3. f \in [1..n -> K] /\ IsInjective(f)
  BY <1>2 DEF SetToSeq
<1> HIDE DEF f
<1>4. f \in Injection(1..n, K)
  BY <1>3 DEF Injection
<1>5. IsFiniteSet(1..n) /\ Cardinality(1..n) = n
  BY <1>1, FS_Interval
<1>6. f \in Surjection(1..n, K)
  <2> HIDE DEF n
  <2> QED BY <1>4, <1>5, FS_Injection DEF n
<1>7. \A k \in K : \E i \in 1..n : f[i] = k
  BY <1>6 DEF Surjection
<1>8. \A i, j \in 1..n : f[i] = f[j] => i = j
  BY <1>3 DEF IsInjective
<1>9. f \in Seq(K) /\ Len(f) = n /\ DOMAIN f = 1..n
  BY <1>1, <1>3
<1> QED BY <1>1, <1>7, <1>8, <1>9 DEF f, n

-----------------------------------------------------------------------------
(* Whole programs *)

BufferRecords == [puts : [Keys -> Scalars \cup {None}], dels : SUBSET Keys, before : Seq(Images)]

\* A sweep shows at its rows and nowhere else.
LEMMA DelAllShows ==
  ASSUME NEW stored \in Rows, NEW ws, BufferOK(stored, ws), NEW K \in SUBSET Keys, IsFiniteSet(K)
  PROVE  /\ BufferOK(stored, DelAll(stored, ws, K))
         /\ \A j \in Keys : Get(stored, DelAll(stored, ws, K), j)
                              = IF j \in K THEN Deleted ELSE Get(stored, ws, j)
<1> DEFINE S == {b \in BufferRecords : BufferOK(stored, b)}
           keys == SetToSeq(K)
           n == Cardinality(K)
<1>1. /\ keys \in Seq(Keys) /\ Len(keys) = n /\ n \in Nat
      /\ \A i \in 1..n : keys[i] \in Keys
      /\ \A k \in K : \E i \in 1..n : keys[i] = k
      /\ \A i \in 1..n : keys[i] \in K
  BY SetAsSeq
<1>2. ws \in S /\ \A b \in S, k \in Keys : DelRow(stored, b, k) \in S
  BY DelShows DEF BufferOK, BufferRecords
<1> HIDE DEF keys, S
<1>0. PICK tr : DelSteps(stored, ws, keys, S, tr, DelAll(stored, ws, K))
  BY <1>1, <1>2, DelTrace DEF keys
<1>3. /\ tr \in [0..Len(keys) -> S]
      /\ tr[0] = ws /\ tr[Len(keys)] = DelAll(stored, ws, K)
      /\ \A i \in 1..Len(keys) : tr[i] = DelRow(stored, tr[i - 1], keys[i])
  BY <1>0 DEF DelSteps
<1>4. tr[n] = DelAll(stored, ws, K)
  BY <1>1, <1>3
<1> DEFINE gone(i) == {keys[j] : j \in 1..i}
           T == {i \in 0..n : \A k \in Keys : Get(stored, tr[i], k) =
                                 IF k \in gone(i) THEN Deleted ELSE Get(stored, ws, k)}
<1>5. 0 \in T
  <2>1. gone(0) = {}
    OBVIOUS
  <2> HIDE DEF gone
  <2> QED BY <1>1, <1>3, <2>1
<1>6. ASSUME NEW i \in 0..(n - 1), i \in T PROVE i + 1 \in T
  <2>1. i + 1 \in 1..n /\ (i + 1) - 1 = i /\ i + 1 \in 0..n /\ i \in 0..n
    BY <1>1
  <2>2. tr[i + 1] = DelRow(stored, tr[i], keys[i + 1]) /\ tr[i] \in S
    BY <1>1, <1>3, <2>1
  <2>3. BufferOK(stored, tr[i])
    BY <2>2 DEF S
  <2>4. keys[i + 1] \in Keys
    BY <1>1, <2>1
  <2>5. \A k \in Keys : Get(stored, tr[i + 1], k) =
                          IF k = keys[i + 1] THEN Deleted ELSE Get(stored, tr[i], k)
    BY <2>2, <2>3, <2>4, DelShows
  <2>6. gone(i + 1) = gone(i) \cup {keys[i + 1]}
    BY <2>1
  <2>7. \A k \in Keys : Get(stored, tr[i], k) = IF k \in gone(i) THEN Deleted ELSE Get(stored, ws, k)
    BY <1>6
  <2> HIDE DEF gone
  <2> QED BY <2>1, <2>5, <2>6, <2>7
<1>7. \A i \in 0..n : i \in T
  <2> HIDE DEF T, n
  <2> QED BY <1>1, <1>5, <1>6, UpTo
<1>8. n \in 0..n
  BY <1>1
<1>9. gone(n) = K
  BY <1>1
<1>10. BufferOK(stored, tr[n])
  BY <1>1, <1>3, <1>8 DEF S
<1> HIDE DEF gone
<1> QED BY <1>4, <1>7, <1>8, <1>9, <1>10

\* A run over the stored rows whose buffer is in order.
InOrder(stored, r) ==
  /\ r \in [rows : {stored}, ws : BufferRecords, ok : BOOLEAN]
  /\ BufferOK(stored, r.ws)

Shows(stored, ws, seen) == \A k \in Keys : Get(stored, ws, k) = seen[k]

Loose == [Keys -> Scalars \cup Inputs \cup {Deleted}]

\* The program filters on no undefined value: storage returns no row then and compileWhere every.
DefinedStep(step) == step.do = "sweep" => step.filter # "undefined"
Defined(program) == \A i \in DOMAIN program : DefinedStep(program[i])

LEMMA NewBuffer ==
  ASSUME NEW stored, NEW r, InOrder(stored, r), NEW ws, BufferOK(stored, ws)
  PROVE  /\ InOrder(stored, [r EXCEPT !.ws = ws])
         /\ [r EXCEPT !.ws = ws].ws = ws /\ [r EXCEPT !.ws = ws].ok = r.ok
<1>1. ws \in BufferRecords
  BY DEF BufferOK, BufferRecords
<1> QED BY <1>1 DEF InOrder

LEMMA KeysFinite ==
  ASSUME IsFiniteSet(Tables), IsFiniteSet(Ids)
  PROVE  IsFiniteSet(Keys) /\ \A K \in SUBSET Keys : IsFiniteSet(K)
<1>1. IsFiniteSet(Keys)
  BY FS_Product DEF Keys
<1> QED BY <1>1, FS_Subset

\* A step keeps the buffer in order, is refused when the model refuses it, and shows its effect.
LEMMA TakeShows ==
  ASSUME IsFiniteSet(Tables), IsFiniteSet(Ids),
         NEW stored \in Rows, NEW r, InOrder(stored, r), r.ok, NEW step \in Steps
  PROVE  /\ InOrder(stored, Take(r, step))
         /\ \A seen \in Rows : DefinedStep(step) /\ Shows(stored, r.ws, seen) =>
              /\ Take(r, step).ok <=> Allowed(step)
              /\ Take(r, step).ok => /\ Effect(seen, step) \in Rows
                                     /\ Shows(stored, Take(r, step).ws, Effect(seen, step))
<1>1. /\ r.rows = stored /\ r.ws \in BufferRecords /\ BufferOK(stored, r.ws) /\ r.ok = TRUE
      /\ r \in [rows : {stored}, ws : BufferRecords, ok : BOOLEAN]
  BY DEF InOrder
<1>2. CASE \E k \in Keys, x \in Inputs : step = Put(k, x)
  <2>1. PICK k \in Keys, x \in Inputs : step = Put(k, x)
    BY <1>2
  <2>2. step.do = "put" /\ step.key = k /\ step.input = x
    BY <2>1 DEF Put
  <2>3. Take(r, step) = TryPut(r, k, x)
    BY <2>2 DEF Take
  <2>4. CASE ~(Valid(x) /\ Fits(x))
    <3>1. Take(r, step) = [r EXCEPT !.ok = FALSE]
      BY <2>3, <2>4 DEF TryPut
    <3>2. InOrder(stored, [r EXCEPT !.ok = FALSE]) /\ [r EXCEPT !.ok = FALSE].ok = FALSE
      BY <1>1 DEF InOrder
    <3> QED BY <2>2, <2>4, <3>1, <3>2 DEF Allowed
  <2>5. CASE Valid(x) /\ Fits(x)
    <3> DEFINE ws == PutRow(stored, r.ws, k, Parsed(x))
    <3>1. Parsed(x) \in Scalars
      BY <2>5 DEF Parsed, Inputs, Scalars, Valid, Fits
    <3>2. /\ BufferOK(stored, ws)
          /\ \A j \in Keys : Get(stored, ws, j) = IF j = k THEN Parsed(x) ELSE Get(stored, r.ws, j)
      BY <1>1, <3>1, PutShows
    <3>3. Take(r, step) = [r EXCEPT !.ws = ws]
      BY <1>1, <2>3, <2>5 DEF TryPut
    <3> HIDE DEF ws
    <3>4. InOrder(stored, Take(r, step)) /\ Take(r, step).ws = ws /\ Take(r, step).ok = TRUE
      BY <1>1, <3>2, <3>3, NewBuffer
    <3>5. \A seen \in Rows : Effect(seen, step) = [seen EXCEPT ![k] = Parsed(x)]
      BY <2>2 DEF Effect
    <3>6. ASSUME NEW seen \in Rows, Shows(stored, r.ws, seen)
          PROVE  Effect(seen, step) \in Rows /\ Shows(stored, ws, Effect(seen, step))
      BY <3>1, <3>2, <3>5, <3>6 DEF Shows, Rows
    <3> QED BY <2>2, <2>5, <3>4, <3>6 DEF Allowed
  <2> QED BY <2>4, <2>5
<1>3. CASE \E k \in Keys : step = Del(k)
  <2>1. PICK k \in Keys : step = Del(k)
    BY <1>3
  <2>2. step.do = "del" /\ step.key = k
    BY <2>1 DEF Del
  <2> DEFINE ws == DelRow(stored, r.ws, k)
  <2>3. /\ BufferOK(stored, ws)
        /\ \A j \in Keys : Get(stored, ws, j) = IF j = k THEN Deleted ELSE Get(stored, r.ws, j)
    BY <1>1, DelShows
  <2>4. Take(r, step) = [r EXCEPT !.ws = ws]
    BY <1>1, <2>2 DEF Take
  <2> HIDE DEF ws
  <2>5. InOrder(stored, Take(r, step)) /\ Take(r, step).ws = ws /\ Take(r, step).ok = TRUE
    BY <1>1, <2>3, <2>4, NewBuffer
  <2>6. \A seen \in Rows : Effect(seen, step) = [seen EXCEPT ![k] = Deleted]
    BY <2>2 DEF Effect
  <2>7. ASSUME NEW seen \in Rows, Shows(stored, r.ws, seen)
        PROVE  Effect(seen, step) \in Rows /\ Shows(stored, ws, Effect(seen, step))
    BY <2>3, <2>6, <2>7 DEF Shows, Rows
  <2> QED BY <2>2, <2>5, <2>7 DEF Allowed
<1>4. CASE \E k \in Keys : step = Flip(k)
  <2>1. PICK k \in Keys : step = Flip(k)
    BY <1>4
  <2>2. step.do = "flip" /\ step.key = k
    BY <2>1 DEF Flip
  <2> DEFINE row == Get(stored, r.ws, k)
             read == Remember(stored, r.ws, k)
             ws == IF row = Deleted THEN read ELSE PutRow(stored, read, k, Flipped(row))
  <2>3. BufferOK(stored, read) /\ read.puts = r.ws.puts /\ read.dels = r.ws.dels
    BY <1>1, RememberKeeps
  <2>4. \A j \in Keys : Get(stored, read, j) = Get(stored, r.ws, j)
    BY <2>3 DEF Get
  <2>5. Flipped(row) \in Scalars
    BY DEF Flipped, Scalars
  <2>6. /\ BufferOK(stored, ws)
        /\ \A j \in Keys : Get(stored, ws, j) =
             IF j = k /\ row # Deleted THEN Flipped(row) ELSE Get(stored, r.ws, j)
    <3> HIDE DEF read, row
    <3>1. CASE row = Deleted
      BY <2>3, <2>4, <3>1
    <3>2. CASE row # Deleted
      BY <2>3, <2>4, <2>5, <3>2, PutShows
    <3> QED BY <3>1, <3>2
  <2>7. Take(r, step) = [r EXCEPT !.ws = ws]
    BY <1>1, <2>2 DEF Take, ReadModifyWrite
  <2> HIDE DEF ws, read
  <2>8. InOrder(stored, Take(r, step)) /\ Take(r, step).ws = ws /\ Take(r, step).ok = TRUE
    BY <1>1, <2>6, <2>7, NewBuffer
  <2>9. \A seen \in Rows : Effect(seen, step) = IF seen[k] = Deleted THEN seen
                                               ELSE [seen EXCEPT ![k] = Flipped(@)]
    BY <2>2 DEF Effect
  <2>10. ASSUME NEW seen \in Rows, Shows(stored, r.ws, seen)
        PROVE  Effect(seen, step) \in Rows /\ Shows(stored, ws, Effect(seen, step))
    <3>1. row = seen[k]
      BY <2>10 DEF Shows
    <3> HIDE DEF row
    <3>2. CASE seen[k] = Deleted
      BY <2>6, <2>9, <2>10, <3>1, <3>2 DEF Shows
    <3>3. CASE seen[k] # Deleted
      BY <2>5, <2>6, <2>9, <2>10, <3>1, <3>3 DEF Shows, Rows
    <3> QED BY <3>2, <3>3
  <2> QED BY <2>2, <2>8, <2>10 DEF Allowed
<1>5. CASE \E t \in Tables, f \in Filters : step = Sweep(t, f)
  <2>1. PICK t \in Tables, f \in Filters : step = Sweep(t, f)
    BY <1>5
  <2>2. step.do = "sweep" /\ step.table = t /\ step.filter = f
    BY <2>1 DEF Sweep
  <2> DEFINE K == Listed(stored, r.ws, t, f)
             ws == DelAll(stored, r.ws, K)
  <2>3. K \in SUBSET Keys /\ IsFiniteSet(K)
    BY KeysFinite DEF Listed
  <2>4. /\ BufferOK(stored, ws)
        /\ \A j \in Keys : Get(stored, ws, j) = IF j \in K THEN Deleted ELSE Get(stored, r.ws, j)
    <3> HIDE DEF K
    <3> QED BY <1>1, <2>3, DelAllShows
  <2>5. Take(r, step) = [r EXCEPT !.ws = ws]
    BY <1>1, <2>2 DEF Take
  <2> HIDE DEF ws
  <2>6. InOrder(stored, Take(r, step)) /\ Take(r, step).ws = ws /\ Take(r, step).ok = TRUE
    BY <1>1, <2>4, <2>5, NewBuffer
  <2>7. \A seen \in Rows : Effect(seen, step) = [k \in Keys |-> IF k \in Live(seen, t, f) THEN Deleted
                                                               ELSE seen[k]]
    BY <2>2 DEF Effect
  <2>8. ASSUME NEW seen \in Rows, DefinedStep(step), Shows(stored, r.ws, seen)
        PROVE  Effect(seen, step) \in Rows /\ Shows(stored, ws, Effect(seen, step))
    <3>1. K = Live(seen, t, f)
      BY <1>1, <2>2, <2>8, ListedExactly DEF DefinedStep, Shows
    <3> HIDE DEF K
    <3> QED BY <2>4, <2>7, <2>8, <3>1 DEF Shows, Rows
  <2> QED BY <2>2, <2>6, <2>8 DEF Allowed
<1> QED BY <1>2, <1>3, <1>4, <1>5 DEF Steps

LEMMA BeginInOrder ==
  ASSUME NEW stored \in Rows
  PROVE  InOrder(stored, Begin(stored)) /\ Begin(stored).ok = TRUE /\ Shows(stored, Begin(stored).ws, stored)
<1>1. BufferOK(stored, NoWrites) /\ \A k \in Keys : Get(stored, NoWrites, k) = stored[k]
  BY EmptyBuffer
<1>2. NoWrites \in BufferRecords
  BY <1>1 DEF BufferOK, BufferRecords
<1> QED BY <1>1, <1>2 DEF Begin, InOrder, Shows

\* A run that was refused takes no step.
LEMMA Refused == ASSUME NEW r, r.ok = FALSE, NEW step PROVE Take(r, step) = r
  BY DEF Take

LEMMA TakeInOrder ==
  ASSUME IsFiniteSet(Tables), IsFiniteSet(Ids),
         NEW stored \in Rows, NEW r, InOrder(stored, r), NEW step \in Steps
  PROVE  InOrder(stored, Take(r, step))
<1>1. r.ok \in BOOLEAN
  BY DEF InOrder
<1>2. CASE r.ok = FALSE
  BY <1>2, Refused
<1>3. CASE r.ok = TRUE
  BY <1>3, TakeShows
<1> QED BY <1>1, <1>2, <1>3

LEMMA EffectLoose ==
  ASSUME NEW seen \in Loose, NEW step \in Steps
  PROVE  Effect(seen, step) \in Loose
<1>1. CASE \E k \in Keys, x \in Inputs : step = Put(k, x)
  <2>1. PICK k \in Keys, x \in Inputs : step = Put(k, x)
    BY <1>1
  <2>2. Effect(seen, step) = [seen EXCEPT ![k] = Parsed(x)]
    BY <2>1 DEF Put, Effect
  <2>3. Parsed(x) \in Scalars \cup Inputs
    BY DEF Parsed, Scalars, Inputs
  <2> QED BY <2>2, <2>3 DEF Loose
<1>2. CASE \E k \in Keys : step = Del(k)
  <2>1. PICK k \in Keys : step = Del(k)
    BY <1>2
  <2>2. Effect(seen, step) = [seen EXCEPT ![k] = Deleted]
    BY <2>1 DEF Del, Effect
  <2> QED BY <2>2 DEF Loose
<1>3. CASE \E k \in Keys : step = Flip(k)
  <2>1. PICK k \in Keys : step = Flip(k)
    BY <1>3
  <2>2. Effect(seen, step) = IF seen[k] = Deleted THEN seen ELSE [seen EXCEPT ![k] = Flipped(@)]
    BY <2>1 DEF Flip, Effect
  <2>3. Flipped(seen[k]) \in Scalars
    BY DEF Flipped, Scalars
  <2> QED BY <2>2, <2>3 DEF Loose
<1>4. CASE \E t \in Tables, f \in Filters : step = Sweep(t, f)
  <2>1. PICK t \in Tables, f \in Filters : step = Sweep(t, f)
    BY <1>4
  <2>2. Effect(seen, step) = [k \in Keys |-> IF k \in Live(seen, t, f) THEN Deleted ELSE seen[k]]
    BY <2>1 DEF Sweep, Effect
  <2> QED BY <2>2 DEF Loose
<1> QED BY <1>1, <1>2, <1>3, <1>4 DEF Steps

\* The run after a program: its buffer is in order.
LEMMA RunInOrder ==
  ASSUME IsFiniteSet(Tables), IsFiniteSet(Ids), NEW stored \in Rows, NEW program \in Seq(Steps)
  PROVE  InOrder(stored, Run(stored, program))
<1> DEFINE S == {r \in [rows : {stored}, ws : BufferRecords, ok : BOOLEAN] : InOrder(stored, r)}
<1>1. Begin(stored) \in S /\ \A r \in S, step \in Steps : Take(r, step) \in S
  BY BeginInOrder, TakeInOrder DEF InOrder
<1>2. PICK tr : RunSteps(stored, program, S, tr)
  <2> HIDE DEF S
  <2> QED BY <1>1, RunTrace
<1>3. Len(program) \in 0..Len(program)
  OBVIOUS
<1>4. Run(stored, program) \in S
  BY <1>2, <1>3 DEF RunSteps
<1> QED BY <1>4

\* What a run has done after n steps: as long as none was refused it shows their effects.
After(stored, program, r, seen, n) ==
  IF \A i \in 1..n : Allowed(program[i])
  THEN r.ok = TRUE /\ seen \in Rows /\ Shows(stored, r.ws, seen)
  ELSE r.ok = FALSE

\* A program is refused when one of its steps is, and leaves what its steps mean otherwise.
LEMMA RunShows ==
  ASSUME IsFiniteSet(Tables), IsFiniteSet(Ids),
         NEW stored \in Rows, NEW program \in Seq(Steps), Defined(program)
  PROVE  After(stored, program, Run(stored, program), FoldLeft(Effect, stored, program), Len(program))
<1> DEFINE S == {r \in [rows : {stored}, ws : BufferRecords, ok : BOOLEAN] : InOrder(stored, r)}
           N == Len(program)
<1>1. Begin(stored) \in S /\ \A r \in S, step \in Steps : Take(r, step) \in S
  BY BeginInOrder, TakeInOrder DEF InOrder
<1>2. PICK tr : RunSteps(stored, program, S, tr)
  <2> HIDE DEF S
  <2> QED BY <1>1, RunTrace
<1>3. stored \in Loose
  BY DEF Rows, Loose
<1>4. PICK ef : EffectSteps(stored, program, Loose, ef)
  BY <1>3, EffectLoose, EffectTrace
<1> DEFINE T == {n \in 0..N : After(stored, program, tr[n], ef[n], n)}
<1>5. N \in Nat /\ (\A n \in 1..N : program[n] \in Steps /\ DefinedStep(program[n]))
  BY DEF Defined
<1>6. 0 \in T
  <2>1. tr[0] = Begin(stored) /\ ef[0] = stored
    BY <1>2, <1>4 DEF RunSteps, EffectSteps
  <2>2. After(stored, program, Begin(stored), stored, 0)
    <3>1. \A i \in 1..0 : Allowed(program[i])
      OBVIOUS
    <3>2. Begin(stored).ok = TRUE /\ Shows(stored, Begin(stored).ws, stored)
      BY BeginInOrder
    <3> QED BY <3>1, <3>2 DEF After
  <2> QED BY <1>5, <2>1, <2>2
<1>7. ASSUME NEW n \in 0..(N - 1), n \in T PROVE n + 1 \in T
  <2>1. n + 1 \in 1..N /\ (n + 1) - 1 = n /\ n + 1 \in 0..N /\ n \in 0..N /\ n \in Nat
    BY <1>5
  <2> DEFINE r == tr[n]
             step == program[n + 1]
             seen == ef[n]
  <2>2. tr[n + 1] = Take(r, step) /\ r \in S /\ ef[n + 1] = Effect(seen, step)
    <3> HIDE DEF S
    <3> QED BY <1>2, <1>4, <2>1 DEF RunSteps, EffectSteps
  <2>3. step \in Steps /\ DefinedStep(step) /\ InOrder(stored, r)
    BY <1>5, <2>1, <2>2
  <2>4. After(stored, program, r, seen, n)
    BY <1>7
  <2>5. (\A i \in 1..(n + 1) : Allowed(program[i])) <=> (\A i \in 1..n : Allowed(program[i])) /\ Allowed(step)
    <3>1. \A i \in 1..(n + 1) : i \in 1..n \/ i = n + 1
      BY <2>1
    <3>2. \A i \in 1..n : i \in 1..(n + 1)
      BY <2>1
    <3>3. n + 1 \in 1..(n + 1)
      BY <2>1
    <3> QED BY <3>1, <3>2, <3>3
  <2> HIDE DEF r, step, seen, T
  <2>6. CASE \A i \in 1..n : Allowed(program[i])
    <3>1. r.ok = TRUE /\ seen \in Rows /\ Shows(stored, r.ws, seen)
      BY <2>4, <2>6 DEF After
    <3>2. /\ Take(r, step).ok <=> Allowed(step)
          /\ Take(r, step).ok => /\ Effect(seen, step) \in Rows
                                 /\ Shows(stored, Take(r, step).ws, Effect(seen, step))
      BY <2>3, <3>1, TakeShows
    <3>3. Take(r, step).ok \in BOOLEAN
      BY <2>3, TakeInOrder DEF InOrder
    <3>4. After(stored, program, Take(r, step), Effect(seen, step), n + 1)
      BY <2>5, <2>6, <3>2, <3>3 DEF After
    <3> QED BY <2>1, <2>2, <3>4 DEF T
  <2>7. CASE ~\A i \in 1..n : Allowed(program[i])
    <3>1. r.ok = FALSE
      BY <2>4, <2>7 DEF After
    <3>2. Take(r, step) = r
      BY <3>1, Refused
    <3>3. After(stored, program, Take(r, step), Effect(seen, step), n + 1)
      BY <2>5, <2>7, <3>1, <3>2 DEF After
    <3> QED BY <2>1, <2>2, <3>3 DEF T
  <2> QED BY <2>6, <2>7
<1>8. \A n \in 0..N : n \in T
  <2> HIDE DEF T, N
  <2> QED BY <1>5, <1>6, <1>7, UpTo
<1>9. N \in T
  BY <1>5, <1>8
<1>10. tr[N] = Run(stored, program) /\ ef[N] = FoldLeft(Effect, stored, program)
  BY <1>2, <1>4 DEF RunSteps, EffectSteps
<1> HIDE DEF N
<1> QED BY <1>9, <1>10 DEF N

\* What the transaction leaves is rows, and those of the whole program.
LEMMA AfterRows ==
  ASSUME NEW stored \in Rows, NEW r, InOrder(stored, r)
  PROVE  RowsAfter(r) \in Rows /\ r.rows = stored
<1>1. r.rows = stored /\ r.ws.puts \in [Keys -> Scalars \cup {None}]
  BY DEF InOrder, BufferOK
<1> QED BY <1>1 DEF RowsAfter, Rows

\* A whole program is refused exactly when a step of it is, and otherwise leaves what its steps
\* mean one after the other.
THEOREM RunIs ==
  ASSUME IsFiniteSet(Tables), IsFiniteSet(Ids),
         NEW stored \in Rows, NEW program \in Seq(Steps), Defined(program)
  PROVE  LET r == Run(stored, program)
         IN  /\ r.ok <=> \A i \in DOMAIN program : Allowed(program[i])
             /\ r.ok => RowsAfter(r) = FoldLeft(Effect, stored, program)
<1> DEFINE r == Run(stored, program)
           seen == FoldLeft(Effect, stored, program)
<1>1. InOrder(stored, r) /\ After(stored, program, r, seen, Len(program))
  BY RunInOrder, RunShows
<1>2. DOMAIN program = 1..Len(program)
  OBVIOUS
<1> HIDE DEF r, seen
<1>3. r.ok \in BOOLEAN /\ r.rows = stored /\ BufferOK(r.rows, r.ws) /\ r.rows \in Rows
  BY <1>1 DEF InOrder
<1>4. r.ok <=> \A i \in DOMAIN program : Allowed(program[i])
  BY <1>1, <1>2, <1>3 DEF After
<1>5. ASSUME r.ok PROVE RowsAfter(r) = seen
  <2>1. seen \in Rows /\ Shows(stored, r.ws, seen)
    BY <1>1, <1>2, <1>4, <1>5 DEF After
  <2> QED BY <1>3, <2>1, FlushIsSeen DEF Shows
<1> QED BY <1>4, <1>5 DEF r, seen

\* The rows a transaction changes are among the ones it writes.
LEMMA Unwritten ==
  ASSUME NEW stored \in Rows, NEW r, InOrder(stored, r), NEW k \in Keys, k \notin Written(r)
  PROVE  RowsAfter(r)[k] = stored[k]
<1>1. r.rows = stored
  BY DEF InOrder
<1> QED BY <1>1 DEF Written, RowsAfter

\* The change list names each written row once, with the rows before and after.
ChangesOf(stored, r, list) ==
  /\ {list[i].key : i \in DOMAIN list} = Written(r)
  /\ \A i, j \in DOMAIN list : list[i].key = list[j].key => i = j
  /\ \A i \in DOMAIN list : /\ list[i].key \in Keys /\ list[i].before = stored[list[i].key]
                            /\ list[i].after = RowsAfter(r)[list[i].key]

LEMMA ChangesAre ==
  ASSUME NEW stored \in Rows, NEW r, InOrder(stored, r)
  PROVE  ChangesOf(stored, r, Changes(r))
<1> DEFINE q == r.ws.before
           kept == {i \in DOMAIN q : q[i].key \in Written(r)}
           out == Filtered(q, kept)
           change(x) == [key |-> x.key, before |-> x.row, after |-> RowsAfter(r)[x.key]]
           list == [i \in DOMAIN out |-> change(out[i])]
<1>1. BufferOK(stored, r.ws) /\ r.rows = stored
  BY DEF InOrder
<1>2. q \in Seq(Images) /\ DOMAIN q = 1..Len(q) /\ kept \in SUBSET (1..Len(q))
  BY <1>1 DEF BufferOK
<1>3. /\ \A i \in DOMAIN q : q[i] \in Images /\ q[i].key \in Keys /\ q[i].row = stored[q[i].key]
      /\ \A i, j \in DOMAIN q : q[i].key = q[j].key => i = j
  <2>1. \A i \in DOMAIN q : q[i] \in Images
    <3> HIDE DEF q
    <3> QED BY <1>2
  <2>2. \A i \in DOMAIN q : q[i].key \in Keys
    <3> HIDE DEF q
    <3> QED BY <2>1 DEF Images
  <2>3. /\ \A i \in DOMAIN q : q[i].row = stored[q[i].key]
        /\ \A i, j \in DOMAIN q : q[i].key = q[j].key => i = j
    BY <1>1 DEF BufferOK
  <2> HIDE DEF q
  <2> QED BY <2>1, <2>2, <2>3
<1>4. \A k \in Written(r) : \E i \in DOMAIN q : q[i].key = k
  BY <1>1 DEF Written, BufferOK, Touched
<1>5. PICK m, e : Sieved(q, kept, m, e, out)
  <2> HIDE DEF q, kept
  <2> QED BY <1>2, FilteredIs
<1>6. /\ m \in Nat /\ e \in [1..m -> kept] /\ out = [i \in 1..m |-> q[e[i]]]
      /\ \A i, j \in 1..m : i < j => e[i] < e[j]
      /\ \A p \in kept : \E i \in 1..m : e[i] = p
  <2> HIDE DEF out, kept
  <2> QED BY <1>5 DEF Sieved
<1>7. \A i \in 1..m : e[i] \in kept /\ e[i] \in DOMAIN q /\ e[i] \in Int /\ q[e[i]].key \in Written(r)
  BY <1>2, <1>6
<1>8. \A i, j \in 1..m : e[i] = e[j] => i = j
  <2> SUFFICES ASSUME NEW i \in 1..m, NEW j \in 1..m, e[i] = e[j], i # j PROVE FALSE
    OBVIOUS
  <2>1. i < j \/ j < i
    BY <1>6
  <2> QED BY <1>6, <1>7, <2>1
<1>9. Changes(r) = list
  BY DEF Changes
<1>10. DOMAIN out = 1..m /\ \A i \in 1..m : out[i] = q[e[i]]
  BY <1>6
<1> HIDE DEF out, kept
<1>11. DOMAIN list = 1..m
  BY <1>10
<1>12. \A i \in 1..m : list[i].key = q[e[i]].key /\ list[i].before = q[e[i]].row
                       /\ list[i].after = RowsAfter(r)[q[e[i]].key]
  BY <1>10
<1> HIDE DEF list, q
<1>13. {list[i].key : i \in 1..m} = Written(r)
  <2>1. \A i \in 1..m : list[i].key \in Written(r)
    BY <1>7, <1>12
  <2>2. ASSUME NEW k \in Written(r) PROVE \E i \in 1..m : list[i].key = k
    <3>1. PICK p \in DOMAIN q : q[p].key = k
      BY <1>4
    <3>2. p \in kept
      BY <3>1 DEF kept
    <3>3. PICK i \in 1..m : e[i] = p
      BY <1>6, <3>2
    <3> QED BY <1>12, <3>1, <3>3
  <2> QED BY <2>1, <2>2
<1>14. \A i, j \in 1..m : list[i].key = list[j].key => i = j
  BY <1>3, <1>7, <1>8, <1>12
<1>15. \A i \in 1..m : /\ list[i].key \in Keys /\ list[i].before = stored[list[i].key]
                      /\ list[i].after = RowsAfter(r)[list[i].key]
  BY <1>3, <1>7, <1>12
<1> QED BY <1>9, <1>11, <1>13, <1>14, <1>15 DEF ChangesOf
===============================================================================
