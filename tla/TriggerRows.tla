----------------------------- MODULE TriggerRows -----------------------------
(***************************************************************************)
(* The rows that LagoDB keeps for AFTER ROW triggers of one backend        *)
(* (trigger_rows.rs, trigger_rows/store.rs).  PostgreSQL queues a ctid per *)
(* row event and fetches the row by it when the statement has changed its  *)
(* last row.  The rows of a statement are in a tuplestore per relation,    *)
(* read forward once; its ctids are tokens no other row of the backend     *)
(* gets.                                                                   *)
(*                                                                         *)
(* A trigger function may run further statements and COPY commands on the  *)
(* same relations, in subtransactions that may fail; the statement stack   *)
(* has the innermost one last.                                             *)
(***************************************************************************)
EXTENDS Integers, Sequences, FiniteSets
LOCAL INSTANCE SequencesExt

CONSTANTS
  Relations,      \* the relations with AFTER ROW triggers
  Triggers,       \* the number of AFTER ROW triggers each of them has
  OffsetBase,     \* OFFSET_BASE: row offsets of one block
  BlockBase,      \* TRIGGER_ROW_BLOCK_BASE: first block of the tokens
  MaxBlock,       \* u32::MAX
  MaxStatements,  \* bound: statements of one behaviour
  MaxLevel        \* bound: transaction nest level

VARIABLES
  next,           \* NEXT_TRIGGER_ROW_TOKEN
  active,         \* ACTIVE_STORES with the stores it points to, oldest first
  statements,     \* the running statements, innermost last
  level,          \* GetCurrentTransactionNestLevel()
  kept,           \* history: rows kept so far, also their identities
  started,        \* history: statements so far, also their identities
  fetched         \* history: the rows the last trigger was to get and those it got

vars == <<next, active, statements, level, kept, started, fetched>>

-----------------------------------------------------------------------------
(* TriggerRowId.                                                           *)

MaxToken == (MaxBlock - BlockBase + 1) * OffsetBase

Encode(token) == <<BlockBase + (token \div OffsetBase), (token % OffsetBase) + 1>>

Token(id) == (id[1] - BlockBase) * OffsetBase + (id[2] - 1)

IsEncoded(id) == id[2] # 0 /\ id[1] >= BlockBase

\* allocate fails before n more tokens are given out.
TokensExhausted(n) == next + n > MaxToken

-----------------------------------------------------------------------------
(* TriggerRowStore.  A stored row is its ctid and the row; committed is    *)
(* read pointer 0, cur and prev are the cached rows, absent or one.        *)

NewStore(owner, rel) ==
  [owner |-> owner, rel |-> rel, rows |-> <<>>, committed |-> 0, cur |-> <<>>,
   prev |-> <<>>]

\* The probe loop: the first row past the committed pointer whose token is not
\* below the one looked for, or one past the end.
Probe(store, id) ==
  LET stops == {i \in store.committed+1..Len(store.rows) :
                  Token(store.rows[i][1]) >= Token(id)}
  IN  IF stops = {} THEN Len(store.rows) + 1
      ELSE CHOOSE i \in stops : \A j \in stops : i <= j

Cached(cell, id) == cell # <<>> /\ cell[1][1] = id

Holds(store, id) ==
  \/ Cached(store.cur, id)
  \/ Cached(store.prev, id)
  \/ LET i == Probe(store, id) IN i <= Len(store.rows) /\ store.rows[i][1] = id

RowOf(store, id) ==
  IF Cached(store.cur, id) THEN store.cur[1][2]
  ELSE IF Cached(store.prev, id) THEN store.prev[1][2]
  ELSE store.rows[Probe(store, id)][2]

\* Faulty variant: keeps only the last row.
ForgetsPrevious(store, id) ==
  IF Cached(store.cur, id) \/ Cached(store.prev, id) THEN store
  ELSE [store EXCEPT !.committed = Probe(store, id),
                     !.cur = <<store.rows[Probe(store, id)]>>]

\* The store after it returned the row.  A store that misses is left as it was.
AfterFetch(store, id) ==
  IF Cached(store.cur, id) \/ Cached(store.prev, id) THEN store
  ELSE [store EXCEPT !.committed = Probe(store, id),
                     !.prev = store.cur,
                     !.cur = <<store.rows[Probe(store, id)]>>]

-----------------------------------------------------------------------------
(* fetch: the stores of the relation are tried, the newest first.          *)

Missing == 0

FetchStep(rel, acc, id) ==
  LET holders == {i \in 1..Len(acc.stores) : acc.stores[i].rel = rel
                                             /\ Holds(acc.stores[i], id)}
      i == CHOOSE i \in holders : \A j \in holders : j <= i
  IN  IF holders = {} THEN [acc EXCEPT !.rows = Append(@, Missing)]
      ELSE [stores |-> [acc.stores EXCEPT ![i] = AfterFetch(@, id)],
            rows   |-> Append(acc.rows, RowOf(acc.stores[i], id))]

\* The ctids of one event, OLD before NEW.
FetchAll(rel, ids) ==
  FoldLeft(LAMBDA acc, id : FetchStep(rel, acc, id),
           [stores |-> active, rows |-> <<>>], ids)

-----------------------------------------------------------------------------
(* Statements.                                                             *)

Top == statements[Len(statements)]

\* The innermost statement has control: the functions it called have returned.
Running == statements # <<>> /\ Top.level = level

NothingFetched == [wanted |-> <<>>, got |-> <<>>]

Init ==
  /\ next = 0
  /\ active = <<>>
  /\ statements = <<>>
  /\ level = 1
  /\ kept = 0
  /\ started = 0
  /\ fetched = NothingFetched

\* A statement, or a COPY, which binds the store of its relation at once.
Begin ==
  /\ started < MaxStatements
  /\ started' = started + 1
  /\ \E copy \in {<<>>} \cup {<<r>> : r \in Relations} :
       /\ statements' = Append(statements,
            [id |-> started + 1, level |-> level, copy |-> copy, phase |-> "rows",
             events |-> <<>>, fired |-> 0])
       /\ active' = IF copy = <<>> THEN active
                    ELSE Append(active, NewStore(started + 1, copy[1]))
  /\ fetched' = NothingFetched
  /\ UNCHANGED <<next, level, kept>>

\* What an error leaves: the statements of the subtransaction, or all of them,
\* are abandoned and their stores unregistered.
Abandon(target) ==
  /\ statements' = SelectSeq(statements, LAMBDA s : s.level < target)
  /\ active' = SelectSeq(active, LAMBDA a : \E s \in Range(statements') : s.id = a.owner)
  /\ level' = IF target > 1 THEN target - 1 ELSE 1

\* The identities and the rows of the next n rows to be kept.
NextIds(n) == [k \in 1..n |-> Encode(next + k - 1)]
NextRows(n) == [k \in 1..n |-> kept + k]

\* TriggerRelationRows::preserve for n rows, in the store the innermost
\* statement has for the relation or a new one, and the events queued for them.
Preserve(rel, n, events) ==
  LET mine == {i \in 1..Len(active) : active[i].owner = Top.id /\ active[i].rel = rel}
      all  == IF mine = {} THEN Append(active, NewStore(Top.id, rel)) ELSE active
      at   == IF mine = {} THEN Len(all) ELSE CHOOSE i \in mine : TRUE
  IN  /\ Running
      /\ Top.phase = "rows"
      /\ IF TokensExhausted(n)
         THEN /\ Abandon(level)
              /\ next' = MaxToken
              /\ kept' = kept
         ELSE /\ active' = [all EXCEPT ![at].rows =
                              @ \o [k \in 1..n |-> <<NextIds(n)[k], NextRows(n)[k]>>]]
              /\ statements' = [statements EXCEPT ![Len(statements)].events =
                                  @ \o events]
              /\ next' = next + n
              /\ kept' = kept + n
              /\ level' = level
      /\ fetched' = NothingFetched
      /\ UNCHANGED started

\* The epilogue of a row of ModifyTable: OLD, NEW or, for UPDATE, OLD and then
\* NEW are kept.  A WHEN condition may leave the event out.
ModifyRow ==
  \E rel \in Relations, n \in 1..2, queued \in BOOLEAN :
    /\ statements # <<>> /\ Top.copy = <<>>
    /\ Preserve(rel, n,
         IF queued THEN <<[rel |-> rel, ids |-> NextIds(n), rows |-> NextRows(n)]>>
         ELSE <<>>)

\* preserve_batch of COPY: a buffer of rows is kept, then an event queued for
\* each.
CopyRows ==
  \E n \in 1..2 :
    /\ statements # <<>> /\ Top.copy # <<>>
    /\ Preserve(Top.copy[1], n,
         [k \in 1..n |-> [rel |-> Top.copy[1], ids |-> <<NextIds(n)[k]>>,
                          rows |-> <<NextRows(n)[k]>>]])

\* The last row is done and AfterTriggerEndQuery starts.
EndRows ==
  /\ Running
  /\ Top.phase = "rows"
  /\ statements' = [statements EXCEPT ![Len(statements)].phase = "after"]
  /\ fetched' = NothingFetched
  /\ UNCHANGED <<next, active, level, kept, started>>

AllFired == Top.fired = Len(Top.events) * Triggers

\* AfterTriggerExecute: one trigger of one event, in the order they were queued.
\* What its function does comes after.
Fire ==
  /\ Running
  /\ Top.phase = "after"
  /\ ~AllFired
  /\ LET event == Top.events[(Top.fired \div Triggers) + 1]
         found == FetchAll(event.rel, event.ids)
     IN  /\ active' = found.stores
         /\ fetched' = [wanted |-> event.rows, got |-> found.rows]
  /\ statements' = [statements EXCEPT ![Len(statements)].fired = @ + 1]
  /\ UNCHANGED <<next, level, kept, started>>

\* ExecutorEnd, or the end of COPY: the statement's stores are closed.
End ==
  /\ Running
  /\ Top.phase = "after"
  /\ AllFired
  /\ statements' = SubSeq(statements, 1, Len(statements) - 1)
  /\ active' = SelectSeq(active, LAMBDA a : a.owner # Top.id)
  /\ fetched' = NothingFetched
  /\ UNCHANGED <<next, level, kept, started>>

StartSub ==
  /\ level < MaxLevel
  /\ level' = level + 1
  /\ fetched' = NothingFetched
  /\ UNCHANGED <<next, active, statements, kept, started>>

ReleaseSub ==
  /\ level > 1
  /\ \A s \in Range(statements) : s.level < level
  /\ level' = level - 1
  /\ fetched' = NothingFetched
  /\ UNCHANGED <<next, active, statements, kept, started>>

\* An error anywhere: the innermost subtransaction or the transaction aborts.
Fail ==
  /\ Abandon(level)
  /\ fetched' = NothingFetched
  /\ UNCHANGED <<next, kept, started>>

Next ==
  \/ Begin
  \/ ModifyRow
  \/ CopyRows
  \/ EndRows
  \/ Fire
  \/ End
  \/ StartSub
  \/ ReleaseSub
  \/ Fail

Spec == Init /\ [][Next]_vars

-----------------------------------------------------------------------------
(* Properties.                                                             *)

\* Every ctid given out is one of the reserved blocks and not beyond the last.
TypeOK ==
  /\ next \in 0..MaxToken
  /\ level \in 1..MaxLevel
  /\ \A a \in Range(active) : \A r \in Range(a.rows) :
       IsEncoded(r[1]) /\ r[1][1] \in BlockBase..MaxBlock /\ r[1][2] \in 1..OffsetBase

\* Every trigger of every event gets exactly the OLD and NEW rows its event was
\* queued for: the forward-only store and its two cached rows are enough for any
\* number of triggers per row, rows without an event, and statements that
\* trigger functions run in between, whether they complete or fail.  For that the
\* registered stores are those of the running statements, one per relation at
\* most: neither an error nor the end of a nested statement leaves a store behind
\* or takes one of an outer statement away.
TriggersGetTheirRows ==
  /\ fetched.got = fetched.wanted
  /\ \A i \in 1..Len(active) :
       /\ \E s \in Range(statements) : s.id = active[i].owner
       /\ \A j \in 1..Len(active) :
            i # j => <<active[i].owner, active[i].rel>> # <<active[j].owner, active[j].rel>>
  /\ \A s \in Range(statements) : \A k \in 1..Len(s.events) :
       \E a \in Range(active) : a.owner = s.id /\ a.rel = s.events[k].rel
=============================================================================
