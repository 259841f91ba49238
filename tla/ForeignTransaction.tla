-------------------------- MODULE ForeignTransaction --------------------------
(***************************************************************************)
(* The changes one PostgreSQL transaction makes to tables of external      *)
(* Iceberg catalogs through foreign tables (foreign_table/transaction.rs   *)
(* and transaction/*.rs): staged creates and their generations, writes,    *)
(* savepoints, the admission at pre-commit, and the publication after the  *)
(* local commit.                                                           *)
(*                                                                         *)
(* The external catalogs change on their own as well.  An error of a       *)
(* statement changes nothing here but by the rollback that follows it, so  *)
(* error returns are guards and the rollback an action of its own.         *)
(***************************************************************************)
EXTENDS Integers, Sequences, FiniteSets
LOCAL INSTANCE SequencesExt

CONSTANTS
  Servers,     \* foreign servers, numbers as OIDs are
  RestServers, \* those whose catalog is a REST catalog; the others are SQLite
  Users,       \* effective users, numbers
  Tables,      \* table identifiers on a server
  MaxLevel,    \* bound: transaction nest level
  Workloads    \* bound: how much of each operation a behaviour has, a set of
               \* records [creates, drops, writes, subs, invalidations, others]

VARIABLES
  left,        \* what is left of the workload
  phase,       \* "active", "admitted", "publishing", "over", or "detached" after
               \* PREPARE TRANSACTION
  level,       \* GetCurrentTransactionNestLevel()
  remote,      \* [<<server, table>> -> uuid]: the external catalogs
  rels,        \* PostgreSQL's catalog: the foreign tables of the transaction
  states,      \* ForeignTableState of every enrolled key <<server, user, table>>
  enrolled,    \* identities <<server, user>> with a CatalogTransactionState
  invalid,     \* those that are invalidated
  prepared,    \* publications waiting for the local commit
  canceled,    \* files registered for removal at commit
  sent,        \* publications sent, with their outcome
  uuids,       \* table uuids and relation OIDs given out
  made,        \* history: [file, uuid] of statements that no rollback undid
  files,       \* files written so far
  saved        \* history: what each savepoint is to restore

vars == <<left, phase, level, remote, rels, states, enrolled, invalid, prepared,
          canceled, sent, uuids, made, files, saved>>

Tx == INSTANCE ActionLog WITH Batch <- Nat, Tag <- {}, NoTag <- 0

Sites      == Servers \X Tables
Keys       == Servers \X Users \X Tables
IdentityOf(key) == <<key[1], key[2]>>
SiteOf(key)     == <<key[1], key[3]>>

NoTable == 0     \* no such table in the external catalog
NoRel   == 0     \* a published table has no staged relation; also stands for
                 \* the relations of earlier transactions
Active  == 0     \* dropped_at None

-----------------------------------------------------------------------------
(* ForeignTableGeneration and ForeignTableState.  A generation keeps the   *)
(* uuid of its base.  StagedRelation::created_at is read by no code.       *)

Published(uuid) ==
  [base |-> uuid, staged |-> FALSE, nest |-> 0, rel |-> NoRel, dropped |-> Active,
   txn |-> Tx!NewTxn]

Staged(uuid, rel, l) ==
  [base |-> uuid, staged |-> TRUE, nest |-> l, rel |-> rel, dropped |-> Active,
   txn |-> Tx!NewTxn]

NewState(generation) == [current |-> generation, superseded |-> <<>>]

ActiveStaged(g) == g.staged /\ g.dropped = Active

HasCatalogChanges(s) ==
  IF s.current.staged THEN ActiveStaged(s.current)
  ELSE ~Tx!IsEmpty(s.current.txn.log)

HasTransactionalState(s) ==
  s.current.staged \/ s.superseded # <<>> \/ ~Tx!IsEmpty(s.current.txn.log)

FilesOf(g) ==
  UNION {Range(g.txn.log[i].batches) : i \in 1..Len(g.txn.log)}

\* Faulty variant: only the dropped generation itself is canceled.
CanceledCurrent(s) ==
  IF s.current.staged /\ ~ActiveStaged(s.current) THEN FilesOf(s.current) ELSE {}

\* canceled_files.
CanceledFiles(s) ==
  UNION {FilesOf(s.superseded[i].generation) : i \in 1..Len(s.superseded)}
  \cup (IF s.current.staged /\ ~ActiveStaged(s.current) THEN FilesOf(s.current) ELSE {})

Dropped(s, l) ==
  [s EXCEPT !.current.dropped = l,
            !.current.txn = Tx!Recorded(@, l, Tx!WithAction(@.log, "drop", 0))]

Replaced(s, generation, l) ==
  [current    |-> generation,
   superseded |-> Append(s.superseded, [at |-> l, generation |-> s.current])]

\* Faulty variant: asks the newest generation, not the oldest.
NewestStagedAtOrAfter(s, l) == s.current.staged /\ s.current.nest >= l

StagedAtOrAfter(s, l) ==
  LET oldest == IF s.superseded = <<>> THEN s.current ELSE s.superseded[1].generation
  IN  oldest.staged /\ oldest.nest >= l

\* rollback_to_level: replacements of the level are undone, then the generation
\* that is current again goes back itself.
RolledBack(s, l) ==
  LET kept == {0} \cup {i \in 1..Len(s.superseded) : s.superseded[i].at < l}
      n == CHOOSE i \in kept : \A j \in kept : j <= i
      g == IF n = Len(s.superseded) THEN s.current ELSE s.superseded[n+1].generation
  IN  [current    |-> [g EXCEPT !.dropped = IF @ >= l THEN Active ELSE @,
                                !.txn = Tx!RollbackTxn(@, l)],
       superseded |-> SubSeq(s.superseded, 1, n)]

PromotedGeneration(g, l) ==
  [g EXCEPT !.nest = Tx!Reparented(@, l), !.dropped = Tx!Reparented(@, l),
            !.txn = Tx!PromoteTxn(@, l)]

\* promote_to_level.
Promoted(s, l) ==
  [current    |-> PromotedGeneration(s.current, l),
   superseded |-> [i \in 1..Len(s.superseded) |->
                     [at |-> Tx!Reparented(s.superseded[i].at, l),
                      generation |-> PromotedGeneration(s.superseded[i].generation, l)]]]

-----------------------------------------------------------------------------
(* Statements.                                                             *)

Init ==
  /\ left \in Workloads
  /\ phase = "active"
  /\ level = 1
  /\ remote \in [Sites -> {NoTable, 1}]
  /\ rels = {[oid |-> NoRel, site |-> site, staged |-> FALSE] : site \in Sites}
  /\ states = << >>
  /\ enrolled = {} /\ invalid = {}
  /\ prepared = <<>> /\ canceled = {} /\ sent = <<>>
  /\ uuids = 1
  /\ made = {} /\ files = 0 /\ saved = <<>>

Spend(budget) ==
  /\ phase = "active"
  /\ left[budget] > 0
  /\ left' = [left EXCEPT ![budget] = @ - 1]

Put(key, s) == [k \in DOMAIN states \cup {key} |-> IF k = key THEN s ELSE states[k]]

OnSite(site) == {k \in DOMAIN states : SiteOf(k) = site}

\* Faulty variant: only the role's own state counts.
OwnActive(key) == key \in DOMAIN states /\ ActiveStaged(states[key].current)

\* staged_create_disposition is ActiveStaged: some role's active staged create.
SiteActive(key) == \E k \in OnSite(SiteOf(key)) : ActiveStaged(states[k].current)

\* staged_create_disposition is Published.
SitePublished(key) == \E k \in OnSite(SiteOf(key)) : ~states[k].current.staged

\* CREATE FOREIGN TABLE: binds a table that exists, stages one that does not.
Create ==
  /\ Spend("creates")
  /\ \E key \in Keys :
       /\ ~SiteActive(key)
       /\ IdentityOf(key) \notin invalid
       /\ uuids' = uuids + 1
       /\ \/ /\ remote[SiteOf(key)] # NoTable
             /\ rels' = rels \cup {[oid |-> uuids', site |-> SiteOf(key), staged |-> FALSE]}
             /\ UNCHANGED <<states, enrolled>>
          \/ /\ remote[SiteOf(key)] = NoTable
             /\ ~SitePublished(key)
             /\ rels' = rels \cup {[oid |-> uuids', site |-> SiteOf(key), staged |-> TRUE]}
             /\ LET g == Staged(uuids', uuids', level)
                IN  states' = Put(key, IF key \in DOMAIN states
                                       THEN Replaced(states[key], g, level)
                                       ELSE NewState(g))
             /\ enrolled' = enrolled \cup {IdentityOf(key)}
  /\ UNCHANGED <<phase, level, remote, invalid, prepared, canceled, sent, made, files, saved>>

\* DROP FOREIGN TABLE cancels the staged create of the relation.
Drop ==
  /\ Spend("drops")
  /\ \E r \in rels :
       /\ rels' = rels \ {r}
       /\ states' = [k \in DOMAIN states |->
            IF states[k].current.staged /\ states[k].current.rel = r.oid
            THEN Dropped(states[k], level) ELSE states[k]]
  /\ UNCHANGED <<phase, level, remote, enrolled, invalid, prepared, canceled, sent,
                 uuids, made, files, saved>>

StagedFor(key, oid) ==
  key \in DOMAIN states /\ ActiveStaged(states[key].current) /\ states[key].current.rel = oid

StagedForOther(key, oid) ==
  \E k \in DOMAIN states : k[1] = key[1] /\ k[2] # key[2] /\ StagedFor(k, oid)

\* Faulty variant: takes whatever the catalog has now.
AnyGeneration(key, base) == TRUE

\* is_same_generation, where the key is enrolled.
SameGeneration(key, base) == key \in DOMAIN states => states[key].current.base = base

\* begin_write and, for a statement that wrote a file, stage_batch.  The table
\* is the staged one of the relation, or the one the catalog has.
Write ==
  /\ Spend("writes")
  /\ \E r \in rels, u \in Users, wrote \in BOOLEAN :
       LET key  == <<r.site[1], u, r.site[2]>>
           mine == StagedFor(key, r.oid)
           base == IF mine THEN states[key].current.base ELSE remote[r.site]
           s    == IF key \in DOMAIN states THEN states[key] ELSE NewState(Published(base))
       IN  /\ IdentityOf(key) \notin invalid
           /\ mine \/ (~StagedForOther(key, r.oid) /\ base # NoTable)
           /\ SameGeneration(key, base)
           /\ enrolled' = enrolled \cup {IdentityOf(key)}
           /\ files' = files + (IF wrote THEN 1 ELSE 0)
           /\ made' = IF wrote THEN made \cup {[file |-> files', uuid |-> base]} ELSE made
           /\ states' = Put(key,
                IF wrote THEN [s EXCEPT !.current.txn =
                                 Tx!Recorded(@, level, Tx!WithBatch(@.log, files'))]
                ELSE s)
  /\ UNCHANGED <<phase, level, remote, rels, invalid, prepared, canceled, sent, uuids, saved>>

\* ALTER SERVER or ALTER USER MAPPING, of this or another session: the observer
\* marks the catalogs of the server or of one user's mapping.
Invalidate ==
  /\ Spend("invalidations")
  /\ \E hit \in {{i \in enrolled : i[1] = srv} : srv \in Servers} \cup {{i} : i \in enrolled} :
       invalid' = invalid \cup hit
  /\ UNCHANGED <<phase, level, remote, rels, states, enrolled, prepared, canceled, sent,
                 uuids, made, files, saved>>

\* Another client of the external catalog creates or drops a table.
Other ==
  /\ phase \notin {"over", "detached"}
  /\ left.others > 0
  /\ left' = [left EXCEPT !.others = @ - 1]
  /\ uuids' = uuids + 1
  /\ \E site \in Sites :
       remote' = [remote EXCEPT ![site] = IF @ = NoTable THEN uuids' ELSE NoTable]
  /\ UNCHANGED <<phase, level, rels, states, enrolled, invalid, prepared, canceled,
                 sent, made, files, saved>>

-----------------------------------------------------------------------------
(* Subtransactions.                                                        *)

\* What a reader of the transaction can tell of its own changes.
View ==
  {[key |-> k, base |-> states[k].current.base, rel |-> states[k].current.rel,
    active |-> ActiveStaged(states[k].current), files |-> FilesOf(states[k].current)] :
     k \in {j \in DOMAIN states : HasTransactionalState(states[j])}}

StartSub ==
  /\ Spend("subs")
  /\ level < MaxLevel
  /\ level' = level + 1
  /\ saved' = Append(saved, [rels |-> rels, made |-> made, view |-> View])
  /\ UNCHANGED <<phase, remote, rels, states, enrolled, invalid, prepared, canceled,
                 sent, uuids, made, files>>

\* on_commit_sub.
ReleaseSub ==
  /\ phase = "active"
  /\ level > 1
  /\ states' = [k \in DOMAIN states |-> Promoted(states[k], level)]
  /\ level' = level - 1
  /\ saved' = SubSeq(saved, 1, Len(saved) - 1)
  /\ UNCHANGED <<left, phase, remote, rels, enrolled, invalid, prepared, canceled, sent,
                 uuids, made, files>>

\* on_abort_sub: states whose oldest generation the subtransaction staged go,
\* the others go back.  PostgreSQL restores its own catalog.
RollbackSub ==
  /\ phase = "active"
  /\ level > 1
  /\ states' = [k \in {j \in DOMAIN states : ~StagedAtOrAfter(states[j], level)} |->
                  RolledBack(states[k], level)]
  /\ LET at == saved[Len(saved)]
     IN  rels' = at.rels /\ made' = at.made
  /\ level' = level - 1
  /\ saved' = SubSeq(saved, 1, Len(saved) - 1)
  /\ UNCHANGED <<left, phase, remote, enrolled, invalid, prepared, canceled, sent, uuids,
                 files>>

-----------------------------------------------------------------------------
(* The end of the transaction.                                             *)

ChangesOf(identity) ==
  {k \in DOMAIN states : IdentityOf(k) = identity /\ HasCatalogChanges(states[k])}

ChangeOf(k) ==
  [key |-> k, create |-> states[k].current.staged, base |-> states[k].current.base,
   files |-> FilesOf(states[k].current)]

\* sort_unstable_by on server and user.
Before(i, j) == i[1] < j[1] \/ (i[1] = j[1] /\ i[2] < j[2])

\* prepare_publications: a REST catalog gets one request per staged create and
\* then one for all updates, a SQLite catalog one for everything.
RequestsOf(identity) ==
  LET changes == {ChangeOf(k) : k \in ChangesOf(identity)}
      creates == {c \in changes : c.create}
      All(set) == IF set = {} THEN <<>> ELSE <<set>>
  IN  IF identity[1] \in RestServers
      THEN SetToSeq({{c} : c \in creates}) \o All(changes \ creates)
      ELSE All(changes)

\* prepare_publication, admitted: no catalog with changes is invalidated.
PreCommit ==
  /\ phase = "active"
  /\ level = 1
  /\ \A i \in invalid : ChangesOf(i) = {}
  /\ canceled' = UNION {CanceledFiles(states[k]) : k \in DOMAIN states}
  /\ prepared' = FlattenSeq([n \in 1..Cardinality(enrolled) |->
                   RequestsOf(SetToSortSeq(enrolled, Before)[n])])
  /\ phase' = "admitted"
  /\ UNCHANGED <<left, level, remote, rels, states, enrolled, invalid, sent, uuids, made,
                 files, saved>>

\* The local commit, after which nothing can abort.
LocalCommit ==
  /\ phase = "admitted"
  /\ phase' = "publishing"
  /\ UNCHANGED <<left, level, remote, rels, states, enrolled, invalid, prepared, canceled,
                 sent, uuids, made, files, saved>>

\* on_commit: one request is sent.  It takes effect as a whole or not at all,
\* and a failure may be reported either way; the catalog refuses it when a table
\* is not the one it was prepared for.
Publish ==
  /\ phase = "publishing"
  /\ prepared # <<>>
  /\ LET changes == prepared[1]
         fits == \A c \in changes :
                   remote[SiteOf(c.key)] = IF c.create THEN NoTable ELSE c.base
     IN  \/ /\ fits
            /\ remote' = [site \in Sites |->
                 IF \E c \in changes : c.create /\ SiteOf(c.key) = site
                 THEN (CHOOSE c \in changes : SiteOf(c.key) = site).base
                 ELSE remote[site]]
            /\ \E ok \in BOOLEAN : sent' = Append(sent, [changes |-> changes, ok |-> ok])
         \/ /\ sent' = Append(sent, [changes |-> changes, ok |-> FALSE])
            /\ UNCHANGED remote
  /\ prepared' = Tail(prepared)
  /\ UNCHANGED <<left, phase, level, rels, states, enrolled, invalid, canceled, uuids, made,
                 files, saved>>

\* reset_current.
Reset(end) ==
  /\ phase' = end
  /\ states' = << >>
  /\ enrolled' = {} /\ invalid' = {} /\ prepared' = <<>> /\ canceled' = {}
  /\ UNCHANGED <<left, level, remote, rels, sent, uuids, made, files, saved>>

\* on_commit returns.
Finish ==
  /\ phase = "publishing"
  /\ prepared = <<>>
  /\ Reset("over")

\* ROLLBACK, a failed preparation, or a failure of another pre-commit callback.
Abort ==
  /\ phase \in {"active", "admitted"}
  /\ Reset("over")

\* PREPARE TRANSACTION, where on_pre_prepare accepts it.
Prepare ==
  /\ phase = "active"
  /\ level = 1
  /\ \A k \in DOMAIN states : ~HasTransactionalState(states[k])
  /\ Reset("detached")

Next ==
  \/ Create
  \/ Drop
  \/ Write
  \/ Invalidate
  \/ Other
  \/ StartSub
  \/ ReleaseSub
  \/ RollbackSub
  \/ PreCommit
  \/ LocalCommit
  \/ Publish
  \/ Finish
  \/ Abort
  \/ Prepare

Spec == Init /\ [][Next]_vars

-----------------------------------------------------------------------------
(* Properties.                                                             *)

Generations(s) == {s.current} \cup {s.superseded[i].generation : i \in 1..Len(s.superseded)}

\* The types of the variables; no generation and no replacement is of a level
\* that has ended, or a later savepoint of that level would undo it.
TypeOK ==
  /\ phase \in {"active", "admitted", "publishing", "over", "detached"}
  /\ level \in 1..MaxLevel /\ Len(saved) = level - 1
  /\ invalid \subseteq enrolled
  /\ \A k \in DOMAIN states :
       /\ k \in Keys /\ IdentityOf(k) \in enrolled
       /\ \A g \in Generations(states[k]) : g.nest <= level /\ g.dropped <= level
       /\ \A i \in 1..Len(states[k].superseded) : states[k].superseded[i].at <= level

\* The tracker agrees with PostgreSQL's catalog, which it is not part of: after
\* any creates, drops and savepoints its active staged creates are those of the
\* foreign tables that exist, and a remote table is being created by one role.
StagedMatchesRelations ==
  LET active == {k \in DOMAIN states : ActiveStaged(states[k].current)}
  IN  phase = "active" =>
        /\ {<<states[k].current.rel, SiteOf(k)>> : k \in active}
             = {<<r.oid, r.site>> : r \in {q \in rels : q.staged}}
        /\ \A j, k \in active : SiteOf(j) = SiteOf(k) => j = k

\* Rolling back to a savepoint gives every table back as it was: staged creates
\* that were dropped or replaced since are active again with the files they had.
RollbackRestores == [][RollbackSub => View' = saved[Len(saved)].view]_vars

\* A file is recorded only with the table version its writer read, also when
\* the external table was dropped and created again during the transaction, or
\* a staged create replaced an earlier one.
GenerationsNeverMix ==
  \A k \in DOMAIN states : \A g \in Generations(states[k]) : \A m \in made :
    m.file \in FilesOf(g) => m.uuid = g.base

\* At commit every file of a statement that was not rolled back is in exactly
\* one publication or registered for removal, and every staged create that has
\* its foreign table is in exactly one publication, and no other; and PREPARE
\* TRANSACTION, after which the tracker is gone, is accepted only when the
\* transaction owes neither a publication nor the removal of a file.
EverythingPublishedOnce ==
  LET requests == [i \in 1..Len(sent) |-> sent[i].changes] \o prepared
      At(P(_)) == {i \in 1..Len(requests) : \E c \in requests[i] : P(c)}
      Once(P(_)) == Cardinality(At(P)) = 1
      creates == {c.base : c \in {d \in UNION Range(requests) : d.create}}
  IN  /\ phase \in {"admitted", "publishing"} =>
           /\ \A m \in made :
                IF m.file \in canceled THEN At(LAMBDA c : m.file \in c.files) = {}
                ELSE Once(LAMBDA c : m.file \in c.files)
           /\ canceled \subseteq {m.file : m \in made}
           /\ creates = {r.oid : r \in {q \in rels : q.staged}}
           /\ \A b \in creates : Once(LAMBDA c : c.create /\ c.base = b)
      /\ phase = "detached" => made = {} /\ \A r \in rels : ~r.staged
=============================================================================
