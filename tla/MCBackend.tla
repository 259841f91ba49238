------------------------------ MODULE MCBackend ------------------------------
(***************************************************************************)
(* Instances, for TLC, of the state one backend keeps during a             *)
(* transaction, of an offloaded query with its parallel workers, and of    *)
(* the storage volumes that backends and the storage worker share.         *)
(* The components share no state, so a behaviour is of one of them, the    *)
(* focus, and the variables of the others stay Idle.                       *)
(***************************************************************************)
EXTENDS Integers, Sequences

CONSTANTS
  BaseRows, MaxFiles, MaxDepth, MaxLevel,                           \* RowWrites
  Relations, Triggers, OffsetBase, BlockBase, MaxBlock, MaxStatements, \* TriggerRows
  Servers, RestServers, Users, Tables, MaxNest,                  \* ForeignTransaction
  Sessions, Worker, Names, Spaces, Credentials, Grace, MaxTime,     \* StorageVolumes
  Volumes, Specs, Chained,                                          \* StorageService
  Producers                                                         \* ParallelQuery

VARIABLES
  focus,
  left, level,
  command, txn, cache, registry, bitmap, queries, created, facts, over,
  next, active, statements, kept, started, fetched,
  phase, remote, rels, states, enrolled, invalid, prepared, canceled, sent, uuids,
  made, files, saved,
  config, writing, session, spaces, cached, inval, now, born, gone, orphans,
  desired, unannounced, shared, hup, pc, sweeping, pending, task, server,
  applied, rejected, registered, owed, missed,
  stmt, lead, pg, group, control, worker, waiting, touched

common    == <<focus, left, level>>
rowVars   == <<command, txn, cache, registry, bitmap, queries, created, facts, over>>
trigVars  == <<next, active, statements, kept, started, fetched>>
foreignVars == <<phase, remote, rels, states, enrolled, invalid, prepared, canceled,
                 sent, uuids, made, files, saved>>
volumeVars == <<config, writing, session, spaces, cached, inval, now, born, gone, orphans>>
serviceVars == <<desired, unannounced, shared, hup, pc, sweeping, pending, task, server,
                 applied, rejected, registered, owed, missed>>
queryVars == <<stmt, lead, pg, group, control, worker, waiting, touched>>
vars == <<common, rowVars, trigVars, foreignVars, volumeVars, serviceVars, queryVars>>

-----------------------------------------------------------------------------
RowLoad(q, c, r, s, d, n) ==
  [queries |-> q, claims |-> c, reads |-> r, subs |-> s, ddl |-> d, nodes |-> n]

RowLoads ==
  {RowLoad(1, 3, 0, 0, 0, 2), RowLoad(2, 3, 0, 1, 0, 1), RowLoad(2, 2, 1, 1, 0, 1),
   RowLoad(2, 2, 1, 0, 1, 1), RowLoad(1, 1, 1, 1, 1, 1), RowLoad(3, 2, 0, 1, 0, 1),
   RowLoad(2, 2, 0, 2, 0, 1), RowLoad(2, 2, 0, 1, 0, 2), RowLoad(3, 5, 0, 0, 0, 1)}

ForeignLoad(c, d, w, s, i, o) ==
  [creates |-> c, drops |-> d, writes |-> w, subs |-> s, invalidations |-> i, others |-> o]

ForeignLoads ==
  {ForeignLoad(2, 1, 1, 2, 0, 0), ForeignLoad(2, 2, 1, 1, 0, 0), ForeignLoad(2, 0, 2, 0, 0, 0),
   ForeignLoad(1, 0, 2, 0, 1, 1), ForeignLoad(1, 1, 1, 1, 0, 1), ForeignLoad(0, 0, 2, 1, 0, 2)}

VolumeLoad(c, n, u, r, d, l, f) ==
  [create |-> c, rename |-> n, credential |-> u, repair |-> r, drops |-> d, lookups |-> l,
   faults |-> f]

VolumeLoads ==
  {VolumeLoad(2, 0, 0, 0, 1, 1, 0), VolumeLoad(1, 1, 0, 1, 1, 0, 1),
   VolumeLoad(1, 0, 0, 0, 1, 2, 1), VolumeLoad(1, 0, 1, 0, 1, 0, 0),
   VolumeLoad(1, 0, 0, 0, 2, 0, 1)}

ServiceLoad(c, f, h, s, x) ==
  [changes |-> c, forces |-> f, hups |-> h, stops |-> s, faults |-> x]

ServiceLoads ==
  {ServiceLoad(1, 1, 0, 1, 1), ServiceLoad(0, 1, 1, 0, 1), ServiceLoad(1, 0, 1, 0, 0),
   ServiceLoad(2, 0, 0, 0, 0), ServiceLoad(0, 0, 0, 0, 2)}

QueryLoads ==
  {[rescans |-> 2, errors |-> 0, faults |-> 0], [rescans |-> 1, errors |-> 1, faults |-> 1],
   [rescans |-> 0, errors |-> 1, faults |-> 2]}

R == INSTANCE RowWrites WITH Workloads <- RowLoads
T == INSTANCE TriggerRows
F == INSTANCE ForeignTransaction WITH Workloads <- ForeignLoads, MaxLevel <- MaxNest
V == INSTANCE StorageVolumes WITH Workloads <- VolumeLoads
S == INSTANCE StorageService WITH Workloads <- ServiceLoads
Q == INSTANCE ParallelQuery WITH Workloads <- QueryLoads

-----------------------------------------------------------------------------
Idle == 0

IdleRows ==
  /\ command = Idle /\ txn = Idle /\ cache = Idle /\ registry = Idle /\ bitmap = Idle
  /\ queries = Idle /\ created = Idle /\ facts = Idle /\ over = Idle

IdleTriggers ==
  /\ next = Idle /\ active = Idle /\ statements = Idle /\ kept = Idle
  /\ started = Idle /\ fetched = Idle

IdleForeign ==
  /\ phase = Idle /\ remote = Idle /\ rels = Idle /\ states = Idle /\ enrolled = Idle
  /\ invalid = Idle /\ prepared = Idle /\ canceled = Idle /\ sent = Idle
  /\ uuids = Idle /\ made = Idle /\ files = Idle /\ saved = Idle

IdleVolumes ==
  /\ config = Idle /\ writing = Idle /\ session = Idle /\ spaces = Idle /\ cached = Idle
  /\ inval = Idle /\ now = Idle /\ born = Idle /\ gone = Idle /\ orphans = Idle

IdleService ==
  /\ desired = Idle /\ unannounced = Idle /\ shared = Idle /\ hup = Idle /\ pc = Idle
  /\ sweeping = Idle /\ pending = Idle /\ task = Idle /\ server = Idle /\ applied = Idle
  /\ rejected = Idle /\ registered = Idle /\ owed = Idle /\ missed = Idle

IdleQuery ==
  /\ stmt = Idle /\ lead = Idle /\ pg = Idle /\ group = Idle /\ control = Idle
  /\ worker = Idle /\ waiting = Idle /\ touched = Idle

IdleStorage == IdleVolumes /\ IdleService
IdleBackend == IdleRows /\ IdleTriggers /\ IdleForeign /\ level = Idle

Init ==
  \/ focus = "rows" /\ R!Init /\ IdleTriggers /\ IdleForeign /\ IdleStorage /\ IdleQuery
  \/ /\ focus = "triggers" /\ T!Init /\ left = Idle
     /\ IdleRows /\ IdleForeign /\ IdleStorage /\ IdleQuery
  \/ focus = "foreign" /\ F!Init /\ IdleRows /\ IdleTriggers /\ IdleStorage /\ IdleQuery
  \/ focus = "volumes" /\ V!Init /\ IdleBackend /\ IdleService /\ IdleQuery
  \/ focus = "service" /\ S!Init /\ IdleBackend /\ IdleVolumes /\ IdleQuery
  \/ focus = "query" /\ Q!Init /\ IdleBackend /\ IdleStorage

Next ==
  \/ /\ focus = "rows" /\ R!Next
     /\ UNCHANGED <<focus, trigVars, foreignVars, volumeVars, serviceVars, queryVars>>
  \/ /\ focus = "triggers" /\ T!Next
     /\ UNCHANGED <<focus, left, rowVars, foreignVars, volumeVars, serviceVars, queryVars>>
  \/ /\ focus = "foreign" /\ F!Next
     /\ UNCHANGED <<focus, rowVars, trigVars, volumeVars, serviceVars, queryVars>>
  \/ /\ focus = "volumes" /\ V!Next
     /\ UNCHANGED <<focus, level, rowVars, trigVars, foreignVars, serviceVars, queryVars>>
  \/ /\ focus = "service" /\ S!Next
     /\ UNCHANGED <<focus, level, rowVars, trigVars, foreignVars, volumeVars, queryVars>>
  \/ /\ focus = "query" /\ Q!Next
     /\ UNCHANGED <<focus, level, rowVars, trigVars, foreignVars, volumeVars, serviceVars>>

Spec == Init /\ [][Next]_vars

-----------------------------------------------------------------------------
(* The properties of the components.                                       *)

\* The types of the focused component, among them its limits: no more files than
\* row identities can name (RowWrites), no token outside the range of row
\* identities (TriggerRows), no generation of a level that has ended
\* (ForeignTransaction).
TypeOK ==
  /\ focus = "rows" => R!TypeOK
  /\ focus = "triggers" => T!TypeOK
  /\ focus = "foreign" => F!TypeOK
  /\ focus = "volumes" => V!TypeOK
  /\ focus = "service" => S!TypeOK
  /\ focus = "query" => Q!TypeOK

\* RowWrites: a scan sees what earlier commands of the transaction wrote, and
\* nothing that the running command or a rolled-back one did, through all caches.
ReadersSeeEarlierCommands == focus = "rows" => R!ReadersSeeEarlierCommands

\* RowWrites: no row is updated or deleted twice by one transaction, and the row
\* registry holds the claims of the changes that survive.
RowsClaimedOnce == focus = "rows" => R!RowsClaimedOnce

\* TriggerRows: a queued AFTER ROW trigger gets the rows its event kept, and a
\* store of kept rows lives as long as its statement, also when that fails.
TriggersGetTheirRows == focus = "triggers" => T!TriggersGetTheirRows

\* ForeignTransaction: the staged creates are those of the foreign tables that
\* exist, and a remote table is being created by one role.
StagedMatchesRelations == focus = "foreign" => F!StagedMatchesRelations

\* ForeignTransaction: rolling back to a savepoint restores every table.
RollbackRestores == [][(focus = "foreign" /\ F!RollbackSub) => F!View' = saved[Len(saved)].view]_vars

\* ForeignTransaction: a file is recorded with the table version its writer read.
GenerationsNeverMix == focus = "foreign" => F!GenerationsNeverMix

\* ForeignTransaction: at commit every surviving file and staged create is in
\* exactly one publication, or the file is registered for removal, and PREPARE
\* TRANSACTION is accepted only when nothing is owed.
EverythingPublishedOnce == focus = "foreign" => F!EverythingPublishedOnce

\* StorageVolumes: a backend's cached bindings are those of the volume file, or
\* the message that drops them is on its way.
CachesAreInvalidated == focus = "volumes" => V!CachesAreInvalidated

\* StorageVolumes: a volume keeps its identity and tablespace, retires only after
\* the tablespace's drop is committed, and is purged only after the grace period.
VolumesFollowTablespaces == focus = "volumes" => V!VolumesFollowTablespaces

\* StorageService: no reload request is lost on its way to the store registry.
StoresMatchConfig == focus = "service" => S!StoresMatchConfig

\* ParallelQuery: a worker past the activation gate finds everything the leader
\* prepares, a leader that waits leaves nobody asleep, and nobody uses a detached
\* segment.
WorkersFollowTheLeader == focus = "query" => Q!WorkersFollowTheLeader

\* ParallelQuery: every run has an unused plan for the current parameters, and the
\* parallel context lives exactly as long as the run that owns it.
RunsAreFreshAndOwned == focus = "query" => Q!RunsAreFreshAndOwned
=============================================================================
