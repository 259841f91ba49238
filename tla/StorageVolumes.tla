--------------------------- MODULE StorageVolumes ---------------------------
(***************************************************************************)
(* Storage volumes (lagodb-base/src/storage/volume_config): the file that  *)
(* binds tablespaces to object storage, the SQL functions and the storage  *)
(* worker that rewrite it under one advisory lock, the retirement of a     *)
(* volume when its tablespace is dropped, and the cache of bindings that   *)
(* every backend keeps (lagodb-core/src/storage/tablespace.rs).            *)
(*                                                                         *)
(* The file is replaced by a rename; what follows the rename, telling the  *)
(* backends, is a step of its own.  A volume keeps its location for life,  *)
(* so only the credential that replaced its first is kept.  Permission     *)
(* checks, the syntax of names and locations and the emptiness of a        *)
(* tablespace only decide whether a mutation is refused, which UpdateFails *)
(* allows at any time.                                                     *)
(***************************************************************************)
EXTENDS Integers, FiniteSets, SequencesExt

CONSTANTS
  Sessions, Worker,    \* the backends, and the storage worker
  Names, Spaces,       \* volume names; tablespaces
  Credentials,         \* what a credential may be replaced by
  Grace,               \* storage_volume_retirement_grace_period_ms
  MaxTime,             \* bound on the clock
  Workloads            \* budgets of SQL calls, drops, lookups, faults

VARIABLES
  config,    \* storage-volumes.json
  writing,   \* each process's rewrite of the file: what it will publish, how far it is
  session,   \* what each backend is doing
  spaces,    \* committed tablespaces
  cached,    \* each backend's cached bindings
  inval,     \* backends with an invalidation message to process
  now, left,
  born,      \* history: the tablespace each volume id was created for
  gone,      \* history: when a tablespace was dropped
  orphans    \* history: volumes whose retirement was lost to a failure or a crash

vars == <<config, writing, session, spaces, cached, inval, now, left, born, gone, orphans>>
history == <<born, gone, orphans>>

Writers == Sessions \cup {Worker}
NoVolumes == [n \in {} |-> 0]
Missing == [exists |-> FALSE, next |-> 1, vols |-> NoVolumes]
EmptyConfig == [Missing EXCEPT !.exists = TRUE]
Unloaded == [loaded |-> FALSE, map |-> {}]
NotWriting == [pc |-> "none", locked |-> FALSE, snap |-> Missing]
IdleSession == [pc |-> "idle"]

Spend(what) == left[what] > 0 /\ left' = [left EXCEPT ![what] = @ - 1]

IsBound(v) == v.life = "bound"

\* The bound tablespaces of a snapshot, a missing file having none (binding_snapshot).
Bindings(c) == {<<c.vols[n].space, c.vols[n].id>> : n \in {m \in DOMAIN c.vols : IsBound(c.vols[m])}}

BoundTo(c, sp) == {n \in DOMAIN c.vols : IsBound(c.vols[n]) /\ c.vols[n].space = sp}

Init ==
  /\ config = Missing /\ writing = [w \in Writers |-> NotWriting]
  /\ session = [s \in Sessions |-> IdleSession]
  /\ spaces = Spaces /\ now = 1
  /\ cached = [s \in Sessions |-> Unloaded] /\ inval = {}
  /\ left \in Workloads
  /\ born = <<>> /\ gone = [sp \in {} |-> 0] /\ orphans = {}

-----------------------------------------------------------------------------
(* The mutations of a snapshot.  Each returns the snapshot it leaves; the   *)
(* errors, and repeating what is already so, are the conditions under which *)
(* it leaves it alone.                                                      *)

Created(c, name, sp) ==
  IF name \in DOMAIN c.vols \/ BoundTo(c, sp) # {} THEN c
  ELSE [c EXCEPT !.next = @ + 1,
                 !.vols = [n \in DOMAIN @ \cup {name} |->
                             IF n # name THEN @[n]
                             ELSE [id |-> c.next, space |-> sp, life |-> "bound",
                                   credential |-> {}, made |-> now, purge |-> 0]]]

Renamed(c, old, new) ==
  IF old = new \/ new \in DOMAIN c.vols \/ old \notin DOMAIN c.vols THEN c
  ELSE IF ~IsBound(c.vols[old]) THEN c
  ELSE [c EXCEPT !.vols = [n \in (DOMAIN @ \ {old}) \cup {new} |->
                             IF n = new THEN @[old] ELSE @[n]]]

Recredentialed(c, name, credential) ==
  IF name \in DOMAIN c.vols THEN [c EXCEPT !.vols[name].credential = credential] ELSE c

Max2(a, b) == IF a >= b THEN a ELSE b

\* StorageVolumeLifecycle::retire: the mark is never before the creation.
Retire(v, sp, at) ==
  IF IsBound(v) /\ v.space = sp
  THEN [v EXCEPT !.life = "retiring", !.purge = Max2(at, v.made) + Grace]
  ELSE v

RetiredById(c, id, sp, at) ==
  [c EXCEPT !.vols = [n \in DOMAIN @ |-> IF @[n].id = id THEN Retire(@[n], sp, at) ELSE @[n]]]

\* StorageVolumeControl::repair: the volume is still the one that was examined.
Repaired(c, name, id, sp, at) ==
  IF name \in DOMAIN c.vols /\ c.vols[name].id = id /\ IsBound(c.vols[name])
     /\ c.vols[name].space = sp
  THEN [c EXCEPT !.vols[name] = Retire(@, sp, at)]
  ELSE c

SweptDue(c) ==
  [c EXCEPT !.vols = Restrict(@, {n \in DOMAIN @ : IsBound(@[n]) \/ @[n].purge > now})]

Mutated(c, t) ==
  CASE t.op = "create" -> Created(c, t.name, t.space)
    [] t.op = "rename" -> Renamed(c, t.name, t.arg)
    [] t.op = "credential" -> Recredentialed(c, t.name, t.arg)
    [] t.op = "repair" -> Repaired(c, t.name, t.id, t.space, t.at)
    [] t.op = "retire" -> RetiredById(c, t.id, t.space, now)

-----------------------------------------------------------------------------
(* Rewriting the file: update_locked, then write_snapshot.                  *)

\* Faulty variant of LockFree: the advisory lock does not exclude other writers.
NoLock == TRUE

LockFree == \A w \in Writers : ~writing[w].locked

Retiring(s) == session[s].pc # "idle" /\ session[s].op = "retire"

\* The retirements lost when the sessions ss give up.
LostBy(ss) == {session[s].id : s \in {r \in ss : Retiring(r) /\ writing[r].pc # "published"}}

Finish(s) == session' = [session EXCEPT ![s] = IdleSession]

\* acquire, read and mutate: an error or an unchanged snapshot ends the call.
EnterUpdate(s) ==
  /\ session[s].pc = "update" /\ LockFree
  /\ LET snap == Mutated(config, session[s]) IN
     IF config.exists /\ snap # config
     THEN /\ writing' = [writing EXCEPT ![s] = [pc |-> "read", locked |-> TRUE, snap |-> snap]]
          /\ session' = [session EXCEPT ![s].pc = "writing"]
     ELSE Finish(s) /\ UNCHANGED writing
  /\ UNCHANGED <<config, spaces, cached, inval, now, left, history>>

\* An I/O error before the rename; a retirement only warns of it.
UpdateFails(s) ==
  /\ session[s].pc \in {"update", "writing"} /\ writing[s].pc # "published"
  /\ LockFree \/ writing[s].locked
  /\ Spend("faults") /\ Finish(s)
  /\ writing' = [writing EXCEPT ![s] = NotWriting]
  /\ orphans' = orphans \cup LostBy({s})
  /\ UNCHANGED <<config, spaces, cached, inval, now, born, gone>>

NewIds(snap) == {n \in DOMAIN snap.vols : snap.vols[n].id > Len(born)}

\* The rename.
Publish(w) ==
  /\ writing[w].pc = "read"
  /\ config' = writing[w].snap
  /\ writing' = [writing EXCEPT ![w].pc = "published"]
  /\ born' = born \o SetToSeq({config'.vols[n].space : n \in NewIds(config')})
  /\ UNCHANGED <<session, spaces, cached, inval, now, left, gone, orphans>>

\* Faulty variant of Announce: only the writer's own cache is invalidated.
AnnounceLocally(w) ==
  /\ writing[w].pc = "published"
  /\ writing' = [writing EXCEPT ![w] = NotWriting]
  /\ IF w \in Sessions
     THEN Finish(w) /\ cached' = [cached EXCEPT ![w] = Unloaded]
     ELSE UNCHANGED <<session, cached>>
  /\ UNCHANGED <<config, spaces, inval, now, left, history>>

\* invalidate_all; the lock is given back whether or not the directory sync succeeds.
Announce(w) ==
  /\ writing[w].pc = "published"
  /\ inval' = inval \cup (Sessions \ {w})
  /\ writing' = [writing EXCEPT ![w] = NotWriting]
  /\ IF w \in Sessions
     THEN Finish(w) /\ cached' = [cached EXCEPT ![w] = Unloaded]
     ELSE UNCHANGED <<session, cached>>
  /\ UNCHANGED <<config, spaces, now, left, history>>

-----------------------------------------------------------------------------
(* The SQL functions, up to the call of update.                             *)

Busy(sp, op) == \E s \in Sessions : /\ session[s].pc # "idle"
                                    /\ session[s].op = op /\ session[s].space = sp

Calls(s, task) ==
  /\ session[s].pc = "idle" /\ Spend(task.op)
  /\ session' = [session EXCEPT ![s] = [pc |-> "update"] @@ task]
  /\ UNCHANGED <<config, writing, spaces, cached, inval, now, history>>

\* The administrator keeps tablespace DDL away from a tablespace being bound (binding.rs).
CreateVolume(s) ==
  \E name \in Names, sp \in spaces :
     /\ ~Busy(sp, "drop")
     /\ Calls(s, [op |-> "create", name |-> name, space |-> sp])

RenameVolume(s) ==
  \E old, new \in Names : Calls(s, [op |-> "rename", name |-> old, arg |-> new, space |-> {}])

UpdateCredential(s) ==
  \E name \in Names, credential \in Credentials :
     Calls(s, [op |-> "credential", name |-> name, arg |-> {credential}, space |-> {}])

\* repair reads the file and looks the tablespace up before it asks for the lock.
RepairVolume(s) ==
  \E name \in DOMAIN config.vols :
     LET v == config.vols[name] IN
     /\ IsBound(v) /\ v.space \notin spaces
     /\ Calls(s, [op |-> "repair", name |-> name, id |-> v.id, space |-> v.space, at |-> now])

-----------------------------------------------------------------------------
(* DROP TABLESPACE: the hook stages a retirement, the commit makes the drop *)
(* visible, and only then does on_commit rewrite the file.                  *)

DropHook(s) ==
  \E sp \in spaces :
     /\ session[s].pc = "idle" /\ ~Busy(sp, "create") /\ Spend("drops")
     /\ session' = [session EXCEPT ![s] =
          [pc |-> "dropping", op |-> "drop", space |-> sp,
           ids |-> {config.vols[n].id : n \in BoundTo(config, sp)}]]
     /\ UNCHANGED <<config, writing, spaces, cached, inval, now, history>>

\* What is staged at commit goes on as one update, and a tablespace that is local ends here.
AfterCommit(t) ==
  IF t.ids = {} THEN IdleSession
  ELSE [pc |-> "update", op |-> "retire", space |-> t.space, id |-> CHOOSE i \in t.ids : TRUE]

\* Of two sessions dropping one tablespace the second finds its row deleted.
DropCommit(s) ==
  /\ session[s].pc = "dropping" /\ session[s].space \in spaces
  /\ spaces' = spaces \ {session[s].space}
  /\ gone' = (session[s].space :> now) @@ gone
  /\ session' = [session EXCEPT ![s] = AfterCommit(@)]
  /\ inval' = inval \cup (Sessions \ {s})
  /\ cached' = [cached EXCEPT ![s] = Unloaded]
  /\ UNCHANGED <<config, writing, now, left, born, orphans>>

DropAbort(s) ==
  /\ session[s].pc = "dropping" /\ Finish(s)
  /\ UNCHANGED <<config, writing, spaces, cached, inval, now, left, history>>

-----------------------------------------------------------------------------
(* The storage worker: it creates the file without the lock, and sweeps it  *)
(* when the lock is free.                                                   *)

WorkerWrites(locked, snap) ==
  /\ writing[Worker].pc = "none"
  /\ writing' = [writing EXCEPT ![Worker] = [pc |-> "read", locked |-> locked, snap |-> snap]]
  /\ UNCHANGED <<config, session, spaces, cached, inval, now, left, history>>

InitializeIfMissing == ~config.exists /\ WorkerWrites(FALSE, EmptyConfig)

TrySweep == /\ config.exists /\ LockFree /\ SweptDue(config) # config
            /\ WorkerWrites(TRUE, SweptDue(config))

-----------------------------------------------------------------------------
(* A backend's cache: loaded whole on a lookup, dropped on a message.       *)

Resolve(s) ==
  /\ session[s].pc = "idle" /\ ~cached[s].loaded /\ Spend("lookups")
  /\ cached' = [cached EXCEPT ![s] = [loaded |-> TRUE, map |-> Bindings(config)]]
  /\ UNCHANGED <<config, writing, session, spaces, inval, now, history>>

InvalidateCache(s) ==
  /\ s \in inval /\ inval' = inval \ {s}
  /\ cached' = [cached EXCEPT ![s] = Unloaded]
  /\ UNCHANGED <<config, writing, session, spaces, now, left, history>>

Tick == /\ now < MaxTime /\ now' = now + 1
        /\ UNCHANGED <<config, writing, session, spaces, cached, inval, left, history>>

\* A crash and restart of the server: files and committed transactions stay.
Crash ==
  /\ Spend("faults")
  /\ orphans' = orphans \cup LostBy(Sessions)
  /\ session' = [s \in Sessions |-> IdleSession]
  /\ writing' = [w \in Writers |-> NotWriting]
  /\ cached' = [s \in Sessions |-> Unloaded] /\ inval' = {}
  /\ UNCHANGED <<config, spaces, now, born, gone>>

Next ==
  \/ \E s \in Sessions : \/ CreateVolume(s) \/ RenameVolume(s) \/ UpdateCredential(s)
                         \/ RepairVolume(s) \/ EnterUpdate(s) \/ UpdateFails(s)
                         \/ DropHook(s) \/ DropCommit(s) \/ DropAbort(s)
                         \/ Resolve(s) \/ InvalidateCache(s)
  \/ \E w \in Writers : Publish(w) \/ Announce(w)
  \/ InitializeIfMissing \/ TrySweep \/ Tick \/ Crash

Spec == Init /\ [][Next]_vars

-----------------------------------------------------------------------------
TypeOK ==
  /\ config.next \in Nat /\ DOMAIN config.vols \subseteq Names
  /\ \A n \in DOMAIN config.vols : config.vols[n].life \in {"bound", "retiring"}
  /\ DOMAIN writing = Writers /\ DOMAIN session = Sessions
  /\ spaces \subseteq Spaces /\ inval \subseteq Sessions /\ now \in 1..MaxTime

\* A backend that has bindings cached has those of the file, or a message
\* telling it to drop them is on its way: sent, or about to be sent by the
\* process that has just renamed the file (write_snapshot, TablespaceStorage).
CachesAreInvalidated ==
  \A s \in Sessions :
     cached[s].loaded /\ s \notin inval /\ (\A w \in Writers : writing[w].pc # "published")
     => cached[s].map = Bindings(config)

NamesOf(id) == {n \in DOMAIN config.vols : config.vols[n].id = id}

\* Every volume ever published keeps its identity and its tablespace under one
\* name (no writer undoes another's create), retires only once the drop of its
\* tablespace is committed, is purged only when the grace period after that
\* drop is over, and is left bound to a dropped tablespace only while the
\* retirement is still to be written or after a failure or a crash lost it
\* (update_locked, on_commit, repair, sweep_due).
VolumesFollowTablespaces ==
  /\ Len(born) < config.next
  /\ \A id \in DOMAIN born :
       /\ Cardinality(NamesOf(id)) <= 1
       /\ NamesOf(id) = {} => born[id] \in DOMAIN gone /\ now >= gone[born[id]] + Grace
       /\ \A n \in NamesOf(id) :
            LET v == config.vols[n] IN
            /\ v.space = born[id]
            /\ ~IsBound(v) => v.space \notin spaces
            /\ IsBound(v) /\ v.space \notin spaces
               => id \in orphans \/ \E s \in Sessions : Retiring(s) /\ session[s].id = id

=============================================================================
