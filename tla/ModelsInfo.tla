------------------------------ MODULE ModelsInfo ------------------------------
(***************************************************************************)
(* The cache of opencode-models-info: the memory of each process over one  *)
(* file, the runs of the config hook and the refreshes of its scheduler,   *)
(* which fetch the catalog with an ETag while others read and write.       *)
(*                                                                         *)
(* A record keeps the version of the catalog for its models and its ETag.  *)
(* External: the server, which replaces its catalog at any time.           *)
(***************************************************************************)
EXTENDS Integers, FiniteSets

CONSTANTS
  Hosts,        \* the processes
  Tasks,        \* runs of the config hook and "refresh", per process
  Ttl,          \* modelsInfoTtlSeconds
  MaxClock,     \* bound: time
  MaxVersion,   \* bound: versions of the catalog
  Nothing

VARIABLES
  clock,
  catalog,      \* the version the server has, and when earlier ones were replaced
  memory, disk, \* FileCacheStore
  task,         \* where each run is: what it read, when it began, what it got
  handles,      \* the handles the plugin holds, by the run that started them
  running          \* the schedulers that have not been stopped

modelsVars == <<clock, catalog, memory, disk, task, handles, running>>

Runs == Hosts \X Tasks
Host(r) == r[1]
IsRefresh(r) == r[2] = "refresh"

At(pc) == [pc |-> pc, began |-> 0, file |-> Nothing, next |-> Nothing]

Init ==
  /\ clock = 0
  /\ catalog = [version |-> 1, replaced |-> [v \in 1..MaxVersion |-> Nothing]]
  /\ memory = [h \in Hosts |-> Nothing] /\ disk = Nothing
  /\ task = [r \in Runs |-> At("idle")]
  /\ handles = [h \in Hosts |-> {}] /\ running = [h \in Hosts |-> {}]

Expired(record, t) == t - record.fetchedAt > Ttl

(* `now` is read before the cache and before the request.                  *)
Begin(r) ==
  /\ task[r].pc = "idle" /\ (IsRefresh(r) => running[Host(r)] # {})
  /\ task' = [task EXCEPT ![r] = [@ EXCEPT !.pc = "get", !.began = clock]]
  /\ UNCHANGED <<clock, catalog, memory, disk, handles, running>>

(* loadRecord and refreshProviderCache with what the cache returned: only  *)
(* the config hook is content with a record within its TTL.                *)
Got(r, record) ==
  task' = [task EXCEPT ![r] =
    IF ~IsRefresh(r) /\ record # Nothing /\ ~Expired(record, task[r].began)
    THEN At("enrich") ELSE [At("fetch") EXCEPT !.began = task[r].began]]

GetMemory(r) ==
  /\ task[r].pc = "get" /\ memory[Host(r)] # Nothing
  /\ Got(r, memory[Host(r)])
  /\ UNCHANGED <<clock, catalog, memory, disk, handles, running>>

GetFile(r) ==
  /\ task[r].pc = "get" /\ memory[Host(r)] = Nothing
  /\ task' = [task EXCEPT ![r] = [@ EXCEPT !.pc = "parse", !.file = disk]]
  /\ UNCHANGED <<clock, catalog, memory, disk, handles, running>>

(* What the file said replaces what a put has stored meanwhile.            *)
Parsed(r) ==
  LET record == task[r].file
  IN  /\ task[r].pc = "parse"
      /\ memory' = IF record = Nothing THEN memory ELSE [memory EXCEPT ![Host(r)] = record]
      /\ Got(r, record)
      /\ UNCHANGED <<clock, catalog, disk, handles, running>>

(* A full answer, or 304 for the ETag of what was cached: in both cases    *)
(* the version the server has now, dated from before the request.          *)
Answered(r) ==
  /\ task[r].pc = "fetch"
  /\ task' = [task EXCEPT ![r] = [At("put") EXCEPT
                !.next = [version |-> catalog.version, fetchedAt |-> task[r].began]]]
  /\ UNCHANGED <<clock, catalog, memory, disk, handles, running>>

(* The request fails: the stale record, if any, serves.                    *)
FetchFails(r) ==
  /\ task[r].pc = "fetch"
  /\ task' = [task EXCEPT ![r] = At("enrich")]
  /\ UNCHANGED <<clock, catalog, memory, disk, handles, running>>

PutDatedNow(r) ==
  LET dated == [task[r].next EXCEPT !.fetchedAt = clock]
  IN  /\ task[r].pc = "put"
      /\ memory' = [memory EXCEPT ![Host(r)] = dated]
      /\ task' = [task EXCEPT ![r].pc = "rename", ![r].next = dated]
      /\ UNCHANGED <<clock, catalog, disk, handles, running>>

Put(r) ==
  /\ task[r].pc = "put"
  /\ memory' = [memory EXCEPT ![Host(r)] = task[r].next]
  /\ task' = [task EXCEPT ![r].pc = "rename"]
  /\ UNCHANGED <<clock, catalog, disk, handles, running>>

(* The file is replaced at once, or the write fails and is logged.         *)
Renamed(r) ==
  /\ task[r].pc = "rename"
  /\ disk' \in {disk, task[r].next}
  /\ task' = [task EXCEPT ![r] = At("enrich")]
  /\ UNCHANGED <<clock, catalog, memory, handles, running>>

Ended(r) == [task EXCEPT ![r] = At("idle")]

(* The end of the config hook: schedulers of an earlier run are stopped    *)
(* and new ones started, without an await in between.                      *)
StartSchedulersOnly(r) ==
  /\ task[r].pc = "enrich" /\ ~IsRefresh(r)
  /\ running' = [running EXCEPT ![Host(r)] = @ \cup {r}]
  /\ handles' = [handles EXCEPT ![Host(r)] = {r}]
  /\ task' = Ended(r)
  /\ UNCHANGED <<clock, catalog, memory, disk>>

RestartSchedulers(r) ==
  /\ task[r].pc = "enrich" /\ ~IsRefresh(r)
  /\ running' = [running EXCEPT ![Host(r)] = (@ \ handles[Host(r)]) \cup {r}]
  /\ handles' = [handles EXCEPT ![Host(r)] = {r}]
  /\ task' = Ended(r)
  /\ UNCHANGED <<clock, catalog, memory, disk>>

Refreshed(r) ==
  /\ task[r].pc = "enrich" /\ IsRefresh(r)
  /\ task' = Ended(r)
  /\ UNCHANGED <<clock, catalog, memory, disk, handles, running>>

(* A refresh that runs goes on; a hook that runs starts schedulers again.  *)
Dispose(h) ==
  /\ handles[h] # {}
  /\ running' = [running EXCEPT ![h] = @ \ handles[h]]
  /\ handles' = [handles EXCEPT ![h] = {}]
  /\ UNCHANGED <<clock, catalog, memory, disk, task>>

Restart(h) ==
  /\ memory' = [memory EXCEPT ![h] = Nothing]
  /\ handles' = [handles EXCEPT ![h] = {}] /\ running' = [running EXCEPT ![h] = {}]
  /\ task' = [r \in Runs |-> IF Host(r) = h THEN At("idle") ELSE task[r]]
  /\ UNCHANGED <<clock, catalog, disk>>

ReplaceCatalog ==
  /\ catalog.version < MaxVersion
  /\ catalog' = [version |-> catalog.version + 1,
                 replaced |-> [catalog.replaced EXCEPT ![catalog.version] = clock]]
  /\ UNCHANGED <<clock, memory, disk, task, handles, running>>

Tick == clock < MaxClock /\ clock' = clock + 1
        /\ UNCHANGED <<catalog, memory, disk, task, handles, running>>

Next ==
  \/ \E r \in Runs :
       \/ Begin(r) \/ GetMemory(r) \/ GetFile(r) \/ Parsed(r) \/ Answered(r) \/ FetchFails(r)
       \/ Put(r) \/ Renamed(r) \/ RestartSchedulers(r) \/ Refreshed(r)
  \/ \E h \in Hosts : Dispose(h) \/ Restart(h)
  \/ ReplaceCatalog \/ Tick

Spec == Init /\ [][Next]_modelsVars

-----------------------------------------------------------------------------
Records == {memory[h] : h \in Hosts} \cup {disk} \cup {task[r].next : r \in Runs}

(* A record is what the server had at its fetchedAt or later, in whichever *)
(* order requests, files and memories overtake each other: within its TTL  *)
(* it is never further behind the catalog than the TTL (isExpired,         *)
(* cache.ts:116; fetchedAt, plugin.ts:351, :373).                          *)
FetchedAtIsHonest ==
  \A record \in Records \ {Nothing} :
    LET replaced == catalog.replaced[record.version]
    IN  replaced # Nothing => replaced >= record.fetchedAt

(* "a rebuilt config never leaks a duplicate background timer per          *)
(* provider" (opencode.ts:98-101), although runs of the hook overlap.      *)
OneScheduler == \A h \in Hosts : Cardinality(running[h]) <= 1
=============================================================================
