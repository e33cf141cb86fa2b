------------------------------ MODULE SharedRoot ------------------------------
(***************************************************************************)
(* One login for two plugins: the state file of oauth2's engines, which    *)
(* holds a token and the discovered models of a server, and lightbridge,   *)
(* which keeps its root token in that file.  lightbridge writes what it    *)
(* has read before, with another token or none; it has no copy in memory.  *)
(* Refreshes take the lock of the server, syncs, the migration of an older *)
(* installation and a reset do not.                                        *)
(*                                                                         *)
(* Engines are those of ProviderSync, here with the models.  Whether a     *)
(* token can still be presented is open at every read; writes are in the   *)
(* order of their updatedAt.  External: the identity provider.             *)
(***************************************************************************)
EXTENDS Integers

CONSTANTS
  Engines,       \* oauth2's engines, or those of lightbridge's register module
  Bridges,       \* lightbridge's runtimes
  MaxGrants,     \* bound: token sets the provider issues
  MaxModels,     \* bound: versions of the list of models
  None

VARIABLES
  file,          \* the shared state file
  legacy,        \* the token in the file of an older lightbridge
  mem,           \* runtime.state of each engine
  op,            \* what each of them is doing
  holder,        \* who holds the lock of the token runtimes
  migration,     \* each bridge: has its migration begun, is it over
  grants,        \* token sets issued so far
  catalog        \* the version of the models upstream

rootVars == <<file, legacy, mem, op, holder, migration, grants, catalog>>

Writers == Engines \cup Bridges
NoToken == 0
Empty   == [token |-> NoToken, models |-> 0]
Idle    == [pc |-> "idle", kind |-> None, base |-> None, next |-> Empty]

Init ==
  /\ file \in {None, [token |-> NoToken, models |-> 1], [token |-> 1, models |-> 1]}
  /\ legacy \in {NoToken, 1}
  /\ mem = [e \in Engines |-> IF file = None THEN Empty ELSE file]
  /\ op = [w \in Writers |-> Idle] /\ holder = None
  /\ migration = [b \in Bridges |-> "none"]
  /\ grants = 1 /\ catalog = 1

(* loadServerState                                                         *)
Loaded == IF file = None THEN Empty ELSE file

Token == IF file = None THEN NoToken ELSE file.token

At(w, o) == op' = [op EXCEPT ![w] = o]

(* A state is renamed into place.                                          *)
Save(w) == file' = op[w].next

-----------------------------------------------------------------------------
(* The engines.                                                            *)

(* readCachedToken: a file that has a token is adopted as a whole.         *)
ReadCachedToken(e) == mem' = [mem EXCEPT ![e] = IF Token = NoToken THEN @ ELSE file]

(* A chat or a sync ensures its token: a valid one is presented, or a      *)
(* refresh waits for the lock.                                             *)
EngineEnsure(e, kind) ==
  /\ op[e].pc = "idle" /\ ReadCachedToken(e)
  /\ \/ /\ mem'[e].token # NoToken
        /\ At(e, IF kind = "sync"
                 THEN [pc |-> "fetch", kind |-> kind, base |-> file, next |-> mem'[e]] ELSE Idle)
     \/ At(e, [Idle EXCEPT !.pc = "lock", !.kind = kind])
  /\ UNCHANGED <<file, legacy, holder, migration, grants, catalog>>

EngineLocks(e) ==
  /\ op[e].pc = "lock" /\ holder = None
  /\ holder' = e /\ ReadCachedToken(e)
  /\ At(e, [op[e] EXCEPT !.pc = "post", !.base = file])
  /\ UNCHANGED <<file, legacy, migration, grants, catalog>>

(* The provider refreshes or logs in; setCached of the engine writes the   *)
(* token with the models it has in memory.                                 *)
EngineSets(e) ==
  /\ op[e].pc = "post" /\ grants < MaxGrants
  /\ grants' = grants + 1
  /\ At(e, [op[e] EXCEPT !.pc = "save", !.next = [mem[e] EXCEPT !.token = grants + 1]])
  /\ UNCHANGED <<file, legacy, mem, holder, migration, catalog>>

(* A token that has become valid meanwhile is presented; a refused one     *)
(* fails the call.                                                         *)
EngineLeaves(e) ==
  /\ op[e].pc = "post" /\ holder' = None
  /\ \/ At(e, Idle)
     \/ /\ op[e].kind = "sync" /\ mem[e].token # NoToken
        /\ At(e, [op[e] EXCEPT !.pc = "fetch", !.next = mem[e]])
  /\ UNCHANGED <<file, legacy, mem, migration, grants, catalog>>

EngineSaves(e) ==
  /\ op[e].pc = "save" /\ holder = e /\ Save(e)
  /\ mem' = [mem EXCEPT ![e] = op[e].next] /\ holder' = None
  /\ At(e, IF op[e].kind = "sync" THEN [op[e] EXCEPT !.pc = "fetch", !.base = op[e].next] ELSE Idle)
  /\ UNCHANGED <<legacy, migration, grants, catalog>>

(* The models have arrived, and a sync saves them with the token it has    *)
(* used; or they have not, and it keeps what it had.                       *)
EngineFetches(e) ==
  /\ op[e].pc = "fetch"
  /\ \/ At(e, [op[e] EXCEPT !.pc = "synced", !.next.models = catalog])
     \/ At(e, Idle)
  /\ UNCHANGED <<file, legacy, mem, holder, migration, grants, catalog>>

EngineSyncs(e) ==
  /\ op[e].pc = "synced" /\ Save(e)
  /\ mem' = [mem EXCEPT ![e] = op[e].next] /\ At(e, Idle)
  /\ UNCHANGED <<legacy, holder, migration, grants, catalog>>

-----------------------------------------------------------------------------
(* lightbridge.                                                            *)

(* migrateRootTokenIfNeeded, once per instance: a file that is there is    *)
(* left alone, else the old token is looked for.                           *)
Migrate(b) ==
  /\ op[b].pc = "idle" /\ migration[b] = "none"
  /\ \/ /\ file # None \/ legacy = NoToken
        /\ migration' = [migration EXCEPT ![b] = "over"] /\ UNCHANGED op
     \/ /\ file = None /\ legacy # NoToken
        /\ migration' = [migration EXCEPT ![b] = "begun"]
        /\ At(b, [Idle EXCEPT !.pc = "migrate", !.next = [token |-> legacy, models |-> 0]])
  /\ UNCHANGED <<file, legacy, mem, holder, grants, catalog>>

Migrated(b) ==
  /\ op[b].pc = "migrate" /\ Save(b) /\ At(b, Idle)
  /\ migration' = [migration EXCEPT ![b] = "over"]
  /\ UNCHANGED <<legacy, mem, holder, grants, catalog>>

(* getProjectToken: the file decides whether a token is presented as it is *)
(* (and nothing changes) or refreshed under the lock.                      *)
GetProjectToken(b) ==
  /\ op[b].pc = "idle" /\ migration[b] = "over"
  /\ At(b, [Idle EXCEPT !.pc = "lock"])
  /\ UNCHANGED <<file, legacy, mem, holder, migration, grants, catalog>>

BridgeLocks(b) ==
  /\ op[b].pc = "lock" /\ holder = None
  /\ holder' = b /\ At(b, [Idle EXCEPT !.pc = "post"])
  /\ UNCHANGED <<file, legacy, mem, migration, grants, catalog>>

(* Adopted, or refused.                                                    *)
BridgeLeaves(b) ==
  /\ op[b].pc = "post" /\ holder' = None /\ At(b, Idle)
  /\ UNCHANGED <<file, legacy, mem, migration, grants, catalog>>

(* setCached of lightbridge loads the file for the models, then saves it.  *)
BridgeSets(b) ==
  /\ op[b].pc = "post" /\ grants < MaxGrants
  /\ grants' = grants + 1
  /\ At(b, [pc |-> "save", kind |-> None, base |-> file,
            next |-> [Loaded EXCEPT !.token = grants + 1]])
  /\ UNCHANGED <<file, legacy, mem, holder, migration, catalog>>

BridgeSaves(b) ==
  /\ op[b].pc = "save" /\ Save(b)
  /\ holder' = None /\ At(b, Idle)
  /\ UNCHANGED <<legacy, mem, migration, grants, catalog>>

\* A mutation of Reset: the state is dropped with its token.
ResetEverything(b) ==
  /\ op[b].pc = "idle" /\ Token # NoToken
  /\ At(b, [pc |-> "reset", kind |-> None, base |-> file, next |-> Empty])
  /\ UNCHANGED <<file, legacy, mem, holder, migration, grants, catalog>>

(* reset drops the token of the state it has loaded, without the lock.     *)
Reset(b) ==
  /\ op[b].pc = "idle" /\ Token # NoToken
  /\ At(b, [pc |-> "reset", kind |-> None, base |-> file, next |-> [file EXCEPT !.token = NoToken]])
  /\ UNCHANGED <<file, legacy, mem, holder, migration, grants, catalog>>

ResetSaves(b) ==
  /\ op[b].pc = "reset" /\ Save(b) /\ At(b, Idle)
  /\ UNCHANGED <<legacy, mem, holder, migration, grants, catalog>>

-----------------------------------------------------------------------------
ModelsChange ==
  /\ catalog < MaxModels /\ catalog' = catalog + 1
  /\ UNCHANGED <<file, legacy, mem, op, holder, migration, grants>>

Next ==
  \/ \E e \in Engines :
       \/ \E kind \in {"chat", "sync"} : EngineEnsure(e, kind)
       \/ EngineLocks(e) \/ EngineSets(e) \/ EngineLeaves(e) \/ EngineSaves(e)
       \/ EngineFetches(e) \/ EngineSyncs(e)
  \/ \E b \in Bridges :
       \/ Migrate(b) \/ Migrated(b) \/ GetProjectToken(b) \/ BridgeLocks(b) \/ BridgeLeaves(b)
       \/ BridgeSets(b) \/ BridgeSaves(b) \/ Reset(b) \/ ResetSaves(b)
  \/ ModelsChange

Spec == Init /\ [][Next]_rootVars

-----------------------------------------------------------------------------
Saves(w) == op[w].pc \in {"save", "synced", "migrate", "reset"} /\ op'[w] # op[w]

(* The discovered models "must survive a lightbridge-side logout"          *)
(* (plugin.ts:326-331), a refresh of lightbridge and its migration, and    *)
(* the token never goes back to an older one: unless the save overtakes    *)
(* another one, whose state its writer had not read, or an engine holds on *)
(* to what it had because a logout has left the file without a token.      *)
SharedStateSurvives ==
  [][\A w \in Writers :
       /\ Saves(w) /\ op[w].base = file
       /\ w \in Bridges \/ Token # NoToken
       => /\ file'.models >= Loaded.models
          /\ file'.token = NoToken \/ file'.token >= Token]_rootVars
=============================================================================
