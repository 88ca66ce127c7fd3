------------------------- MODULE SimulationRecovery -------------------------
(***************************************************************************)
(* The daemon's session lifecycle and its crash recovery                   *)
(* (internal/daemon: daemon.go, recovery.go, runtime_*.go,                 *)
(* inline_config.go, state_file.go).                                       *)
(*                                                                         *)
(* Every start mints a generation.  The files of a generation are its      *)
(* runtime snapshot runtime/<session>.<generation>.json, rewritten by a    *)
(* per-session writer goroutine, and, for a request carrying ConfigData,   *)
(* its inline configuration.  active-simulation.json, the manifest, names  *)
(* the generation each session has in force and is the commit point.       *)
(*                                                                         *)
(* A client operation holds d.mu from its first step to its last; pc is    *)
(* the step it has reached.  A step changes at most one file, so a Crash   *)
(* can fall between any two.  The writers do not take d.mu.                *)
(***************************************************************************)
EXTENDS Integers

CONSTANTS
  Sessions,         \* session IDs
  Generations,      \* runtime generations: 128 random bits, never reused
  Nil,              \* no session, no generation
  Managed,          \* a configuration that is not an inline session file
  MaxVersion,       \* bound on a stack's runtime state version
  OverlapRequests,  \* may client requests overlap recovery and shutdown?
  EnvironmentFails, \* may file operations and recovering starts fail?
  PriorSchemas      \* forms of the manifest an earlier build may have left

ASSUME ConstantsAssumption ==
  /\ Nil \notin Generations \cup Sessions
  /\ Managed \notin Generations
  /\ MaxVersion \in Nat
  /\ OverlapRequests \in BOOLEAN
  /\ EnvironmentFails \in BOOLEAN
  /\ PriorSchemas \subseteq {"v3", "v2", "unusable"}

\* A missing file, a stack that is not running, a writer that is not writing.
None == -1

VARIABLES
  \* On disk.
  schema,    \* form of the manifest: "v3", "v2" or "unusable"
  legacy,    \* sessions a "v2" manifest lists
  manifest,  \* session -> generation in force
  runtime,   \* generation -> version its snapshot holds
  inline,    \* generations whose inline configuration exists
  minted,    \* generations handed out
  source,    \* generation -> the configuration its request names
  \* In memory.
  phase,     \* "down", "halted", "recovering", "serving", "stopping", "draining"
  recovery,  \* d.recovery: "none", "recovered" or "failed"
  toRecover, \* manifest entries recoverActiveSimulation has still to start
  failures,  \* sessions whose recovering start failed
  running,   \* d.sessions: session -> generation
  live,      \* generation -> version of its running stack
  writers,   \* generations with a writer goroutine
  written,   \* generation -> version its writer last wrote
  writing,   \* generation -> version read by the write in flight
  pc,        \* step of the operation that holds d.mu
  cur,       \* session being started
  new,       \* generation being started
  old        \* generation being retired

disk   == <<schema, legacy, manifest, runtime, inline, minted, source>>
writer == <<writers, written, writing>>
boot   == <<phase, recovery, toRecover, failures>>
op     == <<pc, cur, new, old>>
vars   == <<disk, boot, running, live, writer, op>>

Versions == None..MaxVersion
MaybeGen == Generations \cup {Nil}

TypeOK ==
  /\ schema \in {"v3", "v2", "unusable"}
  /\ legacy \subseteq Sessions
  /\ manifest \in [Sessions -> MaybeGen]
  /\ runtime \in [Generations -> Versions]
  /\ inline \subseteq Generations
  /\ minted \subseteq Generations
  /\ source \in [Generations -> Generations \cup {Managed}]
  /\ phase \in {"down", "halted", "recovering", "serving", "stopping", "draining"}
  /\ recovery \in {"none", "recovered", "failed"}
  /\ toRecover \in [Sessions -> MaybeGen]
  /\ failures \subseteq Sessions
  /\ running \in [Sessions -> MaybeGen]
  /\ live \in [Generations -> Versions]
  /\ writers \subseteq Generations
  /\ written \in [Generations -> 0..MaxVersion]
  /\ writing \in [Generations -> Versions]
  /\ pc \in {"idle", "stage", "snapshot", "commit", "dropRuntime", "dropInline",
             "retire", "clearOld", "unlinkOld", "startWriter"}
  /\ cur \in Sessions \cup {Nil}
  /\ new \in MaybeGen
  /\ old \in MaybeGen

NoSessions == [s \in Sessions |-> Nil]

(***************************************************************************)
(* A fresh install, or the disk an older build left: a v2 manifest lists   *)
(* sessions without generations, an unusable one cannot be decoded or      *)
(* migrated.                                                               *)
(***************************************************************************)
Init ==
  /\ schema \in PriorSchemas
  /\ legacy = IF schema = "v2" THEN Sessions ELSE {}
  /\ manifest = NoSessions
  /\ runtime = [g \in Generations |-> None]
  /\ inline = {}
  /\ minted = {}
  /\ source = [g \in Generations |-> Managed]
  /\ phase = "down"
  /\ recovery = "none"
  /\ toRecover = NoSessions
  /\ failures = {}
  /\ running = NoSessions
  /\ live = [g \in Generations |-> None]
  /\ writers = {}
  /\ written = [g \in Generations |-> 0]
  /\ writing = [g \in Generations |-> None]
  /\ pc = "idle"
  /\ cur = Nil
  /\ new = Nil
  /\ old = Nil

(***************************************************************************)
(* Reading the manifest.  A v2 manifest is migrated on every read, and     *)
(* every read mints generations of its own for the sessions it lists.      *)
(***************************************************************************)
migrateRecoveryState ==
  {m \in [Sessions -> MaybeGen] :
     /\ \A s \in Sessions : m[s] # Nil <=> s \in legacy
     /\ \A s \in legacy : m[s] \notin minted
     /\ \A s, t \in legacy : s # t => m[s] # m[t]}

readRecoveryState ==
  IF schema = "v2" THEN migrateRecoveryState ELSE {manifest}

\* An unusable manifest contributes no session to the one that replaces it.
persistedSimulationRequests ==
  IF schema = "unusable" THEN {NoSessions} ELSE readRecoveryState

\* Mutant: only the session being started is written, the others are dropped.
OverlayForgets(base, s, g) == [t \in Sessions |-> IF t = s THEN g ELSE Nil]

\* The manifest written over what is on disk: the running sessions, and what
\* the operation makes of session s.
Overlay(base, s, g) ==
  [t \in Sessions |->
     IF t = s THEN g ELSE IF running[t] # Nil THEN running[t] ELSE base[t]]

Minted(base) == {base[s] : s \in Sessions} \ {Nil}

persistActiveSimulation(s, g) ==
  \E base \in persistedSimulationRequests :
    /\ manifest' = Overlay(base, s, g)
    /\ minted' = minted \cup Minted(base)
    /\ schema' = "v3"
    /\ legacy' = {}
    /\ UNCHANGED <<inline, source>>

\* Mutant: every stop clears the report of the recovery.
ExcludingClearsReport(s) ==
  /\ persistActiveSimulation(s, Nil)
  /\ recovery' = "none"

\* The last session's withdrawal removes the manifest and with it the report
\* of the recovery.
persistSessionsExcluding(s) ==
  /\ persistActiveSimulation(s, Nil)
  /\ recovery' = IF manifest' = NoSessions THEN "none" ELSE recovery

(***************************************************************************)
(* The lock, and when the API server accepts requests: from before         *)
(* recoverActiveSimulation until after Shutdown has released d.mu.         *)
(***************************************************************************)
Locked == pc # "idle" \/ phase = "stopping"

Serving ==
  \/ phase = "serving"
  \/ OverlapRequests /\ phase \in {"recovering", "draining"}

Up == phase \notin {"down", "halted"}

\* The configuration file a generation's request names can be loaded.
ConfigPresent(g) == source[g] \in inline \cup {Managed}

-----------------------------------------------------------------------------
(***************************************************************************)
(* Starting a session.  The requests that validation refuses change        *)
(* nothing and are left out.  src is the configuration: a Managed file,    *)
(* the inline file of an earlier generation named by its path, or (src =   *)
(* g) the ConfigData of the request itself.  The stack starts, and its     *)
(* state begins to change, before anything is written.                     *)
(***************************************************************************)
StartSimulation(s, g, src) ==
  /\ Serving /\ ~Locked
  /\ g \notin minted
  /\ src \in inline \cup {Managed, g}
  /\ minted' = minted \cup {g}
  /\ source' = [source EXCEPT ![g] = src]
  /\ live' = [live EXCEPT ![g] = 0]
  /\ pc' = IF src = g THEN "stage" ELSE "snapshot"
  /\ cur' = s
  /\ new' = g
  /\ UNCHANGED <<schema, legacy, manifest, runtime, inline, boot, running, writer, old>>

\* The operation returns and releases d.mu.
Return ==
  /\ pc' = "idle"
  /\ cur' = Nil
  /\ new' = Nil
  /\ old' = Nil

stageInlineSessionConfig ==
  /\ pc = "stage"
  /\ inline' = inline \cup {new}
  /\ pc' = "snapshot"
  /\ UNCHANGED <<schema, legacy, manifest, runtime, minted, source, boot, running, live,
                 writer, cur, new, old>>

stageInlineFails ==
  /\ pc = "stage" /\ EnvironmentFails
  /\ live' = [live EXCEPT ![new] = None]
  /\ Return
  /\ UNCHANGED <<disk, boot, running, writer>>

\* Mutant: the manifest is committed without a snapshot.
SnapshotSkipped ==
  /\ pc = "snapshot"
  /\ pc' = "commit"
  /\ UNCHANGED <<disk, boot, running, live, writer, cur, new, old>>

\* commitSimulationGeneration writes the snapshot before the manifest.
writeRuntimeState ==
  /\ pc = "snapshot"
  /\ runtime' = [runtime EXCEPT ![new] = live[new]]
  /\ pc' = "commit"
  /\ UNCHANGED <<schema, legacy, manifest, inline, minted, source, boot, running, live,
                 writer, cur, new, old>>

\* The manifest names the new generation and publishSimulation replaces the
\* running one.
commitSimulationGeneration ==
  /\ pc = "commit"
  /\ persistActiveSimulation(cur, new)
  /\ running' = [running EXCEPT ![cur] = new]
  /\ old' = running[cur]
  /\ pc' = IF running[cur] = Nil THEN "startWriter" ELSE "retire"
  /\ UNCHANGED <<runtime, boot, live, writer, cur, new>>

\* Either write fails: the resources are aborted, then the files of the new
\* generation are removed.
commitFails ==
  /\ pc \in {"snapshot", "commit"} /\ EnvironmentFails
  /\ live' = [live EXCEPT ![new] = None]
  /\ pc' = "dropRuntime"
  /\ UNCHANGED <<disk, boot, running, writer, cur, new, old>>

\* A removal that fails is only logged.
dropRuntime ==
  /\ pc = "dropRuntime"
  /\ \/ runtime' = [runtime EXCEPT ![new] = None]
     \/ EnvironmentFails /\ runtime' = runtime
  /\ pc' = "dropInline"
  /\ UNCHANGED <<schema, legacy, manifest, inline, minted, source, boot, running, live,
                 writer, cur, new, old>>

dropInline ==
  /\ pc = "dropInline"
  /\ \/ inline' = inline \ {new}
     \/ EnvironmentFails /\ inline' = inline
  /\ Return
  /\ UNCHANGED <<schema, legacy, manifest, runtime, minted, source, boot, running, live,
                 writer>>

(***************************************************************************)
(* Stopping a session withdraws it from the manifest first.                *)
(***************************************************************************)
StopSimulation(s) ==
  /\ Serving /\ ~Locked
  /\ running[s] # Nil
  /\ persistSessionsExcluding(s)
  /\ running' = [running EXCEPT ![s] = Nil]
  /\ old' = running[s]
  /\ pc' = "retire"
  /\ UNCHANGED <<runtime, phase, toRecover, failures, live, writer, cur, new>>

\* Mutant: the writer is cancelled but not waited for.
StopsWithoutWaiting ==
  /\ pc = "retire"
  /\ writers' = writers \ {old}
  /\ live' = [live EXCEPT ![old] = IF writing[old] = None THEN None ELSE @]
  /\ pc' = "clearOld"
  /\ UNCHANGED <<disk, boot, running, written, writing, cur, new, old>>

\* Mutant: a stop waits until the writer has written the latest state.
StopsWhenWritten ==
  /\ pc = "retire"
  /\ writing[old] = None
  /\ written[old] = live[old]
  /\ writers' = writers \ {old}
  /\ live' = [live EXCEPT ![old] = None]
  /\ pc' = "clearOld"
  /\ UNCHANGED <<disk, boot, running, written, writing, cur, new, old>>

\* stopSimulation waits for the write in flight, then stops the stack.
stopSimulation ==
  /\ pc = "retire"
  /\ writing[old] = None
  /\ writers' = writers \ {old}
  /\ live' = [live EXCEPT ![old] = None]
  /\ pc' = "clearOld"
  /\ UNCHANGED <<disk, boot, running, written, writing, cur, new, old>>

clearRuntimeState ==
  /\ pc = "clearOld"
  /\ \/ runtime' = [runtime EXCEPT ![old] = None]
     \/ EnvironmentFails /\ runtime' = runtime
  /\ pc' = "unlinkOld"
  /\ UNCHANGED <<schema, legacy, manifest, inline, minted, source, boot, running, live,
                 writer, cur, new, old>>

\* Mutant: a retired inline file is removed whoever else uses it.
NeverInUse(g) == FALSE

inlineConfigInUse(g) == \E s \in Sessions : running[s] # Nil /\ source[running[s]] = g

removeInlineConfig ==
  /\ pc = "unlinkOld"
  /\ \/ inline' = IF inlineConfigInUse(old) THEN inline ELSE inline \ {old}
     \/ EnvironmentFails /\ inline' = inline
  /\ IF new = Nil THEN Return ELSE pc' = "startWriter" /\ UNCHANGED <<cur, new, old>>
  /\ UNCHANGED <<schema, legacy, manifest, runtime, minted, source, boot, running, live,
                 writer>>

startRuntimeStateWriter ==
  /\ pc = "startWriter"
  /\ writers' = writers \cup {new}
  /\ Return
  /\ UNCHANGED <<disk, boot, running, live, written, writing>>

-----------------------------------------------------------------------------
(***************************************************************************)
(* The running stacks and their writers.                                   *)
(***************************************************************************)

\* Mutant: the bound is off by one.
AdvancePastBound(g) ==
  /\ live[g] \in 0..MaxVersion
  /\ live' = [live EXCEPT ![g] = @ + 1]
  /\ UNCHANGED <<disk, boot, running, writer, op>>

\* A protocol event, a device action or a timeline step changes device state.
Advance(g) ==
  /\ live[g] \in 0..(MaxVersion - 1)
  /\ live' = [live EXCEPT ![g] = @ + 1]
  /\ UNCHANGED <<disk, boot, running, writer, op>>

\* A tick: the version is read before the state is exported.
writerTick(g) ==
  /\ g \in writers
  /\ writing[g] = None
  /\ live[g] # written[g]
  /\ writing' = [writing EXCEPT ![g] = live[g]]
  /\ UNCHANGED <<disk, boot, running, live, writers, written, op>>

\* The state was exported at some point since the version was read.
writerWrites(g) ==
  /\ writing[g] # None
  /\ \E v \in writing[g]..live[g] : runtime' = [runtime EXCEPT ![g] = v]
  /\ written' = [written EXCEPT ![g] = writing[g]]
  /\ writing' = [writing EXCEPT ![g] = None]
  /\ UNCHANGED <<schema, legacy, manifest, inline, minted, source, boot, running, live,
                 writers, op>>

writerFails(g) ==
  /\ writing[g] # None /\ EnvironmentFails
  /\ writing' = [writing EXCEPT ![g] = None]
  /\ UNCHANGED <<disk, boot, running, live, writers, written, op>>

(***************************************************************************)
(* Shutdown stops the sessions under d.mu, keeping their manifest entries  *)
(* and writing their final state, then releases d.mu and closes the API    *)
(* server.                                                                 *)
(***************************************************************************)
Shutdown ==
  /\ phase = "serving" /\ ~Locked
  /\ phase' = "stopping"
  /\ UNCHANGED <<disk, recovery, toRecover, failures, running, live, writer, op>>

settleRuntimeState(s) ==
  LET g == running[s] IN
  /\ phase = "stopping"
  /\ g # Nil
  /\ writing[g] = None
  /\ \/ runtime' = [runtime EXCEPT ![g] = live[g]]
     \/ EnvironmentFails /\ runtime' = runtime
  /\ running' = [running EXCEPT ![s] = Nil]
  /\ writers' = writers \ {g}
  /\ live' = [live EXCEPT ![g] = None]
  /\ UNCHANGED <<schema, legacy, manifest, inline, minted, source, boot, written, writing, op>>

ShutdownServer ==
  /\ phase = "stopping"
  /\ running = NoSessions
  /\ phase' = "draining"
  /\ UNCHANGED <<disk, recovery, toRecover, failures, running, live, writer, op>>

\* The process is gone: nothing in memory survives.
Exit(p) ==
  /\ phase' = p
  /\ recovery' = "none"
  /\ toRecover' = NoSessions
  /\ failures' = {}
  /\ running' = NoSessions
  /\ live' = [g \in Generations |-> None]
  /\ writers' = {}
  /\ written' = [g \in Generations |-> 0]
  /\ writing' = [g \in Generations |-> None]
  /\ Return
  /\ UNCHANGED disk

Halt == phase = "draining" /\ ~Locked /\ Exit("halted")

Crash == Up /\ Exit("down")

(***************************************************************************)
(* Start reads the manifest once and then starts its sessions one by one,  *)
(* taking d.mu for each.                                                   *)
(***************************************************************************)
ReadManifest ==
  /\ ~Up
  /\ schema # "unusable"
  /\ \E entries \in readRecoveryState :
       /\ toRecover' = entries
       /\ minted' = minted \cup Minted(entries)
       /\ phase' = IF entries = NoSessions THEN "serving" ELSE "recovering"
  /\ UNCHANGED <<schema, legacy, manifest, runtime, inline, source, recovery, failures,
                 running, live, writer, op>>

\* An unusable manifest is renamed aside; if that fails too it stays.
quarantineUnusableState ==
  /\ ~Up
  /\ schema = "unusable"
  /\ \/ schema' = "v3"
     \/ EnvironmentFails /\ schema' = schema
  /\ phase' = "serving"
  /\ recovery' = "failed"
  /\ UNCHANGED <<legacy, manifest, runtime, inline, minted, source, toRecover, failures,
                 running, live, writer, op>>

\* Mutant: a recovering start uses the authored scenario, not the snapshot.
RecoversFromScenario(s) ==
  LET g == toRecover[s] IN
  /\ phase = "recovering" /\ ~Locked
  /\ g # Nil
  /\ ConfigPresent(g)
  /\ live' = [live EXCEPT ![g] = 0]
  /\ running' = [running EXCEPT ![s] = g]
  /\ toRecover' = [toRecover EXCEPT ![s] = Nil]
  /\ cur' = s
  /\ new' = g
  /\ old' = running[s]
  /\ pc' = IF running[s] = Nil THEN "startWriter" ELSE "retire"
  /\ UNCHANGED <<disk, phase, recovery, failures, writer>>

\* A recovering start loads the configuration and the generation's own
\* snapshot, and commits nothing.
recoverSession(s) ==
  LET g == toRecover[s] IN
  /\ phase = "recovering" /\ ~Locked
  /\ g # Nil
  /\ ConfigPresent(g)
  /\ runtime[g] # None
  /\ live' = [live EXCEPT ![g] = runtime[g]]
  /\ running' = [running EXCEPT ![s] = g]
  /\ toRecover' = [toRecover EXCEPT ![s] = Nil]
  /\ cur' = s
  /\ new' = g
  /\ old' = running[s]
  /\ pc' = IF running[s] = Nil THEN "startWriter" ELSE "retire"
  /\ UNCHANGED <<disk, phase, recovery, failures, writer>>

recoverSessionFails(s) ==
  LET g == toRecover[s] IN
  /\ phase = "recovering" /\ ~Locked
  /\ g # Nil
  /\ EnvironmentFails \/ ~ConfigPresent(g) \/ runtime[g] = None
  /\ toRecover' = [toRecover EXCEPT ![s] = Nil]
  /\ failures' = failures \cup {s}
  /\ UNCHANGED <<disk, phase, recovery, running, live, writer, op>>

\* Mutant: recovery is over only once every session has started.
DoneWhenAllStarted ==
  /\ phase = "recovering" /\ ~Locked
  /\ toRecover = NoSessions /\ failures = {}
  /\ phase' = "serving"
  /\ recovery' = "recovered"
  /\ UNCHANGED <<disk, toRecover, failures, running, live, writer, op>>

recoveryDone ==
  /\ phase = "recovering" /\ ~Locked
  /\ toRecover = NoSessions
  /\ phase' = "serving"
  /\ recovery' = IF failures # {} THEN "failed" ELSE "recovered"
  /\ failures' = {}
  /\ UNCHANGED <<disk, toRecover, running, live, writer, op>>

-----------------------------------------------------------------------------
Operation ==
  \/ stageInlineSessionConfig \/ stageInlineFails
  \/ writeRuntimeState \/ commitSimulationGeneration \/ commitFails
  \/ dropRuntime \/ dropInline
  \/ stopSimulation \/ clearRuntimeState \/ removeInlineConfig
  \/ startRuntimeStateWriter

Recovering ==
  \/ \E s \in Sessions : recoverSession(s) \/ recoverSessionFails(s)
  \/ recoveryDone

Writer(g) == writerTick(g) \/ writerWrites(g) \/ writerFails(g)

Next ==
  \/ \E s \in Sessions :
       \/ \E g \in Generations, src \in Generations \cup {Managed} : StartSimulation(s, g, src)
       \/ StopSimulation(s)
       \/ settleRuntimeState(s)
  \/ Operation
  \/ Recovering
  \/ \E g \in Generations : Advance(g) \/ Writer(g)
  \/ Shutdown \/ ShutdownServer \/ Halt \/ Crash
  \/ ReadManifest \/ quarantineUnusableState

Spec == Init /\ [][Next]_vars

(***************************************************************************)
(* Fairness.  The holder of d.mu is a goroutine that runs to its end, a    *)
(* write in flight finishes, and Start works through its list.  The wait   *)
(* for a cancelled writer needs strong fairness: its select may take       *)
(* another tick first, but picks at random among the ready cases.          *)
(***************************************************************************)
FairSpec ==
  /\ Spec
  /\ WF_vars(Operation)
  /\ SF_vars(stopSimulation)
  /\ WF_vars(Recovering)
  /\ \A g \in Generations : WF_vars(writerWrites(g) \/ writerFails(g))

-----------------------------------------------------------------------------
(***************************************************************************)
(* Properties.                                                             *)
(***************************************************************************)

\* The manifest never names a generation without a snapshot, at any step of a
\* start, a replacement or a stop: runtime_generation.go, "The manifest is the
\* commit point: a replacement's snapshot must exist first".
ManifestHasSnapshot ==
  \A s \in Sessions : manifest[s] # Nil => runtime[manifest[s]] # None

\* A running session is the one the manifest names, so a crash after a start
\* or a stop has returned recovers exactly what the client was told
\* (startGenerationLocked, stopSimulationLocked).
RunningIsPersisted ==
  \A s \in Sessions : running[s] # Nil => manifest[s] = running[s]

\* The configuration of a running session is never removed, not even when it
\* is the inline file of another generation that is retired meanwhile
\* (removeInlineConfig, inlineConfigInUse).
RunningConfigPresent ==
  \A s \in Sessions : running[s] # Nil => ConfigPresent(running[s])

\* A session that recovery could not bring back stays in the manifest and
\* stays reported: as long as one is listed but not running, GetStatus shows
\* the recovery as failed (recoverActiveSimulation, clearActiveSimulation).
StrandedSessionReported ==
  phase = "serving" /\ (\E s \in Sessions : manifest[s] # Nil /\ running[s] = Nil)
    => recovery = "failed"

\* While a generation is in force its snapshot never goes back to an older
\* state, across writer ticks, shutdowns, crashes and recoveries
\* (runtime_state.go, "Crash recovery uses the last completed save").
SnapshotNeverRegresses ==
  [][\A s \in Sessions :
       manifest[s] # Nil /\ manifest'[s] = manifest[s]
         => runtime'[manifest[s]] >= runtime[manifest[s]]]_vars

\* Only the first write of a start creates a snapshot.  A write in flight when
\* its session is stopped or replaced cannot bring a removed one back
\* (stopRuntimeStateWriter waits for runtimeDone before clearRuntimeState).
RetiredSnapshotStaysRemoved ==
  [][\A g \in Generations :
       runtime[g] = None /\ runtime'[g] # None => pc = "snapshot" /\ new = g]_vars

\* Every operation that takes d.mu releases it: waiting for a writer under
\* d.mu cannot block for ever (stopRuntimeStateWriter).
OperationsReturn == pc # "idle" ~> pc = "idle"

\* Recovery works through the whole manifest and reports its outcome, or the
\* process dies (recoverActiveSimulation).
RecoveryEnds == phase = "recovering" ~> phase # "recovering"

\* When no file operation fails recovery brings every session back:
\* recovery.go says of a v2 manifest "It migrates forward rather than
\* stranding the sessions it carries."
MigratedSessionsRecovered == schema = "v2" => recovery # "failed"

-----------------------------------------------------------------------------
(***************************************************************************)
(* The daemon implements the durability contract of DurableSessions: the   *)
(* intent is the manifest, the saved state is the snapshot of the          *)
(* generation it names, the live state is that of the published stack.     *)
(***************************************************************************)
Saved == [s \in Sessions |-> IF manifest[s] = Nil THEN None ELSE runtime[manifest[s]]]

Active == [s \in Sessions |-> IF running[s] = Nil THEN None ELSE live[running[s]]]

Durable == INSTANCE DurableSessions WITH
  intent <- manifest, saved <- Saved, active <- Active

\* Every step of a start, stop, shutdown, crash or recovery is a step of the
\* contract or invisible to it: a session resumes only from a snapshot of the
\* generation in force, and from the newest one.
ImplementsDurableSessions == Durable!Spec
=============================================================================
