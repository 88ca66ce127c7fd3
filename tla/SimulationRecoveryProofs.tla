---------------------- MODULE SimulationRecoveryProofs ----------------------
(***************************************************************************)
(* Proofs about SimulationRecovery for any sets of sessions and            *)
(* generations and any bound on versions, with or without failing file     *)
(* operations, when requests do not overlap recovery and shutdown and no   *)
(* v2 manifest is migrated.  Without these two assumptions the properties  *)
(* do not hold.                                                            *)
(***************************************************************************)
EXTENDS SimulationRecovery, TLAPS

Serialized == OverlapRequests = FALSE /\ "v2" \notin PriorSchemas

Starting == pc \in {"stage", "snapshot", "commit", "dropRuntime", "dropInline"}
Retiring == pc \in {"retire", "clearOld", "unlinkOld"}

\* Where the phases of the process leave the lock and the registry.
PhaseInv ==
  /\ schema # "v2" /\ legacy = {}
  /\ schema = "unusable" => manifest = NoSessions
  /\ phase \in {"down", "halted", "stopping", "draining"} => pc = "idle"
  /\ phase \in {"down", "halted", "draining"} => running = NoSessions
  /\ phase = "recovering" => pc \in {"idle", "startWriter"}
  /\ phase # "recovering" => toRecover = NoSessions
  /\ \A s \in Sessions :
       toRecover[s] # Nil => running[s] = Nil /\ manifest[s] = toRecover[s]

\* The generation being started is in nobody's use before it is committed,
\* the one being retired no longer is.
OpInv ==
  /\ pc = "idle" => cur = Nil /\ new = Nil /\ old = Nil
  /\ Starting => /\ cur \in Sessions /\ new \in minted /\ old = Nil
                 /\ new \notin writers /\ writing[new] = None
                 /\ \A s \in Sessions : manifest[s] # new
                 /\ \A s \in Sessions : running[s] # Nil => source[running[s]] # new
  /\ pc \in {"stage", "snapshot", "commit"} => live[new] # None
  /\ pc = "stage" => source[new] = new
  /\ pc \in {"snapshot", "commit"} => ConfigPresent(new)
  /\ pc = "commit" => runtime[new] # None /\ runtime[new] <= live[new]
  /\ Retiring => /\ old \in Generations
                 /\ \A s \in Sessions : manifest[s] # old
                 /\ (new # Nil => new # old /\ \E s \in Sessions : running[s] = new)
  /\ pc = "retire" => runtime[old] # None /\ runtime[old] <= live[old]
  /\ pc = "startWriter" => \E s \in Sessions : running[s] = new /\ new # Nil

\* The manifest names each generation once, and only minted ones.
ManifestInv ==
  /\ \A s \in Sessions : manifest[s] # Nil => manifest[s] \in minted
  /\ \A s, t \in Sessions : manifest[s] # Nil /\ manifest[s] = manifest[t] => s = t
  /\ inline \subseteq minted
  /\ \A g \in minted : source[g] \in minted \cup {Managed}

\* A stack is at least as new as its snapshot, and so is a write in flight.
WriterInv ==
  /\ \A s \in Sessions :
       running[s] # Nil => live[running[s]] # None /\ runtime[running[s]] <= live[running[s]]
  /\ \A g \in Generations :
       g \in writers \/ writing[g] # None =>
         (\E s \in Sessions : running[s] = g) \/ (pc = "retire" /\ old = g)
  /\ \A g \in Generations :
       writing[g] # None => runtime[g] <= writing[g] /\ writing[g] <= live[g]

\* While recovery runs, every session of the manifest is running, waiting for
\* its turn, or counted as failed.
StrandedInv ==
  phase = "recovering" =>
    \A s \in Sessions :
      manifest[s] # Nil => running[s] # Nil \/ toRecover[s] # Nil \/ s \in failures

\* The inductive invariant.
IInv ==
  /\ TypeOK /\ PhaseInv /\ OpInv /\ ManifestInv /\ WriterInv
  /\ ManifestHasSnapshot /\ RunningIsPersisted /\ RunningConfigPresent
  /\ StrandedInv /\ StrandedSessionReported

-----------------------------------------------------------------------------
\* The first state of a process that has never run satisfies the invariant.
LEMMA InitInductive == ASSUME Serialized, Init PROVE IInv
<1> USE ConstantsAssumption DEF Init, None, NoSessions
<1>1. TypeOK
  BY DEF TypeOK, Versions, MaybeGen
<1>2. PhaseInv
  BY DEF PhaseInv, Serialized
<1>3. OpInv
  BY DEF OpInv, Starting, Retiring
<1>4. ManifestInv /\ WriterInv
  BY DEF ManifestInv, WriterInv
<1>5. ManifestHasSnapshot /\ RunningIsPersisted /\ RunningConfigPresent
  BY DEF ManifestHasSnapshot, RunningIsPersisted, RunningConfigPresent
<1>6. StrandedInv /\ StrandedSessionReported
  BY DEF StrandedInv, StrandedSessionReported
<1> QED BY <1>1, <1>2, <1>3, <1>4, <1>5, <1>6 DEF IInv

\* Writing the manifest changes the entry of one session and no other: what is
\* overlaid for the running sessions is what the manifest already names.
LEMMA PersistUpdates ==
  ASSUME Serialized, IInv, NEW s \in Sessions, NEW g \in MaybeGen,
         persistActiveSimulation(s, g)
  PROVE  /\ schema' = "v3" /\ legacy' = {}
         /\ manifest' = [manifest EXCEPT ![s] = g]
         /\ UNCHANGED <<minted, inline, source>>
<1> USE ConstantsAssumption DEF IInv
<1>1. /\ schema' = "v3" /\ legacy' = {}
      /\ manifest' = Overlay(manifest, s, g)
      /\ minted' = minted \cup Minted(manifest)
      /\ UNCHANGED <<inline, source>>
  BY DEF persistActiveSimulation, persistedSimulationRequests, readRecoveryState,
     PhaseInv
<1>2. Overlay(manifest, s, g) = [manifest EXCEPT ![s] = g]
  BY DEF Overlay, RunningIsPersisted, TypeOK
<1>3. Minted(manifest) \subseteq minted
  BY DEF Minted, ManifestInv
<1> QED BY <1>1, <1>2, <1>3

\* A start reserves a fresh generation and touches no committed state.
LEMMA StartSimulationInductive ==
  ASSUME Serialized, IInv, NEW s \in Sessions, NEW g \in Generations, NEW src \in Generations \cup {Managed}, StartSimulation(s, g, src)
  PROVE  IInv'
<1> USE ConstantsAssumption DEF IInv
<1>1. TypeOK'
  BY DEF StartSimulation, TypeOK, None, Versions, MaybeGen, boot, writer, Locked,
     Serving, Serialized
<1>2. PhaseInv'
  BY DEF StartSimulation, TypeOK, PhaseInv, None, Versions, MaybeGen, NoSessions, boot,
     writer, Locked, Serving, Serialized
<1>3. OpInv'
  BY DEF StartSimulation, TypeOK, OpInv, ManifestInv, WriterInv, RunningIsPersisted,
     None, Versions, MaybeGen, boot, writer, Starting, Retiring, ConfigPresent, Locked,
     Serving, Serialized
<1>4. ManifestInv'
  BY DEF StartSimulation, TypeOK, ManifestInv, None, Versions, MaybeGen, boot, writer,
     Locked, Serving, Serialized
<1>5. WriterInv'
  BY DEF StartSimulation, TypeOK, ManifestInv, WriterInv, RunningIsPersisted, None,
     Versions, MaybeGen, boot, writer, Locked, Serving, Serialized
<1>6. RunningConfigPresent'
  BY DEF StartSimulation, TypeOK, ManifestInv, RunningIsPersisted, RunningConfigPresent,
     None, Versions, MaybeGen, boot, writer, ConfigPresent, Locked, Serving, Serialized
<1>7. ManifestHasSnapshot' /\ RunningIsPersisted' /\ StrandedInv'
     /\ StrandedSessionReported'
  BY DEF StartSimulation, ManifestHasSnapshot, RunningIsPersisted, StrandedInv,
     StrandedSessionReported, boot, writer
<1> QED BY <1>1, <1>2, <1>3, <1>4, <1>5, <1>6, <1>7

\* A stop withdraws the session from the manifest and from d.sessions together.
LEMMA StopSimulationInductive ==
  ASSUME Serialized, IInv, NEW s \in Sessions, StopSimulation(s)
  PROVE  IInv'
<1> USE ConstantsAssumption DEF IInv
<1>1. /\ schema' = "v3" /\ legacy' = {}
      /\ manifest' = [manifest EXCEPT ![s] = Nil]
      /\ UNCHANGED <<minted, inline, source>>
  BY PersistUpdates DEF StopSimulation, persistSessionsExcluding, MaybeGen
<1>2. TypeOK'
  BY <1>1 DEF StopSimulation, TypeOK, PhaseInv, None, Versions, MaybeGen, NoSessions,
     writer, Locked, Serving, persistSessionsExcluding, Serialized
<1>3. PhaseInv'
  BY <1>1 DEF StopSimulation, TypeOK, PhaseInv, None, Versions, MaybeGen, NoSessions,
     writer, Locked, Serving, persistSessionsExcluding, Serialized
<1>4. OpInv'
  BY <1>1, SMTT(30) DEF StopSimulation, TypeOK, PhaseInv, OpInv, ManifestInv, WriterInv,
     ManifestHasSnapshot, RunningIsPersisted, None, Versions, MaybeGen, NoSessions,
     writer, Starting, Retiring, ConfigPresent, Locked, Serving,
     persistSessionsExcluding, Serialized
<1>5. ManifestInv'
  BY <1>1 DEF StopSimulation, TypeOK, PhaseInv, ManifestInv, RunningIsPersisted, None,
     Versions, MaybeGen, NoSessions, writer, Locked, Serving, persistSessionsExcluding,
     Serialized
<1>6. WriterInv'
  BY <1>1 DEF StopSimulation, TypeOK, WriterInv, None, Versions, MaybeGen, NoSessions,
     writer, Locked, Serving, persistSessionsExcluding, Serialized
<1>7. ManifestHasSnapshot'
  BY <1>1 DEF StopSimulation, TypeOK, PhaseInv, ManifestHasSnapshot, RunningIsPersisted,
     None, Versions, MaybeGen, NoSessions, writer, Locked, Serving,
     persistSessionsExcluding, Serialized
<1>8. RunningIsPersisted'
  BY <1>1 DEF StopSimulation, TypeOK, RunningIsPersisted, None, Versions, MaybeGen,
     NoSessions, writer, Locked, Serving, persistSessionsExcluding, Serialized
<1>9. RunningConfigPresent'
  BY <1>1 DEF StopSimulation, TypeOK, RunningConfigPresent, None, Versions, MaybeGen,
     NoSessions, writer, ConfigPresent, Locked, Serving, persistSessionsExcluding,
     Serialized
<1>10. StrandedInv'
  BY <1>1 DEF StopSimulation, TypeOK, StrandedInv, None, Versions, MaybeGen, NoSessions,
     writer, Locked, Serving, persistSessionsExcluding, Serialized
<1>11. StrandedSessionReported'
  BY <1>1 DEF StopSimulation, TypeOK, PhaseInv, StrandedSessionReported, None, Versions,
     MaybeGen, NoSessions, writer, Locked, Serving, persistSessionsExcluding, Serialized
<1> QED BY <1>1, <1>2, <1>3, <1>4, <1>5, <1>6, <1>7, <1>8, <1>9, <1>10, <1>11

\* Shutdown's final write may fail; the older snapshot it leaves is still there.
LEMMA settleRuntimeStateInductive ==
  ASSUME Serialized, IInv, NEW s \in Sessions, settleRuntimeState(s)
  PROVE  IInv'
<1> USE ConstantsAssumption DEF IInv
<1>1. TypeOK'
  BY DEF settleRuntimeState, TypeOK, None, Versions, MaybeGen, boot, op
<1>2. PhaseInv'
  BY DEF settleRuntimeState, TypeOK, PhaseInv, None, Versions, MaybeGen, NoSessions,
     boot, op
<1>3. OpInv'
  BY DEF settleRuntimeState, TypeOK, PhaseInv, OpInv, None, Versions, MaybeGen,
     NoSessions, boot, op, Starting, Retiring, ConfigPresent
<1>4. WriterInv'
  BY DEF settleRuntimeState, TypeOK, ManifestInv, WriterInv, RunningIsPersisted, None,
     Versions, MaybeGen, boot, op
<1>5. ManifestHasSnapshot'
  BY DEF settleRuntimeState, TypeOK, WriterInv, ManifestHasSnapshot, None, Versions,
     MaybeGen, boot, op
<1>6. RunningIsPersisted'
  BY DEF settleRuntimeState, TypeOK, RunningIsPersisted, None, Versions, MaybeGen, boot,
     op
<1>7. RunningConfigPresent'
  BY DEF settleRuntimeState, TypeOK, RunningConfigPresent, None, Versions, MaybeGen,
     boot, op, ConfigPresent
<1>8. StrandedInv'
  BY DEF settleRuntimeState, TypeOK, StrandedInv, None, Versions, MaybeGen, boot, op
<1>9. StrandedSessionReported'
  BY DEF settleRuntimeState, TypeOK, StrandedSessionReported, None, Versions, MaybeGen,
     boot, op
<1>10. ManifestInv'
  BY DEF settleRuntimeState, ManifestInv, boot, op
<1> QED BY <1>1, <1>2, <1>3, <1>4, <1>5, <1>6, <1>7, <1>8, <1>9, <1>10

\* Staging writes the new generation's own inline file.
LEMMA stageInlineSessionConfigInductive ==
  ASSUME Serialized, IInv, stageInlineSessionConfig
  PROVE  IInv'
<1> USE ConstantsAssumption DEF IInv
<1>1. TypeOK'
  BY DEF stageInlineSessionConfig, TypeOK, OpInv, None, Versions, MaybeGen, boot,
     writer, Starting, Retiring, ConfigPresent
<1>2. PhaseInv'
  BY DEF stageInlineSessionConfig, TypeOK, PhaseInv, None, Versions, MaybeGen,
     NoSessions, boot, writer
<1>3. OpInv'
  BY DEF stageInlineSessionConfig, TypeOK, OpInv, None, Versions, MaybeGen, boot,
     writer, Starting, Retiring, ConfigPresent
<1>4. ManifestInv'
  BY DEF stageInlineSessionConfig, TypeOK, OpInv, ManifestInv, None, Versions, MaybeGen,
     boot, writer, Starting, Retiring, ConfigPresent
<1>5. WriterInv'
  BY DEF stageInlineSessionConfig, TypeOK, WriterInv, None, Versions, MaybeGen, boot,
     writer
<1>6. RunningConfigPresent'
  BY DEF stageInlineSessionConfig, TypeOK, RunningConfigPresent, None, Versions,
     MaybeGen, boot, writer, ConfigPresent
<1>7. ManifestHasSnapshot' /\ RunningIsPersisted' /\ StrandedInv'
     /\ StrandedSessionReported'
  BY DEF stageInlineSessionConfig, ManifestHasSnapshot, RunningIsPersisted, StrandedInv,
     StrandedSessionReported, boot, writer
<1> QED BY <1>1, <1>2, <1>3, <1>4, <1>5, <1>6, <1>7

\* A start that cannot stage its configuration leaves nothing behind.
LEMMA stageInlineFailsInductive ==
  ASSUME Serialized, IInv, stageInlineFails
  PROVE  IInv'
<1> USE ConstantsAssumption DEF IInv
<1>1. TypeOK'
  BY DEF stageInlineFails, TypeOK, OpInv, None, Versions, MaybeGen, disk, boot, writer,
     Starting, Retiring, ConfigPresent, Return
<1>2. PhaseInv'
  BY DEF stageInlineFails, TypeOK, PhaseInv, None, Versions, MaybeGen, NoSessions, disk,
     boot, writer, Return
<1>3. OpInv'
  BY DEF stageInlineFails, TypeOK, OpInv, None, Versions, MaybeGen, disk, boot, writer,
     Starting, Retiring, ConfigPresent, Return
<1>4. WriterInv'
  BY DEF stageInlineFails, TypeOK, OpInv, WriterInv, None, Versions, MaybeGen, disk,
     boot, writer, Starting, Retiring, ConfigPresent, Return
<1>5. ManifestInv' /\ ManifestHasSnapshot' /\ RunningIsPersisted'
     /\ RunningConfigPresent' /\ StrandedInv' /\ StrandedSessionReported'
  BY DEF stageInlineFails, ManifestInv, ManifestHasSnapshot, RunningIsPersisted,
     RunningConfigPresent, StrandedInv, StrandedSessionReported, disk, boot, writer,
     ConfigPresent, Return
<1> QED BY <1>1, <1>2, <1>3, <1>4, <1>5

\* The first snapshot belongs to a generation no manifest entry names.
LEMMA writeRuntimeStateInductive ==
  ASSUME Serialized, IInv, writeRuntimeState
  PROVE  IInv'
<1> USE ConstantsAssumption DEF IInv
<1>1. TypeOK'
  BY DEF writeRuntimeState, TypeOK, OpInv, None, Versions, MaybeGen, boot, writer,
     Starting, Retiring, ConfigPresent
<1>2. PhaseInv'
  BY DEF writeRuntimeState, TypeOK, PhaseInv, None, Versions, MaybeGen, NoSessions,
     boot, writer
<1>3. OpInv'
  BY DEF writeRuntimeState, TypeOK, OpInv, None, Versions, MaybeGen, boot, writer,
     Starting, Retiring, ConfigPresent
<1>4. WriterInv'
  BY DEF writeRuntimeState, TypeOK, OpInv, WriterInv, None, Versions, MaybeGen, boot,
     writer, Starting, Retiring, ConfigPresent
<1>5. ManifestHasSnapshot'
  BY DEF writeRuntimeState, TypeOK, OpInv, ManifestHasSnapshot, None, Versions,
     MaybeGen, boot, writer, Starting, Retiring, ConfigPresent
<1>6. ManifestInv' /\ RunningIsPersisted' /\ RunningConfigPresent' /\ StrandedInv'
     /\ StrandedSessionReported'
  BY DEF writeRuntimeState, ManifestInv, RunningIsPersisted, RunningConfigPresent,
     StrandedInv, StrandedSessionReported, boot, writer, ConfigPresent
<1> QED BY <1>1, <1>2, <1>3, <1>4, <1>5, <1>6

\* The commit finds the snapshot and the configuration in place.
LEMMA commitSimulationGenerationInductive ==
  ASSUME Serialized, IInv, commitSimulationGeneration
  PROVE  IInv'
<1> USE ConstantsAssumption DEF IInv
<1>1. /\ schema' = "v3" /\ legacy' = {}
      /\ manifest' = [manifest EXCEPT ![cur] = new]
      /\ UNCHANGED <<minted, inline, source>>
  BY PersistUpdates DEF commitSimulationGeneration, OpInv, Starting, TypeOK
<1>2. TypeOK'
  BY <1>1 DEF commitSimulationGeneration, TypeOK, PhaseInv, OpInv, None, Versions,
     MaybeGen, NoSessions, boot, writer, Starting, Retiring, ConfigPresent
<1>3. PhaseInv'
  BY <1>1 DEF commitSimulationGeneration, TypeOK, PhaseInv, None, Versions, MaybeGen,
     NoSessions, boot, writer
<1>4. OpInv'
  BY <1>1, SMTT(30) DEF commitSimulationGeneration, TypeOK, PhaseInv, OpInv,
     ManifestInv, WriterInv, ManifestHasSnapshot, RunningIsPersisted, None, Versions,
     MaybeGen, NoSessions, boot, writer, Starting, Retiring, ConfigPresent
<1>5. ManifestInv'
  BY <1>1 DEF commitSimulationGeneration, TypeOK, PhaseInv, OpInv, ManifestInv,
     RunningIsPersisted, None, Versions, MaybeGen, NoSessions, boot, writer, Starting,
     Retiring, ConfigPresent
<1>6. WriterInv'
  BY <1>1 DEF commitSimulationGeneration, TypeOK, OpInv, WriterInv, None, Versions,
     MaybeGen, NoSessions, boot, writer, Starting, Retiring, ConfigPresent
<1>7. ManifestHasSnapshot'
  BY <1>1 DEF commitSimulationGeneration, TypeOK, PhaseInv, OpInv, ManifestHasSnapshot,
     RunningIsPersisted, None, Versions, MaybeGen, NoSessions, boot, writer, Starting,
     Retiring, ConfigPresent
<1>8. RunningIsPersisted'
  BY <1>1 DEF commitSimulationGeneration, TypeOK, RunningIsPersisted, None, Versions,
     MaybeGen, NoSessions, boot, writer
<1>9. RunningConfigPresent'
  BY <1>1 DEF commitSimulationGeneration, TypeOK, OpInv, RunningConfigPresent, None,
     Versions, MaybeGen, NoSessions, boot, writer, Starting, Retiring, ConfigPresent
<1>10. StrandedInv'
  BY <1>1 DEF commitSimulationGeneration, TypeOK, PhaseInv, StrandedInv, None, Versions,
     MaybeGen, NoSessions, boot, writer
<1>11. StrandedSessionReported'
  BY <1>1 DEF commitSimulationGeneration, TypeOK, PhaseInv, StrandedSessionReported,
     None, Versions, MaybeGen, NoSessions, boot, writer
<1> QED BY <1>1, <1>2, <1>3, <1>4, <1>5, <1>6, <1>7, <1>8, <1>9, <1>10, <1>11

\* A failing commit gives up a generation that is not yet in force.
LEMMA commitFailsInductive ==
  ASSUME Serialized, IInv, commitFails
  PROVE  IInv'
<1> USE ConstantsAssumption DEF IInv
<1>1. TypeOK'
  BY DEF commitFails, TypeOK, OpInv, None, Versions, MaybeGen, disk, boot, writer,
     Starting, Retiring, ConfigPresent
<1>2. PhaseInv'
  BY DEF commitFails, TypeOK, PhaseInv, None, Versions, MaybeGen, NoSessions, disk,
     boot, writer
<1>3. OpInv'
  BY DEF commitFails, TypeOK, OpInv, None, Versions, MaybeGen, disk, boot, writer,
     Starting, Retiring, ConfigPresent
<1>4. WriterInv'
  BY DEF commitFails, TypeOK, OpInv, WriterInv, RunningIsPersisted, None, Versions,
     MaybeGen, disk, boot, writer, Starting, Retiring, ConfigPresent
<1>5. ManifestInv' /\ ManifestHasSnapshot' /\ RunningIsPersisted'
     /\ RunningConfigPresent' /\ StrandedInv' /\ StrandedSessionReported'
  BY DEF commitFails, ManifestInv, ManifestHasSnapshot, RunningIsPersisted,
     RunningConfigPresent, StrandedInv, StrandedSessionReported, disk, boot, writer,
     ConfigPresent
<1> QED BY <1>1, <1>2, <1>3, <1>4, <1>5

\* The snapshot removed is that of a generation not in force.
LEMMA dropRuntimeInductive ==
  ASSUME Serialized, IInv, dropRuntime
  PROVE  IInv'
<1> USE ConstantsAssumption DEF IInv
<1>1. TypeOK'
  BY DEF dropRuntime, TypeOK, None, Versions, MaybeGen, boot, writer
<1>2. PhaseInv'
  BY DEF dropRuntime, TypeOK, PhaseInv, None, Versions, MaybeGen, NoSessions, boot,
     writer
<1>3. OpInv'
  BY DEF dropRuntime, TypeOK, OpInv, None, Versions, MaybeGen, boot, writer, Starting,
     Retiring, ConfigPresent
<1>4. WriterInv'
  BY DEF dropRuntime, TypeOK, WriterInv, None, Versions, MaybeGen, boot, writer
<1>5. ManifestHasSnapshot'
  BY DEF dropRuntime, TypeOK, OpInv, ManifestHasSnapshot, None, Versions, MaybeGen,
     boot, writer, Starting, Retiring, ConfigPresent
<1>6. ManifestInv' /\ RunningIsPersisted' /\ RunningConfigPresent' /\ StrandedInv'
     /\ StrandedSessionReported'
  BY DEF dropRuntime, ManifestInv, RunningIsPersisted, RunningConfigPresent,
     StrandedInv, StrandedSessionReported, boot, writer, ConfigPresent
<1> QED BY <1>1, <1>2, <1>3, <1>4, <1>5, <1>6

\* The inline file removed is one no running session was started from.
LEMMA dropInlineInductive ==
  ASSUME Serialized, IInv, dropInline
  PROVE  IInv'
<1> USE ConstantsAssumption DEF IInv
<1>1. TypeOK'
  BY DEF dropInline, TypeOK, None, Versions, MaybeGen, boot, writer, Return
<1>2. PhaseInv'
  BY DEF dropInline, TypeOK, PhaseInv, None, Versions, MaybeGen, NoSessions, boot,
     writer, Return
<1>3. OpInv'
  BY DEF dropInline, TypeOK, OpInv, None, Versions, MaybeGen, boot, writer, Starting,
     Retiring, ConfigPresent, Return
<1>4. ManifestInv'
  BY DEF dropInline, TypeOK, ManifestInv, None, Versions, MaybeGen, boot, writer, Return
<1>5. WriterInv'
  BY DEF dropInline, TypeOK, WriterInv, None, Versions, MaybeGen, boot, writer, Return
<1>6. RunningConfigPresent'
  BY DEF dropInline, TypeOK, OpInv, RunningConfigPresent, None, Versions, MaybeGen,
     boot, writer, Starting, Retiring, ConfigPresent, Return
<1>7. ManifestHasSnapshot' /\ RunningIsPersisted' /\ StrandedInv'
     /\ StrandedSessionReported'
  BY DEF dropInline, ManifestHasSnapshot, RunningIsPersisted, StrandedInv,
     StrandedSessionReported, boot, writer, Return
<1> QED BY <1>1, <1>2, <1>3, <1>4, <1>5, <1>6, <1>7

\* Retiring a stack waits for its write in flight.
LEMMA stopSimulationInductive ==
  ASSUME Serialized, IInv, stopSimulation
  PROVE  IInv'
<1> USE ConstantsAssumption DEF IInv
<1>1. TypeOK'
  BY DEF stopSimulation, TypeOK, OpInv, None, Versions, MaybeGen, disk, boot, Starting,
     Retiring, ConfigPresent
<1>2. PhaseInv'
  BY DEF stopSimulation, TypeOK, PhaseInv, None, Versions, MaybeGen, NoSessions, disk,
     boot
<1>3. OpInv'
  BY DEF stopSimulation, TypeOK, OpInv, None, Versions, MaybeGen, disk, boot, Starting,
     Retiring, ConfigPresent
<1>4. WriterInv'
  BY DEF stopSimulation, TypeOK, OpInv, WriterInv, RunningIsPersisted, None, Versions,
     MaybeGen, disk, boot, Starting, Retiring, ConfigPresent
<1>5. ManifestInv' /\ ManifestHasSnapshot' /\ RunningIsPersisted'
     /\ RunningConfigPresent' /\ StrandedInv' /\ StrandedSessionReported'
  BY DEF stopSimulation, ManifestInv, ManifestHasSnapshot, RunningIsPersisted,
     RunningConfigPresent, StrandedInv, StrandedSessionReported, disk, boot,
     ConfigPresent
<1> QED BY <1>1, <1>2, <1>3, <1>4, <1>5

\* The snapshot removed is that of a generation no longer in force.
LEMMA clearRuntimeStateInductive ==
  ASSUME Serialized, IInv, clearRuntimeState
  PROVE  IInv'
<1> USE ConstantsAssumption DEF IInv
<1>1. TypeOK'
  BY DEF clearRuntimeState, TypeOK, None, Versions, MaybeGen, boot, writer
<1>2. PhaseInv'
  BY DEF clearRuntimeState, TypeOK, PhaseInv, None, Versions, MaybeGen, NoSessions,
     boot, writer
<1>3. OpInv'
  BY DEF clearRuntimeState, TypeOK, OpInv, None, Versions, MaybeGen, boot, writer,
     Starting, Retiring, ConfigPresent
<1>4. WriterInv'
  BY DEF clearRuntimeState, TypeOK, WriterInv, None, Versions, MaybeGen, boot, writer
<1>5. ManifestHasSnapshot'
  BY DEF clearRuntimeState, TypeOK, OpInv, ManifestHasSnapshot, None, Versions,
     MaybeGen, boot, writer, Starting, Retiring, ConfigPresent
<1>6. ManifestInv' /\ RunningIsPersisted' /\ RunningConfigPresent' /\ StrandedInv'
     /\ StrandedSessionReported'
  BY DEF clearRuntimeState, ManifestInv, RunningIsPersisted, RunningConfigPresent,
     StrandedInv, StrandedSessionReported, boot, writer, ConfigPresent
<1> QED BY <1>1, <1>2, <1>3, <1>4, <1>5, <1>6

\* The inline file stays when a running session still names it.
LEMMA removeInlineConfigInductive ==
  ASSUME Serialized, IInv, removeInlineConfig
  PROVE  IInv'
<1> USE ConstantsAssumption DEF IInv
<1>1. TypeOK'
  BY DEF removeInlineConfig, TypeOK, None, Versions, MaybeGen, boot, writer, Return,
     inlineConfigInUse
<1>2. PhaseInv'
  BY DEF removeInlineConfig, TypeOK, PhaseInv, None, Versions, MaybeGen, NoSessions,
     boot, writer, Return, inlineConfigInUse
<1>3. OpInv'
  BY DEF removeInlineConfig, TypeOK, OpInv, None, Versions, MaybeGen, boot, writer,
     Starting, Retiring, ConfigPresent, Return, inlineConfigInUse
<1>4. ManifestInv'
  BY DEF removeInlineConfig, TypeOK, ManifestInv, None, Versions, MaybeGen, boot,
     writer, Return, inlineConfigInUse
<1>5. WriterInv'
  BY DEF removeInlineConfig, TypeOK, WriterInv, None, Versions, MaybeGen, boot, writer,
     Return, inlineConfigInUse
<1>6. RunningConfigPresent'
  BY DEF removeInlineConfig, TypeOK, RunningConfigPresent, None, Versions, MaybeGen,
     boot, writer, ConfigPresent, Return, inlineConfigInUse
<1>7. ManifestHasSnapshot' /\ RunningIsPersisted' /\ StrandedInv'
     /\ StrandedSessionReported'
  BY DEF removeInlineConfig, ManifestHasSnapshot, RunningIsPersisted, StrandedInv,
     StrandedSessionReported, boot, writer, Return
<1> QED BY <1>1, <1>2, <1>3, <1>4, <1>5, <1>6, <1>7

\* The writer is started for a generation that is running.
LEMMA startRuntimeStateWriterInductive ==
  ASSUME Serialized, IInv, startRuntimeStateWriter
  PROVE  IInv'
<1> USE ConstantsAssumption DEF IInv
<1>1. TypeOK'
  BY DEF startRuntimeStateWriter, TypeOK, OpInv, None, Versions, MaybeGen, disk, boot,
     Starting, Retiring, ConfigPresent, Return
<1>2. PhaseInv'
  BY DEF startRuntimeStateWriter, TypeOK, PhaseInv, None, Versions, MaybeGen,
     NoSessions, disk, boot, Return
<1>3. OpInv'
  BY DEF startRuntimeStateWriter, TypeOK, OpInv, None, Versions, MaybeGen, disk, boot,
     Starting, Retiring, ConfigPresent, Return
<1>4. WriterInv'
  BY DEF startRuntimeStateWriter, TypeOK, OpInv, WriterInv, None, Versions, MaybeGen,
     disk, boot, Starting, Retiring, ConfigPresent, Return
<1>5. ManifestInv' /\ ManifestHasSnapshot' /\ RunningIsPersisted'
     /\ RunningConfigPresent' /\ StrandedInv' /\ StrandedSessionReported'
  BY DEF startRuntimeStateWriter, ManifestInv, ManifestHasSnapshot, RunningIsPersisted,
     RunningConfigPresent, StrandedInv, StrandedSessionReported, disk, boot,
     ConfigPresent, Return
<1> QED BY <1>1, <1>2, <1>3, <1>4, <1>5

\* A recovering start publishes the generation the manifest names.
LEMMA recoverSessionInductive ==
  ASSUME Serialized, IInv, NEW s \in Sessions, recoverSession(s)
  PROVE  IInv'
<1> USE ConstantsAssumption DEF IInv
<1>1. TypeOK'
  BY DEF recoverSession, TypeOK, None, Versions, MaybeGen, disk, writer, ConfigPresent,
     Locked
<1>2. PhaseInv'
  BY DEF recoverSession, TypeOK, PhaseInv, None, Versions, MaybeGen, NoSessions, disk,
     writer, ConfigPresent, Locked
<1>3. OpInv'
  BY DEF recoverSession, TypeOK, PhaseInv, OpInv, None, Versions, MaybeGen, NoSessions,
     disk, writer, Starting, Retiring, ConfigPresent, Locked
<1>4. WriterInv'
  BY DEF recoverSession, TypeOK, PhaseInv, ManifestInv, WriterInv, RunningIsPersisted,
     None, Versions, MaybeGen, NoSessions, disk, writer, ConfigPresent, Locked
<1>5. RunningIsPersisted'
  BY DEF recoverSession, TypeOK, PhaseInv, RunningIsPersisted, None, Versions, MaybeGen,
     NoSessions, disk, writer, ConfigPresent, Locked
<1>6. RunningConfigPresent'
  BY DEF recoverSession, TypeOK, RunningConfigPresent, None, Versions, MaybeGen, disk,
     writer, ConfigPresent, Locked
<1>7. StrandedInv'
  BY DEF recoverSession, TypeOK, StrandedInv, None, Versions, MaybeGen, disk, writer,
     ConfigPresent, Locked
<1>8. StrandedSessionReported'
  BY DEF recoverSession, TypeOK, StrandedSessionReported, None, Versions, MaybeGen,
     disk, writer, ConfigPresent, Locked
<1>9. ManifestInv' /\ ManifestHasSnapshot'
  BY DEF recoverSession, ManifestInv, ManifestHasSnapshot, disk, writer, ConfigPresent
<1> QED BY <1>1, <1>2, <1>3, <1>4, <1>5, <1>6, <1>7, <1>8, <1>9

\* A recovering start that fails is counted and changes no file.
LEMMA recoverSessionFailsInductive ==
  ASSUME Serialized, IInv, NEW s \in Sessions, recoverSessionFails(s)
  PROVE  IInv'
<1> USE ConstantsAssumption DEF IInv
<1>1. TypeOK'
  BY DEF recoverSessionFails, TypeOK, None, Versions, MaybeGen, disk, writer, op,
     ConfigPresent, Locked
<1>2. PhaseInv'
  BY DEF recoverSessionFails, TypeOK, PhaseInv, None, Versions, MaybeGen, NoSessions,
     disk, writer, op, ConfigPresent, Locked
<1>3. OpInv'
  BY DEF recoverSessionFails, TypeOK, OpInv, None, Versions, MaybeGen, disk, writer, op,
     Starting, Retiring, ConfigPresent, Locked
<1>4. StrandedInv'
  BY DEF recoverSessionFails, TypeOK, StrandedInv, None, Versions, MaybeGen, disk,
     writer, op, ConfigPresent, Locked
<1>5. ManifestInv' /\ WriterInv' /\ ManifestHasSnapshot' /\ RunningIsPersisted'
     /\ RunningConfigPresent' /\ StrandedSessionReported'
  BY DEF recoverSessionFails, ManifestInv, WriterInv, ManifestHasSnapshot,
     RunningIsPersisted, RunningConfigPresent, StrandedSessionReported, disk, writer,
     op, ConfigPresent
<1> QED BY <1>1, <1>2, <1>3, <1>4, <1>5

\* The report covers every session that was counted as failed.
LEMMA recoveryDoneInductive ==
  ASSUME Serialized, IInv, recoveryDone
  PROVE  IInv'
<1> USE ConstantsAssumption DEF IInv
<1>1. TypeOK'
  BY DEF recoveryDone, TypeOK, None, Versions, MaybeGen, NoSessions, disk, writer, op,
     Locked
<1>2. PhaseInv'
  BY DEF recoveryDone, TypeOK, PhaseInv, None, Versions, MaybeGen, NoSessions, disk,
     writer, op, Locked
<1>3. OpInv'
  BY DEF recoveryDone, TypeOK, OpInv, None, Versions, MaybeGen, NoSessions, disk,
     writer, op, Starting, Retiring, ConfigPresent, Locked
<1>4. StrandedInv'
  BY DEF recoveryDone, TypeOK, StrandedInv, None, Versions, MaybeGen, NoSessions, disk,
     writer, op, Locked
<1>5. StrandedSessionReported'
  BY DEF recoveryDone, TypeOK, StrandedInv, StrandedSessionReported, None, Versions,
     MaybeGen, NoSessions, disk, writer, op, Locked
<1>6. ManifestInv' /\ WriterInv' /\ ManifestHasSnapshot' /\ RunningIsPersisted'
     /\ RunningConfigPresent'
  BY DEF recoveryDone, ManifestInv, WriterInv, ManifestHasSnapshot, RunningIsPersisted,
     RunningConfigPresent, disk, writer, op, ConfigPresent
<1> QED BY <1>1, <1>2, <1>3, <1>4, <1>5, <1>6

\* A stack only moves ahead of its snapshot.
LEMMA AdvanceInductive ==
  ASSUME Serialized, IInv, NEW g \in Generations, Advance(g)
  PROVE  IInv'
<1> USE ConstantsAssumption DEF IInv
<1>1. TypeOK'
  BY DEF Advance, TypeOK, None, Versions, MaybeGen, disk, boot, writer, op
<1>2. OpInv'
  BY SMTT(30) DEF Advance, TypeOK, OpInv, None, Versions, MaybeGen, disk, boot, writer, op,
     Starting, Retiring, ConfigPresent
<1>3. WriterInv'
  BY DEF Advance, TypeOK, WriterInv, None, Versions, MaybeGen, disk, boot, writer, op
<1>4. PhaseInv' /\ ManifestInv' /\ ManifestHasSnapshot' /\ RunningIsPersisted'
     /\ RunningConfigPresent' /\ StrandedInv' /\ StrandedSessionReported'
  BY DEF Advance, PhaseInv, ManifestInv, ManifestHasSnapshot, RunningIsPersisted,
     RunningConfigPresent, StrandedInv, StrandedSessionReported, disk, boot, writer, op,
     ConfigPresent
<1> QED BY <1>1, <1>2, <1>3, <1>4

\* The version read by a tick is between the snapshot and the stack.
LEMMA writerTickInductive ==
  ASSUME Serialized, IInv, NEW g \in Generations, writerTick(g)
  PROVE  IInv'
<1> USE ConstantsAssumption DEF IInv
<1>1. TypeOK'
  BY DEF writerTick, TypeOK, None, Versions, MaybeGen, disk, boot, op
<1>2. OpInv'
  BY DEF writerTick, TypeOK, OpInv, None, Versions, MaybeGen, disk, boot, op, Starting,
     Retiring, ConfigPresent
<1>3. WriterInv'
  BY DEF writerTick, TypeOK, OpInv, WriterInv, None, Versions, MaybeGen, disk, boot, op,
     Starting, Retiring, ConfigPresent
<1>4. PhaseInv' /\ ManifestInv' /\ ManifestHasSnapshot' /\ RunningIsPersisted'
     /\ RunningConfigPresent' /\ StrandedInv' /\ StrandedSessionReported'
  BY DEF writerTick, PhaseInv, ManifestInv, ManifestHasSnapshot, RunningIsPersisted,
     RunningConfigPresent, StrandedInv, StrandedSessionReported, disk, boot, op,
     ConfigPresent
<1> QED BY <1>1, <1>2, <1>3, <1>4

\* A write moves the snapshot to a version at least as new.
LEMMA writerWritesInductive ==
  ASSUME Serialized, IInv, NEW g \in Generations, writerWrites(g)
  PROVE  IInv'
<1> USE ConstantsAssumption DEF IInv
<1>1. TypeOK'
  BY DEF writerWrites, TypeOK, None, Versions, MaybeGen, boot, op
<1>2. OpInv'
  BY DEF writerWrites, TypeOK, OpInv, None, Versions, MaybeGen, boot, op, Starting,
     Retiring, ConfigPresent
<1>3. WriterInv'
  BY DEF writerWrites, TypeOK, WriterInv, None, Versions, MaybeGen, boot, op
<1>4. ManifestHasSnapshot'
  BY DEF writerWrites, TypeOK, ManifestHasSnapshot, None, Versions, MaybeGen, boot, op
<1>5. PhaseInv' /\ ManifestInv' /\ RunningIsPersisted' /\ RunningConfigPresent'
     /\ StrandedInv' /\ StrandedSessionReported'
  BY DEF writerWrites, PhaseInv, ManifestInv, RunningIsPersisted, RunningConfigPresent,
     StrandedInv, StrandedSessionReported, boot, op, ConfigPresent
<1> QED BY <1>1, <1>2, <1>3, <1>4, <1>5

\* A failing write leaves the snapshot as it was.
LEMMA writerFailsInductive ==
  ASSUME Serialized, IInv, NEW g \in Generations, writerFails(g)
  PROVE  IInv'
<1> USE ConstantsAssumption DEF IInv
<1>1. TypeOK'
  BY DEF writerFails, TypeOK, None, Versions, MaybeGen, disk, boot, op
<1>2. OpInv'
  BY DEF writerFails, TypeOK, OpInv, None, Versions, MaybeGen, disk, boot, op, Starting,
     Retiring, ConfigPresent
<1>3. WriterInv'
  BY DEF writerFails, TypeOK, WriterInv, None, Versions, MaybeGen, disk, boot, op
<1>4. PhaseInv' /\ ManifestInv' /\ ManifestHasSnapshot' /\ RunningIsPersisted'
     /\ RunningConfigPresent' /\ StrandedInv' /\ StrandedSessionReported'
  BY DEF writerFails, PhaseInv, ManifestInv, ManifestHasSnapshot, RunningIsPersisted,
     RunningConfigPresent, StrandedInv, StrandedSessionReported, disk, boot, op,
     ConfigPresent
<1> QED BY <1>1, <1>2, <1>3, <1>4

\* Shutdown takes d.mu when no operation holds it.
LEMMA ShutdownInductive ==
  ASSUME Serialized, IInv, Shutdown
  PROVE  IInv'
<1> USE ConstantsAssumption DEF IInv
<1>1. TypeOK'
  BY DEF Shutdown, TypeOK, None, Versions, MaybeGen, disk, writer, op, Locked
<1>2. PhaseInv'
  BY DEF Shutdown, TypeOK, PhaseInv, None, Versions, MaybeGen, NoSessions, disk, writer,
     op, Locked
<1>3. OpInv'
  BY DEF Shutdown, TypeOK, OpInv, None, Versions, MaybeGen, disk, writer, op, Starting,
     Retiring, ConfigPresent, Locked
<1>4. StrandedInv'
  BY DEF Shutdown, TypeOK, StrandedInv, None, Versions, MaybeGen, disk, writer, op,
     Locked
<1>5. StrandedSessionReported'
  BY DEF Shutdown, TypeOK, StrandedSessionReported, None, Versions, MaybeGen, disk,
     writer, op, Locked
<1>6. ManifestInv' /\ WriterInv' /\ ManifestHasSnapshot' /\ RunningIsPersisted'
     /\ RunningConfigPresent'
  BY DEF Shutdown, ManifestInv, WriterInv, ManifestHasSnapshot, RunningIsPersisted,
     RunningConfigPresent, disk, writer, op, ConfigPresent
<1> QED BY <1>1, <1>2, <1>3, <1>4, <1>5, <1>6

\* The server closes once no session is running.
LEMMA ShutdownServerInductive ==
  ASSUME Serialized, IInv, ShutdownServer
  PROVE  IInv'
<1> USE ConstantsAssumption DEF IInv
<1>1. TypeOK'
  BY DEF ShutdownServer, TypeOK, None, Versions, MaybeGen, NoSessions, disk, writer, op
<1>2. PhaseInv'
  BY DEF ShutdownServer, TypeOK, PhaseInv, None, Versions, MaybeGen, NoSessions, disk,
     writer, op
<1>3. OpInv'
  BY DEF ShutdownServer, TypeOK, OpInv, None, Versions, MaybeGen, NoSessions, disk,
     writer, op, Starting, Retiring, ConfigPresent
<1>4. StrandedInv'
  BY DEF ShutdownServer, TypeOK, StrandedInv, None, Versions, MaybeGen, NoSessions,
     disk, writer, op
<1>5. StrandedSessionReported'
  BY DEF ShutdownServer, TypeOK, StrandedSessionReported, None, Versions, MaybeGen,
     NoSessions, disk, writer, op
<1>6. ManifestInv' /\ WriterInv' /\ ManifestHasSnapshot' /\ RunningIsPersisted'
     /\ RunningConfigPresent'
  BY DEF ShutdownServer, ManifestInv, WriterInv, ManifestHasSnapshot,
     RunningIsPersisted, RunningConfigPresent, disk, writer, op, ConfigPresent
<1> QED BY <1>1, <1>2, <1>3, <1>4, <1>5, <1>6

\* An orderly exit loses the memory and keeps the disk.
LEMMA HaltInductive ==
  ASSUME Serialized, IInv, Halt
  PROVE  IInv'
<1> USE ConstantsAssumption DEF IInv
<1>1. TypeOK'
  BY DEF Halt, TypeOK, None, Versions, MaybeGen, NoSessions, disk, Locked, Return, Exit
<1>2. PhaseInv'
  BY DEF Halt, TypeOK, PhaseInv, None, Versions, MaybeGen, NoSessions, disk, Locked,
     Return, Exit
<1>3. OpInv'
  BY DEF Halt, TypeOK, OpInv, None, Versions, MaybeGen, NoSessions, disk, Starting,
     Retiring, ConfigPresent, Locked, Return, Exit
<1>4. WriterInv'
  BY DEF Halt, TypeOK, WriterInv, None, Versions, MaybeGen, NoSessions, disk, Locked,
     Return, Exit
<1>5. RunningIsPersisted'
  BY DEF Halt, TypeOK, RunningIsPersisted, None, Versions, MaybeGen, NoSessions, disk,
     Locked, Return, Exit
<1>6. RunningConfigPresent'
  BY DEF Halt, TypeOK, RunningConfigPresent, None, Versions, MaybeGen, NoSessions, disk,
     ConfigPresent, Locked, Return, Exit
<1>7. StrandedInv'
  BY DEF Halt, TypeOK, StrandedInv, None, Versions, MaybeGen, NoSessions, disk, Locked,
     Return, Exit
<1>8. StrandedSessionReported'
  BY DEF Halt, TypeOK, StrandedSessionReported, None, Versions, MaybeGen, NoSessions,
     disk, Locked, Return, Exit
<1>9. ManifestInv' /\ ManifestHasSnapshot'
  BY DEF Halt, ManifestInv, ManifestHasSnapshot, disk, Return, Exit
<1> QED BY <1>1, <1>2, <1>3, <1>4, <1>5, <1>6, <1>7, <1>8, <1>9

\* So does a crash, between any two steps.
LEMMA CrashInductive ==
  ASSUME Serialized, IInv, Crash
  PROVE  IInv'
<1> USE ConstantsAssumption DEF IInv
<1>1. TypeOK'
  BY DEF Crash, TypeOK, None, Versions, MaybeGen, NoSessions, disk, Up, Return, Exit
<1>2. PhaseInv'
  BY DEF Crash, TypeOK, PhaseInv, None, Versions, MaybeGen, NoSessions, disk, Up,
     Return, Exit
<1>3. OpInv'
  BY DEF Crash, TypeOK, OpInv, None, Versions, MaybeGen, NoSessions, disk, Starting,
     Retiring, ConfigPresent, Up, Return, Exit
<1>4. WriterInv'
  BY DEF Crash, TypeOK, WriterInv, None, Versions, MaybeGen, NoSessions, disk, Up,
     Return, Exit
<1>5. RunningIsPersisted'
  BY DEF Crash, TypeOK, RunningIsPersisted, None, Versions, MaybeGen, NoSessions, disk,
     Up, Return, Exit
<1>6. RunningConfigPresent'
  BY DEF Crash, TypeOK, RunningConfigPresent, None, Versions, MaybeGen, NoSessions,
     disk, ConfigPresent, Up, Return, Exit
<1>7. StrandedInv'
  BY DEF Crash, TypeOK, StrandedInv, None, Versions, MaybeGen, NoSessions, disk, Up,
     Return, Exit
<1>8. StrandedSessionReported'
  BY DEF Crash, TypeOK, StrandedSessionReported, None, Versions, MaybeGen, NoSessions,
     disk, Up, Return, Exit
<1>9. ManifestInv' /\ ManifestHasSnapshot'
  BY DEF Crash, ManifestInv, ManifestHasSnapshot, disk, Return, Exit
<1> QED BY <1>1, <1>2, <1>3, <1>4, <1>5, <1>6, <1>7, <1>8, <1>9

\* Recovery works from the manifest as it is on disk.
LEMMA ReadManifestInductive ==
  ASSUME Serialized, IInv, ReadManifest
  PROVE  IInv'
<1> USE ConstantsAssumption DEF IInv
<1>1. TypeOK'
  BY SMTT(30) DEF ReadManifest, TypeOK, PhaseInv, None, Versions, MaybeGen, NoSessions, writer,
     op, Up, Minted, readRecoveryState
<1>2. PhaseInv'
  BY DEF ReadManifest, TypeOK, PhaseInv, None, Versions, MaybeGen, NoSessions, writer,
     op, Up, Minted, readRecoveryState
<1>3. OpInv'
  <2>1. pc = "idle" /\ UNCHANGED op
    BY DEF ReadManifest, PhaseInv, TypeOK, Up
  <2> QED BY <2>1 DEF OpInv, op, Starting, Retiring
<1>4. ManifestInv'
  BY SMTT(30) DEF ReadManifest, TypeOK, PhaseInv, ManifestInv, None, Versions, MaybeGen,
     NoSessions, writer, op, Up, Minted, readRecoveryState
<1>5. StrandedInv'
  BY DEF ReadManifest, TypeOK, PhaseInv, StrandedInv, None, Versions, MaybeGen,
     NoSessions, writer, op, Up, Minted, readRecoveryState
<1>6. StrandedSessionReported'
  BY DEF ReadManifest, TypeOK, PhaseInv, StrandedSessionReported, None, Versions,
     MaybeGen, NoSessions, writer, op, Up, Minted, readRecoveryState
<1>7. WriterInv' /\ ManifestHasSnapshot' /\ RunningIsPersisted' /\ RunningConfigPresent'
  BY DEF ReadManifest, WriterInv, ManifestHasSnapshot, RunningIsPersisted,
     RunningConfigPresent, writer, op, ConfigPresent
<1> QED BY <1>1, <1>2, <1>3, <1>4, <1>5, <1>6, <1>7

\* An unusable manifest is reported as a failed recovery.
LEMMA quarantineUnusableStateInductive ==
  ASSUME Serialized, IInv, quarantineUnusableState
  PROVE  IInv'
<1> USE ConstantsAssumption DEF IInv
<1>1. TypeOK'
  BY DEF quarantineUnusableState, TypeOK, None, Versions, MaybeGen, writer, op, Up
<1>2. PhaseInv'
  BY DEF quarantineUnusableState, TypeOK, PhaseInv, None, Versions, MaybeGen,
     NoSessions, writer, op, Up
<1>3. OpInv'
  BY DEF quarantineUnusableState, TypeOK, OpInv, None, Versions, MaybeGen, writer, op,
     Starting, Retiring, ConfigPresent, Up
<1>4. StrandedInv'
  BY DEF quarantineUnusableState, TypeOK, StrandedInv, None, Versions, MaybeGen, writer,
     op, Up
<1>5. StrandedSessionReported'
  BY DEF quarantineUnusableState, TypeOK, StrandedSessionReported, None, Versions,
     MaybeGen, writer, op, Up
<1>6. ManifestInv' /\ WriterInv' /\ ManifestHasSnapshot' /\ RunningIsPersisted'
     /\ RunningConfigPresent'
  BY DEF quarantineUnusableState, ManifestInv, WriterInv, ManifestHasSnapshot,
     RunningIsPersisted, RunningConfigPresent, writer, op, ConfigPresent
<1> QED BY <1>1, <1>2, <1>3, <1>4, <1>5, <1>6

-----------------------------------------------------------------------------
\* Every step of the daemon, whichever process takes it, preserves the invariant.
LEMMA NextInductive == ASSUME Serialized, IInv, [Next]_vars PROVE IInv'
<1>1. ASSUME NEW s \in Sessions, NEW g \in Generations, NEW src \in Generations \cup {Managed}, StartSimulation(s, g, src) PROVE IInv'
  BY <1>1, StartSimulationInductive
<1>2. ASSUME NEW s \in Sessions, StopSimulation(s) PROVE IInv'
  BY <1>2, StopSimulationInductive
<1>3. ASSUME NEW s \in Sessions, settleRuntimeState(s) PROVE IInv'
  BY <1>3, settleRuntimeStateInductive
<1>4. CASE stageInlineSessionConfig
  BY <1>4, stageInlineSessionConfigInductive
<1>5. CASE stageInlineFails
  BY <1>5, stageInlineFailsInductive
<1>6. CASE writeRuntimeState
  BY <1>6, writeRuntimeStateInductive
<1>7. CASE commitSimulationGeneration
  BY <1>7, commitSimulationGenerationInductive
<1>8. CASE commitFails
  BY <1>8, commitFailsInductive
<1>9. CASE dropRuntime
  BY <1>9, dropRuntimeInductive
<1>10. CASE dropInline
  BY <1>10, dropInlineInductive
<1>11. CASE stopSimulation
  BY <1>11, stopSimulationInductive
<1>12. CASE clearRuntimeState
  BY <1>12, clearRuntimeStateInductive
<1>13. CASE removeInlineConfig
  BY <1>13, removeInlineConfigInductive
<1>14. CASE startRuntimeStateWriter
  BY <1>14, startRuntimeStateWriterInductive
<1>15. ASSUME NEW s \in Sessions, recoverSession(s) PROVE IInv'
  BY <1>15, recoverSessionInductive
<1>16. ASSUME NEW s \in Sessions, recoverSessionFails(s) PROVE IInv'
  BY <1>16, recoverSessionFailsInductive
<1>17. CASE recoveryDone
  BY <1>17, recoveryDoneInductive
<1>18. ASSUME NEW g \in Generations, Advance(g) PROVE IInv'
  BY <1>18, AdvanceInductive
<1>19. ASSUME NEW g \in Generations, writerTick(g) PROVE IInv'
  BY <1>19, writerTickInductive
<1>20. ASSUME NEW g \in Generations, writerWrites(g) PROVE IInv'
  BY <1>20, writerWritesInductive
<1>21. ASSUME NEW g \in Generations, writerFails(g) PROVE IInv'
  BY <1>21, writerFailsInductive
<1>22. CASE Shutdown
  BY <1>22, ShutdownInductive
<1>23. CASE ShutdownServer
  BY <1>23, ShutdownServerInductive
<1>24. CASE Halt
  BY <1>24, HaltInductive
<1>25. CASE Crash
  BY <1>25, CrashInductive
<1>26. CASE ReadManifest
  BY <1>26, ReadManifestInductive
<1>27. CASE quarantineUnusableState
  BY <1>27, quarantineUnusableStateInductive
<1>28. CASE UNCHANGED vars
  <2> USE <1>28 DEF vars, disk, boot, writer, op, IInv
  <2>1. TypeOK' /\ PhaseInv'  BY DEF TypeOK, PhaseInv
  <2>2. OpInv'  BY DEF OpInv, Starting, Retiring, ConfigPresent
  <2>3. ManifestInv' /\ WriterInv'  BY DEF ManifestInv, WriterInv
  <2>4. ManifestHasSnapshot' /\ RunningIsPersisted' /\ RunningConfigPresent'
    BY DEF ManifestHasSnapshot, RunningIsPersisted, RunningConfigPresent, ConfigPresent
  <2>5. StrandedInv' /\ StrandedSessionReported'
    BY DEF StrandedInv, StrandedSessionReported
  <2> QED BY <2>1, <2>2, <2>3, <2>4, <2>5
<1> QED BY <1>1, <1>2, <1>3, <1>4, <1>5, <1>6, <1>7, <1>8, <1>9, <1>10, <1>11, <1>12,
     <1>13, <1>14, <1>15, <1>16, <1>17, <1>18, <1>19, <1>20, <1>21, <1>22, <1>23, <1>24,
     <1>25, <1>26, <1>27, <1>28 DEF Next, Operation, Recovering, Writer

\* The invariant holds in every reachable state.
LEMMA Invariance == ASSUME Serialized PROVE Spec => []IInv
<1>1. Init => IInv
  BY InitInductive
<1>2. IInv /\ [Next]_vars => IInv'
  BY NextInductive
<1> QED BY <1>1, <1>2, PTL DEF Spec

\* The variables keep their types in every behaviour of the daemon: a version
\* stays within its bound, a generation slot holds a generation or nothing.
THEOREM TypeCorrect == ASSUME Serialized PROVE Spec => []TypeOK
<1>1. IInv => TypeOK
  BY DEF IInv
<1> QED BY <1>1, Invariance, PTL

\* The manifest never names a generation without a snapshot, whichever step a
\* crash or a failing write follows (commitSimulationGeneration).
THEOREM ManifestSafe == ASSUME Serialized PROVE Spec => []ManifestHasSnapshot
<1>1. IInv => ManifestHasSnapshot
  BY DEF IInv
<1> QED BY <1>1, Invariance, PTL

\* Every running session is the one the manifest names
\* (startGenerationLocked, stopSimulationLocked).
THEOREM RunningPersisted == ASSUME Serialized PROVE Spec => []RunningIsPersisted
<1>1. IInv => RunningIsPersisted
  BY DEF IInv
<1> QED BY <1>1, Invariance, PTL

\* The configuration file of a running session is never removed
\* (removeInlineConfig).
THEOREM RunningConfigSafe == ASSUME Serialized PROVE Spec => []RunningConfigPresent
<1>1. IInv => RunningConfigPresent
  BY DEF IInv
<1> QED BY <1>1, Invariance, PTL

\* A session of the manifest that is not running is reported
\* (recoverActiveSimulation, clearActiveSimulation).
THEOREM StrandedReported == ASSUME Serialized PROVE Spec => []StrandedSessionReported
<1>1. IInv => StrandedSessionReported
  BY DEF IInv
<1> QED BY <1>1, Invariance, PTL

-----------------------------------------------------------------------------
\* Five actions write or remove a snapshot; no other step changes one.
LEMMA SnapshotWriters ==
  ASSUME [Next]_vars
  PROVE  \/ runtime' = runtime
         \/ writeRuntimeState \/ dropRuntime \/ clearRuntimeState
         \/ \E s \in Sessions : settleRuntimeState(s)
         \/ \E g \in Generations : writerWrites(g)
BY DEF Next, Operation, Recovering, Writer, vars, disk, StartSimulation, StopSimulation,
   persistSessionsExcluding, persistActiveSimulation, stageInlineSessionConfig,
   stageInlineFails, commitSimulationGeneration, commitFails, dropInline, stopSimulation,
   removeInlineConfig, startRuntimeStateWriter, recoverSession, recoverSessionFails,
   recoveryDone, Advance, writerTick, writerFails, Shutdown, ShutdownServer, Halt, Crash,
   Exit, ReadManifest, quarantineUnusableState

\* The snapshot of a generation that stays in force never goes back.
LEMMA SnapshotStep ==
  ASSUME IInv, [Next]_vars, NEW s \in Sessions, manifest[s] # Nil
  PROVE  runtime'[manifest[s]] >= runtime[manifest[s]]
<1> DEFINE m == manifest[s]
<1> USE ConstantsAssumption DEF IInv
<1>1. m \in Generations /\ runtime[m] \in Int
  BY DEF TypeOK, MaybeGen, Versions, None
<1>2. CASE runtime' = runtime
  BY <1>1, <1>2
<1>3. CASE writeRuntimeState
  BY <1>1, <1>3 DEF writeRuntimeState, OpInv, Starting, TypeOK
<1>4. CASE dropRuntime
  <2>1. m # new
    BY <1>4 DEF dropRuntime, OpInv, Starting
  <2> QED BY <1>1, <1>4, <2>1 DEF dropRuntime, TypeOK
<1>5. CASE clearRuntimeState
  <2>1. m # old
    BY <1>5 DEF clearRuntimeState, OpInv, Retiring
  <2> QED BY <1>1, <1>5, <2>1 DEF clearRuntimeState, TypeOK
<1>6. ASSUME NEW t \in Sessions, settleRuntimeState(t) PROVE runtime'[m] >= runtime[m]
  BY <1>1, <1>6 DEF settleRuntimeState, WriterInv, TypeOK, MaybeGen, Versions, None
<1>7. ASSUME NEW g \in Generations, writerWrites(g) PROVE runtime'[m] >= runtime[m]
  BY <1>1, <1>7 DEF writerWrites, WriterInv, TypeOK, Versions, None
<1> QED BY <1>2, <1>3, <1>4, <1>5, <1>6, <1>7, SnapshotWriters

\* Across ticks, shutdowns, crashes and recoveries the snapshot of a session
\* that stays in force only moves forward (runRuntimeStateWriter,
\* settleRuntimeState).
THEOREM SnapshotMonotone == ASSUME Serialized PROVE Spec => SnapshotNeverRegresses
<1>1. ASSUME IInv, [Next]_vars
      PROVE  [\A s \in Sessions :
                manifest[s] # Nil /\ manifest'[s] = manifest[s]
                  => runtime'[manifest[s]] >= runtime[manifest[s]]]_vars
  BY <1>1, SnapshotStep
<1> QED BY <1>1, Invariance, PTL DEF Spec, SnapshotNeverRegresses

\* Only the first write of a start brings a snapshot into being.
LEMMA CreationStep ==
  ASSUME IInv, [Next]_vars, NEW g \in Generations, runtime[g] = None, runtime'[g] # None
  PROVE  pc = "snapshot" /\ new = g
<1> USE ConstantsAssumption DEF IInv
<1>1. runtime' # runtime
  OBVIOUS
<1>2. CASE writeRuntimeState
  BY <1>2 DEF writeRuntimeState, OpInv, Starting, TypeOK
<1>3. CASE dropRuntime
  BY <1>3 DEF dropRuntime, OpInv, Starting, TypeOK
<1>4. CASE clearRuntimeState
  BY <1>4 DEF clearRuntimeState, OpInv, Retiring, TypeOK
<1>5. ASSUME NEW s \in Sessions, settleRuntimeState(s) PROVE FALSE
  BY <1>5 DEF settleRuntimeState, ManifestHasSnapshot, RunningIsPersisted, TypeOK, MaybeGen
<1>6. ASSUME NEW h \in Generations, writerWrites(h) PROVE FALSE
  <2>1. h = g
    BY <1>6 DEF writerWrites, TypeOK
  <2>2. (\E s \in Sessions : running[s] = g) \/ (pc = "retire" /\ old = g)
    BY <1>6, <2>1 DEF writerWrites, WriterInv
  <2>3. runtime[g] # None
    <3>1. CASE \E s \in Sessions : running[s] = g
      <4>1. g # Nil
        BY DEF TypeOK
      <4> QED BY <3>1, <4>1 DEF ManifestHasSnapshot, RunningIsPersisted
    <3>2. CASE pc = "retire" /\ old = g
      BY <3>2 DEF OpInv
    <3> QED BY <2>2, <3>1, <3>2
  <2> QED BY <2>3
<1> QED BY <1>1, <1>2, <1>3, <1>4, <1>5, <1>6, SnapshotWriters

\* A removed snapshot stays removed: a write still in flight when its session
\* is stopped or replaced cannot bring it back (stopRuntimeStateWriter).
THEOREM RemovedStaysRemoved == ASSUME Serialized PROVE Spec => RetiredSnapshotStaysRemoved
<1>1. ASSUME IInv, [Next]_vars
      PROVE  [\A g \in Generations :
                runtime[g] = None /\ runtime'[g] # None => pc = "snapshot" /\ new = g]_vars
  BY <1>1, CreationStep
<1> QED BY <1>1, Invariance, PTL DEF Spec, RetiredSnapshotStaysRemoved

-----------------------------------------------------------------------------
\* Refinement: the daemon implements the durability contract of
\* DurableSessions. Each step of SimulationRecovery is a step of the contract
\* on the manifest, the snapshots of the generations in force and the stacks
\* of the published sessions, or leaves the three as they are.

\* What the contract allows in one step.
ContractStep == [Durable!Next]_(Durable!vars)

\* A step that changes no manifest entry, no snapshot in force and no running
\* stack is invisible.
LEMMA Invisible ==
  ASSUME manifest' = manifest, running' = running,
         \A s \in Sessions : manifest[s] # Nil => runtime'[manifest[s]] = runtime[manifest[s]],
         \A s \in Sessions : running[s] # Nil => live'[running[s]] = live[running[s]]
  PROVE  ContractStep
<1>1. Saved' = Saved
  BY DEF Saved
<1>2. Active' = Active
  BY DEF Active
<1> QED BY <1>1, <1>2 DEF ContractStep, Durable!vars

\* The steps that are invisible because they touch neither the manifest, nor
\* a snapshot, nor a stack.
LEMMA InvisibleSteps ==
  ASSUME Serialized, IInv,
         \/ stageInlineSessionConfig \/ dropInline \/ removeInlineConfig
         \/ startRuntimeStateWriter
         \/ \E s \in Sessions : recoverSessionFails(s)
         \/ recoveryDone
         \/ \E g \in Generations : writerTick(g) \/ writerFails(g)
         \/ Shutdown \/ ShutdownServer \/ ReadManifest \/ quarantineUnusableState
  PROVE  ContractStep
<1>1. UNCHANGED <<manifest, running, runtime, live>>
  BY DEF stageInlineSessionConfig, dropInline, removeInlineConfig, startRuntimeStateWriter,
     recoverSessionFails, recoveryDone, writerTick, writerFails, Shutdown, ShutdownServer,
     ReadManifest, quarantineUnusableState, disk
<1> QED BY <1>1, Invisible

\* A running generation is minted, and is not the one being started or retired.
LEMMA RunningInForce ==
  ASSUME IInv, NEW s \in Sessions, running[s] # Nil
  PROVE  /\ running[s] \in minted
         /\ Starting => running[s] # new
         /\ Retiring => running[s] # old
BY DEF IInv, RunningIsPersisted, ManifestInv, OpInv

\* A start works on a generation that is not in force.
LEMMA StartInvisible ==
  ASSUME Serialized, IInv,
         \/ \E s \in Sessions, g \in Generations, src \in Generations \cup {Managed} :
              StartSimulation(s, g, src)
         \/ stageInlineFails \/ writeRuntimeState \/ commitFails \/ dropRuntime
  PROVE  ContractStep
<1> USE RunningInForce DEF IInv
<1>1. ASSUME NEW s \in Sessions, NEW g \in Generations, NEW src \in Generations \cup {Managed},
             StartSimulation(s, g, src)
      PROVE  ContractStep
  BY <1>1, Invisible DEF StartSimulation, TypeOK
<1>2. CASE stageInlineFails
  BY <1>2, Invisible DEF stageInlineFails, Starting, TypeOK, disk
<1>3. CASE writeRuntimeState
  <2>1. \A s \in Sessions : manifest[s] # new
    BY <1>3 DEF writeRuntimeState, OpInv, Starting
  <2>2. \A g \in Generations : g # new => runtime'[g] = runtime[g]
    BY <1>3 DEF writeRuntimeState, TypeOK
  <2> QED BY <1>3, <2>1, <2>2, Invisible DEF writeRuntimeState, TypeOK, MaybeGen
<1>4. CASE commitFails
  <2>1. \A s \in Sessions : running[s] # Nil => running[s] # new
    BY <1>4 DEF commitFails, Starting
  <2>2. \A g \in Generations : g # new => live'[g] = live[g]
    BY <1>4 DEF commitFails, TypeOK
  <2> QED BY <1>4, <2>1, <2>2, Invisible DEF commitFails, TypeOK, MaybeGen, disk
<1>5. CASE dropRuntime
  <2>1. \A s \in Sessions : manifest[s] # new
    BY <1>5 DEF dropRuntime, OpInv, Starting
  <2>2. \A g \in Generations : g # new => runtime'[g] = runtime[g]
    BY <1>5 DEF dropRuntime, TypeOK
  <2> QED BY <1>5, <2>1, <2>2, Invisible DEF dropRuntime, TypeOK, MaybeGen
<1> QED BY <1>1, <1>2, <1>3, <1>4, <1>5

\* A retired generation is no longer in force.
LEMMA RetireInvisible ==
  ASSUME Serialized, IInv, stopSimulation \/ clearRuntimeState
  PROVE  ContractStep
<1> USE RunningInForce DEF IInv
<1>1. CASE stopSimulation
  BY <1>1, Invisible DEF stopSimulation, Retiring, TypeOK, disk
<1>2. CASE clearRuntimeState
  <2>1. \A s \in Sessions : manifest[s] # old
    BY <1>2 DEF clearRuntimeState, OpInv, Retiring
  <2>2. \A g \in Generations : g # old => runtime'[g] = runtime[g]
    BY <1>2 DEF clearRuntimeState, TypeOK
  <2> QED BY <1>2, <2>1, <2>2, Invisible DEF clearRuntimeState, TypeOK, MaybeGen
<1> QED BY <1>1, <1>2

\* The commit of a start is the contract's Launch: its generation is in no
\* other session's use, has a snapshot, and its stack is not behind it.
LEMMA CommitLaunches ==
  ASSUME Serialized, IInv, commitSimulationGeneration
  PROVE  ContractStep
<1> USE ConstantsAssumption DEF IInv
<1>1. cur \in Sessions /\ new \in Generations /\ new # Nil
  BY DEF commitSimulationGeneration, OpInv, Starting, TypeOK
<1>2. /\ manifest' = [manifest EXCEPT ![cur] = new]
      /\ running' = [running EXCEPT ![cur] = new]
      /\ UNCHANGED <<runtime, live>>
  BY <1>1, PersistUpdates DEF commitSimulationGeneration, MaybeGen
<1>3. Saved' = [Saved EXCEPT ![cur] = runtime[new]]
  BY <1>1, <1>2 DEF Saved, TypeOK
<1>4. Active' = [Active EXCEPT ![cur] = live[new]]
  BY <1>1, <1>2 DEF Active, TypeOK
<1>5. Saved'[cur] = runtime[new] /\ Active'[cur] = live[new]
  BY <1>1, <1>3, <1>4 DEF Saved, Active
<1>6. runtime[new] >= 0 /\ live[new] >= runtime[new]
  BY <1>1, SMTT(30) DEF commitSimulationGeneration, OpInv, TypeOK, Versions, None
<1>7. \A t \in Sessions : manifest[t] # new
  BY DEF commitSimulationGeneration, OpInv, Starting
<1>8. Durable!Launch(cur, new)
  BY <1>1, <1>2, <1>3, <1>4, <1>5, <1>6, <1>7 DEF Durable!Launch
<1> QED BY <1>1, <1>8 DEF ContractStep, Durable!Next

\* A stop is the contract's Withdraw.
LEMMA StopWithdraws ==
  ASSUME Serialized, IInv, NEW s \in Sessions, StopSimulation(s)
  PROVE  ContractStep
<1> USE ConstantsAssumption DEF IInv
<1>1. /\ manifest' = [manifest EXCEPT ![s] = Nil]
      /\ running' = [running EXCEPT ![s] = Nil]
      /\ UNCHANGED <<runtime, live>>
  BY PersistUpdates DEF StopSimulation, persistSessionsExcluding, MaybeGen
<1>2. Saved' = [Saved EXCEPT ![s] = None]
  BY <1>1 DEF Saved, TypeOK
<1>3. Active' = [Active EXCEPT ![s] = None]
  BY <1>1 DEF Active, TypeOK
<1>4. manifest[s] # Nil
  BY DEF StopSimulation, RunningIsPersisted
<1>5. Durable!Withdraw(s)
  BY <1>1, <1>2, <1>3, <1>4 DEF Durable!Withdraw, Durable!None, None
<1> QED BY <1>5 DEF ContractStep, Durable!Next

\* A generation runs for one session at most.
LEMMA RunsOnce ==
  ASSUME IInv, NEW s \in Sessions, NEW t \in Sessions, running[s] # Nil, running[s] = running[t]
  PROVE  s = t
BY DEF IInv, RunningIsPersisted, ManifestInv

\* A stack that changes state is the contract's Advance when its session is
\* published, and invisible while it is being started or retired.
LEMMA StackAdvances ==
  ASSUME Serialized, IInv, NEW g \in Generations, Advance(g)
  PROVE  ContractStep
<1> USE ConstantsAssumption DEF IInv
<1>1. UNCHANGED <<manifest, running, runtime>>
  BY DEF Advance, disk
<1>2. live[g] \in Nat /\ live' = [live EXCEPT ![g] = live[g] + 1]
  BY DEF Advance
<1>3. live' = [live EXCEPT ![g] = live'[g]] /\ live'[g] > live[g] /\ live[g] # -1
  BY <1>2 DEF TypeOK
<1>4. CASE \A s \in Sessions : running[s] # g
  BY <1>1, <1>3, <1>4, Invisible DEF TypeOK, MaybeGen
<1>5. ASSUME NEW s \in Sessions, running[s] = g PROVE ContractStep
  <2>1. Saved' = Saved
    BY <1>1 DEF Saved
  <2>2. \A t \in Sessions : t # s => running[t] # g
    BY <1>5, RunsOnce
  <2>3. Active[s] = live[g] /\ Active'[s] = live'[g]
    BY <1>1, <1>5 DEF Active
  <2>4. \A t \in Sessions : t # s => Active'[t] = Active[t]
    BY <1>1, <1>3, <2>2 DEF Active, TypeOK, MaybeGen
  <2>5. Active' = [Active EXCEPT ![s] = Active'[s]]
    BY <2>4 DEF Active
  <2>6. Durable!Advance(s)
    BY <1>1, <1>3, <2>1, <2>3, <2>5 DEF Durable!Advance, Durable!None
  <2> QED BY <2>6 DEF ContractStep, Durable!Next
<1> QED BY <1>4, <1>5

\* A write that completes is the contract's Save when its session is
\* published; the last write of a session being retired is invisible.
LEMMA WriterSaves ==
  ASSUME Serialized, IInv, NEW g \in Generations, writerWrites(g)
  PROVE  ContractStep
<1> USE ConstantsAssumption DEF IInv
<1>1. PICK v \in writing[g]..live[g] : runtime' = [runtime EXCEPT ![g] = v]
  BY DEF writerWrites
<1>2. UNCHANGED <<manifest, running, live>>
  BY DEF writerWrites
<1>3. CASE \A s \in Sessions : running[s] # g
  <2>1. pc = "retire" /\ old = g
    BY <1>3 DEF writerWrites, WriterInv
  <2>2. \A s \in Sessions : manifest[s] # g
    BY <2>1 DEF OpInv, Retiring
  <2> QED BY <1>1, <1>2, <2>2, Invisible DEF TypeOK
<1>4. ASSUME NEW s \in Sessions, running[s] = g PROVE ContractStep
  <2>1. manifest[s] = g /\ g # Nil
    BY <1>4 DEF RunningIsPersisted
  <2>2. Saved' = [Saved EXCEPT ![s] = v]
    BY <1>1, <1>2, <2>1 DEF Saved, TypeOK, ManifestInv
  <2>3. Active' = Active
    BY <1>2 DEF Active
  <2>4. Saved[s] = runtime[g] /\ Saved'[s] = v /\ Active[s] = live[g]
    BY <1>4, <2>1, <2>2 DEF Saved, Active
  <2>5. v \in runtime[g]..live[g] /\ live[g] # -1
    BY <1>1, <1>4, <2>1, SMTT(30) DEF writerWrites, WriterInv, TypeOK, Versions, None
  <2>6. Durable!Save(s)
    BY <1>2, <2>2, <2>3, <2>4, <2>5 DEF Durable!Save, Durable!None
  <2> QED BY <2>6 DEF ContractStep, Durable!Next
<1> QED BY <1>3, <1>4

\* Shutdown's final write, successful or not, is the contract's Suspend.
LEMMA SettleSuspends ==
  ASSUME Serialized, IInv, NEW s \in Sessions, settleRuntimeState(s)
  PROVE  ContractStep
<1> USE ConstantsAssumption DEF IInv
<1> DEFINE g == running[s]
<1>1. g \in Generations /\ g # Nil /\ manifest[s] = g
  BY DEF settleRuntimeState, RunningIsPersisted, TypeOK, MaybeGen
<1>2. /\ manifest' = manifest
      /\ running' = [running EXCEPT ![s] = Nil]
      /\ live' = [live EXCEPT ![g] = None]
  BY DEF settleRuntimeState
<1>3. Active' = [Active EXCEPT ![s] = None]
  <2>1. \A t \in Sessions : t # s => running[t] # g
    BY <1>1, RunsOnce
  <2> QED BY <1>1, <1>2, <2>1 DEF Active, TypeOK, MaybeGen
<1>4. Active[s] = live[g] /\ live[g] # -1
  BY <1>1 DEF Active, WriterInv, None
<1>5. CASE runtime' = runtime
  <2>1. Saved' = Saved
    BY <1>2, <1>5 DEF Saved
  <2> QED BY <1>2, <1>3, <1>4, <2>1
          DEF ContractStep, Durable!Next, Durable!Suspend, Durable!None, None
<1>6. CASE runtime' = [runtime EXCEPT ![g] = live[g]]
  <2>1. Saved' = [Saved EXCEPT ![s] = live[g]]
    BY <1>1, <1>2, <1>6 DEF Saved, TypeOK, ManifestInv
  <2> QED BY <1>2, <1>3, <1>4, <2>1
          DEF ContractStep, Durable!Next, Durable!Suspend, Durable!None, None
<1> QED BY <1>5, <1>6 DEF settleRuntimeState

\* An exit, orderly or not, keeps intents and saved states.
LEMMA ExitCrashes == ASSUME Halt \/ Crash PROVE ContractStep
<1>1. UNCHANGED <<manifest, runtime>> /\ running' = NoSessions
  BY DEF Halt, Crash, Exit, disk
<1>2. Saved' = Saved
  BY <1>1 DEF Saved
<1>3. Active' = [s \in Sessions |-> None]
  BY <1>1 DEF Active, NoSessions
<1> QED BY <1>1, <1>2, <1>3 DEF ContractStep, Durable!Next, Durable!Crash, Durable!None, None

\* A recovering start resumes the generation in force from its snapshot.
LEMMA RecoveryResumes ==
  ASSUME Serialized, IInv, NEW s \in Sessions, recoverSession(s)
  PROVE  ContractStep
<1> USE ConstantsAssumption DEF IInv
<1> DEFINE g == toRecover[s]
<1>1. g \in Generations /\ manifest[s] = g /\ running[s] = Nil /\ g # Nil
  BY DEF recoverSession, PhaseInv, TypeOK, MaybeGen
<1>2. /\ UNCHANGED <<manifest, runtime>>
      /\ running' = [running EXCEPT ![s] = g]
      /\ live' = [live EXCEPT ![g] = runtime[g]]
  BY DEF recoverSession, disk
<1>3. Saved' = Saved /\ Saved[s] = runtime[g]
  BY <1>1, <1>2 DEF Saved
<1>4. \A t \in Sessions : running[t] # g
  BY <1>1 DEF RunningIsPersisted, ManifestInv
<1>5. Active' = [Active EXCEPT ![s] = runtime[g]] /\ Active[s] = None
  BY <1>1, <1>2, <1>4 DEF Active, TypeOK, MaybeGen
<1>6. Durable!Resume(s)
  BY <1>1, <1>2, <1>3, <1>5 DEF Durable!Resume, Durable!None, None
<1> QED BY <1>6 DEF ContractStep, Durable!Next

\* Every step of the daemon is a step of the contract or invisible to it.
LEMMA StepImplements == ASSUME Serialized, IInv, [Next]_vars PROVE ContractStep
<1>1. CASE UNCHANGED vars
  BY <1>1, Invisible DEF vars, disk
<1>2. CASE Next
  BY <1>2, InvisibleSteps, StartInvisible, RetireInvisible, CommitLaunches, StopWithdraws,
     StackAdvances, WriterSaves, SettleSuspends, ExitCrashes, RecoveryResumes
     DEF Next, Operation, Recovering, Writer
<1> QED BY <1>1, <1>2

\* The daemon implements DurableSessions: a session resumes only from the
\* newest snapshot of the generation in force, and only a start or a stop
\* changes which generation that is.
THEOREM Implements == ASSUME Serialized PROVE Spec => ImplementsDurableSessions
<1>1. Init => Durable!Init
  BY DEF Init, Durable!Init, Durable!None, None, NoSessions, Saved, Active
<1>2. IInv /\ [Next]_vars => [Durable!Next]_(Durable!vars)
  BY StepImplements DEF ContractStep
<1> QED BY <1>1, <1>2, Invariance, PTL DEF Spec, ImplementsDurableSessions, Durable!Spec
=============================================================================
