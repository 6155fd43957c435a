----------------------------- MODULE AgentProofs -----------------------------
(***************************************************************************)
(* Proofs about Agent, for every set of Globals and any number of bridges. *)
(***************************************************************************)
EXTENDS Agent, TLAPS

(* The heap has been scanned for the bridge that is loaded.                *)
AfterScan == {"visit", "hook", "done", "unhooked"}

(* A Globals without storage has no table.                                 *)
StorageInv == \A e \in Envs : env[e] \in {"none", "raw"} => table[e] = 0

(* What b() has done so far: the Globals of the scan that have been        *)
(* visited have the table, and tables of earlier bridges are left only in  *)
(* Globals that are still to be visited.                                   *)
VisitInv ==
  pc \in AfterScan =>
    \A e \in Envs :
      /\ scanned[e] \in Constructs => env[e] \in Constructs
      /\ scanned[e] \in Constructs /\ e \notin todo => table[e] = bridge
      /\ e \notin todo => table[e] \in {0, bridge}
      /\ e \in todo => env[e] # "none"

(* What the hook of the constructor has done.                              *)
HookInv ==
  /\ entered # {} => pc \in {"done", "none"}
  /\ pc = "done" => \A e \in entered : env[e] \in Constructs => table[e] = bridge

(* An installation that began before GameGuardian had its own package goes *)
(* on while nothing else runs there, and afterwards every Globals is       *)
(* created through the hook.                                               *)
EarlyInv ==
  /\ app = "starting" => env = NoEnvs
  /\ began = "starting" /\ pc \in Installing => app = "starting" /\ onApp
  /\ began = "starting" /\ pc = "done" => \A e \in Envs : env[e] # "none" => e \in entered

(* gg.getTargetInfo has been taken if a Globals that had it at the scan    *)
(* has been visited.                                                       *)
CaptureInv ==
  pc \in AfterScan =>
    \A e \in Envs : scanned[e] = "filled" => env[e] = "filled" /\ (e \notin todo => captured)

AgentInv ==
  /\ AgentTypeOK
  /\ StorageInv
  /\ VisitInv
  /\ HookInv
  /\ EarlyInv
  /\ CaptureInv

USE DEF AgentInv, AgentTypeOK, Constructs, Steps, Installing, AfterScan, NoEnvs,
        appVars, tableVars, historyVars

-----------------------------------------------------------------------------
(* Every action keeps AgentInv.                                            *)

(* A new bridge: the tables of the last one are below its number.          *)
LEMMA LoadKeeps ==
  ASSUME AgentInv, Load
  PROVE  AgentInv'
<1>0. /\ bridge' \in 0 .. MaxBridges
      /\ table' \in [Envs -> 0 .. bridge']
  BY AgentAssumption DEF Load
<1>1. AgentTypeOK'
  BY <1>0 DEF Load
<1>2. StorageInv'
  BY DEF Load, StorageInv
<1>3. VisitInv'
  BY DEF Load, VisitInv
<1>4. HookInv'
  BY DEF Load, HookInv
<1>5. EarlyInv'
  BY DEF Load, EarlyInv
<1>6. CaptureInv'
  BY DEF Load, CaptureInv
<1> QED
  BY <1>1, <1>2, <1>3, <1>4, <1>5, <1>6

(* Unloading leaves env, table and what the scan saw alone.                *)
LEMMA UnloadKeeps ==
  ASSUME AgentInv, Unload
  PROVE  AgentInv'
<1>1. AgentTypeOK'
  BY DEF Unload
<1>2. StorageInv'
  BY DEF Unload, StorageInv
<1>3. VisitInv'
  BY DEF Unload, VisitInv
<1>4. HookInv'
  BY DEF Unload, HookInv
<1>5. EarlyInv'
  BY DEF Unload, EarlyInv
<1>6. CaptureInv'
  BY DEF Unload, CaptureInv
<1> QED
  BY <1>1, <1>2, <1>3, <1>4, <1>5, <1>6

(* The installation begins on the agent's own thread, or is put off.       *)
LEMMA AskApplicationKeeps ==
  ASSUME AgentInv, AskApplication
  PROVE  AgentInv'
<1>1. AgentTypeOK'
  BY DEF AskApplication, Begin
<1>2. StorageInv'
  BY DEF AskApplication, StorageInv
<1>3. VisitInv'
  BY DEF AskApplication, Begin, VisitInv
<1>4. HookInv'
  BY DEF AskApplication, HookInv
<1>5. EarlyInv'
  BY DEF AskApplication, Begin, EarlyInv
<1>6. CaptureInv'
  BY DEF AskApplication, Begin, CaptureInv
<1> QED
  BY <1>1, <1>2, <1>3, <1>4, <1>5, <1>6

(* The installation is put off.                                            *)
LEMMA HookPackageInfoKeeps ==
  ASSUME AgentInv, HookPackageInfo
  PROVE  AgentInv'
<1>1. AgentTypeOK'
  BY DEF HookPackageInfo
<1>2. StorageInv'
  BY DEF HookPackageInfo, StorageInv
<1>3. VisitInv'
  BY DEF HookPackageInfo, VisitInv
<1>4. HookInv'
  BY DEF HookPackageInfo, HookInv
<1>5. EarlyInv'
  BY DEF HookPackageInfo, EarlyInv
<1>6. CaptureInv'
  BY DEF HookPackageInfo, CaptureInv
<1> QED
  BY <1>1, <1>2, <1>3, <1>4, <1>5, <1>6

(* The application's start waits inside the hook from here on.             *)
LEMMA GetOwnPackageKeeps ==
  ASSUME AgentInv, GetOwnPackage
  PROVE  AgentInv'
<1>1. AgentTypeOK'
  BY DEF GetOwnPackage, Begin, Bound
<1>2. StorageInv'
  BY DEF GetOwnPackage, StorageInv
<1>3. VisitInv'
  BY DEF GetOwnPackage, Begin, VisitInv
<1>4. HookInv'
  BY DEF GetOwnPackage, HookInv
<1>5. EarlyInv'
  BY DEF GetOwnPackage, Begin, Inside, Bound, EarlyInv
<1>6. CaptureInv'
  BY DEF GetOwnPackage, Begin, CaptureInv
<1> QED
  BY <1>1, <1>2, <1>3, <1>4, <1>5, <1>6

(* No installation begins.                                                 *)
LEMMA GetForeignPackageKeeps ==
  ASSUME AgentInv, GetForeignPackage
  PROVE  AgentInv'
<1>1. AgentTypeOK'
  BY DEF GetForeignPackage
<1>2. StorageInv'
  BY DEF GetForeignPackage, StorageInv
<1>3. VisitInv'
  BY DEF GetForeignPackage, VisitInv
<1>4. HookInv'
  BY DEF GetForeignPackage, HookInv
<1>5. EarlyInv'
  BY DEF GetForeignPackage, EarlyInv
<1>6. CaptureInv'
  BY DEF GetForeignPackage, CaptureInv
<1> QED
  BY <1>1, <1>2, <1>3, <1>4, <1>5, <1>6

(* The application goes on; nobody is inside the hook then.                *)
LEMMA MakeApplicationKeeps ==
  ASSUME AgentInv, MakeApplication
  PROVE  AgentInv'
<1>1. AgentTypeOK'
  BY DEF MakeApplication
<1>2. StorageInv'
  BY DEF MakeApplication, StorageInv
<1>3. VisitInv'
  BY DEF MakeApplication, VisitInv
<1>4. HookInv'
  BY DEF MakeApplication, HookInv
<1>5. EarlyInv'
  BY DEF MakeApplication, EarlyInv
<1>6. CaptureInv'
  BY DEF MakeApplication, CaptureInv
<1> QED
  BY <1>1, <1>2, <1>3, <1>4, <1>5, <1>6

(* What is listed is what exists, and all of it is still to be visited.    *)
LEMMA ScanKeeps ==
  ASSUME AgentInv, Scan
  PROVE  AgentInv'
<1>1. AgentTypeOK'
  BY DEF Scan
<1>2. StorageInv'
  BY DEF Scan, StorageInv
<1>3. VisitInv'
  BY DEF Scan, StorageInv, VisitInv
<1>4. HookInv'
  BY DEF Scan, HookInv
<1>5. EarlyInv'
  BY DEF Scan, EarlyInv
<1>6. CaptureInv'
  BY DEF Scan, CaptureInv
<1> QED
  BY <1>1, <1>2, <1>3, <1>4, <1>5, <1>6

(* Nothing is installed.                                                   *)
LEMMA ScanThrowsKeeps ==
  ASSUME AgentInv, ScanThrows
  PROVE  AgentInv'
<1>1. AgentTypeOK'
  BY DEF ScanThrows, Bound
<1>2. StorageInv'
  BY DEF ScanThrows, StorageInv
<1>3. VisitInv'
  BY DEF ScanThrows, VisitInv
<1>4. HookInv'
  BY DEF ScanThrows, HookInv
<1>5. EarlyInv'
  BY DEF ScanThrows, Bound, EarlyInv
<1>6. CaptureInv'
  BY DEF ScanThrows, CaptureInv
<1> QED
  BY <1>1, <1>2, <1>3, <1>4, <1>5, <1>6

(* A Globals leaves todo with the table, or is still without storage.      *)
LEMMA VisitKeeps ==
  ASSUME AgentInv, NEW e \in todo, Visit(e)
  PROVE  AgentInv'
<1>1. AgentTypeOK'
  BY DEF Visit, Install
<1>2. StorageInv'
  BY DEF Visit, Install, StorageInv, VisitInv
<1>3. VisitInv'
  <2>1. SUFFICES ASSUME NEW f \in Envs
                 PROVE  /\ scanned[f] \in Constructs => env[f] \in Constructs
                        /\ scanned[f] \in Constructs /\ f \notin todo' => table'[f] = bridge
                        /\ f \notin todo' => table'[f] \in {0, bridge}
                        /\ f \in todo' => env[f] # "none"
    BY DEF Visit, VisitInv
  <2>2. CASE f = e
    <3>1. IF env[e] = "raw" THEN table'[e] = table[e] ELSE table'[e] = bridge
      BY DEF Visit, Install
    <3> QED
      BY <2>2, <3>1 DEF StorageInv, VisitInv
  <2>3. CASE f # e
    BY <2>3 DEF Visit, Install, VisitInv
  <2> QED
    BY <2>2, <2>3
<1>4. HookInv'
  BY DEF Visit, HookInv
<1>5. EarlyInv'
  BY DEF Visit, EarlyInv
<1>6. CaptureInv'
  BY DEF Visit, Install, CaptureInv
<1> QED
  BY <1>1, <1>2, <1>3, <1>4, <1>5, <1>6

(* The visits are over, with nothing left in todo.                         *)
LEMMA VisitEndsKeeps ==
  ASSUME AgentInv, VisitEnds
  PROVE  AgentInv'
<1>1. AgentTypeOK'
  BY DEF VisitEnds
<1>2. StorageInv'
  BY DEF VisitEnds, StorageInv
<1>3. VisitInv'
  BY DEF VisitEnds, VisitInv
<1>4. HookInv'
  BY DEF VisitEnds, HookInv
<1>5. EarlyInv'
  BY DEF VisitEnds, EarlyInv
<1>6. CaptureInv'
  BY DEF VisitEnds, CaptureInv
<1> QED
  BY <1>1, <1>2, <1>3, <1>4, <1>5, <1>6

(* From here on Globals are created through the hook.                      *)
LEMMA HookConstructorKeeps ==
  ASSUME AgentInv, HookConstructor
  PROVE  AgentInv'
<1>1. AgentTypeOK'
  BY DEF HookConstructor, Bound
<1>2. StorageInv'
  BY DEF HookConstructor, StorageInv
<1>3. VisitInv'
  BY DEF HookConstructor, VisitInv
<1>4. HookInv'
  BY DEF HookConstructor, HookInv
<1>5. EarlyInv'
  BY DEF HookConstructor, Bound, EarlyInv
<1>6. CaptureInv'
  BY DEF HookConstructor, CaptureInv
<1> QED
  BY <1>1, <1>2, <1>3, <1>4, <1>5, <1>6

(* A new Globals is not among those of the scan and has no table.          *)
LEMMA NewGlobalsKeeps ==
  ASSUME AgentInv, NEW e \in Envs, NewGlobals(e)
  PROVE  AgentInv'
<1>1. AgentTypeOK'
  BY DEF NewGlobals
<1>2. StorageInv'
  BY DEF NewGlobals, StorageInv
<1>3. VisitInv'
  BY DEF NewGlobals, VisitInv
<1>4. HookInv'
  BY DEF NewGlobals, HookInv
<1>5. EarlyInv'
  BY DEF NewGlobals, EarlyInv
<1>6. CaptureInv'
  BY DEF NewGlobals, CaptureInv
<1> QED
  BY <1>1, <1>2, <1>3, <1>4, <1>5, <1>6

(* A Globals created through the hook gets the table as it is ready.       *)
LEMMA ConstructedKeeps ==
  ASSUME AgentInv, NEW e \in Envs, Constructed(e)
  PROVE  AgentInv'
<1>1. AgentTypeOK'
  BY DEF Constructed
<1>2. StorageInv'
  BY DEF Constructed, StorageInv
<1>3. VisitInv'
  BY DEF Constructed, VisitInv
<1>4. HookInv'
  BY DEF Constructed, HookInv
<1>5. EarlyInv'
  BY DEF Constructed, EarlyInv
<1>6. CaptureInv'
  BY DEF Constructed, CaptureInv
<1> QED
  BY <1>1, <1>2, <1>3, <1>4, <1>5, <1>6

(* gg comes into a Globals that exists, and stays there.                   *)
LEMMA FillKeeps ==
  ASSUME AgentInv, NEW e \in Envs, Fill(e)
  PROVE  AgentInv'
<1>1. AgentTypeOK'
  BY DEF Fill
<1>2. StorageInv'
  BY DEF Fill, StorageInv
<1>3. VisitInv'
  BY DEF Fill, VisitInv
<1>4. HookInv'
  BY DEF Fill, HookInv
<1>5. EarlyInv'
  BY DEF Fill, EarlyInv
<1>6. CaptureInv'
  BY DEF Fill, CaptureInv
<1> QED
  BY <1>1, <1>2, <1>3, <1>4, <1>5, <1>6

-----------------------------------------------------------------------------
(* Theorems.                                                               *)

(* Before the first bridge there is no Globals and no table.               *)
LEMMA InitHolds == AgentInit => AgentInv
<1> SUFFICES ASSUME AgentInit PROVE AgentInv
  OBVIOUS
<1>1. bridge \in 0 .. MaxBridges /\ table \in [Envs -> 0 .. bridge]
  BY AgentAssumption DEF AgentInit
<1>2. AgentTypeOK
  BY <1>1 DEF AgentInit
<1>3. StorageInv /\ VisitInv /\ HookInv /\ EarlyInv /\ CaptureInv
  BY DEF AgentInit, StorageInv, VisitInv, HookInv, EarlyInv, CaptureInv
<1> QED
  BY <1>2, <1>3

(* AgentInv depends on the agent's variables only.                         *)
LEMMA StutterKeeps == AgentInv /\ UNCHANGED agentVars => AgentInv'
BY DEF agentVars, StorageInv, VisitInv, HookInv, EarlyInv, CaptureInv

(* AgentInv is inductive, for every set of Globals and any number of       *)
(* bridges: one lemma per action of the agent and of GameGuardian.         *)
THEOREM AgentInvariance == AgentSpec => []AgentInv
<1>1. AgentInv /\ [AgentNext]_agentVars => AgentInv'
  <2> SUFFICES ASSUME AgentInv, [AgentNext]_agentVars
               PROVE  AgentInv'
    OBVIOUS
  <2>1. CASE Load \/ Unload \/ AskApplication \/ HookPackageInfo
    BY <2>1, LoadKeeps, UnloadKeeps, AskApplicationKeeps, HookPackageInfoKeeps
  <2>2. CASE InstallStep
    BY <2>2, ScanKeeps, ScanThrowsKeeps, VisitKeeps, VisitEndsKeeps, HookConstructorKeeps
       DEF InstallStep
  <2>3. CASE AppStep
    BY <2>3, GetOwnPackageKeeps, GetForeignPackageKeeps, MakeApplicationKeeps,
       NewGlobalsKeeps, ConstructedKeeps, FillKeeps DEF AppStep
  <2>4. CASE UNCHANGED agentVars
    BY <2>4, StutterKeeps
  <2> QED
    BY <2>1, <2>2, <2>3, <2>4 DEF AgentNext
<1> QED
  BY <1>1, InitHolds, PTL DEF AgentSpec

(* Types, and no Globals is left to visit once the visits are over.        *)
THEOREM AgentTypeCorrect == AgentSpec => []AgentTypeOK
<1>1. AgentInv => AgentTypeOK
  OBVIOUS
<1> QED
  BY <1>1, AgentInvariance, PTL

(* Every Globals of the scan, and every one that is created through the    *)
(* hook, has the table of the bridge: whatever GameGuardian's threads and  *)
(* the start of the application do meanwhile.                              *)
THEOREM DueGlobalsHaveTable == AgentSpec => []DueHaveTable
<1>1. AgentInv => DueHaveTable
  BY DEF DueHaveTable, Installed, VisitInv, HookInv
<1> QED
  BY <1>1, AgentInvariance, PTL

(* An injection in time for GameGuardian's start misses no Globals.        *)
THEOREM EarlyInjectionMissesNone == AgentSpec => []EarlyMissesNone
<1>1. AgentInv => EarlyMissesNone
  BY DEF EarlyMissesNone, HookInv, EarlyInv
<1> QED
  BY <1>1, AgentInvariance, PTL

(* A later bridge leaves no table of an earlier one.                       *)
THEOREM StaleTablesGo == AgentSpec => []NoStaleTable
<1>1. AgentInv => NoStaleTable
  BY DEF NoStaleTable, Installed, VisitInv
<1> QED
  BY <1>1, AgentInvariance, PTL

(* TargetReadable: the target can be read when one of the Globals of the   *)
(* scan had gg in it.                                                      *)
THEOREM TargetReadableIfScanned == AgentSpec => []TargetReadable
<1>1. AgentInv => TargetReadable
  BY DEF TargetReadable, Installed, CaptureInv
<1> QED
  BY <1>1, AgentInvariance, PTL
==============================================================================
