-------------------------------- MODULE Agent --------------------------------
(***************************************************************************)
(* The bridge agent installs itself in GameGuardian's process              *)
(* (src/src/agent/bridge.js, line 49; its Java.perform and Java.choose are *)
(* frida-java-bridge's, lines 72 and 88 of the same bundle).               *)
(*                                                                         *)
(* The agent's JavaScript thread asks for the application's class loader   *)
(* and, when there is no application yet, leaves its work to a hook of     *)
(* getPackageInfo.  The work puts the `frida` table into every LuaJ        *)
(* Globals that a scan of the heap lists, and then hooks the constructor   *)
(* of Globals.  GameGuardian's threads create and fill Globals all the     *)
(* while, for JavaScript's lock is free during every call into the VM.     *)
(* A bridge may be unloaded, and a later one loaded into the same process. *)
(***************************************************************************)
EXTENDS Naturals

CONSTANTS
  Envs,         \* the Globals that GameGuardian's process may create
  MaxBridges    \* bound: bridges loaded one after another

ASSUME AgentAssumption == MaxBridges \in Nat

VARIABLES
  app,       \* GameGuardian: "starting", "bound" (it has asked for its own
             \* package), or "up" (currentApplication() is set)
  env,       \* each Globals: "none", "raw" (under construction), "ready"
             \* (constructed) or "filled" (gg and the libraries are in it)
  entered,   \* the Globals whose constructor was entered through the hook
  table,     \* the bridge whose `frida` table a Globals has, or 0
  bridge,    \* the number of bridges loaded so far
  pc,        \* where the last of them is: see Steps
  onApp,     \* does it install on a thread of the application?
  todo,      \* Globals that the scan listed and b() has not been called for
  captured,  \* has the agent got hold of gg.getTargetInfo?
  began,     \* history: what app was when the installation began
  scanned    \* history: what env was when the heap was scanned

appVars == <<app, env>>
tableVars == <<entered, table, captured>>
historyVars == <<began, scanned>>
agentVars == <<appVars, tableVars, historyVars, bridge, pc, onApp, todo>>

(* "none": no bridge is loaded; "perform": perform() is called; "asked":   *)
(* there was no application; "waiting": getPackageInfo is hooked and       *)
(* load() has returned; "scan", "visit", "hook": the installation; "done"; *)
(* "unhooked": done, but hooking the constructor has failed; "failed": it  *)
(* ran with a class loader that does not know LuaJ; "threw": one of its    *)
(* calls into the VM has thrown before anything was installed.             *)
Installing == {"scan", "visit", "hook"}
Steps ==
  {"none", "perform", "asked", "waiting", "done", "unhooked", "failed", "threw"} \cup Installing

NoEnvs == [e \in Envs |-> "none"]

AgentInit ==
  /\ app \in {"starting", "bound", "up"}
  /\ env = NoEnvs
  /\ entered = {}
  /\ table = [e \in Envs |-> 0]
  /\ bridge = 0
  /\ pc = "none"
  /\ onApp = FALSE
  /\ todo = {}
  /\ captured = FALSE
  /\ began = "none"
  /\ scanned = NoEnvs

-----------------------------------------------------------------------------
(* Loading and unloading.                                                  *)

(* The engine loads a bridge; a new script knows nothing of an old one.    *)
Load ==
  /\ pc = "none"
  /\ bridge < MaxBridges
  /\ bridge' = bridge + 1
  /\ pc' = "perform"
  /\ onApp' = FALSE
  /\ todo' = {}
  /\ captured' = FALSE
  /\ entered' = {}
  /\ began' = "none"
  /\ scanned' = NoEnvs
  /\ UNCHANGED <<appVars, table>>

(* kill, or Shutdown: the hooks go, the tables stay.  The engine waits in  *)
(* load() until the script's own thread is done, and unloading waits for   *)
(* the application's threads that run the script's code.                   *)
Unload ==
  /\ pc \in {"waiting", "done", "unhooked", "failed", "threw"}
  /\ \A e \in entered : env[e] # "raw"
  /\ pc' = "none"
  /\ UNCHANGED <<appVars, tableVars, historyVars, bridge, onApp, todo>>

-----------------------------------------------------------------------------
(* Getting at the application's class loader.                              *)

Begin(thread) ==
  /\ pc' = "scan"
  /\ onApp' = thread
  /\ began' = app

(* perform(): with an application its loader is taken and the work done.   *)
AskApplication ==
  /\ pc = "perform"
  /\ IF app = "up" THEN Begin(FALSE)
     ELSE pc' = "asked" /\ UNCHANGED <<onApp, began>>
  /\ UNCHANGED <<appVars, tableVars, scanned, bridge, todo>>

(* Without one the work waits for getPackageInfo, whatever the application *)
(* has done in the meantime.  (The hook of handleBindApplication only      *)
(* tells apart applications that are started under instrumentation.)       *)
HookPackageInfo ==
  /\ pc = "asked"
  /\ pc' = "waiting"
  /\ UNCHANGED <<appVars, tableVars, historyVars, bridge, onApp, todo>>

(* The application's main thread is inside the hook of getPackageInfo.     *)
Inside == onApp /\ pc \in Installing

(* The application has got its own package.                                *)
Bound == IF app = "starting" THEN "bound" ELSE app

(* Mutation of GetOwnPackage: the application does not wait for the work.  *)
GetOwnPackageAtOnce ==
  /\ ~Inside
  /\ IF pc = "waiting" THEN Begin(TRUE) ELSE UNCHANGED <<pc, onApp, began>>
  /\ app' = Bound
  /\ UNCHANGED <<env, tableVars, scanned, bridge, todo>>

(* Mutation of GetOwnPackage: the hook waits for an application, as that of *)
(* makeApplication does.                                                   *)
GetOwnPackageLate ==
  /\ ~Inside
  /\ IF pc = "waiting" /\ app = "up" THEN Begin(TRUE) /\ UNCHANGED app
     ELSE app' = Bound /\ UNCHANGED <<pc, onApp, began>>
  /\ UNCHANGED <<env, tableVars, scanned, bridge, todo>>

(* GameGuardian asks for its own package: as it starts, and for each of    *)
(* its screens and services.  The first call through the hook does the     *)
(* waiting work with that package's loader before it returns.              *)
GetOwnPackage ==
  /\ ~Inside
  /\ IF pc = "waiting" THEN Begin(TRUE) /\ UNCHANGED app
     ELSE app' = Bound /\ UNCHANGED <<pc, onApp, began>>
  /\ UNCHANGED <<env, tableVars, scanned, bridge, todo>>

(* It asks for another package, of WebView say.  If that is the first call *)
(* through the hook, the work is done with a foreign loader, in which      *)
(* `use("luaj.LuaValue")` throws: it is not tried again.                   *)
GetForeignPackage ==
  /\ app # "starting"
  /\ pc = "waiting"
  /\ pc' = "failed"
  /\ onApp' = TRUE
  /\ began' = app
  /\ UNCHANGED <<appVars, tableVars, scanned, bridge, todo>>

(* currentApplication() is set.                                            *)
MakeApplication ==
  /\ app = "bound"
  /\ app' = "up"
  /\ UNCHANGED <<env, tableVars, historyVars, bridge, pc, onApp, todo>>

-----------------------------------------------------------------------------
(* Installing.                                                             *)

(* Mutations of Install: a Globals that has a table is left alone; only    *)
(* the first Globals is asked for gg.                                      *)
InstallOnce(e) ==
  /\ captured' = (captured \/ env[e] = "filled")
  /\ table' = IF env[e] = "raw" \/ table[e] # 0 THEN table ELSE [table EXCEPT ![e] = bridge]
InstallAsksOnce(e) ==
  /\ captured' = (IF \A f \in Envs : table[f] # bridge THEN env[e] = "filled" ELSE captured)
  /\ table' = IF env[e] = "raw" THEN table ELSE [table EXCEPT ![e] = bridge]

(* b(): takes gg.getTargetInfo from the first Globals that has it, and     *)
(* puts the table.  Putting throws in a Globals under construction, which  *)
(* has no storage yet; the exception is caught.                            *)
Install(e) ==
  /\ captured' = (captured \/ env[e] = "filled")
  /\ table' = IF env[e] = "raw" THEN table ELSE [table EXCEPT ![e] = bridge]

(* choose() lists every Globals in the heap before it visits the first.    *)
Scan ==
  /\ pc = "scan"
  /\ pc' = "visit"
  /\ todo' = {e \in Envs : env[e] # "none"}
  /\ scanned' = env
  /\ UNCHANGED <<appVars, tableVars, bridge, onApp, began>>

(* registerClass, $new or choose throws: perform's function ends, and a    *)
(* call of getPackageInfo that has been waiting returns.  The error is     *)
(* reported only.                                                          *)
ScanThrows ==
  /\ pc = "scan"
  /\ pc' = "threw"
  /\ app' = IF onApp THEN Bound ELSE app
  /\ UNCHANGED <<env, tableVars, historyVars, bridge, onApp, todo>>

(* Mutation of Visit: the visitor returns "stop" for a table that sticks.  *)
VisitOne(e) ==
  /\ pc = "visit"
  /\ Install(e)
  /\ todo' = IF env[e] = "raw" THEN todo \ {e} ELSE {}
  /\ UNCHANGED <<appVars, entered, historyVars, bridge, pc, onApp>>

Visit(e) ==
  /\ pc = "visit"
  /\ Install(e)
  /\ todo' = todo \ {e}
  /\ UNCHANGED <<appVars, entered, historyVars, bridge, pc, onApp>>

(* Mutation of VisitEnds: onComplete comes before the last visit.          *)
VisitEndsEarly ==
  /\ pc = "visit"
  /\ pc' = "hook"
  /\ UNCHANGED <<appVars, tableVars, historyVars, bridge, onApp, todo>>

VisitEnds ==
  /\ pc = "visit"
  /\ todo = {}
  /\ pc' = "hook"
  /\ UNCHANGED <<appVars, tableVars, historyVars, bridge, onApp, todo>>

(* The constructor is hooked, or that fails and is reported only.  A call  *)
(* of getPackageInfo that has been waiting returns.                        *)
HookConstructor ==
  /\ pc = "hook"
  /\ pc' \in {"done", "unhooked"}
  /\ app' = IF onApp THEN Bound ELSE app
  /\ UNCHANGED <<env, tableVars, historyVars, bridge, onApp, todo>>

-----------------------------------------------------------------------------
(* GameGuardian's Globals.                                                 *)

(* A thread of GameGuardian enters the constructor of Globals.             *)
NewGlobals(e) ==
  /\ app # "starting"
  /\ env[e] = "none"
  /\ env' = [env EXCEPT ![e] = "raw"]
  /\ entered' = IF pc = "done" THEN entered \cup {e} ELSE entered
  /\ UNCHANGED <<app, table, captured, historyVars, bridge, pc, onApp, todo>>

(* The constructor returns; in the hook, b() follows.  gg is not in it yet. *)
Constructed(e) ==
  /\ env[e] = "raw"
  /\ env' = [env EXCEPT ![e] = "ready"]
  /\ table' = IF e \in entered THEN [table EXCEPT ![e] = bridge] ELSE table
  /\ UNCHANGED <<app, entered, captured, historyVars, bridge, pc, onApp, todo>>

(* GameGuardian puts gg and the libraries into it and runs a script.       *)
Fill(e) ==
  /\ env[e] = "ready"
  /\ env' = [env EXCEPT ![e] = "filled"]
  /\ UNCHANGED <<app, tableVars, historyVars, bridge, pc, onApp, todo>>

-----------------------------------------------------------------------------

InstallStep ==
  Scan \/ ScanThrows \/ (\E e \in todo : Visit(e)) \/ VisitEnds \/ HookConstructor

AppStep ==
  \/ GetOwnPackage \/ GetForeignPackage \/ MakeApplication
  \/ \E e \in Envs : NewGlobals(e) \/ Constructed(e) \/ Fill(e)

AgentNext == Load \/ Unload \/ AskApplication \/ HookPackageInfo \/ InstallStep \/ AppStep

AgentSpec == AgentInit /\ [][AgentNext]_agentVars

(* The agent's thread, or the one that the work was left to, keeps         *)
(* running; GameGuardian's start goes on.  Nothing is assumed of what      *)
(* GameGuardian, or its user, does once it is up.                          *)
FairAgentSpec ==
  /\ AgentSpec
  /\ WF_agentVars(AskApplication \/ HookPackageInfo \/ InstallStep)
  /\ WF_agentVars(app = "starting" /\ GetOwnPackage)
  /\ WF_agentVars(MakeApplication)

-----------------------------------------------------------------------------
(* Properties.                                                             *)

Constructs == {"ready", "filled"}
Installed == pc \in {"hook", "done", "unhooked"}

(* The type invariant of the agent.                                        *)
AgentTypeOK ==
  /\ app \in {"starting", "bound", "up"}
  /\ env \in [Envs -> {"none", "raw"} \cup Constructs]
  /\ entered \subseteq Envs
  /\ table \in [Envs -> 0 .. bridge]
  /\ bridge \in 0 .. MaxBridges
  /\ pc \in Steps
  /\ onApp \in BOOLEAN
  /\ todo \subseteq Envs /\ (todo # {} => pc = "visit")
  /\ captured \in BOOLEAN
  /\ began \in {"none", "starting", "bound", "up"}
  /\ scanned \in [Envs -> {"none", "raw"} \cup Constructs]

(* "Registers the frida table into GG's LuaJ Globals (and every new script *)
(* env)", as far as the code goes: every Globals that was constructed when *)
(* the heap was scanned, and every one whose constructor was entered once  *)
(* it was hooked, has the table of this bridge.                            *)
DueHaveTable ==
  Installed =>
    \A e \in Envs :
      scanned[e] \in Constructs \/ (e \in entered /\ env[e] \in Constructs) =>
        table[e] = bridge

(* When the hook of getPackageInfo is in place before GameGuardian asks    *)
(* for its own package, no Globals is missed: the work is done while       *)
(* GameGuardian's start waits for it.                                      *)
EarlyMissesNone ==
  pc = "done" /\ began = "starting" =>
    \A e \in Envs : env[e] \in Constructs => table[e] = bridge

(* Unloading leaves the tables of a bridge that is gone in GameGuardian's  *)
(* Globals; once a later bridge has been through the heap, none is left.   *)
NoStaleTable == Installed => \A e \in Envs : table[e] \in {0, bridge}

(* The agent takes gg.getTargetInfo from whichever Globals has it first:   *)
(* one that had gg in it when the heap was scanned is enough, whatever the *)
(* others are and in whatever order they are visited.                      *)
TargetReadable ==
  Installed /\ (\E e \in Envs : scanned[e] = "filled") => captured

(* "These functions instrument GG's current target": a script that finds   *)
(* the table of a bridge in its Globals can have its target read, for gg   *)
(* is in that Globals as well.                                             *)
TargetSeen ==
  pc = "done" /\ (\E e \in Envs : env[e] = "filled" /\ table[e] = bridge) => captured

(* A bridge whose hook is in place before GameGuardian asks for its own    *)
(* package installs itself: GameGuardian's start does the work, with its   *)
(* own loader, unless a call into the VM throws or the bridge is unloaded. *)
EarlyInstalls ==
  pc = "waiting" /\ app = "starting" ~> pc \in {"none", "done", "unhooked", "threw"}

(* "FGGB auto-injects `frida` into GG. Then, in a GG script, `frida.*` is  *)
(* available": a bridge that is loaded installs itself, unless a call into *)
(* the VM throws or the bridge is unloaded.                                *)
BridgeInstalls == pc = "perform" ~> pc \in {"none", "done", "unhooked", "threw"}

(* "registers the `frida` table into GG's LuaJ `Globals` (and every new    *)
(* script env)": with the bridge reported ready every Globals has it.      *)
EveryEnvHasTable ==
  pc = "done" => \A e \in Envs : env[e] = "filled" => table[e] = bridge
==============================================================================
