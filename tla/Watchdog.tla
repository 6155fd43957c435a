------------------------------ MODULE Watchdog -------------------------------
(***************************************************************************)
(* The watchdog loop of src/src/main.rs over the engine: on every tick     *)
(* main() looks for GameGuardian (src/src/gg.rs) and injects the bridge    *)
(* into a process it has not injected yet.  A look reads one directory     *)
(* entry after another while processes come and go; GameGuardian starts    *)
(* and exits at any time, also during the look and between it and the      *)
(* injection; an entry may be unreadable for a moment.                     *)
(***************************************************************************)
EXTENDS Engine, Functions

CONSTANTS
  GGPids,         \* pids GameGuardian's process may get
  PidReuse,       \* may a new GameGuardian get the pid of an earlier one?
  Marked,         \* packages with a version.gg marker, in directory order
  GGPackage,      \* the package whose GameGuardian is started
  Override,       \* FGGB_GG_PACKAGE, or NoPackage
  NoPackage,
  MaxStarts,      \* bound: times GameGuardian starts
  MaxMisses       \* bound: times that markers or an entry cannot be read

ASSUME WatchdogAssumption ==
  /\ GGPids \subseteq Pids \ {0}
  /\ PidReuse \in BOOLEAN
  /\ Marked \in Seq(Range(Marked))
  /\ NoPackage \notin Range(Marked) \cup {GGPackage}
  /\ MaxStarts \in Nat
  /\ MaxMisses \in Nat

VARIABLES
  gg,         \* the pid of the running GameGuardian, or 0
  starts,     \* the pids GameGuardian has had, in order
  misses,     \* times that markers or an entry could not be read
  look,       \* a look: the package, the pids still to read, the last one read
  injected,   \* the watchdog's `injected`: pid and session id, or Nowhere
  target      \* the pid this tick injects into, or 0 between ticks

watchVars == <<gg, starts, misses, look, injected, target>>
allVars == <<vars, watchVars>>

Nowhere == [pid |-> 0, sid |-> 0]
NoLook == [pkg |-> NoPackage, left |-> {}, at |-> 0]

WatchInit ==
  /\ Init
  /\ alive \cap GGPids = {}
  /\ gg = 0
  /\ starts = <<>>
  /\ misses = 0
  /\ look = NoLook
  /\ injected = Nowhere
  /\ target = 0

-----------------------------------------------------------------------------
(* GameGuardian's process, and others.                                     *)

(* read_dir lists /proc while it is read: a process that starts ahead of   *)
(* the reader may still be listed.                                         *)
MayBeListed(p) ==
  \/ UNCHANGED look
  \/ look # NoLook /\ p > look.at /\ look' = [look EXCEPT !.left = @ \cup {p}]

GGStarts(p) ==
  /\ gg = 0
  /\ Len(starts) < MaxStarts
  /\ PidReuse \/ \A i \in 1 .. Len(starts) : starts[i] # p
  /\ ProcessStart(p)
  /\ MayBeListed(p)
  /\ gg' = p
  /\ starts' = Append(starts, p)
  /\ UNCHANGED <<misses, injected, target>>

GGExits ==
  /\ gg # 0
  /\ ProcessExit(gg)
  /\ gg' = 0
  /\ UNCHANGED <<starts, misses, look, injected, target>>

OtherStarts(p) ==
  /\ ProcessStart(p)
  /\ MayBeListed(p)
  /\ UNCHANGED <<gg, starts, misses, injected, target>>

-----------------------------------------------------------------------------
(* A tick.                                                                 *)

BetweenTicks == main.st = "free" /\ target = 0 /\ look = NoLook

(* n entries in a row cannot be read just now.                             *)
Unreadable(n) ==
  IF n = 0 THEN UNCHANGED misses ELSE misses < MaxMisses /\ misses' = misses + 1

(* What find_package returns: the override, which reads no marker, or the  *)
(* first marked package; the first k markers cannot be read.               *)
FindPackage(k) ==
  IF k = 0 /\ Override # NoPackage THEN Override
  ELSE IF k < Len(Marked) THEN Marked[k + 1] ELSE NoPackage

MarkersRead == IF Override # NoPackage THEN 0 ELSE Len(Marked)

(* A tick finds the package, and find_pid begins to list /proc.            *)
LookBegins(k) ==
  /\ BetweenTicks
  /\ Unreadable(k)
  /\ FindPackage(k) # NoPackage
  /\ look' = [pkg |-> FindPackage(k), left |-> alive, at |-> 0]
  /\ UNCHANGED <<vars, gg, starts, injected, target>>

(* A tick that finds no package.                                           *)
NoPackageFound(k) ==
  /\ BetweenTicks
  /\ Unreadable(k)
  /\ FindPackage(k) = NoPackage
  /\ injected' = Nowhere
  /\ UNCHANGED <<vars, gg, starts, look, target>>

(* Mutation of IsNew: any remembered injection is enough.                  *)
IsNewOnce(pid) == injected = Nowhere

(* The match on `injected`: is this a process not injected yet?            *)
IsNew(pid) == injected.pid # pid

(* The next entry of /proc is of the package: a pid that has the bridge    *)
(* ends the tick, a new one is injected.                                   *)
SeesPid(p) ==
  /\ p = gg
  /\ look.pkg = GGPackage
  /\ look' = NoLook
  /\ target' = IF IsNew(p) THEN p ELSE 0
  /\ UNCHANGED <<misses, injected>>

(* Mutation of SkipsPid: an entry that cannot be read ends the search, as  *)
(* `?` would in place of `continue`.                                       *)
SkipsPidOrStops(p) ==
  /\ IF p \notin alive THEN look' = NoLook /\ injected' = Nowhere
     ELSE look' = [look EXCEPT !.left = @ \ {p}, !.at = p] /\ UNCHANGED injected
  /\ ~(p = gg /\ look.pkg = GGPackage)
  /\ UNCHANGED <<misses, target>>

(* It is of another process or package, or its process has gone and it     *)
(* cannot be read any more; or it cannot be read just now.                 *)
SkipsPid(p) ==
  /\ IF p = gg /\ look.pkg = GGPackage THEN Unreadable(1) ELSE UNCHANGED misses
  /\ look' = [look EXCEPT !.left = @ \ {p}, !.at = p]
  /\ UNCHANGED <<injected, target>>

(* find_pid reads the next entry of the listing, in ascending order.       *)
ReadEntry ==
  /\ \E p \in look.left :
       /\ \A q \in look.left : p <= q
       /\ SeesPid(p) \/ SkipsPid(p)
  /\ UNCHANGED <<vars, gg, starts>>

(* find_pid returns None: the injection is forgotten.                      *)
LookEnds ==
  /\ look # NoLook
  /\ look.left = {}
  /\ look' = NoLook
  /\ injected' = Nowhere
  /\ UNCHANGED <<vars, gg, starts, misses, target>>

(* inject_bridge, into the process seen: it may be gone by now.            *)
Inject ==
  /\ target # 0
  /\ SendInjectBridge(target)
  /\ UNCHANGED watchVars

(* Mutations of Outcome: a failed injection is recorded as well; none is.  *)
OutcomeAlways(st) == [pid |-> target, sid |-> main.sid]
OutcomeForgotten(st) == injected

(* What the reply leaves in `injected`: an error leaves it as it was, so   *)
(* the next tick tries again.                                              *)
Outcome(st) == IF st = "ok" THEN [pid |-> target, sid |-> main.sid] ELSE injected

InjectReturns ==
  /\ target # 0
  /\ MainResumes
  /\ injected' = Outcome(main.st)
  /\ target' = 0
  /\ UNCHANGED <<gg, starts, misses, look>>

(* ctrl_c is polled between ticks only.                                    *)
Quit ==
  /\ target = 0
  /\ look = NoLook
  /\ CtrlC \/ SendShutdown
  /\ UNCHANGED watchVars

-----------------------------------------------------------------------------

EngineStep ==
  /\ \/ ActorStep \/ HandlerStep \/ BridgeStep
     \/ \E p \in Pids \ GGPids : ProcessExit(p)
  /\ UNCHANGED watchVars

TickStep ==
  \/ \E k \in 0 .. MarkersRead : LookBegins(k) \/ NoPackageFound(k)
  \/ ReadEntry
  \/ LookEnds
  \/ Inject
  \/ InjectReturns

WatchNext ==
  \/ EngineStep \/ TickStep \/ Quit \/ GGExits
  \/ \E p \in GGPids : GGStarts(p)
  \/ \E p \in Pids \ GGPids : OtherStarts(p)

WatchSpec == WatchInit /\ [][WatchNext]_allVars

AttachSucceeds ==
  /\ Receive("InjectBridge")
  /\ BeginInject(Head(queue).pid, TRUE)
  /\ UNCHANGED watchVars

(* The ticker keeps ticking; the actor thread keeps running and Frida's    *)
(* calls return; main gets its room in the channel in its turn, for        *)
(* tokio's channel hands permits to its waiters in order and before any    *)
(* try_send; and attaching to a GameGuardian that keeps running, and       *)
(* loading the bridge there, do not fail forever.                          *)
FairWatchSpec ==
  /\ WatchSpec
  /\ WF_allVars(TickStep)
  /\ SF_allVars(Inject)
  /\ SF_allVars(target = 0 /\ look = NoLook /\ SendShutdown /\ UNCHANGED watchVars)
  /\ WF_allVars(ActorStep /\ UNCHANGED watchVars)
  /\ SF_allVars(AttachSucceeds)
  /\ SF_allVars(LoadSucceeds /\ UNCHANGED watchVars)

-----------------------------------------------------------------------------
(* Properties.                                                             *)

(* The type invariant of the watchdog.                                     *)
WatchTypeOK ==
  /\ TypeOK
  /\ gg \in (GGPids \cap alive) \cup {0}
  /\ starts \in Seq(GGPids) /\ Len(starts) <= MaxStarts
  /\ misses \in 0 .. MaxMisses
  /\ look \in [pkg : Range(Marked) \cup {Override, NoPackage}, left : SUBSET Pids,
               at : Pids \cup {0}]
  /\ look # NoLook => main.st = "free" /\ target = 0
  /\ injected \in [pid : GGPids, sid : Sids] \cup {Nowhere}
  /\ target \in GGPids \cup {0}

Bridges == {s \in attached : forward[s]}

(* "Already injected into this exact process: nothing to do": between      *)
(* ticks, what the watchdog remembers is a registered bridge session of    *)
(* the process with that pid, whatever happened while it waited for the    *)
(* engine.                                                                 *)
RemembersBridge ==
  main.st = "free" /\ injected # Nowhere =>
    /\ injected.sid \in registry
    /\ forward[injected.sid]
    /\ pidOf[injected.sid] = injected.pid

(* "New or restarted GG: inject the bridge": a GameGuardian process never  *)
(* has two bridges loaded at once.                                         *)
OneBridgePerProcess ==
  \A s, u \in Bridges : pidOf[s] = pidOf[u] => s = u

(* The same as long as every entry could be read: no interleaving of looks,*)
(* injections, exits and restarts makes the watchdog inject twice.         *)
OneBridgeIfSeen == misses = 0 => OneBridgePerProcess

(* A bridge is forgotten only when its process has gone: a look that       *)
(* overlaps exits and restarts, of GameGuardian and of other processes,    *)
(* may miss a new GameGuardian, but never the one that was injected and    *)
(* still runs, unless an entry could not be read.                          *)
ForgetsOnlyTheGone ==
  [][injected # Nowhere /\ injected' = Nowhere =>
       injected.pid # gg \/ misses' > 0]_allVars

-----------------------------------------------------------------------------
(* What the invariants above rest on.                                      *)

BridgeOf(s, p) == s \in 1 .. nextId /\ forward[s] /\ pidOf[s] = p

(* Everything main() has under way with the engine is for the tick's       *)
(* target; what it is told of and what it remembers are bridge sessions    *)
(* that were opened.                                                       *)
TickInv ==
  /\ \A i \in 1 .. Len(queue) : queue[i].kind = "InjectBridge" => queue[i].pid = target
  /\ actor.cmd.kind = "InjectBridge" => pidOf[actor.sid] = target
  /\ actor.pc \in {"settle", "drained"} => ~forward[actor.sid]
  /\ actor.pc = "stopped" => main.st = "down"
  /\ main.st \in {"inject", "ok", "err"} => target # 0
  /\ target # 0 => main.st \in {"free", "inject", "ok", "err"}
  /\ main.st = "ok" => BridgeOf(main.sid, target)
  /\ injected # Nowhere => BridgeOf(injected.sid, injected.pid)

(* Agents are in running processes, bridges in GameGuardian's, of which    *)
(* one runs at a time.                                                     *)
ProcessInv ==
  /\ alive \cap GGPids \subseteq {gg}
  /\ \A s \in attached : pidOf[s] \in alive
  /\ \A s \in Sids : forward[s] => pidOf[s] \in GGPids

(* The target is not the process remembered; where pids are not used       *)
(* again, that process has gone once another one is the target.            *)
HistoryInv ==
  /\ {gg, target, injected.pid} \subseteq Range(starts) \cup {0}
  /\ target # 0 => injected.pid # target
  /\ ~PidReuse /\ target # 0 /\ injected # Nowhere => injected.pid # gg

(* As long as every entry could be read, all looks are for the package     *)
(* that was injected, and the process remembered is still to be read.      *)
LookInv ==
  misses = 0 =>
    /\ look # NoLook => look.pkg = FindPackage(0)
    /\ target # 0 \/ injected # Nowhere => FindPackage(0) = GGPackage
    /\ ~PidReuse /\ look # NoLook /\ injected # Nowhere /\ injected.pid = gg
         => gg \in look.left

(* Then no bridge is loaded that main() does not know of.                  *)
BridgesInv ==
  ~PidReuse /\ misses = 0 =>
    \A s \in Bridges :
      \/ injected # Nowhere /\ s = injected.sid
      \/ main.st = "ok" /\ s = main.sid
      \/ actor.pc = "load" /\ s = actor.sid

WatchInv == TickInv /\ ProcessInv /\ HistoryInv /\ LookInv /\ BridgesInv

-----------------------------------------------------------------------------
(* What must happen.                                                       *)

Spent == nextId = MaxSessions

(* "Keeps it injected, re-injecting whenever GG restarts": if GameGuardian *)
(* stays up and FGGB is not told to quit, from some time on a bridge is    *)
(* loaded in GameGuardian (or the model has no session ids left).          *)
BridgeKept ==
  \A p \in GGPids :
    <>[](gg = p /\ main.st \notin {"quitting", "shutdown", "down"}) =>
      <>[]((\E s \in Bridges : pidOf[s] = p) \/ Spent)

(* Once ctrl-c has ended the watchdog loop, main gets its answer from the  *)
(* engine, however full the channel and whatever scripts keep sending.     *)
ShutdownCompletes == main.st = "quitting" ~> main.st = "down"

(* inject_bridge's oneshot is always answered: the watchdog never waits    *)
(* forever for an injection.                                               *)
InjectAnswered == main.st = "inject" ~> main.st # "inject"
==============================================================================
