------------------------------- MODULE FindFile ------------------------------
(***************************************************************************)
(* The build script (src/build.rs): on an Android target it searches the   *)
(* NDK for the compiler's builtins archive, root after root, to a bounded  *)
(* depth.  Directories may be reached by several ways and in a circle, for *)
(* is_dir() follows symbolic links; only the depth ends the search then.   *)
(*                                                                         *)
(* A directory that is missing or cannot be read is one with no entries.   *)
(* Every directory lists others, or itself, in an order of its own, and    *)
(* one of them twice where two of its entries are links to it.             *)
(***************************************************************************)
EXTENDS Naturals, Sequences, FiniteSetsExt

CONSTANTS
  Dirs,       \* the directories
  Listings,   \* the sequences of directories that read_dir may list
  Depth,      \* the depth of the search (8 in the code)
  Roots       \* the sequences of candidate roots

ASSUME FindFileAssumption ==
  /\ Depth \in Nat \ {0}
  /\ Listings \subseteq Seq(Dirs)
  /\ Roots \subseteq Seq(Dirs)

VARIABLES
  android,    \* is Android the target?
  subdirs,    \* the directories that a directory lists, in its order
  holds,      \* the directories that list the archive
  roots,      \* the roots not yet searched
  step,       \* "start", "search", "skipped", "linked" or "warned"
  found       \* the directories on the way to the archive

buildVars == <<android, subdirs, holds, roots, step, found>>

NotFound == <<>>

(* Any file system of Dirs and Listings.                                   *)
BuildInit ==
  /\ android \in BOOLEAN
  /\ subdirs \in [Dirs -> Listings]
  /\ holds \in SUBSET Dirs
  /\ roots \in Roots
  /\ step = "start"
  /\ found = NotFound

(* The entries of d that lead to the archive, by their places, with the    *)
(* ways that the calls for the subdirectories return; the first of them.   *)
Leading(d, ways) == {i \in 1 .. Len(subdirs[d]) : ways[subdirs[d][i]] # NotFound}
First(d, ways) == subdirs[d][Min(Leading(d, ways))]

(* Mutations of Find: it looks one level too deep; it goes down before it  *)
(* looks at the files.                                                     *)
FindDeeper(dir) ==
  LET W[n \in 0 .. Depth] ==
        [d \in Dirs |->
          IF d \in holds THEN <<d>>
          ELSE IF n = 0 \/ Leading(d, W[n - 1]) = {} THEN NotFound
          ELSE <<d>> \o W[n - 1][First(d, W[n - 1])]]
  IN W[Depth][dir]
FindDownFirst(dir) ==
  LET W[n \in 0 .. Depth] ==
        [d \in Dirs |->
          IF n = 0 THEN NotFound
          ELSE IF Leading(d, W[n - 1]) # {} THEN <<d>> \o W[n - 1][First(d, W[n - 1])]
          ELSE IF d \in holds THEN <<d>> ELSE NotFound]
  IN W[Depth][dir]

(* One call of find_file: the files of a directory come before what the    *)
(* calls for its subdirectories return.                                    *)
WayFrom(d, ways) ==
  IF d \in holds THEN <<d>>
  ELSE IF Leading(d, ways) = {} THEN NotFound
  ELSE <<d>> \o ways[First(d, ways)]

(* find_file(dir, name, n) for every directory.                            *)
Ways[n \in 0 .. Depth] ==
  [d \in Dirs |-> IF n = 0 THEN NotFound ELSE WayFrom(d, Ways[n - 1])]

Find(dir) == Ways[Depth][dir]

(* main(): nothing to do on other targets.                                 *)
CheckTarget ==
  /\ step = "start"
  /\ step' = IF android THEN "search" ELSE "skipped"
  /\ UNCHANGED <<android, subdirs, holds, roots, found>>

(* Mutation of SearchRoot: the first root decides.                         *)
SearchFirstRoot ==
  /\ step = "search"
  /\ roots # <<>>
  /\ found' = Find(Head(roots))
  /\ roots' = IF found' = NotFound THEN <<>> ELSE roots
  /\ step' = IF found' = NotFound THEN "search" ELSE "linked"
  /\ UNCHANGED <<android, subdirs, holds>>

(* locate_builtins_dir: the next root.                                     *)
SearchRoot ==
  /\ step = "search"
  /\ roots # <<>>
  /\ found' = Find(Head(roots))
  /\ roots' = IF found' = NotFound THEN Tail(roots) ELSE roots
  /\ step' = IF found' = NotFound THEN "search" ELSE "linked"
  /\ UNCHANGED <<android, subdirs, holds>>

(* No root has it: a warning, and the build goes on.                       *)
Warn ==
  /\ step = "search"
  /\ roots = <<>>
  /\ step' = "warned"
  /\ UNCHANGED <<android, subdirs, holds, roots, found>>

BuildNext == CheckTarget \/ SearchRoot \/ Warn

BuildSpec == BuildInit /\ [][BuildNext]_buildVars /\ WF_buildVars(BuildNext)

-----------------------------------------------------------------------------
(* What the search should find, by paths.                                  *)

Listed(d) == {subdirs[d][i] : i \in 1 .. Len(subdirs[d])}

Paths(root) ==
  {p \in UNION {[1 .. n -> Dirs] : n \in 1 .. Depth} :
     p[1] = root /\ \A i \in 1 .. Len(p) - 1 : p[i + 1] \in Listed(p[i])}

(* The ways from a root to the nearest archive on that way.                *)
Hits(root) ==
  {p \in Paths(root) : \A i \in 1 .. Len(p) : p[i] \in holds <=> i = Len(p)}

(* d lists s, and u only after that.                                       *)
Earlier(d, s, u) ==
  \E i \in 1 .. Len(subdirs[d]) :
    subdirs[d][i] = s /\ \A j \in 1 .. i : subdirs[d][j] # u

(* p comes before q in the order of the listings: where they part, the     *)
(* directory that they have come to lists the way of p first.              *)
Before(p, q) ==
  \E i \in (2 .. Len(p)) \cap (2 .. Len(q)) :
    Earlier(p[i - 1], p[i], q[i]) /\ \A j \in 1 .. i - 1 : p[j] = q[j]

(* The type invariant of the build script: no way is longer than Depth.    *)
BuildTypeOK ==
  /\ android \in BOOLEAN
  /\ subdirs \in [Dirs -> Seq(Dirs)]
  /\ holds \subseteq Dirs
  /\ roots \in Seq(Dirs)
  /\ step \in {"start", "search", "skipped", "linked", "warned"}
  /\ found \in Seq(Dirs) /\ Len(found) <= Depth

(* p is the first of the hits, or there is none and p says so.             *)
IsFirst(p, hits) ==
  IF hits = {} THEN p = NotFound
  ELSE p \in hits /\ \A q \in hits \ {p} : Before(p, q)

(* "Bounded-depth search for file_name under dir": what find_file returns  *)
(* is, in the order of the listings, the first way of at most Depth        *)
(* directories to an archive, with none nearer on that way; and it finds   *)
(* one if there is one, whatever circles the directories form.             *)
FindsTheFirst ==
  step = "search" /\ roots # <<>> => IsFirst(Find(Head(roots)), Hits(Head(roots)))

(* A root is given up only when no way leads from it to the archive, what  *)
(* is linked is the first way from the root being searched, and the script *)
(* warns only when it has given up every root.                             *)
SearchInOrder ==
  [][/\ roots' # roots => roots' = Tail(roots) /\ Hits(Head(roots)) = {}
     /\ found' # found =>
          step' = "linked" /\ found' # NotFound /\ IsFirst(found', Hits(Head(roots)))
     /\ step' = "linked" /\ step # "linked" => Hits(Head(roots)) # {}
     /\ step' = "warned" /\ step # "warned" => roots = <<>>]_buildVars

(* The script warns if and only if none of the roots leads to the archive; *)
(* with one that does, it always links it.                                 *)
LinksIfThere ==
  [](step = "start" /\ android =>
       IF \E i \in 1 .. Len(roots) : Hits(roots[i]) # {}
       THEN <>(step = "linked" /\ found # NotFound) ELSE <>(step = "warned"))
==============================================================================
