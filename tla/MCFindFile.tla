----------------------------- MODULE MCFindFile ------------------------------
(* Definitions for the model-checking run of FindFile.                     *)
EXTENDS FindFile

(* Each of the directories may list nothing, one directory or two, in an   *)
(* order of its own; it may be among them itself.                          *)
MCListings == {<<>>, <<2>>, <<3>>, <<4>>, <<2, 3>>, <<3, 2>>, <<4, 3>>, <<1, 4>>}

(* No root, one, and two, each of which may lie in the other.              *)
MCRoots == {<<>>, <<1>>, <<2, 1>>}
==============================================================================
