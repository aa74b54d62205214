------------------------------ MODULE MCRelease ------------------------------
(* Release for TLC: two releases of one application.  The second changes a    *)
(* file and drops the other; one match condition takes all files, the other   *)
(* only the file that is dropped.                                            *)
EXTENDS Release

CONSTANTS a, b, x, y, all, some

MCReleases == {1, 2}
MCMatches  == {all, some}
MCPaths    == {a, b}
MCContents == {x, y}

MCTarget ==
  [r \in MCReleases |-> [m \in MCMatches |-> [p \in MCPaths |->
     IF p = a THEN (IF m = all THEN (IF r = 1 THEN x ELSE y) ELSE Absent)
              ELSE (IF r = 1 THEN x ELSE Absent)]]]
MCConverted == {b}
=============================================================================
