----------------------------- MODULE MCSyscalls -----------------------------
(***************************************************************************)
(* The file descriptors with the terminals, the windows and the copy of    *)
(* their surfaces side by side: in each behaviour one of them runs and     *)
(* the others stay in their initial state.                                 *)
(***************************************************************************)
EXTENDS FileTable, Windows, SurfaceCopy

VARIABLE active

MCVars == <<active, vars, windowsVars, surfaceCopyVars>>

MCInit ==
  /\ active \in {"files", "windows", "copy"}
  /\ Init /\ WindowsInit /\ SurfaceCopyInit
  /\ active # "copy" => offset = [x |-> 0, y |-> 0] /\ pos = offset /\ size = offset

MCNext ==
  /\ UNCHANGED active
  /\ \/ active = "files" /\ Next /\ UNCHANGED <<windowsVars, surfaceCopyVars>>
     \/ active = "windows" /\ WindowsNext /\ UNCHANGED <<vars, surfaceCopyVars>>
     \/ active = "copy" /\ SurfaceCopyNext /\ UNCHANGED <<vars, windowsVars>>

MCSpec == MCInit /\ [][MCNext]_MCVars
=============================================================================
