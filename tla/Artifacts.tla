------------------------------ MODULE Artifacts ------------------------------
(***************************************************************************)
(* Immutable files (persistence/artifacts.py).  A file is created with     *)
(* O_EXCL and then written, so that between the two, and for ever if the   *)
(* writer dies there, it exists without its content.                       *)
(***************************************************************************)

(* The path does not exist; it exists and is not yet written; it is written. *)
Absent == [state |-> "absent"]
Torn == [state |-> "torn"]
Whole(c) == [state |-> "whole", content |-> c]

IsWhole(f) == f.state = "whole"

(* write_content_artifact finds what it was about to write.                  *)
Holds(f, c) == /\ IsWhole(f)
               /\ f.content = c

(* write_content_artifact raises "content collision".  A reader that comes   *)
(* between creation and writing sees a content that is not its own.          *)
Collides(f, c) == /\ f # Absent
                  /\ ~Holds(f, c)
=============================================================================
