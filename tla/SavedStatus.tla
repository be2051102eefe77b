----------------------------- MODULE SavedStatus -----------------------------
(***************************************************************************)
(* What main relies on when it saves a status beside the destination and a *)
(* later run loads it (src/main.cpp:86-97): the run gets the very status   *)
(* that was saved, or, if saving it did not come to its end, an exception. *)
(* Of a file that the user has edited it gets something or an exception.   *)
(***************************************************************************)
CONSTANTS
  Statuses,  \* what may be saved
  Refused

VARIABLES
  status,  \* what is saved
  file,    \* "none", "cut", "whole" or "edited"
  loaded   \* nothing yet, or the one thing that the later run got

vars == <<status, file, loaded>>

Init ==
  /\ status \in Statuses
  /\ file = "none"
  /\ loaded = <<>>

Save ==
  /\ file = "none"
  /\ file' \in {"cut", "whole", "edited"}
  /\ UNCHANGED <<status, loaded>>

Load ==
  /\ file # "none" /\ loaded = <<>>
  /\ CASE file = "whole" -> loaded' = <<status>>
       [] file = "cut" -> loaded' = <<Refused>>
       [] file = "edited" -> loaded' # <<>>
  /\ UNCHANGED <<status, file>>

\* A whole file is loaded as it was saved, a cut one never.
Safety == Init /\ [][Save \/ Load]_vars

\* Saving may never come to pass; loading does not go on for ever.
Spec == Safety /\ ((file # "none") ~> (loaded # <<>>))
=============================================================================
