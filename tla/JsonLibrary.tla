---------------------------- MODULE JsonLibrary ----------------------------
(***************************************************************************)
(* The parts of json.hpp that share no state: a text that is written and   *)
(* read, a value in one of the binary formats, documents that are patched, *)
(* or a text that is parsed with a callback.  A behaviour is about one of  *)
(* them, and the others are idle.                                          *)
(***************************************************************************)
EXTENDS JsonText, BinaryFormats, JsonPatch, CallbackParser

vars == <<textVars, binaryVars, patchVars, callbackVars>>

Init ==
  \/ TextInit /\ BinaryIdle /\ PatchIdle /\ CallbackIdle
  \/ TextIdle /\ BinaryInit /\ PatchIdle /\ CallbackIdle
  \/ TextIdle /\ BinaryIdle /\ PatchInit /\ CallbackIdle
  \/ TextIdle /\ BinaryIdle /\ PatchIdle /\ CallbackInit

Next ==
  \/ TextNext /\ UNCHANGED <<binaryVars, patchVars, callbackVars>>
  \/ BinaryNext /\ UNCHANGED <<textVars, patchVars, callbackVars>>
  \/ PatchNext /\ UNCHANGED <<textVars, binaryVars, callbackVars>>
  \/ CallbackNext /\ UNCHANGED <<textVars, binaryVars, patchVars>>

Spec == Init /\ [][Next]_vars

\* The variables' ranges; nothing is written behind the string buffer.
TypeOK ==
  /\ TextTypeOK /\ BufferNeverOverrun
  /\ stage \in {"idle", "value", "written", "read", "threw"}
  /\ \A i \in DOMAIN file : file[i] \in 0..255
  /\ phase \in {"none", "two", "diff", "merged", "user", "flat", "unflattened", "failed", "threw"}
  /\ given \in 0..MAX_OPERATIONS
  /\ Len(keep_stack) = Len(ref_stack) + 1
=============================================================================
