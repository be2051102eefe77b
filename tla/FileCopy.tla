------------------------------ MODULE FileCopy ------------------------------
(***************************************************************************)
(* What write_segments promises its caller: bytes are copied in any order, *)
(* each to its own place, and every byte that is not in the destination    *)
(* when it returns is one that was given up.  Tasks, segments, calls,      *)
(* status and reports are hidden; Transfer implements this.                *)
(***************************************************************************)
EXTENDS Integers

Hole == -1  \* a byte of the destination that nothing was written to

VARIABLES
  size,      \* how many bytes of the source are to be copied
  src_size,  \* how many it has while they are copied
  dest,      \* which byte of the source each byte of the destination is
  given_up,  \* the bytes no one will copy any more
  returned   \* whether the call has returned

vars == <<size, src_size, dest, given_up, returned>>

Init ==
  /\ size \in Nat /\ src_size \in Nat
  /\ dest = [b \in 0..(size - 1) |-> Hole]
  /\ given_up = {}
  /\ ~returned

Copied(file) == {b \in DOMAIN file : file[b] # Hole}

\* Some more bytes are copied, each to its own place and none after it was
\* given up; those that were stay as they are.  The destination grows when they lie past its end.
CopyBytes ==
  /\ ~returned
  /\ DOMAIN dest \subseteq DOMAIN dest'
  /\ \A b \in Copied(dest) : dest'[b] = dest[b]
  /\ \A b \in Copied(dest') \ Copied(dest) :
       dest'[b] = b /\ b < src_size /\ b \notin given_up
  /\ UNCHANGED <<size, src_size, given_up, returned>>

\* Bytes are given up: the source has ended there, or a call failed.
GiveUp ==
  /\ ~returned
  /\ given_up \subseteq given_up'
  /\ given_up' \intersect Copied(dest) = {}
  /\ UNCHANGED <<size, src_size, dest, returned>>

Return ==
  /\ ~returned
  /\ 0..(size - 1) \subseteq Copied(dest) \union given_up
  /\ returned' = TRUE
  /\ UNCHANGED <<size, src_size, dest, given_up>>

Next == CopyBytes \/ GiveUp \/ Return

Spec == Init /\ [][Next]_vars
=============================================================================
