------------------------------ MODULE Session -------------------------------
(***************************************************************************)
(* Runs of the program one after the other (src/main.cpp), with what lasts *)
(* between them: the sources, the destination and the saved status, a JSON *)
(* file beside the destination whose name ends in the source's checksum.   *)
(* A run may be killed at any step; it may be asked for what is no file or *)
(* to write where no directory is, and it may meet a source that changes   *)
(* under it, a file that it cannot open, a full disk, a copy that fails or *)
(* an output that is no terminal.  Between runs the user edits sources and *)
(* deletes the destination.                                                *)
(*                                                                         *)
(* The copy is the one of Transfer: each byte of the status's segments, in *)
(* any order, from where it belongs, and any of them not if calls fail.    *)
(* Only what was written by a process that dies is modelled, not what a    *)
(* dying machine loses.                                                    *)
(*                                                                         *)
(* A checksum is the bytes that are digested, as if no two texts had the   *)
(* same MD5, and what is printed of memory that nobody wrote.              *)
(***************************************************************************)
EXTENDS Integers, Sequences, SequencesExt

CONSTANTS
  Paths,                   \* source files; all have the same filename
  Unhandled,               \* paths where there is something, but no regular file
  Invalid,                 \* the paths that are no UTF-8
  Versions,                \* what a source may be
  Content,                 \* the bytes of each version
  Missing,                 \* there is no such source
  Faults,                  \* what a run may meet
  CHECKSUM_UPPER_BOUND,    \* how much is read at either end (64 KB)
  CHECKSUM_LOWER_BOUND,    \* the size up to which all is read (8 MB)
  CHECKSUM_SCALE_FACTOR,
  MAX_CHECKSUM_FILE_SIZE,  \* 20 MB
  MIN_FILE_SEGMENTS,       \* the size up to which a file is not cut
  Threads,                 \* compute_optimal_threads, the same for every run
  Garbage                  \* what the 48 bytes of result behind the MD5 may hold

ASSUME SessionAssumption ==
  /\ Content \in [Versions -> Seq(1..255)]
  /\ Invalid \subseteq Paths /\ Unhandled \intersect Paths = {}
  /\ Threads \in Nat \ {0}
  /\ Garbage # {} /\ Paths # {} /\ Missing \notin Versions

\* Which bytes of a source its checksum is about (include/file.h).
get_checksum_chunk_size(size) ==
  IF size <= CHECKSUM_LOWER_BOUND THEN size
  ELSE IF size >= MAX_CHECKSUM_FILE_SIZE \/ size \div CHECKSUM_SCALE_FACTOR > CHECKSUM_UPPER_BOUND
       THEN CHECKSUM_UPPER_BOUND
       ELSE size \div CHECKSUM_SCALE_FACTOR

\* The first and the last bytes of s; of a file that became shorter than that,
\* what there is and zeros: a stream that has failed does not seek.
Ends(s, chunk) ==
  IF Len(s) >= chunk
  THEN SubSeq(s, 1, chunk) \o SubSeq(s, Len(s) - chunk + 1, Len(s))
  ELSE s \o [k \in 1..(2 * chunk - Len(s)) |-> 0]

\* What compute_checksum may return for a file that holds s now.
compute_checksum(s, chunk) ==
  IF Len(s) = chunk THEN {<<s, g>> : g \in Garbage} ELSE {<<Ends(s, chunk), "">>}

\* A byte nobody wrote, between the beginning of a file and its end.
Hole == 0

Length(v) == Len(Content[v])

\* The checksums of version v by a chunk size computed from the size of w.
SumsOf(v, w) == compute_checksum(Content[v], get_checksum_chunk_size(Length(w)))

Sums == UNION {SumsOf(v, w) : v, w \in Versions}

VARIABLES
  sources,      \* the version at each path, or Missing
  dest_exists, dest,  \* the destination file
  dest_deleted, \* the user deleted the destination, and no run made another
  json,         \* the status file of each checksum: "absent", "torn" or "whole"
  saved,        \* what a whole status file says
  pc,           \* where the run is; "idle" before it starts, "exited" after
  outcome,      \* of a run that exited: "returned" or "threw"
  fault,        \* what the run met: "none", "changed" (a source), "denied" (a file
                \* it cannot open), "disk" (full), "copy" (a failing call) or
                \* "no terminal"
  is_directory, \* whether it finds a directory where it is to write
  source, total_file_size, checksum, create_json_file,  \* its variables in main
  status,       \* the status it transfers by
  todo          \* the bytes of status's segments it did not copy yet

userVars == <<sources, dest_deleted>>
fileVars == <<dest_exists, dest>>
jsonVars == <<json, saved>>
mainVars == <<is_directory, source, total_file_size, checksum, create_json_file>>
runVars == <<mainVars, fault>>
vars == <<userVars, fileVars, jsonVars, pc, outcome, runVars, status, todo>>

\* file_transfer_status, without the offsets: they are zero when it is saved and
\* it is never saved again.
Status == [source_file : Paths, total_size : {Length(v) : v \in Versions},
           checksum : Sums]

SomePath == CHOOSE p \in Paths : TRUE
NoSum == <<>>
NoStatus == <<>>

\* What main asks of its source before it looks at it: a regular file.
Transferable(p) == p \in Paths /\ sources[p] # Missing

InRun == pc \notin {"idle", "exited"}

\* The status file a run looks for and writes: get_config_filename.
OneStatusFile == CHOOSE c \in Sums : TRUE  \* slip: named by the filename alone
StatusFile == checksum

\* The order of the steps of a run that has no status to go by.
SaveFirst ==  \* slip: the status is saved before the destination is prepared
  [lookup |-> "create", create |-> "close", close |-> "truncate",
   truncate |-> "extend", extend |-> "open"]
Following ==
  [lookup |-> "truncate", truncate |-> "extend", extend |-> "create",
   create |-> "close", close |-> "open"]

NullStatus == NoStatus  \* slip: what get_status returned is not kept
Prepared ==
  [source_file |-> source, total_size |-> total_file_size,
   checksum |-> checksum]

\* What write_segments copies: every segment from its first byte.  The segments of
\* a file that is not cut are as long as the file and lie one behind the other.
FromTheEnd == (Len(dest) + 1)..status.total_size  \* slip: resume at the end
WholeFile ==
  1..(IF status.total_size <= MIN_FILE_SEGMENTS THEN Threads * status.total_size
      ELSE status.total_size)

\* A file after byte x was written as the b-th of it.
Overwritten(file, b, x) ==
  [i \in 1..(IF b > Len(file) THEN b ELSE Len(file)) |->
     IF i = b THEN x ELSE IF i <= Len(file) THEN file[i] ELSE Hole]

Init ==
  /\ sources \in [Paths -> Versions]
  /\ dest_exists = FALSE
  /\ dest = <<>>
  /\ dest_deleted = FALSE
  /\ json = [c \in Sums |-> "absent"]
  /\ saved = [c \in Sums |-> NoStatus]
  /\ pc = "idle"
  /\ outcome = "none"
  /\ fault = "none"
  /\ is_directory = TRUE
  /\ source = SomePath
  /\ total_file_size = 0
  /\ checksum = NoSum
  /\ create_json_file = FALSE
  /\ status = NoStatus
  /\ todo = {}
-----------------------------------------------------------------------------
(* The run: main and get_status. *)

\* The checks of the arguments, and the size of the source ...
Start(p, directory) ==
  /\ ~InRun
  /\ source' = p /\ is_directory' = directory
  /\ checksum' = NoSum
  /\ \/ /\ Transferable(p) /\ directory
        /\ pc' = "checksum" /\ outcome' = "none"
        /\ total_file_size' = Length(sources[p])
     \/ /\ ~(Transferable(p) /\ directory)
        /\ pc' = "exited" /\ outcome' = "threw"
        /\ total_file_size' = 0
  /\ create_json_file' = FALSE
  /\ fault' = "none"
  /\ status' = NoStatus
  /\ UNCHANGED <<userVars, fileVars, jsonVars, todo>>

\* ... then its checksum, of what it is by now, if it still is.
ComputeChecksum ==
  /\ pc = "checksum"
  /\ \/ /\ sources[source] # Missing
        /\ checksum' \in compute_checksum(Content[sources[source]],
                                          get_checksum_chunk_size(total_file_size))
        /\ pc' = "lookup" /\ UNCHANGED outcome
     \/ /\ sources[source] = Missing
        /\ pc' = "exited" /\ outcome' = "threw" /\ UNCHANGED checksum
  /\ UNCHANGED <<userVars, fileVars, jsonVars, is_directory, source, total_file_size,
                 create_json_file, fault, status, todo>>

\* The saved status is taken if it is about this checksum or this size; one that
\* get_json cannot parse ends the program.
LookUp ==
  /\ pc = "lookup"
  /\ LET found == saved[StatusFile]
         fits == found.checksum = checksum
                   \/ found.total_size = total_file_size
     IN  CASE json[StatusFile] = "torn" ->
                pc' = "exited" /\ outcome' = "threw" /\ status' = NoStatus
                  /\ create_json_file' = FALSE
           [] json[StatusFile] = "whole" /\ fits ->
                pc' = "open" /\ status' = found /\ create_json_file' = FALSE
                  /\ UNCHANGED outcome
           [] OTHER ->
                pc' = Following[pc] /\ status' = Prepared
                  /\ create_json_file' = TRUE /\ UNCHANGED outcome
  /\ UNCHANGED <<userVars, fileVars, jsonVars, is_directory, source, total_file_size,
                 checksum, fault, todo>>

Kept == dest  \* slip: opened without being truncated
Emptied == <<>>

\* prepare_target_file: opened and truncated ...
Truncate ==
  /\ pc = "truncate"
  /\ pc' = Following[pc]
  /\ dest_exists' = TRUE /\ dest_deleted' = FALSE
  /\ dest' = Emptied
  /\ UNCHANGED <<sources, jsonVars, outcome, runVars, status, todo>>

\* ... then given its last byte, if it is to have one.
Extend ==
  /\ pc = "extend"
  /\ pc' = Following[pc]
  /\ dest' = IF status.total_size = 0 THEN dest
             ELSE Overwritten(dest, status.total_size, Hole)
  /\ UNCHANGED <<userVars, dest_exists, jsonVars, outcome, runVars, status, todo>>

\* The status file is created, or emptied ...
CreateJson ==
  /\ pc = "create"
  /\ pc' = Following[pc]
  /\ json' = [json EXCEPT ![StatusFile] = "torn"]
  /\ UNCHANGED <<userVars, fileVars, saved, outcome, runVars, status, todo>>

\* ... and is whole when the stream is closed.
CloseJson ==
  /\ pc = "close" /\ status.source_file \notin Invalid
  /\ pc' = Following[pc]
  /\ json' = [json EXCEPT ![StatusFile] = "whole"]
  /\ saved' = [saved EXCEPT ![StatusFile] = status]
  /\ UNCHANGED <<userVars, fileVars, outcome, runVars, status, todo>>

\* dump throws at a path that is no UTF-8, with the file half written.
SaveThrows ==
  /\ pc = "close" /\ status.source_file \in Invalid
  /\ pc' = "exited" /\ outcome' = "threw"
  /\ UNCHANGED <<userVars, fileVars, jsonVars, runVars, status, todo>>

\* write_segments opens both files; neither is created.
Open ==
  /\ pc = "open"
  /\ IF sources[status.source_file] = Missing \/ ~dest_exists
     THEN pc' = "exited" /\ outcome' = "threw" /\ UNCHANGED todo
     ELSE pc' = "copy" /\ todo' = WholeFile /\ UNCHANGED outcome
  /\ UNCHANGED <<userVars, fileVars, jsonVars, runVars, status>>

\* The bytes there are to copy before the end of the source.
Copyable == todo \intersect 1..Length(sources[status.source_file])

Copy(b) ==
  /\ pc = "copy"
  /\ b \in Copyable
  /\ dest' = Overwritten(dest, b, Content[sources[status.source_file]][b])
  /\ todo' = todo \ {b}
  /\ UNCHANGED <<userVars, dest_exists, jsonVars, pc, outcome, runVars, status>>

Exit ==
  /\ pc = "copy"
  /\ Copyable = {}
  /\ pc' = "exited"
  /\ outcome' = "returned"
  /\ todo' = {}
  /\ UNCHANGED <<userVars, fileVars, jsonVars, runVars, status>>

-----------------------------------------------------------------------------
(* What a run may meet, one kind of it. *)

Meets(what) ==
  /\ what \in Faults
  /\ fault \in {"none", what}
  /\ fault' = what
  /\ UNCHANGED mainVars

\* The source changes or goes after its size was taken, before the run looks at it
\* again: for the checksum, and to open it.  What changes under the copy is
\* Transfer's, and any other source may as well have changed before the run.
ChangesMeanwhile ==
  /\ pc \in {"checksum", "open"} /\ Meets("changed")
  /\ \E v \in Versions \union {Missing} : sources' = [sources EXCEPT ![source] = v]
  /\ UNCHANGED <<dest_deleted, fileVars, jsonVars, pc, outcome, status, todo>>

\* A file cannot be opened: the source, its status, the destination or both files
\* of write_segments.
Denied ==
  /\ pc \in {"checksum", "lookup", "truncate", "open"} /\ Meets("denied")
  /\ pc' = "exited" /\ outcome' = "threw"
  /\ UNCHANGED <<userVars, fileVars, jsonVars, status, todo>>

\* The stream that saves the status is not asked whether it opened: nothing is
\* saved and the run goes on, unless dump throws.
DeniedJson ==
  /\ pc = "create" /\ Meets("denied")
  /\ IF status.source_file \in Invalid
     THEN pc' = "exited" /\ outcome' = "threw"
     ELSE pc' = Following["close"] /\ UNCHANGED outcome
  /\ UNCHANGED <<userVars, fileVars, jsonVars, status, todo>>

\* No stream of the program is asked whether its writing failed: the destination
\* is not extended, or the status file not finished, and the run goes on.
DiskFull ==
  /\ \/ pc = "extend"
     \/ pc = "close" /\ status.source_file \notin Invalid
  /\ Meets("disk")
  /\ pc' = Following[pc]
  /\ UNCHANGED <<userVars, fileVars, jsonVars, outcome, status, todo>>

\* The renderer's constructor throws.
NoTerminal ==
  /\ pc = "copy" /\ todo = WholeFile /\ Meets("no terminal")
  /\ pc' = "exited" /\ outcome' = "threw"
  /\ UNCHANGED <<userVars, fileVars, jsonVars, status, todo>>

\* Calls fail: what is left of their segments is not copied.
CopyFails ==
  /\ pc = "copy" /\ Copyable # {} /\ Meets("copy")
  /\ \E rest \in SUBSET Copyable : todo' = rest
  /\ UNCHANGED <<userVars, fileVars, jsonVars, pc, outcome, status>>

\* The process is gone, with its variables.
Gone ==
  /\ pc' = "idle" /\ outcome' = "none" /\ fault' = "none"
  /\ is_directory' = TRUE /\ source' = SomePath
  /\ total_file_size' = 0 /\ checksum' = NoSum
  /\ create_json_file' = FALSE
  /\ status' = NoStatus /\ todo' = {}

\* The process is killed; what it wrote stays.
Crash ==
  /\ InRun /\ Gone
  /\ UNCHANGED <<userVars, fileVars, jsonVars>>
-----------------------------------------------------------------------------
(* The user, between two runs. *)

Leave == ~InRun /\ Gone

EditSource(p) ==
  /\ Leave
  /\ \E v \in Versions \ {sources[p]} : sources' = [sources EXCEPT ![p] = v]
  /\ UNCHANGED <<dest_deleted, fileVars, jsonVars>>

DeleteSource(p) ==
  /\ Leave
  /\ sources' = [sources EXCEPT ![p] = Missing]
  /\ UNCHANGED <<dest_deleted, fileVars, jsonVars>>

DeleteDestination ==
  /\ Leave
  /\ dest_exists
  /\ dest_exists' = FALSE
  /\ dest' = <<>>
  /\ dest_deleted' = TRUE
  /\ UNCHANGED <<sources, jsonVars>>

DeleteStatus(c) ==
  /\ Leave
  /\ json[c] # "absent"
  /\ json' = [json EXCEPT ![c] = "absent"]
  /\ saved' = [saved EXCEPT ![c] = NoStatus]
  /\ UNCHANGED <<userVars, fileVars>>
-----------------------------------------------------------------------------
Run ==
  \/ ComputeChecksum \/ LookUp \/ Truncate \/ Extend
  \/ CreateJson \/ CloseJson \/ SaveThrows \/ Open \/ Exit
  \/ \E p \in Paths \union Unhandled, directory \in BOOLEAN : Start(p, directory)
  \/ \E b \in todo : Copy(b)

User ==
  \/ DeleteDestination
  \/ \E p \in Paths : EditSource(p) \/ DeleteSource(p)
  \/ \E c \in Sums : DeleteStatus(c)

Fault == ChangesMeanwhile \/ Denied \/ DeniedJson \/ DiskFull \/ NoTerminal \/ CopyFails

Next == Run \/ Fault \/ Crash \/ User

Spec == Init /\ [][Next]_vars
-----------------------------------------------------------------------------
(* Properties. *)

\* Every variable has its type, and a run that transfers has a status to go by.
TypeOK ==
  /\ sources \in [Paths -> Versions \union {Missing}]
  /\ dest_exists \in BOOLEAN
  /\ dest \in Seq(0..255)
  /\ dest_deleted \in BOOLEAN
  /\ json \in [Sums -> {"absent", "torn", "whole"}]
  /\ saved \in [Sums -> {NoStatus} \union Status]
  /\ \A c \in Sums : json[c] = "whole" => saved[c] \in Status
  /\ pc \in {"idle", "checksum", "lookup", "truncate", "extend", "create", "close", "open",
             "copy", "exited"}
  /\ outcome \in {"none", "returned", "threw"}
  /\ fault \in {"none", "changed", "denied", "disk", "copy", "no terminal"}
  /\ is_directory \in BOOLEAN
  /\ source \in Paths \union Unhandled
  /\ total_file_size \in Nat
  /\ checksum \in {NoSum} \union Sums
  /\ create_json_file \in BOOLEAN
  /\ status \in {NoStatus} \union Status
  /\ InRun /\ pc \notin {"checksum", "lookup"} => status \in Status
  /\ todo \subseteq Nat

Returned == pc = "exited" /\ outcome = "returned"

\* A run that finds no saved status leaves an exact copy, whatever was in the
\* destination before, wherever earlier runs were killed, and even if the disk was
\* too full to prepare the destination or the status could not be saved.
FreshRunExact ==
  Returned /\ create_json_file /\ fault \in {"none", "disk", "denied"} =>
    dest = Content[sources[source]]

\* A run, fresh or resumed, that returns without a failing call has copied every
\* byte its status asks for and its status's source has, however far the runs
\* before it got: no byte that a killed run, a failed call or a run without a
\* terminal left behind is taken for copied.
StatusCarriedOut ==
  Returned /\ fault # "copy" =>
    LET content == Content[sources[status.source_file]] IN
    \A b \in 1..status.total_size :
      b <= Len(content) => b <= Len(dest) /\ dest[b] = content[b]

\* A run never goes by a status saved for another checksum, although the test in
\* main would also let one of the same size pass: the name of the file decides.
StatusIsAboutChecksum ==
  pc \in {"open", "copy"} => status.checksum = checksum

\* A run fails over what it is given, a source that is no regular file and an output
\* directory that is none; over what it meets, a source that went, a file it cannot
\* open and no terminal; over a destination the user deleted; and over a status file
\* that is not whole, because its path cannot be saved or because a run before it
\* was killed writing it or had no room for it.  So a torn status file is all that an
\* earlier run, ended anywhere, can leave to make the next one fail: no status file
\* is ever there without the destination that it speaks of.
ThrowsOnlyWhen ==
  pc = "exited" /\ outcome = "threw" =>
    \/ ~(Transferable(source) /\ is_directory)
    \/ fault \in {"denied", "no terminal"}
    \/ status # NoStatus /\ sources[status.source_file] = Missing
    \/ dest_deleted
    \/ json[checksum] = "torn"

\* "status->checksum == checksum || status->total_size == total_file_size": a
\* status that passes describes this transfer, so that going by it copies this
\* source.
ReusedStatusFits ==
  Returned /\ ~create_json_file /\ fault = "none" => dest = Content[sources[source]]
=============================================================================
