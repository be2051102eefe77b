--------------------------- MODULE Session_proofs ---------------------------
(***************************************************************************)
(* Proofs about Session: for every set of sources, whatever they hold, any *)
(* number of runs, of kills, edits and deletions, and every kind of fault. *)
(***************************************************************************)
EXTENDS Session, SequenceTheorems, TLAPS

\* Where a run is once it has a status to go by.
Preparing == {"truncate", "extend", "create", "close"}
Transferring == Preparing \union {"open", "copy"}

\* The run is about a source that it could see, as it still is unless it changed.
RunAgrees ==
  /\ InRun => /\ source \in Paths
              /\ total_file_size \in {Length(v) : v \in Versions}
              /\ fault # "changed" => /\ sources[source] \in Versions
                                      /\ total_file_size = Length(sources[source])
  /\ InRun /\ pc # "checksum" => checksum \in Sums

\* The status of the run is its own or one saved under its checksum.
StatusAgrees ==
  /\ pc \in Transferring => status.checksum = checksum
  /\ pc \in Preparing => create_json_file
  /\ pc \in Transferring /\ create_json_file =>
       status.source_file = source /\ status.total_size = total_file_size

\* A status file speaks of the checksum in its name, and is torn while it is written.
SavedAgree ==
  /\ \A c \in Sums : json[c] = "whole" => saved[c].checksum = c
  /\ pc = "close" => json[checksum] = "torn"

\* Where there is a status file there was a destination, and only the user took it.
DestinationThere ==
  /\ (\A c \in Sums : json[c] = "absent") \/ dest_exists \/ dest_deleted
  /\ pc \in Preparing \ {"truncate"} => dest_exists
  /\ pc = "open" => dest_exists \/ dest_deleted

\* A fresh destination is no longer than the source that did not change; what a copy without failing
\* calls has not to do any more is done.
CopyAgrees ==
  /\ pc = "extend" => dest = <<>>
  /\ pc \in {"create", "close", "open", "copy"} /\ create_json_file /\ fault # "changed" =>
       Len(dest) <= status.total_size
  /\ pc = "copy" =>
       /\ sources[status.source_file] \in Versions
       /\ todo \subseteq WholeFile
       /\ fault # "copy" =>
            \A b \in (1..status.total_size) \ todo :
              /\ b <= Len(dest)
              /\ dest[b] = Content[sources[status.source_file]][b]

IInv ==
  /\ TypeOK /\ RunAgrees /\ StatusAgrees /\ SavedAgree /\ DestinationThere /\ CopyAgrees
  /\ FreshRunExact /\ StatusCarriedOut /\ ThrowsOnlyWhen
-----------------------------------------------------------------------------
(* Facts about the data. *)

LEMMA Lengths == \A v \in Versions : Content[v] \in Seq(1..255) /\ Length(v) \in Nat
BY SessionAssumption DEF Length

\* The segments hold the whole file, from its first byte.
LEMMA WholeFileHolds ==
  ASSUME status.total_size \in Nat
  PROVE  WholeFile \subseteq Nat \ {0} /\ 1..status.total_size \subseteq WholeFile
<1> DEFINE n == status.total_size
<1>1. Threads * n \in Nat /\ n <= Threads * n
  <2>1. Threads \in Nat \ {0} /\ n \in Nat
    BY SessionAssumption
  <2>2. Threads - 1 \in Nat /\ (Threads - 1) * n \in Nat
    BY <2>1
  <2>3. Threads * n = n + (Threads - 1) * n
    BY <2>1
  <2>4. QED
    BY <2>1, <2>2, <2>3
<1>2. QED
  BY <1>1 DEF WholeFile

LEMMA NoStatusIsNone == NoStatus \notin Status
<1> SUFFICES ASSUME NoStatus \in Status
             PROVE  FALSE
  OBVIOUS
<1>1. "checksum" \in DOMAIN NoStatus
  BY DEF Status
<1>2. QED
  BY <1>1 DEF NoStatus

LEMMA StatusFields ==
  ASSUME NEW s \in Status
  PROVE  s.source_file \in Paths /\ s.checksum \in Sums /\ s.total_size \in Nat
BY Lengths DEF Status

\* A byte written at b is there, and the bytes before and behind it as they were.
LEMMA OverwrittenIs ==
  ASSUME NEW file \in Seq(0..255), NEW b \in Nat \ {0}, NEW x \in 0..255
  PROVE  /\ Overwritten(file, b, x) \in Seq(0..255)
         /\ Len(Overwritten(file, b, x)) = IF b > Len(file) THEN b ELSE Len(file)
         /\ Overwritten(file, b, x)[b] = x
         /\ \A i \in 1..Len(file) : i # b => Overwritten(file, b, x)[i] = file[i]
<1> DEFINE length == IF b > Len(file) THEN b ELSE Len(file)
<1>1. Len(file) \in Nat /\ length \in Nat /\ b \in 1..length /\ 1..Len(file) \subseteq 1..length
  OBVIOUS
<1>2. \A i \in 1..length : i <= Len(file) => i \in 1..Len(file)
  BY <1>1
<1> HIDE DEF length
<1>3. Overwritten(file, b, x) =
        [i \in 1..length |-> IF i = b THEN x ELSE IF i <= Len(file) THEN file[i] ELSE Hole]
  BY DEF Overwritten, length
<1>4. \A i \in 1..length :
        (IF i = b THEN x ELSE IF i <= Len(file) THEN file[i] ELSE Hole) \in 0..255
  <2>1. \A i \in 1..Len(file) : file[i] \in 0..255
    BY ElementOfSeq
  <2>2. QED
    BY <1>2, <2>1 DEF Hole
<1>5. Overwritten(file, b, x) \in [1..length -> 0..255]
  BY <1>3, <1>4
<1>6. Overwritten(file, b, x) \in Seq(0..255) /\ Len(Overwritten(file, b, x)) = length
  BY <1>1, <1>5
<1>7. \A i \in 1..Len(file) : i <= Len(file)
  BY <1>1
<1>8. QED
  BY <1>1, <1>3, <1>6, <1>7 DEF length

LEMMA Steps ==
  /\ Following["lookup"] = "truncate" /\ Following["truncate"] = "extend"
  /\ Following["extend"] = "create" /\ Following["create"] = "close"
  /\ Following["close"] = "open"
BY DEF Following

LEMMA InitInvariant == Init => IInv
<1> SUFFICES ASSUME Init
             PROVE  IInv
  OBVIOUS
<1>1. SomePath \in Paths
  BY SessionAssumption DEF SomePath
<1>2. TypeOK
  <2>1. dest \in Seq(0..255) /\ todo \subseteq Nat /\ total_file_size \in Nat
    BY DEF Init
  <2>2. sources \in [Paths -> Versions \union {Missing}]
    BY DEF Init
  <2>3. json \in [Sums -> {"absent", "torn", "whole"}] /\ \A c \in Sums : json[c] = "absent"
    BY DEF Init
  <2>4. saved \in [Sums -> {NoStatus} \union Status]
    BY DEF Init
  <2>5. QED
    BY <1>1, <2>1, <2>2, <2>3, <2>4 DEF Init, TypeOK, InRun
<1>3. RunAgrees /\ StatusAgrees /\ SavedAgree /\ DestinationThere /\ CopyAgrees
  BY DEF Init, RunAgrees, StatusAgrees, SavedAgree, DestinationThere, CopyAgrees, InRun,
         Transferring, Preparing
<1>4. FreshRunExact /\ StatusCarriedOut /\ ThrowsOnlyWhen
  BY DEF Init, FreshRunExact, StatusCarriedOut, ThrowsOnlyWhen, Returned
<1>5. QED
  BY <1>2, <1>3, <1>4 DEF IInv
-----------------------------------------------------------------------------
(* The invariant, one action after the other. *)

LEMMA StartPreserves ==
  ASSUME IInv, NEW p \in Paths \union Unhandled, NEW directory \in BOOLEAN,
         Start(p, directory)
  PROVE  IInv'
<1>1. TypeOK'
  <2>1. Transferable(p) => sources[p] \in Versions
    BY DEF IInv, TypeOK, Transferable
  <2>2. total_file_size' \in Nat
    BY <2>1, Lengths DEF Start
  <2>3. QED
    BY <2>2 DEF IInv, TypeOK, InRun, Start, NoStatus, userVars, fileVars, jsonVars
<1>2. RunAgrees'
  BY Lengths DEF IInv, TypeOK, RunAgrees, InRun, Transferable, Start, NoStatus, userVars, fileVars, jsonVars
<1>3. StatusAgrees'
  BY Lengths DEF IInv, TypeOK, StatusAgrees, InRun, Transferring, Preparing, Start, NoStatus, userVars, fileVars, jsonVars
<1>4. SavedAgree' /\ DestinationThere'
  BY Lengths DEF IInv, TypeOK, RunAgrees, SavedAgree, DestinationThere, InRun, Preparing, Start, NoStatus, userVars, fileVars, jsonVars
<1>5. CopyAgrees'
  BY Lengths DEF IInv, TypeOK, CopyAgrees, StatusAgrees, InRun, Transferring, Preparing, Start, NoStatus, userVars, fileVars, jsonVars
<1>6. FreshRunExact' /\ StatusCarriedOut'
  BY DEF FreshRunExact, StatusCarriedOut, Returned, Start, NoStatus, userVars, fileVars, jsonVars
<1>7. ThrowsOnlyWhen'
  BY DEF ThrowsOnlyWhen, Transferable, Start, userVars
<1>8. QED
  BY <1>1, <1>2, <1>3, <1>4, <1>5, <1>6, <1>7 DEF IInv

LEMMA ChecksumPreserves ==
  ASSUME IInv, ComputeChecksum
  PROVE  IInv'
<1>0. /\ pc = "checksum" /\ InRun /\ source \in Paths
      /\ \/ pc' = "lookup" /\ checksum' \in Sums /\ outcome' = outcome
         \/ /\ sources[source] = Missing
            /\ pc' = "exited" /\ outcome' = "threw" /\ checksum' = checksum
      /\ UNCHANGED <<userVars, fileVars, jsonVars, is_directory, source, total_file_size,
                     create_json_file, fault, status, todo>>
  <2>1. pc = "checksum" /\ InRun /\ source \in Paths
    BY DEF ComputeChecksum, IInv, RunAgrees, InRun
  <2>2. sources[source] \in Versions \union {Missing}
    BY <2>1 DEF IInv, TypeOK
  <2>3. PICK w \in Versions : total_file_size = Length(w)
    BY <2>1 DEF IInv, RunAgrees
  <2>4. SumsOf(sources[source], w) =
          compute_checksum(Content[sources[source]], get_checksum_chunk_size(total_file_size))
    BY <2>3 DEF SumsOf
  <2>5. CASE sources[source] # Missing
    <3>1. SumsOf(sources[source], w) \subseteq Sums
      BY <2>2, <2>5 DEF Sums
    <3>2. QED
      BY <2>1, <2>4, <2>5, <3>1 DEF ComputeChecksum
  <2>6. CASE sources[source] = Missing
    BY <2>1, <2>6 DEF ComputeChecksum
  <2>7. QED
    BY <2>5, <2>6
<1>1. TypeOK'
  BY <1>0 DEF IInv, TypeOK, InRun, userVars, fileVars, jsonVars
<1>2. RunAgrees'
  BY <1>0 DEF IInv, RunAgrees, InRun, userVars
<1>3. StatusAgrees' /\ CopyAgrees'
  BY <1>0 DEF StatusAgrees, CopyAgrees, Transferring, Preparing
<1>4. SavedAgree' /\ DestinationThere'
  BY <1>0 DEF IInv, SavedAgree, DestinationThere, Preparing, userVars, fileVars, jsonVars
<1>5. FreshRunExact' /\ StatusCarriedOut'
  BY <1>0 DEF FreshRunExact, StatusCarriedOut, Returned, IInv, TypeOK
<1>6. ThrowsOnlyWhen'
  BY <1>0 DEF ThrowsOnlyWhen, Transferable, IInv, TypeOK, userVars
<1>7. QED
  BY <1>1, <1>2, <1>3, <1>4, <1>5, <1>6 DEF IInv

LEMMA LookUpPreserves ==
  ASSUME IInv, LookUp
  PROVE  IInv'
<1>0. /\ checksum \in Sums
      /\ UNCHANGED <<userVars, fileVars, jsonVars, is_directory, source, total_file_size,
                     checksum, fault, todo>>
      /\ pc = "lookup"
      /\ \/ /\ json[checksum] = "torn"
            /\ pc' = "exited" /\ outcome' = "threw"
            /\ status' = NoStatus /\ create_json_file' = FALSE
         \/ /\ json[checksum] = "whole"
            /\ pc' = "open" /\ status' = saved[checksum]
            /\ create_json_file' = FALSE /\ outcome' = outcome
         \/ /\ pc' = "truncate" /\ status' = Prepared
            /\ create_json_file' = TRUE /\ outcome' = outcome
  BY Steps DEF LookUp, IInv, RunAgrees, InRun, StatusFile
<1>a. Prepared \in Status /\ (json[checksum] = "whole" => saved[checksum] \in Status)
  BY <1>0 DEF IInv, TypeOK, RunAgrees, InRun, Prepared, Status
<1>1. TypeOK'
  BY <1>0, <1>a DEF IInv, TypeOK, InRun, userVars, fileVars, jsonVars
<1>2. RunAgrees'
  BY <1>0 DEF IInv, RunAgrees, InRun, userVars
<1>3. StatusAgrees'
  BY <1>0 DEF IInv, StatusAgrees, SavedAgree, Transferring, Preparing, Prepared, jsonVars
<1>4. SavedAgree' /\ DestinationThere'
  BY <1>0 DEF IInv, SavedAgree, DestinationThere, Preparing, userVars, fileVars, jsonVars
<1>5. CopyAgrees'
  BY <1>0 DEF CopyAgrees
<1>6. FreshRunExact' /\ StatusCarriedOut'
  BY <1>0 DEF FreshRunExact, StatusCarriedOut, Returned, IInv, TypeOK
<1>7. ThrowsOnlyWhen'
  BY <1>0 DEF ThrowsOnlyWhen, jsonVars
<1>8. QED
  BY <1>1, <1>2, <1>3, <1>4, <1>5, <1>6, <1>7 DEF IInv

LEMMA TruncatePreserves ==
  ASSUME IInv, Truncate
  PROVE  IInv'
<1>1. TypeOK'
  <2>1. <<>> \in Seq(0..255)
    OBVIOUS
  <2>2. QED
    BY <2>1, Steps DEF IInv, TypeOK, InRun, Truncate, Emptied, jsonVars, runVars, mainVars
<1>2. RunAgrees'
  BY DEF IInv, TypeOK, RunAgrees, InRun, Truncate, Emptied, Following, jsonVars, runVars, mainVars
<1>3. StatusAgrees'
  BY DEF IInv, TypeOK, StatusAgrees, InRun, Transferring, Preparing, Truncate, Emptied, Following, jsonVars, runVars, mainVars
<1>4. SavedAgree' /\ DestinationThere'
  BY DEF IInv, TypeOK, RunAgrees, SavedAgree, DestinationThere, InRun, Preparing, Truncate, Emptied, Following, jsonVars, runVars, mainVars
<1>5. CopyAgrees'
  BY DEF IInv, TypeOK, CopyAgrees, StatusAgrees, InRun, Transferring, Preparing, Truncate, Emptied, Following, jsonVars, runVars, mainVars
<1>6. FreshRunExact' /\ StatusCarriedOut'
  BY DEF FreshRunExact, StatusCarriedOut, Returned, Truncate, Emptied, Following, jsonVars, runVars, mainVars
<1>7. ThrowsOnlyWhen'
  BY DEF IInv, ThrowsOnlyWhen, SavedAgree, DestinationThere, Truncate, Emptied, Following, jsonVars, runVars, mainVars
<1>8. QED
  BY <1>1, <1>2, <1>3, <1>4, <1>5, <1>6, <1>7 DEF IInv

LEMMA ExtendPreserves ==
  ASSUME IInv, Extend
  PROVE  IInv'
<1>0. status \in Status /\ status.total_size \in Nat
  BY StatusFields DEF IInv, TypeOK, InRun, Extend
<1>a. dest = <<>> /\ Len(dest) = 0
  BY DEF IInv, CopyAgrees, Extend
<1>b. dest' \in Seq(0..255) /\ Len(dest') = status.total_size
  <2>1. CASE status.total_size = 0
    BY <2>1, <1>a DEF Extend, IInv, TypeOK
  <2>2. CASE status.total_size # 0
    <3>1. status.total_size \in Nat \ {0} /\ Hole \in 0..255 /\ dest \in Seq(0..255)
      <4>1. dest \in Seq(0..255)
        BY DEF IInv, TypeOK
      <4>2. QED
        BY <1>0, <2>2, <4>1 DEF Hole
    <3>2. dest' = Overwritten(dest, status.total_size, Hole)
      BY <2>2 DEF Extend
    <3>3. /\ Overwritten(dest, status.total_size, Hole) \in Seq(0..255)
          /\ Len(Overwritten(dest, status.total_size, Hole)) =
               IF status.total_size > Len(dest) THEN status.total_size ELSE Len(dest)
      BY <3>1, OverwrittenIs, ZenonT(60)
    <3>4. QED
      BY <1>0, <1>a, <2>2, <3>1, <3>2, <3>3
  <2>3. QED
    BY <2>1, <2>2
<1>1. TypeOK'
  BY <1>b, Steps, ZenonT(60) DEF IInv, TypeOK, InRun, Extend, userVars, jsonVars, runVars, mainVars
<1>2. RunAgrees'
  BY StatusFields, OverwrittenIs DEF IInv, TypeOK, RunAgrees, InRun, Extend, Following, userVars, jsonVars, runVars, mainVars
<1>3. StatusAgrees'
  BY StatusFields, OverwrittenIs DEF IInv, TypeOK, StatusAgrees, InRun, Transferring, Preparing, Extend, Following, userVars, jsonVars, runVars, mainVars
<1>4. SavedAgree' /\ DestinationThere'
  BY StatusFields, OverwrittenIs DEF IInv, TypeOK, RunAgrees, SavedAgree, DestinationThere, InRun, Preparing, Extend, Following, userVars, jsonVars, runVars, mainVars
<1>5. CopyAgrees'
  BY <1>0, <1>b, Steps DEF CopyAgrees, Extend, IInv
<1>6. FreshRunExact' /\ StatusCarriedOut'
  BY DEF FreshRunExact, StatusCarriedOut, Returned, Extend, Following, userVars, jsonVars, runVars, mainVars
<1>7. ThrowsOnlyWhen'
  BY StatusFields, OverwrittenIs DEF IInv, ThrowsOnlyWhen, SavedAgree, DestinationThere, Extend, Following, userVars, jsonVars, runVars, mainVars
<1>8. QED
  BY <1>1, <1>2, <1>3, <1>4, <1>5, <1>6, <1>7 DEF IInv

LEMMA CreatePreserves ==
  ASSUME IInv, CreateJson
  PROVE  IInv'
<1>1. TypeOK'
  BY ZenonT(60) DEF IInv, TypeOK, InRun, CreateJson, StatusFile, Following, userVars, fileVars, runVars, mainVars
<1>2. RunAgrees'
  BY DEF IInv, TypeOK, RunAgrees, InRun, CreateJson, StatusFile, Following, userVars, fileVars, runVars, mainVars
<1>3. StatusAgrees'
  BY DEF IInv, TypeOK, StatusAgrees, InRun, Transferring, Preparing, CreateJson, StatusFile, Following, userVars, fileVars, runVars, mainVars
<1>4. SavedAgree' /\ DestinationThere'
  BY DEF IInv, TypeOK, RunAgrees, SavedAgree, DestinationThere, InRun, Preparing, CreateJson, StatusFile, Following, userVars, fileVars, runVars, mainVars
<1>5. CopyAgrees'
  BY DEF IInv, TypeOK, CopyAgrees, StatusAgrees, InRun, Transferring, Preparing, CreateJson, StatusFile, Following, userVars, fileVars, runVars, mainVars
<1>6. FreshRunExact' /\ StatusCarriedOut'
  BY DEF FreshRunExact, StatusCarriedOut, Returned, CreateJson, StatusFile, Following, userVars, fileVars, runVars, mainVars
<1>7. ThrowsOnlyWhen'
  BY DEF IInv, ThrowsOnlyWhen, SavedAgree, DestinationThere, CreateJson, StatusFile, Following, userVars, fileVars, runVars, mainVars
<1>8. QED
  BY <1>1, <1>2, <1>3, <1>4, <1>5, <1>6, <1>7 DEF IInv

LEMMA ClosePreserves ==
  ASSUME IInv, CloseJson
  PROVE  IInv'
<1>1. TypeOK'
  BY ZenonT(60) DEF IInv, TypeOK, InRun, CloseJson, StatusFile, Following, userVars, fileVars, runVars, mainVars
<1>2. RunAgrees'
  BY DEF IInv, TypeOK, RunAgrees, InRun, CloseJson, StatusFile, Following, userVars, fileVars, runVars, mainVars
<1>3. StatusAgrees'
  BY DEF IInv, TypeOK, StatusAgrees, InRun, Transferring, Preparing, CloseJson, StatusFile, Following, userVars, fileVars, runVars, mainVars
<1>4. SavedAgree' /\ DestinationThere'
  <2>1. status.checksum = checksum /\ checksum \in Sums
    BY DEF IInv, StatusAgrees, RunAgrees, InRun, Transferring, Preparing, CloseJson
  <2>2. SavedAgree'
    BY <2>1, Steps DEF IInv, TypeOK, SavedAgree, CloseJson, StatusFile, runVars, mainVars
  <2>3. json[checksum] = "torn" /\ dest_exists
    BY DEF IInv, SavedAgree, DestinationThere, Preparing, CloseJson
  <2>4. DestinationThere'
    BY <2>1, <2>3, Steps DEF IInv, TypeOK, DestinationThere, CloseJson, StatusFile, userVars,
       fileVars, Preparing
  <2>5. QED
    BY <2>2, <2>4
<1>5. CopyAgrees'
  BY DEF IInv, TypeOK, CopyAgrees, StatusAgrees, InRun, Transferring, Preparing, CloseJson, StatusFile, Following, userVars, fileVars, runVars, mainVars
<1>6. FreshRunExact' /\ StatusCarriedOut'
  BY DEF FreshRunExact, StatusCarriedOut, Returned, CloseJson, StatusFile, Following, userVars, fileVars, runVars, mainVars
<1>7. ThrowsOnlyWhen'
  BY DEF IInv, ThrowsOnlyWhen, SavedAgree, DestinationThere, CloseJson, StatusFile, Following, userVars, fileVars, runVars, mainVars
<1>8. QED
  BY <1>1, <1>2, <1>3, <1>4, <1>5, <1>6, <1>7 DEF IInv

LEMMA ThrowPreserves ==
  ASSUME IInv, SaveThrows
  PROVE  IInv'
<1>1. TypeOK'
  BY DEF IInv, TypeOK, InRun, SaveThrows, userVars, fileVars, jsonVars, runVars, mainVars
<1>2. RunAgrees'
  BY DEF IInv, TypeOK, RunAgrees, InRun, SaveThrows, userVars, fileVars, jsonVars, runVars, mainVars
<1>3. StatusAgrees'
  BY DEF IInv, TypeOK, StatusAgrees, InRun, Transferring, Preparing, SaveThrows, userVars, fileVars, jsonVars, runVars, mainVars
<1>4. SavedAgree' /\ DestinationThere'
  BY DEF IInv, TypeOK, RunAgrees, SavedAgree, DestinationThere, InRun, Preparing, SaveThrows, userVars, fileVars, jsonVars, runVars, mainVars
<1>5. CopyAgrees'
  BY DEF IInv, TypeOK, CopyAgrees, StatusAgrees, InRun, Transferring, Preparing, SaveThrows, userVars, fileVars, jsonVars, runVars, mainVars
<1>6. FreshRunExact' /\ StatusCarriedOut'
  BY DEF FreshRunExact, StatusCarriedOut, Returned, SaveThrows, userVars, fileVars, jsonVars, runVars, mainVars
<1>7. ThrowsOnlyWhen'
  BY DEF IInv, ThrowsOnlyWhen, SavedAgree, DestinationThere, SaveThrows, userVars, fileVars, jsonVars, runVars, mainVars
<1>8. QED
  BY <1>1, <1>2, <1>3, <1>4, <1>5, <1>6, <1>7 DEF IInv

LEMMA OpenPreserves ==
  ASSUME IInv, Open
  PROVE  IInv'
<1>0. status \in Status /\ status.total_size \in Nat /\ status.source_file \in Paths
  BY StatusFields DEF IInv, TypeOK, InRun, Open
<1>1. TypeOK'
  <2>1. WholeFile \subseteq Nat
    BY <1>0, WholeFileHolds
  <2>2. todo' \subseteq Nat /\ pc' \in {"exited", "copy"} /\ outcome' \in {"none", "returned", "threw"}
    BY <2>1 DEF IInv, TypeOK, Open
  <2>3. QED
    BY <1>0, <2>2 DEF IInv, TypeOK, InRun, Open, userVars, fileVars, jsonVars, runVars, mainVars
<1>2. RunAgrees'
  BY StatusFields, NoStatusIsNone DEF IInv, TypeOK, RunAgrees, InRun, Open, userVars, fileVars, jsonVars, runVars, mainVars
<1>3. StatusAgrees'
  BY StatusFields, NoStatusIsNone DEF IInv, TypeOK, StatusAgrees, InRun, Transferring, Preparing, Open, userVars, fileVars, jsonVars, runVars, mainVars
<1>4. SavedAgree' /\ DestinationThere'
  BY StatusFields, NoStatusIsNone DEF IInv, TypeOK, RunAgrees, SavedAgree, DestinationThere, InRun, Preparing, Open, userVars, fileVars, jsonVars, runVars, mainVars
<1>5. CopyAgrees'
  <2>1. CASE pc' = "exited"
    BY <2>1 DEF CopyAgrees
  <2>2. CASE pc' = "copy"
    <3>1. /\ pc = "open" /\ todo' = WholeFile /\ sources[status.source_file] # Missing
          /\ UNCHANGED <<sources, dest, create_json_file, fault, status>>
      BY <2>2 DEF Open, userVars, fileVars, runVars, mainVars
    <3>2. sources[status.source_file] \in Versions
      BY <1>0, <3>1 DEF IInv, TypeOK
    <3>3. WholeFile' = WholeFile /\ (1..status.total_size) \ todo' = {}
      BY <1>0, <3>1, WholeFileHolds DEF WholeFile
    <3>4. QED
      BY <2>2, <3>1, <3>2, <3>3 DEF IInv, CopyAgrees
  <2>3. QED
    BY <2>1, <2>2 DEF Open
<1>6. FreshRunExact' /\ StatusCarriedOut'
  BY DEF FreshRunExact, StatusCarriedOut, Returned, Open, userVars, fileVars, jsonVars, runVars, mainVars
<1>7. ThrowsOnlyWhen'
  BY <1>0, NoStatusIsNone DEF IInv, ThrowsOnlyWhen, DestinationThere, Open, userVars, fileVars,
     jsonVars, runVars, mainVars
<1>8. QED
  BY <1>1, <1>2, <1>3, <1>4, <1>5, <1>6, <1>7 DEF IInv

LEMMA CopyPreserves ==
  ASSUME IInv, NEW b \in todo, Copy(b)
  PROVE  IInv'
<1>0. /\ status \in Status /\ status.total_size \in Nat
      /\ sources[status.source_file] \in Versions
  BY StatusFields DEF IInv, TypeOK, CopyAgrees, InRun, Copy
<1> DEFINE content == Content[sources[status.source_file]]
<1>a. content \in Seq(1..255) /\ b \in 1..Len(content)
  BY <1>0, Lengths DEF Copy, Copyable, Length
<1>b. b \in Nat \ {0} /\ content[b] \in 0..255
  <2>1. content[b] \in 1..255
    BY <1>a, ElementOfSeq
  <2>2. content[b] \in 0..255
    BY <2>1
  <2>3. Len(content) \in Nat
    BY <1>a
  <2>4. b \in Nat \ {0}
    BY <1>a, <2>3
  <2>5. QED
    BY <2>2, <2>4
<1>c. dest \in Seq(0..255) /\ dest' = Overwritten(dest, b, content[b])
  BY DEF IInv, TypeOK, Copy
<1> HIDE DEF content
<1>d. /\ dest' \in Seq(0..255)
      /\ Len(dest') = IF b > Len(dest) THEN b ELSE Len(dest)
      /\ dest'[b] = content[b]
      /\ \A i \in 1..Len(dest) : i # b => dest'[i] = dest[i]
  <2> DEFINE x == content[b]
  <2>1. x \in 0..255 /\ b \in Nat \ {0} /\ dest \in Seq(0..255) /\ dest' = Overwritten(dest, b, x)
    BY <1>b, <1>c
  <2> HIDE DEF x
  <2>2. /\ Overwritten(dest, b, x) \in Seq(0..255)
        /\ Len(Overwritten(dest, b, x)) = IF b > Len(dest) THEN b ELSE Len(dest)
        /\ Overwritten(dest, b, x)[b] = x
        /\ \A i \in 1..Len(dest) : i # b => Overwritten(dest, b, x)[i] = dest[i]
    BY <2>1, OverwrittenIs, ZenonT(60)
  <2>3. QED
    BY <2>1, <2>2 DEF x
<1>1. TypeOK'
  BY <1>d, ZenonT(60) DEF IInv, TypeOK, InRun, Copy, userVars, jsonVars, runVars, mainVars
<1>2. RunAgrees'
  BY StatusFields, OverwrittenIs DEF IInv, TypeOK, RunAgrees, InRun, Copy, Copyable, userVars, jsonVars, runVars, mainVars
<1>3. StatusAgrees'
  BY StatusFields, OverwrittenIs DEF IInv, TypeOK, StatusAgrees, InRun, Transferring, Preparing, Copy, Copyable, userVars, jsonVars, runVars, mainVars
<1>4. SavedAgree' /\ DestinationThere'
  BY StatusFields, OverwrittenIs DEF IInv, TypeOK, RunAgrees, SavedAgree, DestinationThere, InRun, Preparing, Copy, Copyable, userVars, jsonVars, runVars, mainVars
<1>5. CopyAgrees'
  <2>1. /\ pc = "copy" /\ pc' = "copy" /\ status' = status /\ todo' = todo \ {b}
        /\ UNCHANGED <<userVars, jsonVars, runVars>>
    BY DEF Copy
  <2>2. todo' \subseteq WholeFile' /\ WholeFile' = WholeFile
    BY <2>1 DEF IInv, CopyAgrees, WholeFile
  <2>3. ASSUME create_json_file, fault # "changed"
        PROVE  Len(dest') <= status.total_size
    <3>1. status.source_file = source /\ status.total_size = Length(sources[source])
      BY <2>1, <2>3 DEF IInv, RunAgrees, StatusAgrees, InRun, Transferring
    <3>2. b <= status.total_size
      BY <1>a, <3>1 DEF content, Length
    <3>3. Len(dest) <= status.total_size
      BY <2>1, <2>3 DEF IInv, CopyAgrees
    <3>4. QED
      BY <1>0, <1>b, <1>c, <1>d, <3>2, <3>3
  <2>4. ASSUME fault # "copy", NEW i \in (1..status.total_size) \ todo'
        PROVE  i <= Len(dest') /\ dest'[i] = content[i]
    <3>1. CASE i = b
      BY <3>1, <1>b, <1>c, <1>d
    <3>2. CASE i # b
      <4>1. i <= Len(dest) /\ dest[i] = content[i]
        BY <2>1, <2>4, <3>2 DEF IInv, CopyAgrees, content
      <4>2. i \in 1..Len(dest) /\ Len(dest) \in Nat
        BY <4>1, <1>0, <1>c
      <4>3. QED
        BY <3>2, <4>1, <4>2, <1>b, <1>d
    <3>3. QED
      BY <3>1, <3>2
  <2>5. QED
    BY <2>1, <2>2, <2>3, <2>4, <1>0 DEF CopyAgrees, userVars, runVars, mainVars, content
<1>6. FreshRunExact' /\ StatusCarriedOut'
  BY DEF FreshRunExact, StatusCarriedOut, Returned, Copy, Copyable, userVars, jsonVars, runVars, mainVars
<1>7. ThrowsOnlyWhen'
  BY StatusFields, OverwrittenIs DEF IInv, ThrowsOnlyWhen, SavedAgree, DestinationThere, Copy, Copyable, userVars, jsonVars, runVars, mainVars
<1>8. QED
  BY <1>1, <1>2, <1>3, <1>4, <1>5, <1>6, <1>7 DEF IInv

LEMMA ChangePreserves ==
  ASSUME IInv, ChangesMeanwhile
  PROVE  IInv'
<1>1. TypeOK'
  BY DEF IInv, TypeOK, InRun, ChangesMeanwhile, Meets, mainVars, fileVars, jsonVars
<1>2. RunAgrees'
  BY DEF IInv, TypeOK, RunAgrees, InRun, ChangesMeanwhile, Meets, mainVars, fileVars, jsonVars
<1>3. StatusAgrees'
  BY DEF IInv, TypeOK, StatusAgrees, InRun, Transferring, Preparing, ChangesMeanwhile, Meets, mainVars, fileVars, jsonVars
<1>4. SavedAgree' /\ DestinationThere'
  BY DEF IInv, TypeOK, RunAgrees, SavedAgree, DestinationThere, InRun, Preparing, ChangesMeanwhile, Meets, mainVars, fileVars, jsonVars
<1>5. CopyAgrees'
  BY DEF IInv, TypeOK, CopyAgrees, StatusAgrees, InRun, Transferring, Preparing, ChangesMeanwhile, Meets, mainVars, fileVars, jsonVars
<1>6. FreshRunExact' /\ StatusCarriedOut'
  BY DEF FreshRunExact, StatusCarriedOut, Returned, ChangesMeanwhile, Meets, mainVars, fileVars, jsonVars
<1>7. ThrowsOnlyWhen'
  BY DEF IInv, ThrowsOnlyWhen, SavedAgree, DestinationThere, ChangesMeanwhile, Meets, mainVars, fileVars, jsonVars
<1>8. QED
  BY <1>1, <1>2, <1>3, <1>4, <1>5, <1>6, <1>7 DEF IInv

LEMMA DiskFullPreserves ==
  ASSUME IInv, DiskFull
  PROVE  IInv'
<1>0. /\ \/ pc = "extend" /\ pc' = "create"
         \/ pc = "close" /\ pc' = "open"
      /\ fault' = "disk" /\ fault \in {"none", "disk"}
      /\ UNCHANGED <<userVars, fileVars, jsonVars, outcome, status, todo, is_directory, source,
                     total_file_size, checksum, create_json_file>>
  BY Steps DEF DiskFull, Meets, mainVars
<1>1. TypeOK'
  BY <1>0 DEF IInv, TypeOK, InRun, userVars, fileVars, jsonVars
<1>2. RunAgrees'
  BY <1>0 DEF IInv, RunAgrees, InRun, userVars
<1>3. StatusAgrees'
  BY <1>0 DEF IInv, StatusAgrees, Transferring, Preparing
<1>4. SavedAgree' /\ DestinationThere'
  BY <1>0 DEF IInv, SavedAgree, DestinationThere, Preparing, userVars, fileVars, jsonVars
<1>5. CopyAgrees'
  <2>1. status \in Status /\ status.total_size \in Nat
    BY <1>0, StatusFields DEF IInv, TypeOK, InRun
  <2>2. QED
    BY <1>0, <2>1 DEF IInv, CopyAgrees, userVars, fileVars
<1>6. FreshRunExact' /\ StatusCarriedOut'
  BY <1>0 DEF FreshRunExact, StatusCarriedOut, Returned
<1>7. ThrowsOnlyWhen'
  BY <1>0 DEF ThrowsOnlyWhen
<1>8. QED
  BY <1>1, <1>2, <1>3, <1>4, <1>5, <1>6, <1>7 DEF IInv

LEMMA DeniedPreserves ==
  ASSUME IInv, Denied \/ DeniedJson
  PROVE  IInv'
<1>0. /\ InRun /\ pc # "copy"
      /\ \/ pc' = "exited" /\ outcome' = "threw"
         \/ pc = "create" /\ pc' = "open" /\ outcome' = outcome
      /\ fault' = "denied" /\ fault \in {"none", "denied"}
      /\ UNCHANGED <<userVars, fileVars, jsonVars, status, todo, is_directory, source,
                     total_file_size, checksum, create_json_file>>
  BY Steps DEF Denied, DeniedJson, Meets, mainVars, InRun
<1>1. TypeOK'
  BY <1>0 DEF IInv, TypeOK, InRun, userVars, fileVars, jsonVars
<1>2. RunAgrees'
  BY <1>0 DEF IInv, RunAgrees, InRun, userVars
<1>3. StatusAgrees'
  BY <1>0 DEF IInv, StatusAgrees, Transferring, Preparing
<1>4. SavedAgree' /\ DestinationThere'
  BY <1>0 DEF IInv, SavedAgree, DestinationThere, Preparing, userVars, fileVars, jsonVars
<1>5. CopyAgrees'
  BY <1>0 DEF IInv, CopyAgrees, userVars, fileVars
<1>6. FreshRunExact' /\ StatusCarriedOut'
  BY <1>0 DEF FreshRunExact, StatusCarriedOut, Returned, IInv, TypeOK
<1>7. ThrowsOnlyWhen'
  BY <1>0 DEF ThrowsOnlyWhen
<1>8. QED
  BY <1>1, <1>2, <1>3, <1>4, <1>5, <1>6, <1>7 DEF IInv

LEMMA NoTerminalPreserves ==
  ASSUME IInv, NoTerminal
  PROVE  IInv'
<1>1. TypeOK'
  BY DEF IInv, TypeOK, InRun, NoTerminal, Meets, mainVars, userVars, fileVars, jsonVars
<1>2. RunAgrees'
  BY DEF IInv, TypeOK, RunAgrees, InRun, NoTerminal, Meets, mainVars, userVars, fileVars, jsonVars
<1>3. StatusAgrees'
  BY DEF IInv, TypeOK, StatusAgrees, InRun, Transferring, Preparing, NoTerminal, Meets, mainVars, userVars, fileVars, jsonVars
<1>4. SavedAgree' /\ DestinationThere'
  BY DEF IInv, TypeOK, RunAgrees, SavedAgree, DestinationThere, InRun, Preparing, NoTerminal, Meets, mainVars, userVars, fileVars, jsonVars
<1>5. CopyAgrees'
  BY DEF IInv, TypeOK, CopyAgrees, StatusAgrees, InRun, Transferring, Preparing, NoTerminal, Meets, mainVars, userVars, fileVars, jsonVars
<1>6. FreshRunExact' /\ StatusCarriedOut'
  BY DEF FreshRunExact, StatusCarriedOut, Returned, NoTerminal, Meets, mainVars, userVars, fileVars, jsonVars
<1>7. ThrowsOnlyWhen'
  BY DEF IInv, ThrowsOnlyWhen, SavedAgree, DestinationThere, NoTerminal, Meets, mainVars, userVars, fileVars, jsonVars
<1>8. QED
  BY <1>1, <1>2, <1>3, <1>4, <1>5, <1>6, <1>7 DEF IInv

LEMMA FailPreserves ==
  ASSUME IInv, CopyFails
  PROVE  IInv'
<1>1. TypeOK'
  BY DEF IInv, TypeOK, InRun, CopyFails, Copyable, Meets, mainVars, userVars, fileVars, jsonVars
<1>2. RunAgrees'
  BY DEF IInv, TypeOK, RunAgrees, InRun, CopyFails, Meets, mainVars, userVars, fileVars, jsonVars
<1>3. StatusAgrees'
  BY DEF IInv, TypeOK, StatusAgrees, InRun, Transferring, Preparing, CopyFails, Meets, mainVars, userVars, fileVars, jsonVars
<1>4. SavedAgree' /\ DestinationThere'
  BY DEF IInv, TypeOK, RunAgrees, SavedAgree, DestinationThere, InRun, Preparing, CopyFails, Meets, mainVars, userVars, fileVars, jsonVars
<1>5. CopyAgrees'
  <2>1. /\ pc = "copy" /\ pc' = "copy" /\ fault' = "copy" /\ fault # "changed"
        /\ todo' \subseteq todo
        /\ UNCHANGED <<sources, dest, create_json_file, status>>
    BY DEF CopyFails, Copyable, Meets, mainVars, userVars, fileVars
  <2>2. WholeFile' = WholeFile
    BY <2>1 DEF WholeFile
  <2>3. QED
    BY <2>1, <2>2 DEF IInv, CopyAgrees
<1>6. FreshRunExact' /\ StatusCarriedOut'
  BY DEF FreshRunExact, StatusCarriedOut, Returned, CopyFails, Meets, mainVars, userVars, fileVars, jsonVars
<1>7. ThrowsOnlyWhen'
  BY DEF IInv, ThrowsOnlyWhen, SavedAgree, DestinationThere, CopyFails, Meets, mainVars, userVars, fileVars, jsonVars
<1>8. QED
  BY <1>1, <1>2, <1>3, <1>4, <1>5, <1>6, <1>7 DEF IInv

LEMMA ExitPreserves ==
  ASSUME IInv, Exit
  PROVE  IInv'
<1>0. /\ status \in Status /\ status.total_size \in Nat
      /\ sources[status.source_file] \in Versions /\ dest \in Seq(0..255)
  BY StatusFields DEF IInv, TypeOK, CopyAgrees, InRun, Exit
<1> DEFINE content == Content[sources[status.source_file]]
<1>a. content \in Seq(1..255) /\ Len(content) \in Nat /\ Len(dest) \in Nat
  BY <1>0, Lengths
<1>b. ASSUME fault # "copy", NEW b \in 1..status.total_size, b <= Len(content)
      PROVE  b <= Len(dest) /\ dest[b] = content[b]
  <2>1. b \in 1..Length(sources[status.source_file])
    BY <1>a, <1>b DEF Length
  <2>2. b \notin todo
    BY <2>1 DEF Exit, Copyable
  <2>3. QED
    BY <1>b, <2>2 DEF IInv, CopyAgrees, Exit
<1> HIDE DEF content
<1>1. TypeOK'
  BY DEF IInv, TypeOK, InRun, Exit, userVars, fileVars, jsonVars, runVars, mainVars
<1>2. RunAgrees' /\ StatusAgrees' /\ CopyAgrees' /\ ThrowsOnlyWhen'
  BY DEF RunAgrees, StatusAgrees, CopyAgrees, ThrowsOnlyWhen, InRun, Transferring, Preparing, Exit
<1>3. SavedAgree' /\ DestinationThere'
  BY DEF IInv, SavedAgree, DestinationThere, Preparing, Exit, userVars, fileVars, jsonVars, runVars, mainVars
<1>4. StatusCarriedOut'
  BY <1>0, <1>b DEF StatusCarriedOut, Exit, userVars, fileVars, runVars, mainVars, content
<1>5. FreshRunExact'
  <2> SUFFICES ASSUME create_json_file, fault \in {"none", "disk", "denied"}
               PROVE  dest = Content[sources[source]]
    BY DEF FreshRunExact, Exit, userVars, fileVars, runVars, mainVars
  <2>1. /\ status.source_file = source /\ status.total_size = total_file_size
        /\ total_file_size = Length(sources[source])
    BY DEF IInv, RunAgrees, StatusAgrees, InRun, Transferring, Exit
  <2>2. Content[sources[source]] = content /\ status.total_size = Len(content)
    BY <2>1 DEF Length, content
  <2>3. Len(dest) <= status.total_size
    BY DEF IInv, CopyAgrees, Exit
  <2>4. \A b \in 1..Len(content) : b <= Len(dest) /\ dest[b] = content[b]
    BY <1>a, <1>b, <2>2
  <2>5. Len(dest) = Len(content)
    BY <1>a, <2>2, <2>3, <2>4
  <2>6. content \in Seq(0..255)
    BY <1>a, 1..255 \subseteq 0..255
  <2>7. \A b \in 1..Len(dest) : dest[b] = content[b]
    BY <2>4, <2>5
  <2>8. dest = content
    BY <1>0, <2>5, <2>6, <2>7, SeqEqual
  <2>9. QED
    BY <2>2, <2>8
<1>6. QED
  BY <1>1, <1>2, <1>3, <1>4, <1>5 DEF IInv

\* A kill, or what the user does between two runs.
Between ==
  /\ Gone
  /\ \/ Crash
     \/ DeleteDestination
     \/ \E p \in Paths : EditSource(p) \/ DeleteSource(p)
     \/ \E c \in Sums : DeleteStatus(c)

LEMMA BetweenPreserves ==
  ASSUME IInv, Between
  PROVE  IInv'
<1> DEFINE Lasting ==
      /\ sources' \in [Paths -> Versions \union {Missing}]
      /\ json' \in [Sums -> {"absent", "torn", "whole"}]
      /\ saved' \in [Sums -> {NoStatus} \union Status]
      /\ \A c \in Sums : json'[c] = "absent" \/ (json'[c] = json[c] /\ saved'[c] = saved[c])
      /\ dest' \in Seq(0..255) /\ dest_exists' \in BOOLEAN /\ dest_deleted' \in BOOLEAN
      /\ dest_exists \/ dest_deleted => dest_exists' \/ dest_deleted'
<1>0. Lasting
  <2>0. /\ sources \in [Paths -> Versions \union {Missing}]
        /\ json \in [Sums -> {"absent", "torn", "whole"}]
        /\ saved \in [Sums -> {NoStatus} \union Status]
        /\ dest \in Seq(0..255) /\ dest_exists \in BOOLEAN /\ dest_deleted \in BOOLEAN
    BY DEF IInv, TypeOK
  <2>1. CASE Crash
    BY <2>0, <2>1 DEF Crash, userVars, fileVars, jsonVars
  <2>2. CASE DeleteDestination
    <3>1. dest' = <<>> /\ <<>> \in Seq(0..255)
      BY <2>2 DEF DeleteDestination
    <3>2. QED
      BY <2>0, <2>2, <3>1 DEF DeleteDestination, jsonVars
  <2>3. ASSUME NEW p \in Paths, EditSource(p) \/ DeleteSource(p)
        PROVE  Lasting
    <3>1. PICK v \in Versions \union {Missing} : sources' = [sources EXCEPT ![p] = v]
      BY <2>3 DEF EditSource, DeleteSource
    <3>2. UNCHANGED <<dest_deleted, fileVars, jsonVars>>
      BY <2>3 DEF EditSource, DeleteSource
    <3>3. QED
      BY <2>0, <3>1, <3>2 DEF fileVars, jsonVars
  <2>4. ASSUME NEW c \in Sums, DeleteStatus(c)
        PROVE  Lasting
    <3>1. /\ json' = [json EXCEPT ![c] = "absent"]
          /\ saved' = [saved EXCEPT ![c] = NoStatus]
          /\ UNCHANGED <<userVars, fileVars>>
      BY <2>4 DEF DeleteStatus
    <3>2. /\ json' \in [Sums -> {"absent", "torn", "whole"}]
          /\ saved' \in [Sums -> {NoStatus} \union Status]
      BY <2>0, <3>1
    <3>3. \A d \in Sums : json'[d] = "absent" \/ (json'[d] = json[d] /\ saved'[d] = saved[d])
      BY <2>0, <3>1
    <3>4. QED
      BY <2>0, <3>1, <3>2, <3>3 DEF userVars, fileVars
  <2>5. QED
    BY <2>1, <2>2, <2>3, <2>4 DEF Between
<1>1. SomePath \in Paths
  BY SessionAssumption DEF SomePath
<1>2. TypeOK'
  BY <1>0, <1>1 DEF IInv, TypeOK, InRun, Between, Gone
<1>3. RunAgrees' /\ StatusAgrees' /\ CopyAgrees'
  BY DEF RunAgrees, StatusAgrees, CopyAgrees, InRun, Transferring, Preparing, Between, Gone
<1>4. SavedAgree' /\ DestinationThere'
  BY <1>0 DEF IInv, SavedAgree, DestinationThere, Preparing, Between, Gone
<1>5. FreshRunExact' /\ StatusCarriedOut' /\ ThrowsOnlyWhen'
  BY DEF FreshRunExact, StatusCarriedOut, ThrowsOnlyWhen, Returned, Between, Gone
<1>6. QED
  BY <1>2, <1>3, <1>4, <1>5 DEF IInv

LEMMA StutterPreserves ==
  ASSUME IInv, UNCHANGED vars
  PROVE  IInv'
<1>0. /\ sources' = sources /\ dest_deleted' = dest_deleted
      /\ dest_exists' = dest_exists /\ dest' = dest /\ json' = json /\ saved' = saved
      /\ pc' = pc /\ outcome' = outcome /\ fault' = fault /\ source' = source
      /\ is_directory' = is_directory
      /\ total_file_size' = total_file_size /\ checksum' = checksum
      /\ create_json_file' = create_json_file /\ status' = status /\ todo' = todo
  BY DEF vars, userVars, fileVars, jsonVars, runVars, mainVars
<1>1. TypeOK'
  <2>1. InRun' <=> InRun
    BY <1>0 DEF InRun
  <2>2. TypeOK
    BY DEF IInv
  <2>3. \A c \in Sums : json'[c] = "whole" => saved'[c] \in Status
    BY <1>0, <2>2 DEF TypeOK
  <2>4. /\ saved' \in [Sums -> {NoStatus} \union Status]
        /\ json' \in [Sums -> {"absent", "torn", "whole"}]
        /\ sources' \in [Paths -> Versions \union {Missing}]
    BY <1>0, <2>2 DEF TypeOK
  <2>5. /\ dest_exists' \in BOOLEAN /\ dest_deleted' \in BOOLEAN
        /\ create_json_file' \in BOOLEAN /\ is_directory' \in BOOLEAN
    BY <1>0, <2>2, Zenon DEF TypeOK
  <2>6. /\ pc' \in {"idle", "checksum", "lookup", "truncate", "extend", "create", "close", "open",
                   "copy", "exited"}
        /\ outcome' \in {"none", "returned", "threw"}
        /\ fault' \in {"none", "changed", "denied", "disk", "copy", "no terminal"}
        /\ (InRun /\ pc \notin {"checksum", "lookup"} => status \in Status)'
    BY <1>0, <2>1, <2>2 DEF TypeOK
  <2>7. /\ dest' \in Seq(0..255) /\ source' \in Paths \union Unhandled /\ total_file_size' \in Nat
        /\ checksum' \in {NoSum} \union Sums /\ status' \in {NoStatus} \union Status
        /\ todo' \subseteq Nat
    BY <1>0, <2>2, Zenon DEF TypeOK
  <2>8. QED
    BY <2>3, <2>4, <2>5, <2>6, <2>7 DEF TypeOK
<1>2. RunAgrees' /\ StatusAgrees' /\ SavedAgree' /\ DestinationThere' /\ CopyAgrees'
  BY <1>0 DEF IInv, RunAgrees, StatusAgrees, SavedAgree, DestinationThere, CopyAgrees, InRun,
         WholeFile
<1>3. FreshRunExact' /\ StatusCarriedOut' /\ ThrowsOnlyWhen'
  BY <1>0 DEF IInv, FreshRunExact, StatusCarriedOut, ThrowsOnlyWhen, Transferable, Returned
<1>4. QED
  BY <1>1, <1>2, <1>3 DEF IInv
-----------------------------------------------------------------------------
(* The theorems. *)

\* The invariant of the runs.
THEOREM Invariance == Spec => []IInv
<1>1. IInv /\ [Next]_vars => IInv'
  <2> SUFFICES ASSUME IInv, [Next]_vars
               PROVE  IInv'
    OBVIOUS
  <2>1. CASE Run
    BY <2>1, StartPreserves, ChecksumPreserves, LookUpPreserves, TruncatePreserves,
       ExtendPreserves, CreatePreserves, ClosePreserves, ThrowPreserves, OpenPreserves,
       CopyPreserves, ExitPreserves DEF Run
  <2>2. CASE Fault
    BY <2>2, ChangePreserves, DeniedPreserves, DiskFullPreserves, NoTerminalPreserves, FailPreserves DEF Fault
  <2>3. CASE Crash \/ User
    BY <2>3, BetweenPreserves
       DEF User, Between, Crash, DeleteDestination, EditSource, DeleteSource, DeleteStatus, Leave
  <2>4. CASE UNCHANGED vars
    BY <2>4, StutterPreserves
  <2>5. QED
    BY <2>1, <2>2, <2>3, <2>4 DEF Next
<1>2. QED
  BY <1>1, InitInvariant, PTL DEF Spec

\* Every variable keeps its type, and a run that transfers has a status to go by.
THEOREM TypeCorrect == Spec => []TypeOK
<1>1. IInv => TypeOK
  BY DEF IInv
<1>2. QED
  BY <1>1, Invariance, PTL

\* A run that finds no saved status leaves an exact copy, whatever earlier runs,
\* kills and deletions left behind, unless the source changes or calls fail.
THEOREM FreshRuns == Spec => []FreshRunExact
<1>1. IInv => FreshRunExact
  BY DEF IInv
<1>2. QED
  BY <1>1, Invariance, PTL

\* A run that returns, fresh or resumed, has copied every byte its status asks for.
THEOREM EveryRun == Spec => []StatusCarriedOut
<1>1. IInv => StatusCarriedOut
  BY DEF IInv
<1>2. QED
  BY <1>1, Invariance, PTL

\* The status a run goes by is about the checksum of its source.
THEOREM StatusFits == Spec => []StatusIsAboutChecksum
<1>1. IInv => StatusIsAboutChecksum
  BY DEF IInv, StatusAgrees, Transferring, StatusIsAboutChecksum
<1>2. QED
  BY <1>1, Invariance, PTL

\* A run fails over what it is given, what it meets or what the user deleted; of what
\* runs leave behind, only a torn status file makes the next one fail.
THEOREM Failures == Spec => []ThrowsOnlyWhen
<1>1. IInv => ThrowsOnlyWhen
  BY DEF IInv
<1>2. QED
  BY <1>1, Invariance, PTL
=============================================================================
