--------------------------- MODULE Texts_proofs ---------------------------
(***************************************************************************)
(* Proofs about the texts the program reads.  First Startup: parse_args,   *)
(* then the numbers a report holds, what is read and scanned of one, and   *)
(* the rows of the bars; for every command line of any length, every       *)
(* answer of the terminal that fits the buffer, whatever is typed into it  *)
(* but an escape, and any number of segments.  Then JsonText: the strings, *)
(* dump_escaped and scan_string; the numbers, dump_integer and             *)
(* scan_number; for strings of any length, every value of 64 bits, and     *)
(* any text that was edited into a file.                                   *)
(***************************************************************************)
EXTENDS Startup, JsonText, Induction, SequenceTheorems

\* Where options begin, of the first n arguments.
BeginsOver(begins, n) ==
  begins = [k \in 1..n |->
              \/ k = 1
              \/ k > 1 /\ begins[k - 1] /\ Alone(k - 1)
              \/ k > 2 /\ begins[k - 2] /\ ~Alone(k - 2)]

LEMMA OptionsAreChosen ==
  Options = {k \in 1..Len(argv) : (CHOOSE b : BeginsOver(b, Len(argv)))[k]}
BY DEF Options, BeginsOver

LEMMA BeginsExist ==
  \A n \in Nat : \E begins : BeginsOver(begins, n)
<1> DEFINE S == {n \in Nat : \E begins : BeginsOver(begins, n)}
<1>1. 0 \in S
  <2>1. BeginsOver([k \in 1..0 |-> TRUE], 0)
    BY DEF BeginsOver
  <2>2. QED
    BY <2>1
<1>2. ASSUME NEW n \in S
      PROVE  n + 1 \in S
  <2>1. PICK b : BeginsOver(b, n)
    OBVIOUS
  <2> DEFINE Begins(k) == \/ k = 1
                          \/ k > 1 /\ b[k - 1] /\ Alone(k - 1)
                          \/ k > 2 /\ b[k - 2] /\ ~Alone(k - 2)
             more == [k \in 1..(n + 1) |-> Begins(k)]
  <2>2. \A k \in 1..n : b[k] = Begins(k)
    BY <2>1, Zenon DEF BeginsOver
  <2> HIDE DEF Begins
  <2>3. \A k \in 1..n : more[k] = b[k]
    BY <2>2
  <2>4. \A k \in 1..(n + 1) :
          /\ k > 1 => more[k - 1] = b[k - 1]
          /\ k > 2 => more[k - 2] = b[k - 2]
    <3>1. \A k \in 1..(n + 1) :
            /\ k > 1 => k - 1 \in 1..n
            /\ k > 2 => k - 2 \in 1..n
      OBVIOUS
    <3> HIDE DEF more
    <3>2. QED
      BY <2>3, <3>1
  <2> HIDE DEF more
  <2>5. \A k \in 1..(n + 1) :
          Begins(k) = (\/ k = 1
                       \/ k > 1 /\ more[k - 1] /\ Alone(k - 1)
                       \/ k > 2 /\ more[k - 2] /\ ~Alone(k - 2))
    BY <2>4, Zenon DEF Begins
  <2>6. BeginsOver(more, n + 1)
    BY <2>5, Zenon DEF BeginsOver, more
  <2>7. QED
    BY <2>6
<1> HIDE DEF S
<1>3. S = Nat
  BY <1>1, <1>2, NatSetInduction DEF S
<1>4. QED
  BY <1>3 DEF S

\* An argument is an option if it is the first one, or follows an option without
\* a value of its own, or the value of the option before.
LEMMA OptionSteps ==
  ASSUME Len(argv) \in Nat, NEW k \in 1..Len(argv)
  PROVE  k \in Options <=> \/ k = 1
                           \/ k - 1 \in Options /\ Alone(k - 1)
                           \/ k - 2 \in Options /\ ~Alone(k - 2)
<1> DEFINE b == CHOOSE begins : BeginsOver(begins, Len(argv))
<1>1. BeginsOver(b, Len(argv))
  BY BeginsExist
<1>2. Options = {l \in 1..Len(argv) : b[l]}
  BY OptionsAreChosen
<1> HIDE DEF b
<1>3. b[k] = (\/ k = 1
              \/ k > 1 /\ b[k - 1] /\ Alone(k - 1)
              \/ k > 2 /\ b[k - 2] /\ ~Alone(k - 2))
  BY <1>1, Zenon DEF BeginsOver
<1>4. /\ k > 1 => k - 1 \in 1..Len(argv)
      /\ k > 2 => k - 2 \in 1..Len(argv)
      /\ ~(k > 1) => k - 1 \notin 1..Len(argv)
      /\ ~(k > 2) => k - 2 \notin 1..Len(argv)
  OBVIOUS
<1>5. QED
  BY <1>2, <1>3, <1>4, Zenon
-----------------------------------------------------------------------------
(* The loop of parse_args. *)

\* The options behind which the loop is.
OptionsRead == {k \in Options : k < i}

\* What the last of those with these names says.
SaidSoFar(names, Reading(_), default) ==
  LET ks == {k \in OptionsRead : Name(argv[k]) \in names}
  IN IF ks = {} THEN default ELSE Reading(Max(ks))

SayingSoFar ==
  [t \in DOMAIN NoConfig |->
     IF t = "show_progress" THEN SaidSoFar(ProgressNames, IsOn, FALSE)
     ELSE SaidSoFar(Targets[t], ValueOf, <<>>)]

\* The loop stands at an option or behind the last argument, with the value of the
\* option before behind it, and has read what the options before say.
LoopAgrees ==
  parser = "parsing" =>
    /\ i <= Len(argv) => i \in Options
    /\ \A k \in OptionsRead : IF Alone(k) THEN k + 1 <= i ELSE k + 2 <= i
    /\ visited = {Name(argv[k]) : k \in OptionsRead}
    /\ visited \subseteq Known \cup ProgressNames
    /\ \A k, l \in OptionsRead : k # l => Name(argv[k]) # Name(argv[l])
    /\ config = SayingSoFar

ParserTypeOK ==
  /\ argv \in CommandLines \cup {<<>>}
  /\ i \in 1..(Len(argv) + 1)
  /\ visited \subseteq {Name(argv[k]) : k \in DOMAIN argv}
  /\ DOMAIN config = DOMAIN NoConfig
  /\ parser \in {"parsing", "parsed", "threw", "killed"}

ParserInv == ParserTypeOK /\ LoopAgrees /\ ReadAsWritten

LEMMA LengthOfLine ==
  ASSUME ParserTypeOK
  PROVE  Len(argv) \in Nat /\ DOMAIN argv = 1..Len(argv) /\ i \in Nat /\ Options \subseteq 1..Len(argv)
<1>1. argv = <<>> \/ argv \in Seq(Range(argv))
  BY LineAssumption DEF ParserTypeOK
<1>2. Len(argv) \in Nat /\ DOMAIN argv = 1..Len(argv)
  BY <1>1
<1>3. QED
  BY <1>2 DEF ParserTypeOK, Options

LEMMA ParserStarts == ParserInit => ParserInv
<1> SUFFICES ASSUME ParserInit
             PROVE  ParserInv
  OBVIOUS
<1>1. argv \in Seq(Range(argv)) /\ Len(argv) \in Nat
  BY LineAssumption DEF ParserInit
<1>2. ParserTypeOK
  BY <1>1 DEF ParserInit, ParserTypeOK
<1>3. OptionsRead = {}
  BY <1>1 DEF ParserInit, OptionsRead, Options
<1>4. 1 <= Len(argv) => 1 \in Options
  BY <1>1, OptionSteps
<1>5. SayingSoFar = NoConfig
  <2>1. SayingSoFar = [t \in DOMAIN NoConfig |-> IF t = "show_progress" THEN FALSE ELSE <<>>]
    BY <1>3 DEF SayingSoFar, SaidSoFar
  <2>2. QED
    BY <2>1 DEF NoConfig
<1>6. LoopAgrees
  BY <1>3, <1>4, <1>5, <1>1 DEF ParserInit, LoopAgrees
<1>7. ReadAsWritten
  BY DEF ParserInit, ReadAsWritten
<1>8. QED
  BY <1>2, <1>6, <1>7 DEF ParserInv

LEMMA MaxOfMore ==
  ASSUME NEW S \in SUBSET Nat, NEW m \in Nat, \A k \in S : k < m
  PROVE  Max(S \cup {m}) = m
<1>1. \A z \in S \cup {m} : (\A y \in S \cup {m} : z >= y) <=> z = m
  OBVIOUS
<1>2. QED
  BY <1>1 DEF Max

\* What the loop has read of an option it passes.
OptionRead ==
  [t \in DOMAIN NoConfig |->
     IF t = "show_progress"
     THEN IF name \in ProgressNames THEN IsOn(i) ELSE config[t]
     ELSE IF name \in Targets[t] THEN ValueOf(i) ELSE config[t]]

\* An option is read: what it says is said, and what the others said stays.
LEMMA PassOption ==
  ASSUME ParserInv, InLoop, name \notin visited, visited' = visited \cup {name},
         name \in Known \cup ProgressNames,
         i' = IF Alone(i) THEN i + 1 ELSE i + 2,
         i' <= Len(argv) + 1,
         config' = OptionRead,
         UNCHANGED <<argv, parser>>
  PROVE  ParserInv'
<1>1. /\ Len(argv) \in Nat /\ DOMAIN argv = 1..Len(argv) /\ i \in Nat
      /\ Options \subseteq 1..Len(argv)
  BY LengthOfLine DEF ParserInv
<1>2. i \in Options /\ i \in 1..Len(argv) /\ parser = "parsing"
  BY <1>1 DEF InLoop, ParserInv, LoopAgrees
<1>3. /\ \A k \in OptionsRead : IF Alone(k) THEN k + 1 <= i ELSE k + 2 <= i
      /\ visited = {Name(argv[k]) : k \in OptionsRead}
      /\ visited \subseteq Known \cup ProgressNames
      /\ \A k, l \in OptionsRead : k # l => Name(argv[k]) # Name(argv[l])
      /\ config = SayingSoFar
  BY <1>2 DEF ParserInv, LoopAgrees
<1>4. i + 1 \in Options => Alone(i)
  <2> SUFFICES ASSUME i + 1 \in Options, ~Alone(i)
               PROVE  FALSE
    OBVIOUS
  <2>1. i - 1 \in Options /\ ~Alone(i - 1)
    BY OptionSteps, <1>1, <1>2, i + 1 \in 1..Len(argv), (i + 1) - 1 = i, (i + 1) - 2 = i - 1, i + 1 # 1
  <2>2. i - 1 \in OptionsRead
    BY <2>1, <1>1 DEF OptionsRead
  <2>3. QED
    BY <2>1, <2>2, <1>3, <1>1
<1>5. Options' = Options
  BY DEF Options, Alone
<1>6. OptionsRead' = OptionsRead \cup {i} /\ i \notin OptionsRead /\ OptionsRead \subseteq Nat /\ \A k \in OptionsRead : k < i
  <2>1. \A k \in Options : k < i' <=> k < i \/ k = i
    <3>1. \A k \in Options : k \in Nat /\ (k = i + 1 => Alone(i))
      BY <1>1, <1>4
    <3>2. QED
      BY <1>1, <3>1
  <2>2. OptionsRead' = {k \in Options : k < i'}
    BY <1>5 DEF OptionsRead
  <2>3. OptionsRead' = {k \in Options : k < i} \cup {i}
    BY <1>2, <2>1, <2>2
  <2>4. i \notin OptionsRead /\ OptionsRead \subseteq Nat /\ \A k \in OptionsRead : k < i
    <3>1. \A k \in OptionsRead : k \in Options /\ k < i
      BY DEF OptionsRead
    <3>2. i \in Nat /\ ~(i < i)
      BY <1>1
    <3>3. i \notin OptionsRead
      BY <3>1, <3>2
    <3>4. Options \subseteq Nat
      BY <1>1
    <3>5. QED
      BY <3>1, <3>3, <3>4
  <2>5. QED
    BY <2>3, <2>4 DEF OptionsRead
<1>7. i' <= Len(argv) => i' \in Options
  <2> SUFFICES ASSUME i' <= Len(argv)
               PROVE  i' \in Options
    OBVIOUS
  <2>1. i' \in 1..Len(argv)
    BY <1>1
  <2>2. IF Alone(i) THEN i' - 1 = i ELSE i' - 2 = i
    BY <1>1
  <2>3. QED
    BY <2>1, <2>2, <1>1, <1>2, OptionSteps
<1>8. \A k \in OptionsRead' : IF Alone(k) THEN k + 1 <= i' ELSE k + 2 <= i'
  BY <1>1, <1>3, <1>6 DEF OptionsRead
<1>9. config' = SayingSoFar'
  <2>1. ASSUME NEW names, NEW t \in DOMAIN NoConfig
        PROVE  LET ks == {k \in OptionsRead : Name(argv[k]) \in names}
                   more == {k \in OptionsRead' : Name(argv[k]) \in names}
               IN  IF name \in names THEN more # {} /\ Max(more) = i ELSE more = ks
    <3> DEFINE ks == {k \in OptionsRead : Name(argv[k]) \in names}
               more == {k \in OptionsRead' : Name(argv[k]) \in names}
    <3>1. CASE name \in names
      <4>1. more = ks \cup {i}
        BY <3>1, <1>6 DEF name
      <4>2. Max(ks \cup {i}) = i
        BY <1>6, <1>1, MaxOfMore
      <4>3. QED
        BY <3>1, <4>1, <4>2
    <3>2. CASE name \notin names
      BY <3>2, <1>6 DEF name
    <3>3. QED
      BY <3>1, <3>2
  <2>2. ASSUME NEW t \in DOMAIN NoConfig, t = "show_progress"
        PROVE  OptionRead[t] = SaidSoFar(ProgressNames, IsOn, FALSE)'
    <3>1. config[t] = SaidSoFar(ProgressNames, IsOn, FALSE)
      BY <1>3, <2>2 DEF SayingSoFar
    <3>2. OptionRead[t] = IF name \in ProgressNames THEN IsOn(i) ELSE config[t]
      BY <2>2 DEF OptionRead
    <3>3. QED
      BY <2>1, <3>1, <3>2 DEF SaidSoFar, IsOn
  <2>3. ASSUME NEW t \in DOMAIN NoConfig, t # "show_progress"
        PROVE  OptionRead[t] = SaidSoFar(Targets[t], ValueOf, <<>>)'
    <3>1. config[t] = SaidSoFar(Targets[t], ValueOf, <<>>)
      BY <1>3, <2>3 DEF SayingSoFar
    <3>2. OptionRead[t] = IF name \in Targets[t] THEN ValueOf(i) ELSE config[t]
      BY <2>3 DEF OptionRead
    <3>3. QED
      BY <2>1, <3>1, <3>2 DEF SaidSoFar, ValueOf
  <2>4. QED
    BY <2>2, <2>3 DEF OptionRead, SayingSoFar
<1>10. ParserTypeOK'
  <2>1. i' \in 1..(Len(argv) + 1)
    BY <1>1
  <2>2. visited' \subseteq {Name(argv[k]) : k \in DOMAIN argv}
    BY <1>1, <1>2 DEF ParserInv, ParserTypeOK, name
  <2>3. DOMAIN config' = DOMAIN NoConfig
    BY DEF OptionRead
  <2>4. QED
    BY <2>1, <2>2, <2>3 DEF ParserInv, ParserTypeOK
<1>11. /\ visited' = {Name(argv[k]) : k \in OptionsRead'}
       /\ \A k, l \in OptionsRead' : k # l => Name(argv[k]) # Name(argv[l])
  BY <1>3, <1>6 DEF name
<1>12. LoopAgrees'
  BY <1>3, <1>5, <1>7, <1>8, <1>9, <1>11 DEF LoopAgrees, Alone
<1>13. ReadAsWritten'
  BY <1>2 DEF ReadAsWritten
<1>14. QED
  BY <1>10, <1>12, <1>13 DEF ParserInv

LEMMA ParserSteps == ParserInv /\ parse_args => ParserInv'
<1> SUFFICES ASSUME ParserInv, parse_args
             PROVE  ParserInv'
  OBVIOUS
<1>1. /\ Len(argv) \in Nat /\ DOMAIN argv = 1..Len(argv) /\ i \in Nat
      /\ Options \subseteq 1..Len(argv)
  BY LengthOfLine DEF ParserInv
<1>2. parser = "parsing"
  BY DEF parse_args, Repeated, Progress, Set, ReadPastEnd, Return, InLoop
<1>3. i <= Len(argv) => i \in Options /\ i \in 1..Len(argv)
  BY <1>1, <1>2 DEF ParserInv, LoopAgrees
<1>4. /\ \A k \in OptionsRead : IF Alone(k) THEN k + 1 <= i ELSE k + 2 <= i
      /\ visited = {Name(argv[k]) : k \in OptionsRead}
      /\ visited \subseteq Known \cup ProgressNames
      /\ \A k, l \in OptionsRead : k # l => Name(argv[k]) # Name(argv[l])
      /\ config = SayingSoFar
  BY <1>2 DEF ParserInv, LoopAgrees
<1>5. ASSUME NEW how \in {"threw", "killed", "parsed"}, Ends(how),
             visited' = visited \/ (visited' = visited \cup {name} /\ i <= Len(argv)),
             how = "parsed" => Legal /\ config = Saying,
             how \in {"threw", "killed"} => ~Legal,
             how = "killed" => ValueIsMissing
      PROVE  ParserInv'
  <2>1. ParserTypeOK'
    BY <1>1, <1>3, <1>5 DEF Ends, ParserInv, ParserTypeOK, name
  <2>2. LoopAgrees'
    BY <1>5 DEF Ends, LoopAgrees
  <2>3. Options' = Options
    BY <1>5 DEF Ends, Options, Alone
  <2>4. Legal' = Legal /\ ValueIsMissing' = ValueIsMissing /\ Saying' = Saying
    BY <1>5, <2>3 DEF Ends, Legal, ValueIsMissing, Saying, Said, Alone, IsOn, ValueOf
  <2>5. ReadAsWritten'
    BY <1>5, <2>4 DEF Ends, ReadAsWritten
  <2>6. QED
    BY <2>1, <2>2, <2>5 DEF ParserInv
<1>12. config = [t \in DOMAIN NoConfig |-> config[t]]
  BY <1>4 DEF SayingSoFar
<1>6. CASE Repeated
  <2>1. PICK k \in OptionsRead : name = Name(argv[k])
    BY <1>6, <1>4 DEF Repeated
  <2>2. k # i /\ k \in Options /\ i \in Options
    BY <1>6, <1>1, <1>3, <2>1 DEF Repeated, InLoop, OptionsRead
  <2>3. ~Legal
    BY <2>1, <2>2 DEF Legal, name
  <2>4. Ends("threw") /\ visited' = visited
    BY <1>6 DEF Repeated
  <2>5. QED
    BY <2>3, <2>4, <1>5
<1>7. CASE Progress
  <2>1. Alone(i)
    BY <1>7 DEF Progress, Alone, name
  <2>2. config' = OptionRead
    <3>1. /\ name \in ProgressNames
          /\ \A t \in DOMAIN Targets : name \notin Targets[t]
          /\ config' = [config EXCEPT !.show_progress = IsOn(i)]
      BY <1>7 DEF Progress, IsOn, ProgressNames, Targets
    <3>2. DOMAIN NoConfig = DOMAIN Targets \cup {"show_progress"}
      BY DEF Targets, NoConfig
    <3>3. QED
      BY <3>1, <3>2, <1>12 DEF OptionRead
  <2>3. QED
    BY <1>7, <2>1, <2>2, <1>1, PassOption DEF Progress, New, InLoop
<1>8. CASE Set
  <2>1. InLoop /\ name \notin visited /\ visited' = visited \cup {name} /\ name \notin ProgressNames
    BY <1>8 DEF Set, New
  <2>2. ValueAt <= Len(argv) /\ (IF Alone(i) THEN ValueAt = i ELSE ValueAt = i + 1)
    BY <1>8, <2>1 DEF Set, ValueAt, Alone, name
  <2>3. ASSUME NEW t \in DOMAIN Targets, name \in Targets[t],
               config' = [config EXCEPT ![t] = ValueOf(i)],
               i' = ValueAt + 1,
               UNCHANGED <<argv, parser>>
        PROVE  ParserInv'
    <3>1. \A u \in DOMAIN Targets : name \in Targets[u] <=> u = t
      BY <2>3 DEF Targets
    <3>2. t # "show_progress" /\ DOMAIN NoConfig = DOMAIN Targets \cup {"show_progress"}
      BY <2>3 DEF Targets, NoConfig
    <3>3. config' = OptionRead
      BY <2>1, <2>3, <3>1, <3>2, <1>12 DEF OptionRead
    <3>4. name \in Known
      BY <2>3 DEF Known
    <3>5. i' = (IF Alone(i) THEN i + 1 ELSE i + 2) /\ i' <= Len(argv) + 1
      BY <2>2, <2>3, <1>1
    <3>6. QED
      BY <2>1, <2>3, <3>3, <3>4, <3>5, PassOption
  <2>4. ASSUME name \notin Known, Ends("threw")
        PROVE  ParserInv'
    <3>1. ~Legal
      BY <2>1, <2>4, <1>1, <1>3 DEF Legal, InLoop, name
    <3>2. QED
      BY <2>1, <2>4, <3>1, <1>5 DEF InLoop
  <2>5. QED
    <3>1. (IF ValueAt = i THEN Inline(argv[i]) ELSE argv[ValueAt]) = ValueOf(i)
      <4>1. CASE Inline(argv[i]) = <<>>
        BY <4>1, <1>1 DEF ValueAt, ValueOf
      <4>2. CASE Inline(argv[i]) # <<>>
        BY <4>2 DEF ValueAt, ValueOf
      <4>3. QED
        BY <4>1, <4>2
    <3>2. QED
      BY <1>8, <2>3, <2>4, <3>1 DEF Set
<1>9. CASE ReadPastEnd
  <2>1. i \in Options /\ Inline(argv[i]) = <<>> /\ i = Len(argv)
    <3>1. i <= Len(argv) /\ ValueAt > Len(argv)
      BY <1>9 DEF ReadPastEnd, InLoop
    <3>2. ValueAt = i + 1 /\ Inline(argv[i]) = <<>>
      BY <3>1, <1>1 DEF ValueAt
    <3>3. i = Len(argv)
      <4>1. i \in Nat /\ Len(argv) \in Nat
        BY <1>1
      <4>2. i + 1 > Len(argv) /\ i <= Len(argv)
        BY <3>1, <3>2
      <4>3. QED
        BY <4>1, <4>2
    <3>4. QED
      BY <3>2, <3>3, <1>3
  <2>2. ~Alone(i)
    BY <1>9, <2>1 DEF ReadPastEnd, Alone, name
  <2>3. ValueIsMissing /\ ~Legal
    BY <2>1, <2>2 DEF ValueIsMissing, Legal
  <2>4. Ends("killed") /\ visited' = visited \cup {name}
    BY <1>9 DEF ReadPastEnd, New
  <2>5. QED
    BY <2>1, <2>3, <2>4, <1>1, <1>5
<1>10. CASE Return
  <2>1. i = Len(argv) + 1
    <3>1. i > Len(argv) /\ i \in 1..(Len(argv) + 1)
      BY <1>10 DEF Return, ParserInv, ParserTypeOK
    <3>2. QED
      BY <3>1, <1>1
  <2>5. OptionsRead = Options
    <3>1. \A k \in Options : k < i
      BY <1>1, <2>1
    <3>2. QED
      BY <3>1 DEF OptionsRead
  <2>2. ~ValueIsMissing
    BY <2>1, <2>5, <1>1, <1>4 DEF ValueIsMissing
  <2>3. Legal
    BY <2>1, <2>2, <2>5, <1>4 DEF Legal
  <2>4. SayingSoFar = Saying
    BY <2>5 DEF SayingSoFar, SaidSoFar, Saying, Said
  <2>6. Ends("parsed") /\ visited' = visited
    BY <1>10 DEF Return
  <2>7. QED
    BY <2>3, <2>4, <2>6, <1>4, <1>5
<1>11. QED
  BY <1>6, <1>7, <1>8, <1>9, <1>10 DEF parse_args
-----------------------------------------------------------------------------
(* The value of a row of digits. *)

ReadOver(read, s, n) ==
  read = [k \in 0..n |-> IF k = 0 THEN 0 ELSE 10 * read[k - 1] + (s[k] - 48)]

LEMMA ReadExists ==
  ASSUME NEW s
  PROVE  \A n \in Nat : \E read : ReadOver(read, s, n)
<1> DEFINE S == {n \in Nat : \E read : ReadOver(read, s, n)}
<1>1. 0 \in S
  <2>1. ReadOver([k \in 0..0 |-> 0], s, 0)
    BY DEF ReadOver
  <2>2. QED
    BY <2>1
<1>2. ASSUME NEW n \in S
      PROVE  n + 1 \in S
  <2>1. PICK r : ReadOver(r, s, n)
    OBVIOUS
  <2> DEFINE Worth(k) == IF k = 0 THEN 0 ELSE 10 * r[k - 1] + (s[k] - 48)
             more == [k \in 0..(n + 1) |-> Worth(k)]
  <2>2. \A k \in 0..n : r[k] = Worth(k)
    BY <2>1, Zenon DEF ReadOver
  <2>3. \A k \in 0..(n + 1) : k # 0 => k - 1 \in 0..n
    OBVIOUS
  <2> HIDE DEF Worth
  <2>4. \A k \in 0..n : more[k] = r[k]
    BY <2>2
  <2> HIDE DEF more
  <2>5. \A k \in 0..(n + 1) :
          Worth(k) = IF k = 0 THEN 0 ELSE 10 * more[k - 1] + (s[k] - 48)
    BY <2>3, <2>4 DEF Worth
  <2>6. ReadOver(more, s, n + 1)
    BY <2>5, Zenon DEF ReadOver, more
  <2>7. QED
    BY <2>6
<1> HIDE DEF S
<1>3. S = Nat
  BY <1>1, <1>2, NatSetInduction DEF S
<1>4. QED
  BY <1>3 DEF S

\* read is what sscanf has read behind each of the digits.
Reads(read, s) ==
  /\ Number(s) = read[Len(s)]
  /\ read \in [0..Len(s) -> Nat] /\ read[0] = 0
  /\ \A k \in 1..Len(s) : read[k] = 10 * read[k - 1] + (s[k] - 48)

LEMMA NumberSteps ==
  ASSUME NEW s \in Seq(Digits)
  PROVE  \E read : Reads(read, s)
<1> DEFINE read == CHOOSE r : ReadOver(r, s, Len(s))
<1>1. Number(s) = read[Len(s)]
  BY DEF Number, ReadOver
<1>2. ReadOver(read, s, Len(s))
  BY ReadExists
<1> HIDE DEF read
<1>3. /\ read[0] = 0
      /\ \A k \in 1..Len(s) : read[k] = 10 * read[k - 1] + (s[k] - 48)
  BY <1>2 DEF ReadOver
<1> DEFINE S == {n \in Nat : n <= Len(s) => read[n] \in Nat}
<1>4. 0 \in S
  BY <1>3
<1>5. ASSUME NEW n \in S
      PROVE  n + 1 \in S
  <2> SUFFICES ASSUME n + 1 <= Len(s)
               PROVE  read[n + 1] \in Nat
    OBVIOUS
  <2>1. n + 1 \in 1..Len(s) /\ read[n] \in Nat
    OBVIOUS
  <2>2. s[n + 1] - 48 \in Nat
    BY <2>1 DEF Digits
  <2>3. read[n + 1] = 10 * read[n] + (s[n + 1] - 48)
    BY <2>1, <1>3
  <2>4. QED
    BY <2>1, <2>2, <2>3
<1> HIDE DEF S
<1>6. S = Nat
  BY <1>4, <1>5, NatSetInduction DEF S
<1>7. \A k \in 0..Len(s) : read[k] \in Nat
  BY <1>6 DEF S
<1>8. QED
  BY <1>1, <1>2, <1>3, <1>7 DEF ReadOver, Reads

LEMMA NumberType == \A s \in Seq(Digits) : Number(s) \in Nat
BY NumberSteps DEF Reads

\* One more digit.
LEMMA NumberAppend ==
  ASSUME NEW s \in Seq(Digits), NEW c \in Digits
  PROVE  Number(Append(s, c)) = 10 * Number(s) + (c - 48)
<1> DEFINE t == Append(s, c)
<1>1. t \in Seq(Digits) /\ Len(t) = Len(s) + 1 /\ t[Len(t)] = c /\ \A k \in 1..Len(s) : t[k] = s[k]
  OBVIOUS
<1> HIDE DEF t
<1>2. PICK r : Reads(r, s)
  BY NumberSteps
<1>3. PICK q : Reads(q, t)
  BY <1>1, NumberSteps
<1> DEFINE S == {n \in Nat : n <= Len(s) => q[n] = r[n]}
<1>4. 0 \in S
  BY <1>2, <1>3 DEF Reads
<1>5. ASSUME NEW n \in S
      PROVE  n + 1 \in S
  <2> SUFFICES ASSUME n + 1 <= Len(s)
               PROVE  q[n + 1] = r[n + 1]
    OBVIOUS
  <2>1. n + 1 \in 1..Len(s) /\ n + 1 \in 1..Len(t) /\ q[n] = r[n] /\ (n + 1) - 1 = n
    BY <1>1
  <2>2. QED
    BY <2>1, <1>1, <1>2, <1>3, SMTT(20) DEF Reads
<1> HIDE DEF S
<1>6. S = Nat
  BY <1>4, <1>5, NatSetInduction DEF S
<1>7. q[Len(s)] = r[Len(s)]
  BY <1>6 DEF S
<1>8. Len(t) \in 1..Len(t) /\ Len(t) - 1 = Len(s)
  BY <1>1
<1>9. QED
  BY <1>1, <1>2, <1>3, <1>7, <1>8 DEF Reads, t

DigitsOver(ds, n) ==
  ds = [k \in 0..n |->
              IF k < 10 THEN <<48 + k>> ELSE Append(ds[k \div 10], 48 + (k % 10))]

LEMMA TensDown ==
  ASSUME NEW k \in Nat, k >= 10
  PROVE  /\ k \div 10 \in Nat /\ k \div 10 < k
         /\ k % 10 \in 0..9 /\ k = 10 * (k \div 10) + (k % 10)
OBVIOUS

LEMMA DigitsExist ==
  \A n \in Nat : \E ds : DigitsOver(ds, n)
<1> DEFINE S == {n \in Nat : \E ds : DigitsOver(ds, n)}
<1>1. 0 \in S
  <2>1. DigitsOver([k \in 0..0 |-> <<48 + k>>], 0)
    BY DEF DigitsOver
  <2>2. QED
    BY <2>1
<1>2. ASSUME NEW n \in S
      PROVE  n + 1 \in S
  <2>1. PICK d : DigitsOver(d, n)
    OBVIOUS
  <2> DEFINE Worth(k) == IF k < 10 THEN <<48 + k>> ELSE Append(d[k \div 10], 48 + (k % 10))
             more == [k \in 0..(n + 1) |-> Worth(k)]
  <2>2. \A k \in 0..n : d[k] = Worth(k)
    BY <2>1, Zenon DEF DigitsOver
  <2>3. \A k \in 0..(n + 1) : ~(k < 10) => k \div 10 \in 0..n
    <3>1. ASSUME NEW k \in 0..(n + 1), ~(k < 10)
          PROVE  k \div 10 \in 0..n
      BY <3>1, TensDown
    <3>2. QED
      BY <3>1
  <2> HIDE DEF Worth
  <2>4. \A k \in 0..n : more[k] = d[k]
    BY <2>2
  <2> HIDE DEF more
  <2>5. \A k \in 0..(n + 1) :
          Worth(k) = IF k < 10 THEN <<48 + k>> ELSE Append(more[k \div 10], 48 + (k % 10))
    BY <2>3, <2>4, Zenon DEF Worth
  <2>6. DigitsOver(more, n + 1)
    BY <2>5, Zenon DEF DigitsOver, more
  <2>7. QED
    BY <2>6
<1> HIDE DEF S
<1>3. S = Nat
  BY <1>1, <1>2, NatSetInduction DEF S
<1>4. QED
  BY <1>3 DEF S

\* Whatever number the terminal writes, its digits are read as that number.
LEMMA DecimalRead ==
  ASSUME NEW n \in Nat
  PROVE  Decimal(n) \in Seq(Digits) /\ Decimal(n) # <<>> /\ Number(Decimal(n)) = n
<1> DEFINE d == CHOOSE ds : DigitsOver(ds, n)
<1>1. Decimal(n) = d[n] /\ DigitsOver(d, n)
  BY DigitsExist DEF Decimal, DigitsOver
<1> HIDE DEF d
<1>2. \A k \in 0..n : d[k] = IF k < 10 THEN <<48 + k>> ELSE Append(d[k \div 10], 48 + (k % 10))
  BY <1>1, Zenon DEF DigitsOver
<1> DEFINE Good(k) == d[k] \in Seq(Digits) /\ d[k] # <<>> /\ Number(d[k]) = k
           S == {m \in Nat : \A k \in 0..m : k <= n => Good(k)}
<1>3. ASSUME NEW k \in 0..n, k < 10
      PROVE  Good(k)
  <2> DEFINE c == 48 + k
  <2>1. c \in Digits /\ c - 48 = k
    BY <1>3 DEF Digits
  <2>5. d[k] = <<c>>
    BY <1>2, <1>3
  <2> HIDE DEF c
  <2>6. <<>> \in Seq(Digits) /\ <<c>> = Append(<<>>, c)
    OBVIOUS
  <2>2. Number(<<>>) = 0
    <3>1. PICK r : Reads(r, <<>>)
      BY <2>6, NumberSteps
    <3>2. QED
      BY <3>1 DEF Reads
  <2>3. Number(Append(<<>>, c)) = 10 * Number(<<>>) + (c - 48)
    BY <2>1, <2>6, NumberAppend
  <2>4. Number(d[k]) = k
    BY <2>1, <2>2, <2>3, <2>5, <2>6
  <2>7. QED
    BY <2>1, <2>4, <2>5
<1>4. 0 \in S
  BY <1>3
<1>5. ASSUME NEW m \in S
      PROVE  m + 1 \in S
  <2> SUFFICES ASSUME m + 1 <= n
               PROVE  Good(m + 1)
    OBVIOUS
  <2> DEFINE k == m + 1
  <2>1. CASE k < 10
    BY <2>1, <1>3
  <2>2. CASE ~(k < 10)
    <3>1. /\ k \div 10 \in 0..m
          /\ k % 10 \in 0..9 /\ k = 10 * (k \div 10) + (k % 10)
      BY <2>2, TensDown
    <3>2. Good(k \div 10)
      BY <3>1
    <3> DEFINE s == d[k \div 10]
               c == 48 + (k % 10)
    <3>3. c \in Digits /\ c - 48 = k % 10
      BY <3>1 DEF Digits
    <3>4. d[k] = Append(s, c)
      <4>1. k \in 0..n
        OBVIOUS
      <4>2. QED
        BY <4>1, <1>2, <2>2, Zenon
    <3>5. s \in Seq(Digits) /\ Number(s) = k \div 10
      BY <3>2
    <3> HIDE DEF k, s, c
    <3>6. Number(Append(s, c)) = 10 * Number(s) + (c - 48)
      BY <3>3, <3>5, NumberAppend
    <3>7. Append(s, c) \in Seq(Digits) /\ Append(s, c) # <<>>
      BY <3>3, <3>5
    <3>8. Number(d[k]) = k
      BY <3>1, <3>3, <3>4, <3>5, <3>6
    <3>9. QED
      BY <3>4, <3>7, <3>8 DEF k
  <2>3. QED
    BY <2>1, <2>2
<1> HIDE DEF S
<1>6. S = Nat
  BY <1>4, <1>5, NatSetInduction DEF S
<1>7. Good(n)
  <2>1. n \in S /\ n \in 0..n /\ n <= n
    BY <1>6
  <2> HIDE DEF Good
  <2>2. QED
    BY <2>1 DEF S
<1>8. QED
  BY <1>1, <1>7
-----------------------------------------------------------------------------
(* What is read of the answer, and what is scanned of it. *)

LEMMA MinOfSome ==
  ASSUME NEW I \in SUBSET Nat, I # {}
  PROVE  Min(I) \in I /\ \A y \in I : Min(I) <= y
<1> DEFINE Less == {ss \in Nat \X Nat : ss[1] < ss[2]}
<1>1. IsWellFoundedOn(Less, Nat)
  BY LessIsWellFounded
<1> HIDE DEF Less
<1>2. PICK n \in I : \A m \in I : <<m, n>> \notin Less
  BY <1>1, WFMin
<1>3. \A m \in I : n <= m
  <2> SUFFICES ASSUME NEW m \in I, m < n
               PROVE  FALSE
    OBVIOUS
  <2>1. <<m, n>> \in Less
    BY DEF Less
  <2>2. QED
    BY <1>2, <2>1
<1>4. QED
  BY <1>2, <1>3 DEF Min

\* What is read as a number is digits only.
LEMMA DigitsFromType ==
  ASSUME NEW S, buf \in Seq(S), NEW k \in Nat \ {0}
  PROVE  DigitsFrom(k) \in Seq(Digits)
<1> DEFINE s == SubSeq(buf, k, Len(buf))
           I == {j \in 1..Len(s) : s[j] \notin Digits}
<1>1. s \in Seq(S) /\ Len(s) \in Nat
  OBVIOUS
<1>2. DigitsFrom(k) = IF I = {} THEN s ELSE IF Min(I) = 0 THEN s ELSE SubSeq(s, 1, Min(I) - 1)
  BY DEF DigitsFrom, SelectInSeq
<1> HIDE DEF s
<1>3. CASE I = {}
  <2>1. \A j \in 1..Len(s) : s[j] \in Digits
    BY <1>3
  <2>2. QED
    BY <1>1, <1>2, <1>3, <2>1
<1>4. CASE I # {}
  <2>1. Min(I) \in I /\ \A y \in I : Min(I) <= y
    <3>1. I \in SUBSET Nat
      OBVIOUS
    <3> HIDE DEF I
    <3>2. QED
      BY <1>4, <3>1, MinOfSome
  <2> DEFINE m == Min(I)
  <2> HIDE DEF m
  <2>2. m \in 1..Len(s) /\ \A j \in 1..(m - 1) : s[j] \in Digits
    <3>1. m \in I /\ \A y \in I : m <= y
      BY <2>1 DEF m
    <3>2. m \in 1..Len(s)
      BY <3>1
    <3>3. ASSUME NEW j \in 1..(m - 1)
          PROVE  s[j] \in Digits
      <4>1. j \in 1..Len(s) /\ ~(m <= j)
        BY <3>2, <1>1
      <4>2. QED
        BY <3>1, <4>1
    <3>4. QED
      BY <3>2, <3>3
  <2>3. SubSeq(s, 1, m - 1) \in Seq(Digits)
    BY <2>2, <1>1
  <2>4. QED
    BY <1>2, <1>4, <2>2, <2>3 DEF m
<1>5. QED
  BY <1>3, <1>4

\* The digits from the k-th character on end where a character that is none stands,
\* or at the end.
LEMMA DigitsFromIs ==
  ASSUME NEW S, buf \in Seq(S), NEW k \in Nat \ {0}, NEW m \in Nat,
         k <= m + 1, m <= Len(buf),
         \A j \in k..m : buf[j] \in Digits,
         m = Len(buf) \/ buf[m + 1] \notin Digits
  PROVE  DigitsFrom(k) = SubSeq(buf, k, m)
<1> DEFINE s == SubSeq(buf, k, Len(buf))
           I == {j \in 1..Len(s) : s[j] \notin Digits}
<1>1. s \in Seq(S) /\ Len(s) = Len(buf) + 1 - k /\ \A j \in 1..Len(s) : s[j] = buf[k + j - 1]
  OBVIOUS
<1>2. DigitsFrom(k) = IF I = {} THEN s ELSE IF Min(I) = 0 THEN s ELSE SubSeq(s, 1, Min(I) - 1)
  BY DEF DigitsFrom, SelectInSeq
<1>3. CASE m = Len(buf)
  <2>1. \A j \in 1..Len(s) : s[j] \in Digits
    BY <1>1, <1>3
  <2>2. QED
    BY <1>2, <1>3, <2>1
<1>4. CASE m # Len(buf)
  <2> DEFINE e == m + 2 - k
  <2> HIDE DEF s
  <2>1. e \in 1..Len(s) /\ s[e] \notin Digits
    BY <1>1, <1>4
  <2>2. \A j \in 1..Len(s) : j < e => s[j] \in Digits
    BY <1>1
  <2> HIDE DEF e
  <2>3. e \in I /\ \A j \in I : e <= j
    BY <2>1, <2>2, <1>1
  <2> HIDE DEF I
  <2>4. I \subseteq Nat
    BY DEF I
  <2>5. Min(I) = e
    <3>1. \A z \in I : (\A y \in I : z <= y) <=> z = e
      BY <2>3, <2>4
    <3>2. QED
      BY <2>3, <3>1 DEF Min
  <2>6. DigitsFrom(k) = SubSeq(s, 1, e - 1)
    BY <1>2, <2>1, <2>3, <2>5
  <2>7. SubSeq(s, 1, e - 1) = SubSeq(buf, k, m)
    BY <1>1, <1>4 DEF s, e
  <2>8. QED
    BY <2>6, <2>7
<1>5. QED
  BY <1>3, <1>4

\* The answer, character by character.
LEMMA ReportIs ==
  ASSUME NEW c \in Nat \X Nat
  PROVE  LET row == Decimal(c[1])
             col == Decimal(c[2])
             r == ReportOf(c)
         IN  /\ row \in Seq(Digits) /\ Len(row) >= 1 /\ Number(row) = c[1]
             /\ col \in Seq(Digits) /\ Len(col) >= 1 /\ Number(col) = c[2]
             /\ r \in Seq(Nat) /\ Len(r) = 4 + Len(row) + Len(col)
             /\ r[1] = Escape /\ r[2] = Bracket
             /\ \A j \in 1..Len(row) : r[2 + j] = row[j]
             /\ r[3 + Len(row)] = Semicolon
             /\ \A j \in 1..Len(col) : r[3 + Len(row) + j] = col[j]
             /\ r[Len(r)] = EndOfReport
<1> DEFINE row == Decimal(c[1])
           col == Decimal(c[2])
           r == ReportOf(c)
<1>1. /\ row \in Seq(Digits) /\ row # <<>> /\ Number(row) = c[1]
      /\ col \in Seq(Digits) /\ col # <<>> /\ Number(col) = c[2]
  BY DecimalRead
<1>2. r = <<Escape, Bracket>> \o row \o <<Semicolon>> \o col \o <<EndOfReport>>
  BY DEF ReportOf
<1> HIDE DEF row, col, r
<1>3. Len(row) >= 1 /\ Len(col) >= 1 /\ Len(row) \in Nat /\ Len(col) \in Nat
  BY <1>1
<1>4. row \in Seq(Nat) /\ col \in Seq(Nat)
  BY <1>1 DEF Digits
<1> DEFINE a == <<Escape, Bracket>> \o row
<1>5. /\ a \in Seq(Nat) /\ Len(a) = 2 + Len(row) /\ a[1] = Escape /\ a[2] = Bracket
      /\ \A j \in 1..Len(row) : a[2 + j] = row[j]
  BY <1>4 DEF Escape, Bracket
<1> DEFINE b == a \o <<Semicolon>>
<1> HIDE DEF a
<1>6. /\ b \in Seq(Nat) /\ Len(b) = 3 + Len(row) /\ b[3 + Len(row)] = Semicolon
      /\ \A j \in 1..(2 + Len(row)) : b[j] = a[j]
  BY <1>3, <1>5 DEF Semicolon
<1> DEFINE d == b \o col
<1> HIDE DEF b
<1>7. /\ d \in Seq(Nat) /\ Len(d) = 3 + Len(row) + Len(col)
      /\ \A j \in 1..(3 + Len(row)) : d[j] = b[j]
      /\ \A j \in 1..Len(col) : d[3 + Len(row) + j] = col[j]
  <2>1. /\ d \in Seq(Nat) /\ Len(d) = Len(b) + Len(col)
        /\ \A j \in 1..(Len(b) + Len(col)) :
             d[j] = IF j <= Len(b) THEN b[j] ELSE col[j - Len(b)]
    <3>1. b \in Seq(Nat) /\ col \in Seq(Nat)
      BY <1>4, <1>6
    <3>2. QED
      BY <3>1, ConcatProperties, Zenon
  <2> HIDE DEF d
  <2>3. ASSUME NEW j \in 1..Len(col)
        PROVE  d[3 + Len(row) + j] = col[j]
    <3> DEFINE k == 3 + Len(row) + j
    <3>1. k \in 1..(Len(b) + Len(col)) /\ ~(k <= Len(b)) /\ k - Len(b) = j
      BY <1>3, <1>6
    <3> HIDE DEF k
    <3>2. d[k] = col[j]
      BY <2>1, <3>1
    <3>3. QED
      BY <3>2 DEF k
  <2>4. \A j \in 1..(3 + Len(row)) : d[j] = b[j]
    <3>1. ASSUME NEW j \in 1..(3 + Len(row))
          PROVE  d[j] = b[j]
      <4>1. j \in 1..(Len(b) + Len(col)) /\ j <= Len(b)
        BY <1>3, <1>6
      <4>2. QED
        BY <2>1, <4>1
    <3>2. QED
      BY <3>1
  <2>5. QED
    BY <1>3, <1>6, <2>1, <2>3, <2>4
<1> HIDE DEF d
<1>8. /\ r \in Seq(Nat) /\ Len(r) = 4 + Len(row) + Len(col)
      /\ \A j \in 1..(3 + Len(row) + Len(col)) : r[j] = d[j]
      /\ r[Len(r)] = EndOfReport
  <2>1. r = d \o <<EndOfReport>>
    BY <1>2, Zenon DEF a, b, d
  <2>2. d \in Seq(Nat) /\ Len(d) = 3 + Len(row) + Len(col) /\ EndOfReport \in Nat
    BY <1>7 DEF EndOfReport
  <2> DEFINE n == Len(d)
  <2>3. /\ r \in Seq(Nat) /\ Len(r) = n + 1 /\ r[n + 1] = EndOfReport
        /\ \A j \in 1..n : r[j] = d[j]
    BY <2>1, <2>2
  <2>4. n = 3 + Len(row) + Len(col) /\ n + 1 = 4 + Len(row) + Len(col)
    BY <1>3, <2>2
  <2>5. QED
    BY <2>3, <2>4, Zenon
<1>13. \A j \in 1..(3 + Len(row)) : r[j] = b[j]
  <2>1. ASSUME NEW j \in 1..(3 + Len(row))
        PROVE  r[j] = b[j]
    <3>1. j \in 1..(3 + Len(row) + Len(col))
      BY <1>3
    <3>2. QED
      BY <1>7, <1>8, <3>1
  <2>2. QED
    BY <2>1
<1>14. \A j \in 1..(2 + Len(row)) : r[j] = a[j]
  BY <1>3, <1>6, <1>13, SMTT(20)
<1>9. r[1] = Escape /\ r[2] = Bracket /\ r[3 + Len(row)] = Semicolon
  <2>1. 1 \in 1..(2 + Len(row)) /\ 2 \in 1..(2 + Len(row)) /\ 3 + Len(row) \in 1..(3 + Len(row))
    BY <1>3
  <2>2. QED
    BY <1>5, <1>6, <1>13, <1>14, <2>1
<1>10. ASSUME NEW j \in 1..Len(row)
       PROVE  r[2 + j] = row[j]
  <2>1. 2 + j \in 1..(2 + Len(row))
    BY <1>3
  <2>2. QED
    BY <1>5, <1>14, <2>1
<1>11. ASSUME NEW j \in 1..Len(col)
       PROVE  r[3 + Len(row) + j] = col[j]
  <2>1. 3 + Len(row) + j \in 1..(3 + Len(row) + Len(col))
    BY <1>3
  <2>2. QED
    BY <1>7, <1>8, <2>1
<1>12. QED
  BY <1>1, <1>3, <1>8, <1>9, <1>10, <1>11 DEF row, col, r
-----------------------------------------------------------------------------
(* The report of a cursor. *)

LEMMA ReportEnds ==
  ASSUME NEW c \in Nat \X Nat, NEW j \in 1..Len(ReportOf(c))
  PROVE  ReportOf(c)[j] = EndOfReport <=> j = Len(ReportOf(c))
<1> DEFINE row == Decimal(c[1])
           col == Decimal(c[2])
           r == ReportOf(c)
<1>1. /\ row \in Seq(Digits) /\ Len(row) >= 1
      /\ col \in Seq(Digits) /\ Len(col) >= 1
      /\ Len(r) = 4 + Len(row) + Len(col)
      /\ r[1] = Escape /\ r[2] = Bracket
      /\ \A k \in 1..Len(row) : r[2 + k] = row[k]
      /\ r[3 + Len(row)] = Semicolon
      /\ \A k \in 1..Len(col) : r[3 + Len(row) + k] = col[k]
      /\ r[Len(r)] = EndOfReport
  BY ReportIs
<1> HIDE DEF row, col, r
<1>2. Len(row) \in Nat /\ Len(col) \in Nat /\ j \in 1..Len(r)
  BY <1>1 DEF r
<1>8. /\ \A k \in 1..Len(row) : row[k] \in Digits
      /\ \A k \in 1..Len(col) : col[k] \in Digits
  BY <1>1
<1>3. CASE j \in 3..(2 + Len(row))
  <2> DEFINE k == j - 2
  <2>1. k \in 1..Len(row) /\ 2 + k = j
    BY <1>2, <1>3
  <2> HIDE DEF k
  <2>2. r[j] \in Digits
    BY <1>1, <1>8, <2>1
  <2>3. r[j] # EndOfReport
    BY <2>2 DEF Digits, EndOfReport
  <2>4. j # Len(r)
    BY <1>1, <1>2, <1>3
  <2>5. QED
    BY <2>3, <2>4 DEF r
<1>4. CASE j \in (4 + Len(row))..(3 + Len(row) + Len(col))
  <2> DEFINE k == j - (3 + Len(row))
  <2>1. k \in 1..Len(col) /\ 3 + Len(row) + k = j
    BY <1>2, <1>4
  <2> HIDE DEF k
  <2>2. r[j] \in Digits
    BY <1>1, <1>8, <2>1
  <2>3. r[j] # EndOfReport
    BY <2>2 DEF Digits, EndOfReport
  <2>4. j # Len(r)
    BY <1>1, <1>2, <1>4
  <2>5. QED
    BY <2>3, <2>4 DEF r
<1>5. CASE j \in {1, 2, 3 + Len(row), 4 + Len(row) + Len(col)}
  BY <1>1, <1>2, <1>5 DEF r, Escape, Bracket, Semicolon, EndOfReport
<1>6. \/ j \in {1, 2, 3 + Len(row), 4 + Len(row) + Len(col)}
      \/ j \in 3..(2 + Len(row))
      \/ j \in (4 + Len(row))..(3 + Len(row) + Len(col))
  <2>1. j \in 1..(4 + Len(row) + Len(col))
    BY <1>1, <1>2
  <2>2. QED
    BY <1>2, <2>1
<1>7. QED
  BY <1>3, <1>4, <1>5, <1>6

LEMMA ScannedType ==
  ASSUME NEW S, buf \in Seq(S)
  PROVE  Scanned \in Nat \X Nat
<1>1. DigitsFrom(3) \in Seq(Digits)
  BY DigitsFromType
<1>2. DigitsFrom(4 + Len(DigitsFrom(3))) \in Seq(Digits)
  <2>1. 4 + Len(DigitsFrom(3)) \in Nat \ {0}
    BY <1>1
  <2>2. QED
    BY <2>1, DigitsFromType
<1>3. QED
  BY <1>1, <1>2, NumberType DEF Scanned, Position

LEMMA NoDigitsBehind ==
  ASSUME NEW S, buf \in Seq(S)
  PROVE  DigitsFrom(Len(buf) + 2) = <<>>
<1> DEFINE s == SubSeq(buf, Len(buf) + 2, Len(buf))
<1>1. s = <<>> /\ Len(s) = 0
  OBVIOUS
<1> HIDE DEF s
<1>2. {j \in 1..Len(s) : s[j] \notin Digits} = {}
  BY <1>1
<1>3. QED
  BY <1>1, <1>2 DEF DigitsFrom, SelectInSeq, s

LEMMA SomeDigits ==
  ASSUME NEW S, buf \in Seq(S), NEW k \in Nat \ {0}, k <= Len(buf), buf[k] \in Digits
  PROVE  DigitsFrom(k) # <<>>
<1> DEFINE s == SubSeq(buf, k, Len(buf))
           I == {j \in 1..Len(s) : s[j] \notin Digits}
<1>1. s \in Seq(S) /\ Len(s) >= 1 /\ Len(s) \in Nat /\ s[1] = buf[k]
  OBVIOUS
<1>2. DigitsFrom(k) = IF I = {} THEN s ELSE IF Min(I) = 0 THEN s ELSE SubSeq(s, 1, Min(I) - 1)
  BY DEF DigitsFrom, SelectInSeq
<1> HIDE DEF s
<1>3. CASE I = {}
  BY <1>1, <1>2, <1>3
<1>4. CASE I # {}
  <2> DEFINE m == Min(I)
  <2>1. m \in I
    <3>1. I \in SUBSET Nat
      OBVIOUS
    <3> HIDE DEF I
    <3>2. QED
      BY <1>4, <3>1, MinOfSome
  <2> HIDE DEF m
  <2>2. m \in 1..Len(s) /\ m # 1
    BY <2>1, <1>1
  <2>3. Len(SubSeq(s, 1, m - 1)) = m - 1 /\ m - 1 # 0
    BY <2>2, <1>1
  <2>4. DigitsFrom(k) = SubSeq(s, 1, m - 1)
    <3> HIDE DEF I
    <3>1. m # 0
      BY <2>2
    <3>2. QED
      BY <1>2, <1>4, <3>1, Zenon DEF m
  <2>5. Len(DigitsFrom(k)) # 0
    BY <2>3, <2>4
  <2>6. QED
    BY <2>5
<1>5. QED
  BY <1>3, <1>4

LEMMA ScannedOther ==
  ASSUME buf = <<>> \/ buf[1] # Escape
  PROVE  Scanned = <<1, 1>>
BY DEF Scanned

\* buf holds the beginning of the answer.
Begun == Len(buf) < Len(Report) /\ \A j \in 1..Len(buf) : buf[j] = Report[j]

\* As soon as anything is made of what was read of the answer, it is the row; and it
\* is when nothing but the last character is missing.
LEMMA ScannedPrefix ==
  ASSUME NEW S, buf \in Seq(S), cursor \in Nat \X Nat, Begun
  PROVE  /\ Scanned = <<1, 1>> \/ Scanned[1] = cursor[1]
         /\ Len(buf) = Len(Report) - 1 => Scanned[1] = cursor[1]
<1> DEFINE row == Decimal(cursor[1])
           col == Decimal(cursor[2])
           r == Report
           n == Len(buf)
           d == DigitsFrom(3)
           e == DigitsFrom(4 + Len(d))
<1>1. /\ row \in Seq(Digits) /\ Len(row) >= 1 /\ Number(row) = cursor[1]
      /\ col \in Seq(Digits) /\ Len(col) >= 1
      /\ Len(r) = 4 + Len(row) + Len(col)
      /\ r[1] = Escape /\ r[2] = Bracket
      /\ \A k \in 1..Len(row) : r[2 + k] = row[k]
      /\ r[3 + Len(row)] = Semicolon
      /\ \A k \in 1..Len(col) : r[3 + Len(row) + k] = col[k]
  BY ReportIs DEF Report
<1>2. n \in Nat /\ n < Len(r) /\ \A j \in 1..n : buf[j] = r[j]
  BY DEF Begun
<1>3. d \in Seq(Digits) /\ e \in Seq(Digits)
  <2>1. d \in Seq(Digits)
    BY DigitsFromType
  <2>2. 4 + Len(d) \in Nat \ {0}
    BY <2>1
  <2> HIDE DEF d
  <2>3. QED
    BY <2>1, <2>2, DigitsFromType
<1>4. Scanned = IF /\ n >= 5 /\ buf[1] = Escape /\ buf[2] = Bracket
                   /\ d # <<>> /\ e # <<>> /\ buf[3 + Len(d)] = Semicolon
                THEN <<Number(d), Number(e)>> ELSE <<1, 1>>
  BY DEF Scanned, Position
<1> HIDE DEF row, col, r, n, d, e
<1>5. Len(row) \in Nat /\ Len(col) \in Nat /\ \A k \in 1..Len(row) : row[k] \in Digits
  BY <1>1
<1>6. \A j \in 3..(2 + Len(row)) : j <= n => buf[j] \in Digits
  <2>1. ASSUME NEW j \in 3..(2 + Len(row)), j <= n
        PROVE  buf[j] \in Digits
    <3> DEFINE k == j - 2
    <3>1. k \in 1..Len(row) /\ 2 + k = j /\ j \in 1..n
      BY <1>2, <1>5, <2>1
    <3> HIDE DEF k
    <3>2. QED
      BY <1>1, <1>2, <1>5, <3>1
  <2>2. QED
    BY <2>1
<1>7. CASE n < 3 + Len(row)
  <2>1. CASE n >= 5
    <3>1. d = SubSeq(buf, 3, n)
      <4>1. \A j \in 3..n : buf[j] \in Digits
        BY <1>2, <1>5, <1>6, <1>7
      <4>2. 3 \in Nat \ {0} /\ n \in Nat /\ 3 <= n + 1 /\ n <= n
        BY <1>2, <2>1
      <4>3. QED
        BY <4>1, <4>2, DigitsFromIs DEF d, n
    <3>2. Len(d) = n - 2
      BY <3>1, <1>2, <2>1 DEF n
    <3>3. e = <<>>
      <4>1. 4 + Len(d) = n + 2
        BY <1>2, <3>2
      <4>2. QED
        BY <4>1, <1>2, NoDigitsBehind DEF e, n
    <3>4. Scanned = <<1, 1>>
      BY <3>3, <1>4
    <3>5. QED
      BY <3>4, <1>1, <1>2, <1>5, <1>7 DEF n, r
  <2>2. CASE ~(n >= 5)
    <3>1. Scanned = <<1, 1>>
      BY <2>2, <1>4
    <3>2. QED
      BY <3>1, <1>1, <1>2, <1>5, <1>7 DEF n, r
  <2>3. QED
    BY <2>1, <2>2
<1>8. CASE n >= 3 + Len(row)
  <2>1. d = row
    <3> DEFINE m == 2 + Len(row)
    <3>1. /\ m \in Nat /\ 3 <= m + 1 /\ m <= n /\ m + 1 = 3 + Len(row)
          /\ m + 1 \in 1..n
      BY <1>1, <1>2, <1>5, <1>8
    <3>2. buf[m + 1] \notin Digits
      <4>1. Semicolon \notin Digits
        BY DEF Digits, Semicolon
      <4> HIDE DEF m
      <4>2. buf[m + 1] = Semicolon
        BY <3>1, <1>1, <1>2
      <4>3. QED
        BY <4>1, <4>2
    <3>3. \A j \in 3..m : buf[j] \in Digits
      BY <3>1, <1>2, <1>6
    <3> HIDE DEF m
    <3>4. d = SubSeq(buf, 3, m)
      BY <3>1, <3>2, <3>3, DigitsFromIs DEF d, n
    <3>5. Len(d) = Len(row) /\ \A k \in 1..Len(row) : d[k] = buf[k + 2]
      BY <3>1, <3>4, <1>2, <1>5 DEF n, m
    <3>6. ASSUME NEW k \in 1..Len(row)
          PROVE  d[k] = row[k]
      <4>1. k + 2 = 2 + k /\ 2 + k \in 1..n
        BY <1>2, <1>5, <1>8
      <4>2. d[k] = buf[k + 2]
        BY <3>5
      <4>3. buf[2 + k] = r[2 + k]
        BY <1>2, <4>1
      <4>4. r[2 + k] = row[k]
        BY <1>1
      <4>5. QED
        BY <4>1, <4>2, <4>3, <4>4
    <3>7. QED
      <4>1. \A k \in 1..Len(d) : d[k] = row[k]
        BY <3>5, <3>6
      <4>2. QED
        BY <3>5, <4>1, <1>1, <1>3, SeqEqual
  <2>2. Scanned = <<1, 1>> \/ Scanned[1] = cursor[1]
    BY <1>1, <1>4, <2>1
  <2>3. ASSUME n = Len(r) - 1
        PROVE  Scanned[1] = cursor[1]
    <3> DEFINE k == 4 + Len(row)
    <3>1. k \in Nat \ {0} /\ k <= n /\ n = 3 + Len(row) + Len(col)
      BY <1>1, <1>2, <1>5, <2>3
    <3>2. buf[k] \in Digits
      <4>1. 1 \in 1..Len(col) /\ 3 + Len(row) + 1 = k /\ k \in 1..n /\ col[1] \in Digits
        BY <1>1, <1>2, <1>5, <3>1
      <4>2. r[3 + Len(row) + 1] = col[1]
        BY <4>1, <1>1
      <4> HIDE DEF k
      <4>3. QED
        BY <4>1, <4>2, <1>2
    <3>3. e # <<>>
      <4>1. 4 + Len(d) = k
        BY <2>1
      <4> HIDE DEF k
      <4>2. QED
        BY <3>1, <3>2, <4>1, SomeDigits DEF e, n
    <3>4. buf[1] = Escape /\ buf[2] = Bracket /\ n >= 5 /\ buf[3 + Len(d)] = Semicolon
      <4>1. 1 \in 1..n /\ 2 \in 1..n /\ 3 + Len(row) \in 1..n /\ n >= 5
        BY <1>1, <1>2, <1>5, <3>1
      <4>2. QED
        BY <4>1, <2>1, <1>1, <1>2
    <3>5. d # <<>>
      BY <1>1, <2>1
    <3>6. Scanned = <<Number(d), Number(e)>>
      BY <3>3, <3>4, <3>5, <1>4
    <3>7. QED
      BY <3>6, <2>1, <1>1
  <2>4. QED
    BY <2>2, <2>3 DEF n, r
<1>9. QED
  BY <1>2, <1>5, <1>7, <1>8
-----------------------------------------------------------------------------
(* The invariant of the terminal. *)

Inputs == Nat \cup Typed \cup Garbage

TerminalTypeOK ==
  /\ ctor \in {"none", "size", "ask", "read", "scan", "place", "placed", "threw"}
  /\ mode \in {"old", "new"}
  /\ cursor \in Cursors \cup {<<1, 1>>}
  /\ ctor # "none" => cursor \in Cursors
  /\ input \in Seq(Inputs) /\ buf \in Seq(Inputs) /\ Len(buf) < BUF_SIZE
  /\ terminal \in {"there", "asked", "answered", "hung up"}
  /\ typed \in Nat /\ failed \in BOOLEAN
  /\ c_start \in Nat \X Nat
  /\ t_rows \in Seq(Nat) /\ Len(t_rows) <= SEGMENTS + 1
  /\ ctor = "place" => Len(t_rows) <= SEGMENTS
  /\ ~Constructed => t_rows = <<>>
  /\ ctor \in {"none", "size", "ask"} => buf = <<>> /\ terminal \in {"there", "hung up"}
  /\ ctor = "none" => terminal = "there" /\ input = <<>> /\ typed = 0

\* What was read and what is to be read begins with something typed.
BeginsTyped ==
  /\ typed # 0
  /\ \/ buf # <<>> /\ buf[1] # Escape
     \/ buf = <<>> /\ input # <<>> /\ input[1] # Escape

\* It is the answer, of which there is more to read.
IsReport ==
  /\ Begun /\ Len(buf) + Len(input) = Len(Report)
  /\ \A j \in 1..Len(input) : input[j] = Report[Len(buf) + j]

\* Unless the terminal goes away: before it answers there is nothing but what was
\* typed; then there is the answer, behind that if there is any; and in the end buf
\* holds all of the answer, or the beginning of it if reading failed or something
\* was typed, or what was typed.
StreamAgrees ==
  terminal # "hung up" =>
    /\ ctor \in {"none", "size", "ask", "read"} /\ terminal # "answered" =>
         BeginsTyped \/ (buf = <<>> /\ input = <<>>)
    /\ ctor = "read" /\ terminal = "answered" => BeginsTyped \/ IsReport
    /\ ctor = "scan" =>
         \/ typed # 0 /\ buf # <<>> /\ buf[1] # Escape
         \/ Begun /\ (typed = 0 /\ ~failed => Len(buf) = Len(Report) - 1)
    /\ Constructed =>
         /\ FirstRow \in {cursor[1], 1}
         /\ typed = 0 /\ ~failed => FirstRow = cursor[1]

\* The rows of the bars follow each other, the next place last.
RowsAgree ==
  /\ \A k \in 1..Len(t_rows) : t_rows[k] + Lines <= c_start[1]
  /\ \A k, l \in 1..Len(t_rows) : k < l => t_rows[k] + Lines <= t_rows[l]

TerminalInv == TerminalTypeOK /\ StreamAgrees /\ RowsAgree

LEMMA CursorType == TerminalTypeOK => cursor \in Nat \X Nat
<1>1. Cursors \subseteq Nat \X Nat
  <2>1. (1..LINES) \X (Nat \ {0}) \subseteq Nat \X Nat
    BY TerminalAssumption
  <2>2. QED
    BY <2>1, TerminalAssumption
<1>2. <<1, 1>> \in Nat \X Nat
  OBVIOUS
<1>3. QED
  BY <1>1, <1>2 DEF TerminalTypeOK

LEMMA ReportLength ==
  ASSUME TerminalTypeOK
  PROVE  /\ Len(Report) \in Nat /\ Len(Report) >= 6 /\ Report \in Seq(Nat)
         /\ ctor # "none" => Len(Report) <= BUF_SIZE
         /\ \A j \in 1..Len(Report) : Report[j] = EndOfReport <=> j = Len(Report)
         /\ Report[1] = Escape
<1>1. cursor \in Nat \X Nat
  BY CursorType
<1>2. /\ Decimal(cursor[1]) \in Seq(Digits) /\ Len(Decimal(cursor[1])) >= 1
      /\ Decimal(cursor[2]) \in Seq(Digits) /\ Len(Decimal(cursor[2])) >= 1
      /\ Report \in Seq(Nat)
      /\ Len(Report) = 4 + Len(Decimal(cursor[1])) + Len(Decimal(cursor[2]))
      /\ Report[1] = Escape
  BY <1>1, ReportIs DEF Report
<1>3. \A j \in 1..Len(Report) : Report[j] = EndOfReport <=> j = Len(Report)
  BY <1>1, ReportEnds DEF Report
<1>4. ctor # "none" => Len(Report) <= BUF_SIZE
  BY TerminalAssumption DEF TerminalTypeOK, Report
<1> HIDE DEF Report
<1>5. QED
  BY <1>2, <1>3, <1>4

LEMMA TerminalStarts == TerminalInit => TerminalInv
<1> SUFFICES ASSUME TerminalInit
             PROVE  TerminalInv
  OBVIOUS
<1>1. TerminalTypeOK
  <2>1. /\ <<>> \in Seq(Inputs) /\ <<>> \in Seq(Nat) /\ Len(<<>>) = 0 /\ <<1, 1>> \in Nat \X Nat
        /\ BUF_SIZE > 0 /\ SEGMENTS + 1 >= 0
    BY TerminalAssumption
  <2>2. QED
    BY <2>1 DEF TerminalInit, TerminalTypeOK, Constructed
<1>2. StreamAgrees
  BY DEF TerminalInit, StreamAgrees, Constructed
<1>3. RowsAgree
  BY DEF TerminalInit, RowsAgree
<1>4. QED
  BY <1>1, <1>2, <1>3 DEF TerminalInv

\* Reading one more character of a stream.
LEMMA ReadPreserves ==
  ASSUME TerminalInv, ReadChar
  PROVE  TerminalInv'
<1> DEFINE c == Head(input)
<1>1. /\ input # <<>> /\ input' = Tail(input) /\ input \in Seq(Inputs) /\ buf \in Seq(Inputs)
      /\ ctor = "read" /\ Len(buf) < BUF_SIZE - 1
      /\ UNCHANGED <<mode, cursor, terminal, typed, failed, c_start, t_rows>>
      /\ \/ c # EndOfReport /\ buf' = Append(buf, c) /\ ctor' = ctor
         \/ c = EndOfReport /\ ctor' = "scan" /\ buf' = buf
  BY DEF ReadChar, MoreToRead, Store, EndsAt, TerminalInv, TerminalTypeOK
<1>2. /\ c \in Inputs /\ c = input[1] /\ Len(input) \in Nat /\ Len(input) >= 1
      /\ Len(input') = Len(input) - 1 /\ input' \in Seq(Inputs)
      /\ \A j \in 1..Len(input') : input'[j] = input[j + 1]
      /\ Len(buf) \in Nat /\ BUF_SIZE \in Nat
  BY <1>1, TerminalAssumption
<1>3. /\ Len(Report) \in Nat /\ Len(Report) >= 6 /\ Len(Report) <= BUF_SIZE
      /\ \A j \in 1..Len(Report) : Report[j] = EndOfReport <=> j = Len(Report)
      /\ Report' = Report
  BY <1>1, ReportLength DEF TerminalInv, Report
<1> HIDE DEF c
<1>4. TerminalTypeOK'
  <2>1. buf' \in Seq(Inputs) /\ Len(buf') < BUF_SIZE
    <3>1. CASE buf' = Append(buf, c)
      <4>1. Append(buf, c) \in Seq(Inputs) /\ Len(Append(buf, c)) = Len(buf) + 1
        BY <1>1, <1>2
      <4>2. QED
        BY <3>1, <4>1, <1>1, <1>2
    <3>2. CASE buf' = buf
      BY <3>2, <1>1, <1>2
    <3>3. QED
      BY <1>1, <3>1, <3>2
  <2>2. QED
    BY <1>1, <1>2, <2>1 DEF TerminalInv, TerminalTypeOK, Constructed
<1>5. ASSUME BeginsTyped
      PROVE  /\ ctor' = "read" => BeginsTyped'
             /\ ctor' = "scan" => typed' # 0 /\ (buf' = <<>> \/ buf'[1] # Escape)
  <2>1. typed' # 0
    BY <1>1, <1>5 DEF BeginsTyped
  <2>2. CASE buf # <<>> /\ buf[1] # Escape
    <3>1. CASE buf' = buf
      BY <2>1, <2>2, <3>1, <1>1 DEF BeginsTyped
    <3>2. CASE buf' = Append(buf, c)
      <4>1. buf' # <<>> /\ buf'[1] = buf[1]
        BY <2>2, <3>2, <1>1
      <4>2. QED
        BY <2>1, <2>2, <4>1 DEF BeginsTyped
    <3>3. QED
      BY <1>1, <3>1, <3>2
  <2>3. CASE buf = <<>> /\ c # Escape
    <3>1. CASE c = EndOfReport
      BY <1>1, <2>1, <2>3, <3>1
    <3>2. CASE c # EndOfReport
      <4>1. buf' # <<>> /\ buf'[1] = c /\ ctor' = "read"
        BY <1>1, <1>2, <2>3, <3>2
      <4>2. QED
        BY <4>1, <2>1, <2>3 DEF BeginsTyped
    <3>3. QED
      BY <3>1, <3>2
  <2>4. QED
    BY <1>2, <1>5, <2>2, <2>3 DEF BeginsTyped
<1>6. ASSUME IsReport
      PROVE  /\ ctor' = "read" => IsReport'
             /\ ctor' = "scan" => Begun' /\ Len(buf') = Len(Report) - 1
  <2>1. /\ Len(buf) < Len(Report) /\ Len(buf) + Len(input) = Len(Report)
        /\ \A j \in 1..Len(buf) : buf[j] = Report[j]
        /\ \A j \in 1..Len(input) : input[j] = Report[Len(buf) + j]
    BY <1>6 DEF IsReport, Begun
  <2>2. c = Report[Len(buf) + 1] /\ Len(buf) + 1 \in 1..Len(Report)
    BY <2>1, <1>2, <1>3
  <2>3. CASE c = EndOfReport
    <3>1. Len(buf) + 1 = Len(Report) /\ buf' = buf /\ ctor' = "scan"
      BY <1>1, <1>3, <2>2, <2>3
    <3>2. Len(buf) = Len(Report) - 1
      BY <3>1, <1>2, <1>3
    <3>3. QED
      BY <3>1, <3>2, <2>1, <1>3 DEF Begun
  <2>4. CASE c # EndOfReport
    <3>1. buf' = Append(buf, c) /\ ctor' = "read" /\ Len(buf) + 1 # Len(Report)
      BY <1>1, <1>3, <2>2, <2>4
    <3>2. Len(buf') = Len(buf) + 1 /\ Len(buf') < Len(Report)
      BY <3>1, <2>1, <1>1, <1>2, <1>3
    <3>3. \A j \in 1..Len(buf') : buf'[j] = Report[j]
      BY <3>1, <3>2, <2>1, <2>2, <1>1, <1>2
    <3>4. ASSUME NEW j \in 1..Len(input')
          PROVE  input'[j] = Report[Len(buf') + j]
      <4>1. j + 1 \in 1..Len(input) /\ Len(buf) + (j + 1) = Len(buf') + j
        BY <3>2, <1>2
      <4>2. QED
        BY <4>1, <2>1, <1>2
    <3>5. QED
      BY <3>1, <3>2, <3>3, <3>4, <2>1, <1>2, <1>3 DEF IsReport, Begun
  <2>5. QED
    BY <2>3, <2>4
<1>7. ASSUME buf' = <<>>
      PROVE  Begun'
  BY <1>7, <1>3 DEF Begun
<1>8. terminal # "hung up" => BeginsTyped \/ IsReport
  BY <1>1 DEF TerminalInv, TerminalTypeOK, StreamAgrees
<1>9. StreamAgrees'
  BY <1>1, <1>3, <1>5, <1>6, <1>7, <1>8, terminal' = terminal DEF StreamAgrees, Constructed, TerminalInv
<1>10. RowsAgree'
  BY <1>1 DEF RowsAgree, TerminalInv
<1>11. QED
  BY <1>4, <1>9, <1>10 DEF TerminalInv

LEMMA Bounds ==
  /\ BUF_SIZE \in Nat /\ SEGMENTS \in Nat /\ LINES \in Nat
  /\ Lines \in Nat /\ Lines >= 2
BY TerminalAssumption DEF Lines

\* A terminal that hung up answers no more, whatever is read.
LEMMA ReadNothingPreserves ==
  ASSUME TerminalInv, ReadNothing
  PROVE  TerminalInv'
<1>1. PICK c \in Garbage : Store(c)
  BY DEF ReadNothing
<1>2. /\ ctor = "read" /\ Len(buf) < BUF_SIZE - 1 /\ terminal = "hung up"
      /\ UNCHANGED <<mode, cursor, input, terminal, typed, failed, c_start, t_rows>>
      /\ \/ buf' = Append(buf, c) /\ ctor' = ctor
         \/ ctor' = "scan" /\ buf' = buf
      /\ buf \in Seq(Inputs) /\ c \in Inputs
  BY <1>1 DEF ReadNothing, MoreToRead, Store, TerminalInv, TerminalTypeOK, Inputs
<1>3. buf' \in Seq(Inputs) /\ Len(buf') < BUF_SIZE
  <2>1. CASE buf' = Append(buf, c)
    <3>1. buf \in Seq(Inputs) /\ c \in Inputs /\ Len(buf) < BUF_SIZE - 1 /\ BUF_SIZE \in Nat
      BY <1>2, Bounds
    <3>2. Append(buf, c) \in Seq(Inputs) /\ Len(Append(buf, c)) = Len(buf) + 1 /\ Len(buf) \in Nat
      BY <3>1
    <3>3. QED
      BY <2>1, <3>1, <3>2
  <2>2. CASE buf' = buf
    BY <2>2 DEF TerminalInv, TerminalTypeOK
  <2>3. QED
    BY <1>2, <2>1, <2>2
<1>4. TerminalTypeOK'
  BY <1>2, <1>3 DEF TerminalInv, TerminalTypeOK, Constructed
<1>5. QED
  BY <1>2, <1>4 DEF TerminalInv, StreamAgrees, RowsAgree

\* Where reading ends without the answer's last character.
LEMMA StopPreserves ==
  ASSUME TerminalInv, StopReading
  PROVE  TerminalInv'
<1>1. /\ ctor = "read" /\ ctor' = "scan" /\ ~(Len(buf) < BUF_SIZE - 1)
      /\ UNCHANGED <<mode, cursor, input, terminal, typed, failed, buf, c_start, t_rows>>
  BY DEF StopReading, MoreToRead
<1>2. /\ Len(Report) \in Nat /\ Len(Report) >= 6 /\ Len(Report) <= BUF_SIZE
      /\ Len(buf) \in Nat /\ Len(buf) = BUF_SIZE - 1 /\ BUF_SIZE \in Nat
      /\ Report' = Report
  <2>1. Len(Report) \in Nat /\ Len(Report) >= 6 /\ Len(Report) <= BUF_SIZE
    BY <1>1, ReportLength DEF TerminalInv
  <2>2. buf \in Seq(Inputs) /\ Len(buf) < BUF_SIZE /\ BUF_SIZE \in Nat
    BY TerminalAssumption DEF TerminalInv, TerminalTypeOK
  <2>3. QED
    BY <1>1, <2>1, <2>2 DEF Report
<1>3. TerminalTypeOK'
  BY <1>1 DEF TerminalInv, TerminalTypeOK, Constructed
<1>4. terminal # "hung up" => BeginsTyped \/ IsReport
  <2>1. buf # <<>>
    BY <1>2
  <2>2. terminal \in {"there", "asked", "answered", "hung up"}
    BY DEF TerminalInv, TerminalTypeOK
  <2>3. QED
    BY <1>1, <2>1, <2>2 DEF TerminalInv, StreamAgrees
<1>5. BeginsTyped => typed' # 0 /\ buf' # <<>> /\ buf'[1] # Escape
  BY <1>1, <1>2 DEF BeginsTyped
<1>6. IsReport => Begun' /\ Len(buf') = Len(Report') - 1
  <2>1. ASSUME IsReport
        PROVE  Len(buf) = Len(Report) - 1
    BY <2>1, <1>2 DEF IsReport, Begun
  <2>2. IsReport => Begun'
    BY <1>1, <1>2 DEF IsReport, Begun
  <2>3. QED
    BY <2>1, <2>2, <1>1, <1>2
<1>7. StreamAgrees'
  BY <1>1, <1>4, <1>5, <1>6 DEF StreamAgrees, Constructed
<1>8. RowsAgree'
  BY <1>1 DEF RowsAgree, TerminalInv
<1>9. QED
  BY <1>3, <1>7, <1>8 DEF TerminalInv

LEMMA FailPreserves ==
  ASSUME TerminalInv, ReadFails
  PROVE  TerminalInv'
<1>1. /\ ctor = "read" /\ ctor' = "scan" /\ failed' = TRUE
      /\ UNCHANGED <<mode, cursor, input, terminal, typed, buf, c_start, t_rows>>
  BY DEF ReadFails, MoreToRead
<1>2. TerminalTypeOK'
  BY <1>1 DEF TerminalInv, TerminalTypeOK, Constructed
<1>3. Len(Report) >= 6 /\ Len(Report) \in Nat /\ Report' = Report
  BY <1>1, ReportLength DEF TerminalInv, Report
<1>4. terminal # "hung up" => (typed # 0 /\ buf # <<>> /\ buf[1] # Escape) \/ Begun
  <2>1. buf = <<>> => Begun
    BY <1>3 DEF Begun
  <2>2. terminal \in {"there", "asked", "answered", "hung up"}
    BY DEF TerminalInv, TerminalTypeOK
  <2>3. QED
    BY <1>1, <2>1, <2>2 DEF TerminalInv, StreamAgrees, BeginsTyped, IsReport
<1>5. StreamAgrees'
  <2>1. Begun' = Begun
    BY <1>1, <1>3 DEF Begun
  <2>2. QED
    BY <1>1, <1>4, <2>1 DEF StreamAgrees, Constructed
<1>6. RowsAgree'
  BY <1>1 DEF RowsAgree, TerminalInv
<1>7. QED
  BY <1>2, <1>5, <1>6 DEF TerminalInv

\* What is made of what was read is the row, or the first one.
LEMMA ScanPreserves ==
  ASSUME TerminalInv, Scan
  PROVE  TerminalInv'
<1>1. /\ ctor = "scan" /\ ctor' = "place" /\ c_start' = Scanned /\ buf' = <<>> /\ mode' = "old"
      /\ UNCHANGED <<cursor, input, terminal, typed, failed, t_rows>>
  BY DEF Scan
<1>2. t_rows = <<>> /\ buf \in Seq(Inputs) /\ cursor \in Nat \X Nat
  BY <1>1, CursorType DEF TerminalInv, TerminalTypeOK, Constructed
<1>3. Scanned \in Nat \X Nat
  BY <1>2, ScannedType
<1>4. TerminalTypeOK'
  <2>1. <<>> \in Seq(Inputs) /\ Len(<<>>) = 0 /\ 0 < BUF_SIZE /\ 0 <= SEGMENTS
    BY TerminalAssumption
  <2>2. QED
    BY <1>1, <1>2, <1>3, <2>1 DEF TerminalInv, TerminalTypeOK, Constructed
<1>5. /\ Scanned[1] \in {cursor[1], 1} \/ ~(Begun \/ (buf # <<>> /\ buf[1] # Escape))
      /\ Begun /\ Len(buf) = Len(Report) - 1 => Scanned[1] = cursor[1]
  <2>1. Begun => Scanned = <<1, 1>> \/ Scanned[1] = cursor[1]
    BY <1>2, ScannedPrefix
  <2>2. buf # <<>> /\ buf[1] # Escape => Scanned = <<1, 1>>
    BY ScannedOther
  <2>3. Begun /\ Len(buf) = Len(Report) - 1 => Scanned[1] = cursor[1]
    BY <1>2, ScannedPrefix
  <2> HIDE DEF Scanned
  <2>4. QED
    BY <2>1, <2>2, <2>3
<1>6. FirstRow' = Scanned[1]
  BY <1>1, <1>2 DEF FirstRow
<1>7. StreamAgrees'
  BY <1>1, <1>5, <1>6 DEF TerminalInv, StreamAgrees, Constructed
<1>8. RowsAgree'
  BY <1>1, <1>2 DEF RowsAgree
<1>9. QED
  BY <1>4, <1>7, <1>8 DEF TerminalInv

LEMMA AllocatePreserves ==
  ASSUME TerminalInv, AllocateSpace
  PROVE  TerminalInv'
<1> DEFINE n == Len(t_rows)
<1>1. /\ ctor = "place" /\ t_rows' = Append(t_rows, c_start[1])
      /\ c_start' = [c_start EXCEPT ![1] = @ + Lines]
      /\ ctor' = IF Len(t_rows') > SEGMENTS THEN "placed" ELSE ctor
      /\ UNCHANGED <<mode, cursor, input, terminal, typed, failed, buf>>
      /\ c_start \in Nat \X Nat /\ t_rows \in Seq(Nat) /\ n \in Nat /\ n <= SEGMENTS
      /\ SEGMENTS \in Nat /\ Lines \in Nat /\ Lines >= 2
  <2>1. /\ ctor = "place" /\ t_rows' = Append(t_rows, c_start[1])
        /\ c_start' = [c_start EXCEPT ![1] = @ + Lines]
        /\ ctor' = IF Len(t_rows') > SEGMENTS THEN "placed" ELSE ctor
        /\ UNCHANGED <<mode, cursor, input, terminal, typed, failed, buf>>
    BY DEF AllocateSpace
  <2>2. c_start \in Nat \X Nat /\ t_rows \in Seq(Nat) /\ n <= SEGMENTS
    BY <2>1, Zenon DEF TerminalInv, TerminalTypeOK
  <2>3. n \in Nat
    BY <2>2
  <2>4. QED
    BY <2>1, <2>2, <2>3, Bounds, Zenon
<1>2. /\ t_rows' \in Seq(Nat) /\ Len(t_rows') = n + 1 /\ t_rows'[n + 1] = c_start[1]
      /\ \A k \in 1..n : t_rows'[k] = t_rows[k]
      /\ c_start' \in Nat \X Nat /\ c_start'[1] = c_start[1] + Lines
  BY <1>1
<1>3. TerminalTypeOK'
  <2>1. ctor' \in {"place", "placed"} /\ (ctor' = "place" => Len(t_rows') <= SEGMENTS)
    BY <1>1, <1>2
  <2>2. Len(t_rows') <= SEGMENTS + 1
    BY <1>1, <1>2
  <2> HIDE DEF n
  <2>3. QED
    BY <1>1, <1>2, <2>1, <2>2 DEF TerminalInv, TerminalTypeOK, Constructed
<1>4. FirstRow' = FirstRow
  <2>1. CASE t_rows = <<>>
    BY <2>1, <1>1, <1>2 DEF FirstRow
  <2>2. CASE t_rows # <<>>
    <3>1. 1 \in 1..n
      BY <2>2, <1>1
    <3>3. t_rows' # <<>>
      BY <1>1, <1>2
    <3>2. QED
      BY <2>2, <3>1, <3>3, <1>2 DEF FirstRow
  <2>3. QED
    BY <2>1, <2>2
<1>5. StreamAgrees'
  <2>1. Constructed /\ Constructed' /\ ctor' \in {"place", "placed"}
    BY <1>1 DEF Constructed
  <2>2. QED
    BY <1>1, <1>4, <2>1 DEF TerminalInv, StreamAgrees
<1>6. RowsAgree'
  <2>1. /\ \A k \in 1..n : t_rows[k] + Lines <= c_start[1]
        /\ \A k, l \in 1..n : k < l => t_rows[k] + Lines <= t_rows[l]
        /\ \A k \in 1..n : t_rows[k] \in Nat
    BY <1>1 DEF TerminalInv, RowsAgree
  <2> HIDE DEF n
  <2>2. ASSUME NEW k \in 1..(n + 1)
        PROVE  t_rows'[k] + Lines <= c_start'[1]
    <3>1. CASE k = n + 1
      BY <3>1, <1>1, <1>2
    <3>2. CASE k # n + 1
      <4>1. k \in 1..n
        BY <3>2, <1>1
      <4>2. QED
        BY <4>1, <2>1, <1>1, <1>2
    <3>3. QED
      BY <3>1, <3>2
  <2>3. ASSUME NEW k \in 1..(n + 1), NEW l \in 1..(n + 1), k < l
        PROVE  t_rows'[k] + Lines <= t_rows'[l]
    <3>1. k \in 1..n
      BY <2>3, <1>1
    <3>2. CASE l = n + 1
      BY <3>1, <3>2, <2>1, <1>2
    <3>3. CASE l # n + 1
      <4>1. l \in 1..n
        BY <3>3, <1>1
      <4>2. QED
        BY <3>1, <4>1, <2>1, <2>3, <1>2
    <3>4. QED
      BY <3>2, <3>3
  <2>4. (Lines' = Lines) /\ Len(t_rows') = n + 1
    BY <1>2 DEF Lines
  <2>5. QED
    BY <2>2, <2>3, <2>4 DEF RowsAgree
<1>7. QED
  BY <1>3, <1>5, <1>6 DEF TerminalInv

LEMMA SizePreserves ==
  ASSUME TerminalInv, GetSize
  PROVE  TerminalInv'
<1>1. /\ ctor = "size" /\ ctor' \in {"ask", "threw"}
      /\ UNCHANGED <<mode, cursor, input, terminal, typed, failed, buf, c_start, t_rows>>
  BY DEF GetSize
<1>2. TerminalTypeOK'
  BY <1>1 DEF TerminalInv, TerminalTypeOK, Constructed
<1>3. StreamAgrees'
  BY <1>1 DEF TerminalInv, TerminalTypeOK, StreamAgrees, BeginsTyped, Constructed
<1>4. RowsAgree'
  BY <1>1 DEF RowsAgree, TerminalInv
<1>5. QED
  BY <1>2, <1>3, <1>4 DEF TerminalInv

LEMMA AskPreserves ==
  ASSUME TerminalInv, Ask
  PROVE  TerminalInv'
<1>1. /\ ctor = "ask" /\ ctor' = "read" /\ mode' = "new"
      /\ terminal' = IF terminal = "there" THEN "asked" ELSE terminal
      /\ UNCHANGED <<cursor, input, typed, failed, buf, c_start, t_rows>>
      /\ terminal \in {"there", "hung up"}
  BY DEF Ask, TerminalInv, TerminalTypeOK
<1>2. TerminalTypeOK'
  BY <1>1 DEF TerminalInv, TerminalTypeOK, Constructed
<1>3. StreamAgrees'
  BY <1>1 DEF TerminalInv, TerminalTypeOK, StreamAgrees, BeginsTyped, Constructed
<1>4. RowsAgree'
  BY <1>1 DEF RowsAgree, TerminalInv
<1>5. QED
  BY <1>2, <1>3, <1>4 DEF TerminalInv

LEMMA HangUpPreserves ==
  ASSUME TerminalInv, HangUp
  PROVE  TerminalInv'
<1>1. /\ ctor \in {"ask", "read"} /\ terminal' = "hung up"
      /\ UNCHANGED <<ctor, mode, cursor, input, typed, failed, buf, c_start, t_rows>>
  BY DEF HangUp
<1>2. TerminalTypeOK'
  BY <1>1 DEF TerminalInv, TerminalTypeOK, Constructed
<1>3. StreamAgrees'
  BY <1>1 DEF StreamAgrees
<1>4. RowsAgree'
  BY <1>1 DEF RowsAgree, TerminalInv
<1>5. QED
  BY <1>2, <1>3, <1>4 DEF TerminalInv

\* The answer comes behind what was typed.
LEMMA AnswerPreserves ==
  ASSUME TerminalInv, Answer
  PROVE  TerminalInv'
<1>1. /\ terminal = "asked" /\ terminal' = "answered" /\ input' = input \o Report
      /\ UNCHANGED <<ctor, mode, cursor, typed, failed, buf, c_start, t_rows>>
      /\ input \in Seq(Inputs) /\ buf \in Seq(Inputs)
      /\ ctor \notin {"none", "size", "ask"}
  BY DEF Answer, TerminalInv, TerminalTypeOK
<1>2. Report \in Seq(Nat) /\ Len(Report) \in Nat /\ Len(Report) >= 6 /\ Report' = Report
  BY <1>1, ReportLength DEF TerminalInv, Report
<1>3. input' \in Seq(Inputs)
  <2>1. Report \in Seq(Inputs)
    BY <1>2 DEF Inputs
  <2> HIDE DEF Report
  <2>2. QED
    BY <1>1, <2>1
<1>4. TerminalTypeOK'
  BY <1>1, <1>3 DEF TerminalInv, TerminalTypeOK, Constructed
<1> HIDE DEF Report
<1>5. BeginsTyped => BeginsTyped'
  <2>1. ASSUME input # <<>>
        PROVE  input' # <<>> /\ input'[1] = input[1]
    BY <2>1, <1>1, <1>2
  <2>2. QED
    BY <1>1, <2>1 DEF BeginsTyped
<1>6. buf = <<>> /\ input = <<>> => IsReport'
  <2> SUFFICES ASSUME buf = <<>>, input = <<>>
               PROVE  IsReport'
    OBVIOUS
  <2>1. input' = Report /\ buf' = <<>>
    BY <1>1, <1>2
  <2>2. QED
    BY <2>1, <1>2 DEF IsReport, Begun
<1>7. StreamAgrees'
  <2>1. ctor = "read" => BeginsTyped \/ (buf = <<>> /\ input = <<>>)
    BY <1>1 DEF TerminalInv, StreamAgrees
  <2>2. Begun' = Begun /\ FirstRow' = FirstRow /\ Constructed' = Constructed
    BY <1>1, <1>2 DEF Begun, FirstRow, Constructed
  <2>3. ctor \in {"read", "scan", "place", "placed", "threw"}
    BY <1>1 DEF TerminalInv, TerminalTypeOK
  <2>4. ctor' = "read" => BeginsTyped' \/ IsReport'
    BY <2>1, <1>1, <1>5, <1>6
  <2>5. ~(ctor' \in {"none", "size", "ask", "read"} /\ terminal' # "answered")
    BY <1>1
  <2>6. terminal # "hung up"
    BY <1>1
  <2>7. QED
    BY <1>1, <1>2, <2>2, <2>4, <2>5, <2>6 DEF TerminalInv, StreamAgrees
<1>8. RowsAgree'
  BY <1>1 DEF RowsAgree, TerminalInv
<1>9. QED
  BY <1>4, <1>7, <1>8 DEF TerminalInv

LEMMA TypePreserves ==
  ASSUME TerminalInv, Type
  PROVE  TerminalInv'
<1>1. PICK c \in Typed : input' = Append(input, c)
  BY DEF Type
<1>2. /\ ctor \in {"size", "ask", "read"} /\ terminal \in {"there", "asked"} /\ typed' = typed + 1
      /\ UNCHANGED <<ctor, mode, cursor, terminal, failed, buf, c_start, t_rows>>
      /\ input \in Seq(Inputs) /\ c \in Inputs /\ typed \in Nat
  BY DEF Type, TerminalInv, TerminalTypeOK, Inputs
<1>3. input' \in Seq(Inputs) /\ typed' # 0 /\ typed' \in Nat
  BY <1>1, <1>2
<1>4. TerminalTypeOK'
  BY <1>2, <1>3 DEF TerminalInv, TerminalTypeOK, Constructed
<1>5. BeginsTyped => BeginsTyped'
  <2>1. input # <<>> => input' # <<>> /\ input'[1] = input[1]
    BY <1>1, <1>2
  <2>2. QED
    BY <1>2, <1>3, <2>1 DEF BeginsTyped
<1>6. buf = <<>> /\ input = <<>> => BeginsTyped'
  <2>1. input = <<>> => input' # <<>> /\ input'[1] = c
    BY <1>1, <1>2
  <2>2. c # Escape
    BY TerminalAssumption
  <2>3. QED
    BY <1>2, <1>3, <2>1, <2>2 DEF BeginsTyped
<1>7. StreamAgrees'
  BY <1>2, <1>5, <1>6 DEF TerminalInv, StreamAgrees, Constructed
<1>8. RowsAgree'
  BY <1>2 DEF RowsAgree, TerminalInv
<1>9. QED
  BY <1>4, <1>7, <1>8 DEF TerminalInv

LEMMA TerminalSteps ==
  ASSUME TerminalInv, Construct \/ Outside
  PROVE  TerminalInv'
BY ReadPreserves, ReadNothingPreserves, StopPreserves, FailPreserves, ScanPreserves,
   AllocatePreserves, SizePreserves, AskPreserves, HangUpPreserves, AnswerPreserves,
   TypePreserves DEF Construct, Outside

\* Rows that are two apart are shown apart, unless both are below the screen.
LEMMA RowsAreOwn == TerminalInv => OwnRows
<1> SUFFICES ASSUME TerminalInv,
                    NEW k \in DOMAIN t_rows, NEW l \in DOMAIN t_rows,
                    NEW d \in {0, 1}, NEW e \in {0, 1},
                    Shown(t_rows[k] + d) = Shown(t_rows[l] + e),
                    Shown(t_rows[k] + d) # LINES
             PROVE  k = l /\ d = e
  BY Zenon DEF OwnRows
<1>1. /\ k \in 1..Len(t_rows) /\ l \in 1..Len(t_rows) /\ t_rows[k] \in Nat /\ t_rows[l] \in Nat
      /\ \A z, y \in 1..Len(t_rows) : z < y => t_rows[z] + Lines <= t_rows[y]
      /\ Lines \in Nat /\ Lines >= 2 /\ LINES \in Nat
  <2>1. t_rows \in Seq(Nat)
    BY DEF TerminalInv, TerminalTypeOK
  <2>2. DOMAIN t_rows = 1..Len(t_rows)
    BY <2>1
  <2>3. k \in 1..Len(t_rows) /\ l \in 1..Len(t_rows)
    BY <2>2
  <2>4. t_rows[k] \in Nat /\ t_rows[l] \in Nat
    BY <2>1, <2>3
  <2>5. QED
    BY <2>3, <2>4, Bounds DEF TerminalInv, RowsAgree
<1>2. t_rows[k] + d = t_rows[l] + e
  BY <1>1 DEF Shown
<1>3. k \in Nat /\ l \in Nat
  BY <1>1
<1>4. CASE k < l
  <2>1. t_rows[k] + Lines <= t_rows[l]
    BY <1>1, <1>4
  <2>2. QED
    BY <1>1, <1>2, <2>1
<1>5. CASE l < k
  <2>1. t_rows[l] + Lines <= t_rows[k]
    BY <1>1, <1>5
  <2>2. QED
    BY <1>1, <1>2, <2>1
<1>6. CASE k = l
  BY <1>1, <1>2, <1>6
<1>7. QED
  BY <1>3, <1>4, <1>5, <1>6
-----------------------------------------------------------------------------
(* Both invariants from step to step. *)

LEMMA RendererStarts ==
  ASSUME ParserInv, TerminalInv, CreateRenderer
  PROVE  ParserInv' /\ TerminalInv'
<1>1. /\ parser = "parsed" /\ ctor = "none" /\ ctor' = "size" /\ cursor' \in Cursors
      /\ argv' = <<>> /\ i' = 1 /\ visited' = {} /\ config' = NoConfig
      /\ UNCHANGED <<parser, mode, input, terminal, typed, failed, buf, c_start, t_rows>>
  BY DEF CreateRenderer
<1>2. ParserInv'
  <2>1. Len(argv') = 0
    BY <1>1
  <2>2. Options' = {}
    <3>1. Options' \subseteq 1..Len(argv')
      BY DEF Options
    <3>2. QED
      BY <2>1, <3>1
  <2>3. ParserTypeOK'
    BY <1>1, <2>1 DEF ParserTypeOK
  <2>4. LoopAgrees'
    BY <1>1 DEF LoopAgrees
  <2>5. Legal'
    BY <2>2 DEF Legal, ValueIsMissing
  <2>6. config' = Saying'
    <3>1. \A names, reading : {k \in Options' : Name(argv'[k]) \in names} = {}
      BY <2>2
    <3>2. Saying' = [t \in DOMAIN NoConfig |-> IF t = "show_progress" THEN FALSE ELSE <<>>]
      BY <2>2, <3>1 DEF Saying, Said
    <3>3. QED
      BY <1>1, <3>2 DEF NoConfig
  <2>7. ReadAsWritten'
    BY <1>1, <2>5, <2>6 DEF ReadAsWritten
  <2>8. QED
    BY <2>3, <2>4, <2>7 DEF ParserInv
<1>3. TerminalTypeOK'
  BY <1>1 DEF TerminalInv, TerminalTypeOK, Constructed
<1>4. StreamAgrees'
  BY <1>1 DEF TerminalInv, TerminalTypeOK, StreamAgrees, BeginsTyped, Constructed
<1>5. RowsAgree'
  BY <1>1 DEF TerminalInv, RowsAgree
<1>6. QED
  BY <1>2, <1>3, <1>4, <1>5 DEF TerminalInv

LEMMA ParserKept ==
  ASSUME ParserInv, UNCHANGED parserVars
  PROVE  ParserInv'
<1>1. UNCHANGED <<argv, i, visited, config, parser>>
  BY DEF parserVars
<1>2. Options' = Options
  BY <1>1 DEF Options, Alone
<1>3. ParserTypeOK'
  BY <1>1 DEF ParserInv, ParserTypeOK
<1>4. LoopAgrees'
  <2>1. OptionsRead' = OptionsRead
    BY <1>1, <1>2 DEF OptionsRead
  <2>2. SayingSoFar' = SayingSoFar
    BY <1>1, <2>1 DEF SayingSoFar, SaidSoFar, IsOn, ValueOf
  <2>3. QED
    BY <1>1, <1>2, <2>1, <2>2 DEF ParserInv, LoopAgrees, Alone
<1>5. ReadAsWritten'
  <2>1. Legal' = Legal /\ ValueIsMissing' = ValueIsMissing /\ Saying' = Saying
    BY <1>1, <1>2 DEF Legal, ValueIsMissing, Saying, Said, Alone, IsOn, ValueOf
  <2>2. QED
    BY <1>1, <2>1 DEF ParserInv, ReadAsWritten
<1>6. QED
  BY <1>3, <1>4, <1>5 DEF ParserInv

LEMMA TerminalKept ==
  ASSUME TerminalInv, UNCHANGED terminalVars
  PROVE  TerminalInv'
BY ZenonT(30) DEF terminalVars, TerminalInv, TerminalTypeOK, StreamAgrees, RowsAgree, BeginsTyped, IsReport,
       Begun, Report, Constructed, FirstRow

\* A run reads its command line, then creates the renderer, which asks the terminal.
StartupInv == ParserInv /\ TerminalInv

LEMMA StartupInvariance == Spec => []StartupInv
<1>1. Init => StartupInv
  BY ParserStarts, TerminalStarts DEF Init, StartupInv
<1>2. StartupInv /\ [Next]_vars => StartupInv'
  <2> SUFFICES ASSUME StartupInv, [Next]_vars
               PROVE  StartupInv'
    OBVIOUS
  <2>1. CASE parse_args /\ UNCHANGED terminalVars
    BY <2>1, ParserSteps, TerminalKept DEF StartupInv
  <2>2. CASE CreateRenderer
    BY <2>2, RendererStarts DEF StartupInv
  <2>3. CASE (Construct \/ Outside) /\ UNCHANGED parserVars
    BY <2>3, ParserKept, TerminalSteps DEF StartupInv
  <2>4. CASE UNCHANGED vars
    BY <2>4, ParserKept, TerminalKept DEF StartupInv, vars
  <2>5. QED
    BY <2>1, <2>2, <2>3, <2>4 DEF Next, Program
<1>3. QED
  BY <1>1, <1>2, PTL DEF Spec

\* The variables of parse_args and of the renderer's constructor have their types:
\* buf never overflows, nor do the rows.
THEOREM StartupTypes == Spec => []TypeOK
<1>1. StartupInv => TypeOK
  BY DEF StartupInv, ParserInv, ParserTypeOK, TerminalInv, TerminalTypeOK, TypeOK
<1>2. QED
  BY <1>1, StartupInvariance, PTL

\* Whatever the command line, and however long: it passes parse_args only if it is
\* legal, and then the configuration is what it says, read without a loop.
THEOREM CommandLineRead == Spec => []ReadAsWritten
<1>1. StartupInv => ReadAsWritten
  BY DEF StartupInv, ParserInv
<1>2. QED
  BY <1>1, StartupInvariance, PTL

\* Wherever the cursor is, whatever was typed before the answer, wherever reading
\* stops and whatever number of segments there is: the bars begin at the cursor or
\* in the first row, and each has rows of its own.
THEOREM BarsBegin == Spec => []BeginsAtCursor
<1>1. StartupInv => BeginsAtCursor
  BY RowsAreOwn DEF StartupInv, TerminalInv, StreamAgrees, BeginsAtCursor
<1>2. QED
  BY <1>1, StartupInvariance, PTL

-----------------------------------------------------------------------------
(* The table of decode() against the definition of UTF-8. *)

\* The second half of a class.
LEMMA ClassIs ==
  ASSUME NEW b \in 0..255
  PROVE  Class(b) = IF b < 128 THEN 0 ELSE IF b < 144 THEN 1 ELSE IF b < 160 THEN 9 ELSE IF b < 192 THEN 7
                    ELSE IF b < 194 THEN 8 ELSE IF b < 224 THEN 2 ELSE IF b = 224 THEN 10
                    ELSE IF b = 237 THEN 4 ELSE IF b < 240 THEN 3 ELSE IF b = 240 THEN 11
                    ELSE IF b < 244 THEN 6 ELSE IF b = 244 THEN 5 ELSE 8
BY SMTT(30) DEF Class

Follows(b) == 128 <= b /\ b < 192
Pair2(a, b) == 194 <= a /\ a < 224 /\ Follows(b)
Pair3(a, b) ==
  \/ a = 224 /\ 160 <= b /\ b < 192
  \/ 224 < a /\ a < 240 /\ a # 237 /\ Follows(b)
  \/ a = 237 /\ 128 <= b /\ b < 160
Pair4(a, b) ==
  \/ a = 240 /\ 144 <= b /\ b < 192
  \/ 240 < a /\ a < 244 /\ Follows(b)
  \/ a = 244 /\ 128 <= b /\ b < 144

\* Well-formed, by its first two bytes.
Formed(s) ==
  \/ Len(s) = 1 /\ 0 <= s[1] /\ s[1] < 128
  \/ Len(s) = 2 /\ Pair2(s[1], s[2])
  \/ Len(s) = 3 /\ Pair3(s[1], s[2]) /\ Follows(s[3])
  \/ Len(s) = 4 /\ Pair4(s[1], s[2]) /\ Follows(s[3]) /\ Follows(s[4])

\* The number of bytes, by comparisons.
LEMMA LengthIs ==
  ASSUME NEW v \in Int
  PROVE  ByteLength(v) = IF 0 <= v /\ v < 128 THEN 1 ELSE IF 128 <= v /\ v < 2048 THEN 2
                         ELSE IF 2048 <= v /\ v < 65536 THEN 3 ELSE 4
<1>1. v \in TwoBytes <=> 128 <= v /\ v < 2048
  BY SMT DEF TwoBytes
<1>2. v \in ThreeBytes <=> 2048 <= v /\ v < 65536
  BY SMT DEF ThreeBytes
<1>3. v \in 0..127 <=> 0 <= v /\ v < 128
  BY SMT
<1>4. QED
  BY <1>1, <1>2, <1>3, SMT DEF ByteLength

\* The code points but the surrogates, by comparisons.
LEMMA ScalarIs ==
  ASSUME NEW v \in Int
  PROVE  Scalar(v) <=> 0 <= v /\ v <= 1114111 /\ ~(55296 <= v /\ v < 57344)
<1>1. v \in 55296..57343 <=> 55296 <= v /\ v < 57344
  BY SMT
<1>2. QED
  BY <1>1, SMT DEF Scalar

\* The first bytes of each length, by comparisons.
LEMMA LeadBytes ==
  ASSUME NEW a \in Int
  PROVE  /\ a \in LeadOf(1) <=> 0 <= a /\ a < 128
         /\ a \in LeadOf(2) <=> 192 <= a /\ a < 224
         /\ a \in LeadOf(3) <=> 224 <= a /\ a < 240
         /\ a \in LeadOf(4) <=> 240 <= a /\ a < 248
<1>1. LeadOf(1) = 0..127
  BY SMT DEF LeadOf
<1>2. LeadOf(2) = 192..223
  BY SMT DEF LeadOf
<1>3. LeadOf(3) = 224..239
  BY SMT DEF LeadOf
<1>4. LeadOf(4) = 240..247
  BY SMT DEF LeadOf
<1>5. QED
  BY <1>1, <1>2, <1>3, <1>4, SMT

\* The bytes behind the first, one by one.
LEMMA AllFollow ==
  ASSUME NEW s, NEW b \in Int, NEW c \in Int, NEW d \in Int
  PROVE  /\ s[2] = b => ((\A w \in 2..2 : s[w] \in 128..191) <=> Follows(b))
         /\ s[2] = b /\ s[3] = c => ((\A w \in 2..3 : s[w] \in 128..191) <=> Follows(b) /\ Follows(c))
         /\ s[2] = b /\ s[3] = c /\ s[4] = d =>
              ((\A w \in 2..4 : s[w] \in 128..191) <=> Follows(b) /\ Follows(c) /\ Follows(d))
<1>1. 2..2 = {2} /\ 2..3 = {2, 3} /\ 2..4 = {2, 3, 4}
  BY SMT
<1>2. \A b0 \in Int : b0 \in 128..191 <=> Follows(b0)
  BY SMT DEF Follows
<1>3. QED
  BY <1>1, <1>2, SMT

\* What the value of three bytes leaves out is what Pair3 does.
LEMMA ThreeInRange ==
  ASSUME NEW a \in Int, NEW b \in Int, NEW c \in Int, NEW v \in Int,
         224 <= a, a < 240, Follows(b), Follows(c), v = a * 4096 + b * 64 + c - 925824
  PROVE  Pair3(a, b) <=> 2048 <= v /\ v < 65536 /\ ~(55296 <= v /\ v < 57344)
BY SMT DEF Pair3, Follows

\* The same for four bytes.
LEMMA FourInRange ==
  ASSUME NEW a \in Int, NEW b \in Int, NEW c \in Int, NEW d \in Int, NEW v \in Int,
         240 <= a, a < 248, Follows(b), Follows(c), Follows(d),
         v = a * 262144 + b * 4096 + c * 64 + d - 63447168
  PROVE  Pair4(a, b) <=> 65536 <= v /\ v <= 1114111
BY SMT DEF Pair4, Follows

\* The arithmetic of the definition and the pairs agree.
LEMMA CompleteIs ==
  ASSUME NEW s \in Seq(Int), \A w \in 1..Len(s) : 0 <= s[w] /\ s[w] < 256
  PROVE  Complete(s) <=> Formed(s)
<1>0. Len(s) \in Nat /\ \A w \in 1..Len(s) : s[w] \in Int
  OBVIOUS
<1>1. CASE Len(s) = 1
  <2>1. PICK a \in Int : a = s[1] /\ 0 <= a /\ a < 256
    BY <1>0, <1>1
  <2>2. Value(s) = a
    BY <1>1, <2>1, SMT DEF Value
  <2>3. a \in LeadOf(1) <=> 0 <= a /\ a < 128
    BY LeadBytes, SMT
  <2>4. Complete(s) <=> a \in LeadOf(1) /\ Scalar(a) /\ ByteLength(a) = 1
    BY <1>1, <2>1, <2>2, SMT DEF Complete
  <2>5. QED
    BY <1>1, <2>1, <2>3, <2>4, LengthIs, ScalarIs, SMT DEF Formed
<1>2. CASE Len(s) = 2
  <2>1. PICK a \in Int : a = s[1] /\ 0 <= a /\ a < 256
    BY <1>0, <1>2
  <2>2. PICK b \in Int : b = s[2] /\ 0 <= b /\ b < 256
    BY <1>0, <1>2
  <2>3. PICK v \in Int : v = (a - 192) * 64 + b - 128
    BY <2>1, <2>2
  <2>4. Value(s) = v
    BY <1>2, <2>1, <2>2, <2>3, SMT DEF Value
  <2>5. a \in LeadOf(2) <=> 192 <= a /\ a < 224
    BY LeadBytes, SMT
  <2>8. (\A w \in 2..2 : s[w] \in 128..191) <=> Follows(b)
    BY <2>2, AllFollow, SMT
  <2>6. Complete(s) <=> a \in LeadOf(2) /\ Follows(b) /\ Scalar(v) /\ ByteLength(v) = 2
    BY <1>2, <2>1, <2>4, <2>8, SMT DEF Complete
  <2>7. QED
    BY <1>2, <2>1, <2>2, <2>3, <2>5, <2>6, LengthIs, ScalarIs, SMTT(20) DEF Formed, Pair2, Follows
<1>3. CASE Len(s) = 3
  <2>1. PICK a \in Int : a = s[1] /\ 0 <= a /\ a < 256
    BY <1>0, <1>3
  <2>2. PICK b \in Int : b = s[2] /\ 0 <= b /\ b < 256
    BY <1>0, <1>3
  <2>3. PICK c \in Int : c = s[3] /\ 0 <= c /\ c < 256
    BY <1>0, <1>3
  <2>10. PICK u \in Int : u = (a - 224) * 64 + b - 128
    BY <2>1, <2>2, SMTT(20)
  <2>4. PICK v \in Int : v = u * 64 + c - 128
    BY <2>3
  <2>5. Value(s) = v
    BY <1>3, <2>1, <2>2, <2>3, <2>4, <2>10, SMT DEF Value
  <2>6. a \in LeadOf(3) <=> 224 <= a /\ a < 240
    BY LeadBytes, SMT
  <2>7. (\A w \in 2..3 : s[w] \in 128..191) <=> Follows(b) /\ Follows(c)
    BY <2>2, <2>3, AllFollow, SMT
  <2>8. Complete(s) <=> a \in LeadOf(3) /\ Follows(b) /\ Follows(c) /\ Scalar(v) /\ ByteLength(v) = 3
    BY <1>3, <2>1, <2>5, <2>7, SMT DEF Complete
  <2>9. Scalar(v) /\ ByteLength(v) = 3 <=> 2048 <= v /\ v < 65536 /\ ~(55296 <= v /\ v < 57344)
    BY <2>4, LengthIs, ScalarIs, SMT
  <2>11. v = a * 4096 + b * 64 + c - 925824
    BY <2>4, <2>10, SMT
  <2>12. 224 <= a /\ a < 240 /\ Follows(b) /\ Follows(c) =>
           (Scalar(v) /\ ByteLength(v) = 3 <=> Pair3(a, b))
    BY <2>9, <2>11, ThreeInRange, SMT
  <2>13. Pair3(a, b) => 224 <= a /\ a < 240 /\ Follows(b)
    BY SMT DEF Pair3, Follows
  <2>14. QED
    BY <1>3, <2>1, <2>2, <2>3, <2>6, <2>8, <2>12, <2>13, SMT DEF Formed
<1>4. CASE Len(s) = 4
  <2>1. PICK a \in Int : a = s[1] /\ 0 <= a /\ a < 256
    BY <1>0, <1>4
  <2>2. PICK b \in Int : b = s[2] /\ 0 <= b /\ b < 256
    BY <1>0, <1>4
  <2>3. PICK c \in Int : c = s[3] /\ 0 <= c /\ c < 256
    BY <1>0, <1>4
  <2>4. PICK d \in Int : d = s[4] /\ 0 <= d /\ d < 256
    BY <1>0, <1>4
  <2>11. PICK t \in Int : t = (a - 240) * 64 + b - 128
    BY <2>1, <2>2, SMTT(20)
  <2>12. PICK u \in Int : u = t * 64 + c - 128
    BY <2>3
  <2>5. PICK v \in Int : v = u * 64 + d - 128
    BY <2>4
  <2>6. Value(s) = v
    BY <1>4, <2>1, <2>2, <2>3, <2>4, <2>5, <2>11, <2>12, SMT DEF Value
  <2>7. a \in LeadOf(4) <=> 240 <= a /\ a < 248
    BY LeadBytes, SMT
  <2>8. (\A w \in 2..4 : s[w] \in 128..191) <=> Follows(b) /\ Follows(c) /\ Follows(d)
    BY <2>2, <2>3, <2>4, AllFollow, SMT
  <2>9. Complete(s) <=> a \in LeadOf(4) /\ Follows(b) /\ Follows(c) /\ Follows(d) /\ Scalar(v) /\ ByteLength(v) = 4
    BY <1>4, <2>1, <2>6, <2>8, SMT DEF Complete
  <2>10. Scalar(v) /\ ByteLength(v) = 4 <=> 65536 <= v /\ v <= 1114111
    BY <2>5, LengthIs, ScalarIs, SMT
  <2>13. v = a * 262144 + b * 4096 + c * 64 + d - 63447168
    BY <2>5, <2>11, <2>12, SMT
  <2>14. 240 <= a /\ a < 248 /\ Follows(b) /\ Follows(c) /\ Follows(d) =>
           (Scalar(v) /\ ByteLength(v) = 4 <=> Pair4(a, b))
    BY <2>10, <2>13, FourInRange, SMT
  <2>15. Pair4(a, b) => 240 <= a /\ a < 248 /\ Follows(b)
    BY SMT DEF Pair4, Follows
  <2>16. QED
    BY <1>4, <2>1, <2>2, <2>3, <2>4, <2>7, <2>9, <2>14, <2>15, SMT DEF Formed
<1>5. CASE Len(s) \notin 1..4
  BY <1>5, SMT DEF Complete, Formed
<1>6. QED
  BY <1>0, <1>1, <1>2, <1>3, <1>4, <1>5

-----------------------------------------------------------------------------
(* The states of decode(). *)

\* What the state of decode says of the bytes of the code point.
Reached(st, s) ==
  /\ st = 0 => Formed(s)
  /\ st = 1 =>
       \/ Len(s) = 1 /\ ((128 <= s[1] /\ s[1] < 194) \/ 245 <= s[1])
       \/ Len(s) = 2 /\ \/ 194 <= s[1] /\ s[1] < 224 /\ ~Follows(s[2])
                        \/ 224 <= s[1] /\ s[1] < 240 /\ ~Pair3(s[1], s[2])
                        \/ 240 <= s[1] /\ s[1] < 245 /\ ~Pair4(s[1], s[2])
       \/ Len(s) = 3 /\ (Pair3(s[1], s[2]) \/ Pair4(s[1], s[2])) /\ ~Follows(s[3])
       \/ Len(s) = 4 /\ Pair4(s[1], s[2]) /\ Follows(s[3]) /\ ~Follows(s[4])
  /\ st = 2 =>
       \/ Len(s) = 1 /\ 194 <= s[1] /\ s[1] < 224
       \/ Len(s) = 2 /\ Pair3(s[1], s[2])
       \/ Len(s) = 3 /\ Pair4(s[1], s[2]) /\ Follows(s[3])
  /\ st = 3 =>
       \/ Len(s) = 1 /\ 224 < s[1] /\ s[1] < 240 /\ s[1] # 237
       \/ Len(s) = 2 /\ Pair4(s[1], s[2])
  /\ st = 4 => Len(s) = 1 /\ s[1] = 224
  /\ st = 5 => Len(s) = 1 /\ s[1] = 237
  /\ st = 6 => Len(s) = 1 /\ s[1] = 240
  /\ st = 7 => Len(s) = 1 /\ 240 < s[1] /\ s[1] < 244
  /\ st = 8 => Len(s) = 1 /\ s[1] = 244

\* The second table, row by row.
LEMMA FirstByte ==
  ASSUME NEW b \in 0..255, NEW t, t = NextState(0, Class(b))
  PROVE  t = IF b < 128 THEN 0 ELSE IF b < 194 THEN 1 ELSE IF b < 224 THEN 2 ELSE IF b = 224 THEN 4
             ELSE IF b = 237 THEN 5 ELSE IF b < 240 THEN 3 ELSE IF b = 240 THEN 6
             ELSE IF b < 244 THEN 7 ELSE IF b = 244 THEN 8 ELSE 1
BY ClassIs, SMTT(30) DEF NextState, UTF8_ACCEPT

\* The classes on the way from each state, as Unicode's table has them.
LEMMA LeadsIs ==
  ASSUME NEW t
  PROVE  /\ Leads(2, t) = IF t = 0 THEN {1, 7, 9} ELSE {}
         /\ Leads(3, t) = IF t = 2 THEN {1, 7, 9} ELSE {}
         /\ Leads(4, t) = IF t = 2 THEN {7} ELSE {}
         /\ Leads(5, t) = IF t = 2 THEN {1, 9} ELSE {}
         /\ Leads(6, t) = IF t = 3 THEN {7, 9} ELSE {}
         /\ Leads(7, t) = IF t = 3 THEN {1, 7, 9} ELSE {}
         /\ Leads(8, t) = IF t = 3 THEN {1} ELSE {}
<1>1. Leads(2, t) = IF t = 0 THEN {1, 7, 9} ELSE {}
  BY SMT DEF Leads, Continuation
<1>2. Leads(3, t) = IF t = 2 THEN {1, 7, 9} ELSE {}
  BY SMT DEF Leads, Continuation
<1>3. Leads(4, t) = IF t = 2 THEN {7} ELSE {}
  BY SMT DEF Leads, NotOverlong
<1>4. Leads(5, t) = IF t = 2 THEN {1, 9} ELSE {}
  BY SMT DEF Leads
<1>5. Leads(6, t) = IF t = 3 THEN {7, 9} ELSE {}
  BY SMT DEF Leads
<1>6. Leads(7, t) = IF t = 3 THEN {1, 7, 9} ELSE {}
  BY SMT DEF Leads, Continuation
<1>7. Leads(8, t) = IF t = 3 THEN {1} ELSE {}
  BY SMT DEF Leads
<1>8. QED
  BY <1>1, <1>2, <1>3, <1>4, <1>5, <1>6, <1>7

\* A class that leads to one state at most leads there or to reject.
LEMMA OneWayOn ==
  ASSUME NEW st \in 2..8, NEW c, NEW t \in {0, 2, 3},
         \A u \in {0, 2, 3} : c \in Leads(st, u) => u = t
  PROVE  NextState(st, c) = IF c \in Leads(st, t) THEN t ELSE 1
<1> DEFINE on == {u \in {0, 2, 3} : c \in Leads(st, u)}
<1>1. CASE c \in Leads(st, t)
  <2>1. on = {t}
    BY <1>1
  <2>2. QED
    BY <1>1, <2>1, SMT DEF NextState, UTF8_ACCEPT
<1>2. CASE c \notin Leads(st, t)
  <2>1. on = {}
    BY <1>2
  <2>2. QED
    BY <1>2, <2>1, SMT DEF NextState, UTF8_ACCEPT, UTF8_REJECT
<1>3. QED
  BY <1>1, <1>2

\* The step of each state, by the byte.
LEMMA NextByte ==
  ASSUME NEW b \in 0..255
  PROVE  /\ NextState(2, Class(b)) = IF Follows(b) THEN 0 ELSE 1
         /\ NextState(3, Class(b)) = IF Follows(b) THEN 2 ELSE 1
         /\ NextState(4, Class(b)) = IF 160 <= b /\ b < 192 THEN 2 ELSE 1
         /\ NextState(5, Class(b)) = IF 128 <= b /\ b < 160 THEN 2 ELSE 1
         /\ NextState(6, Class(b)) = IF 144 <= b /\ b < 192 THEN 3 ELSE 1
         /\ NextState(7, Class(b)) = IF Follows(b) THEN 3 ELSE 1
         /\ NextState(8, Class(b)) = IF 128 <= b /\ b < 144 THEN 3 ELSE 1
<1> DEFINE c == Class(b)
<1>1. /\ c \in {1, 7, 9} <=> Follows(b)
      /\ c \in {7} <=> 160 <= b /\ b < 192
      /\ c \in {1, 9} <=> 128 <= b /\ b < 160
      /\ c \in {7, 9} <=> 144 <= b /\ b < 192
      /\ c \in {1} <=> 128 <= b /\ b < 144
  BY ClassIs, SMT DEF Follows
<1> HIDE DEF c
<1>2. NextState(2, c) = IF c \in {1, 7, 9} THEN 0 ELSE 1
  BY LeadsIs, OneWayOn, SMT
<1>3. NextState(3, c) = IF c \in {1, 7, 9} THEN 2 ELSE 1
  BY LeadsIs, OneWayOn, SMT
<1>4. NextState(4, c) = IF c \in {7} THEN 2 ELSE 1
  BY LeadsIs, OneWayOn, SMT
<1>5. NextState(5, c) = IF c \in {1, 9} THEN 2 ELSE 1
  BY LeadsIs, OneWayOn, SMT
<1>6. NextState(6, c) = IF c \in {7, 9} THEN 3 ELSE 1
  BY LeadsIs, OneWayOn, SMT
<1>7. NextState(7, c) = IF c \in {1, 7, 9} THEN 3 ELSE 1
  BY LeadsIs, OneWayOn, SMT
<1>8. NextState(8, c) = IF c \in {1} THEN 3 ELSE 1
  BY LeadsIs, OneWayOn, SMT
<1>9. QED
  BY <1>1, <1>2, <1>3, <1>4, <1>5, <1>6, <1>7, <1>8 DEF c

\* Bytes are numbers below 256.
LEMMA BytesAre ==
  ASSUME NEW s \in Seq(0..255)
  PROVE  /\ s \in Seq(Int) /\ Len(s) \in Nat
         /\ \A w \in 1..Len(s) : s[w] \in Int /\ 0 <= s[w] /\ s[w] < 256
<1>1. \A w \in 1..Len(s) : s[w] \in 0..255
  BY ElementOfSeq
<1>2. \A b \in 0..255 : b \in Int /\ 0 <= b /\ b < 256
  BY SMT
<1>3. Len(s) \in Nat /\ s = [w \in 1..Len(s) |-> s[w]]
  BY LenProperties
<1>6. s \in [1..Len(s) -> Int]
  BY <1>1, <1>2, <1>3
<1>4. s \in Seq(Int)
  BY <1>3, <1>6, SMT
<1>5. QED
  BY <1>1, <1>2, <1>3, <1>4

\* The first byte of a code point.
LEMMA ReachedFirst ==
  ASSUME NEW b \in 0..255
  PROVE  /\ NextState(0, Class(b)) \in 0..8
         /\ Reached(NextState(0, Class(b)), <<b>>)
<1> DEFINE s == <<b>>
<1>1. Len(s) = 1 /\ s[1] = b
  OBVIOUS
<1>2. PICK t : t = NextState(0, Class(b))
  OBVIOUS
<1> HIDE DEF s
<1>3. t \in 0..8 /\ Reached(t, s)
  BY <1>1, <1>2, FirstByte, SMT DEF Reached, Formed
<1>4. QED
  BY <1>2, <1>3 DEF s

\* One more byte.
LEMMA ReachedNext ==
  ASSUME NEW st \in 2..8, NEW s \in Seq(0..255), Reached(st, s), NEW b \in 0..255
  PROVE  /\ NextState(st, Class(b)) \in 0..8
         /\ Reached(NextState(st, Class(b)), Append(s, b))
<1>1. PICK t : t = NextState(st, Class(b))
  OBVIOUS
<1>2. PICK z : z = Append(s, b)
  OBVIOUS
<1> DEFINE c == Class(b)
<1>11. /\ NextState(2, c) = IF Follows(b) THEN 0 ELSE 1
       /\ NextState(3, c) = IF Follows(b) THEN 2 ELSE 1
       /\ NextState(4, c) = IF 160 <= b /\ b < 192 THEN 2 ELSE 1
       /\ NextState(5, c) = IF 128 <= b /\ b < 160 THEN 2 ELSE 1
       /\ NextState(6, c) = IF 144 <= b /\ b < 192 THEN 3 ELSE 1
       /\ NextState(7, c) = IF Follows(b) THEN 3 ELSE 1
       /\ NextState(8, c) = IF 128 <= b /\ b < 144 THEN 3 ELSE 1
  BY NextByte
<1>12. t = NextState(st, c)
  BY <1>1
<1> HIDE DEF c
<1>10. /\ st = 2 => t = IF Follows(b) THEN 0 ELSE 1
       /\ st = 3 => t = IF Follows(b) THEN 2 ELSE 1
       /\ st = 4 => t = IF 160 <= b /\ b < 192 THEN 2 ELSE 1
       /\ st = 5 => t = IF 128 <= b /\ b < 160 THEN 2 ELSE 1
       /\ st = 6 => t = IF 144 <= b /\ b < 192 THEN 3 ELSE 1
       /\ st = 7 => t = IF Follows(b) THEN 3 ELSE 1
       /\ st = 8 => t = IF 128 <= b /\ b < 144 THEN 3 ELSE 1
  BY <1>11, <1>12
<1>3. Len(s) \in 1..3
  BY SMT DEF Reached
<1>4. Len(z) = Len(s) + 1 /\ z[Len(s) + 1] = b /\ \A w \in 1..Len(s) : z[w] = s[w]
  BY <1>2
<1>5. PICK n \in 1..3 : n = Len(s)
  BY <1>3
<1>6. CASE n = 1
  <2>1. Len(z) = 2 /\ z[1] = s[1] /\ z[2] = b
    BY <1>4, <1>5, <1>6
  <2>2. Len(s) = 1 /\ 1 \in 1..Len(s)
    BY <1>5, <1>6
  <2>3. PICK a \in Int : a = s[1]
    BY <2>2, BytesAre
  <2>4. /\ st = 2 => 194 <= a /\ a < 224
        /\ st = 3 => 224 < a /\ a < 240 /\ a # 237
        /\ st = 4 => a = 224
        /\ st = 5 => a = 237
        /\ st = 6 => a = 240
        /\ st = 7 => 240 < a /\ a < 244
        /\ st = 8 => a = 244
    BY <2>2, <2>3, SMT DEF Reached
  <2>5. t \in {0, 1, 2, 3}
    BY <1>10, SMT
  <2>6. t = 0 => Pair2(a, b)
    BY <1>10, <2>4, SMT DEF Pair2
  <2>7. t = 1 => \/ 194 <= a /\ a < 224 /\ ~Follows(b)
                 \/ 224 <= a /\ a < 240 /\ ~Pair3(a, b)
                 \/ 240 <= a /\ a < 245 /\ ~Pair4(a, b)
    BY <1>10, <2>4, SMT DEF Pair3, Pair4, Follows
  <2>8. t = 2 => Pair3(a, b)
    BY <1>10, <2>4, SMT DEF Pair3
  <2>9. t = 3 => Pair4(a, b)
    BY <1>10, <2>4, SMT DEF Pair4
  <2>10. Reached(t, z)
    BY <2>1, <2>3, <2>5, <2>6, <2>7, <2>8, <2>9, SMT DEF Reached, Formed
  <2>11. QED
    BY <1>1, <1>2, <2>5, <2>10
<1>7. CASE n = 2
  <2>1. Len(z) = 3 /\ z[1] = s[1] /\ z[2] = s[2] /\ z[3] = b
    BY <1>4, <1>5, <1>7
  <2>2. Len(s) = 2
    BY <1>5, <1>7
  <2>3. \/ st = 2 /\ Pair3(s[1], s[2])
        \/ st = 3 /\ Pair4(s[1], s[2])
    BY <2>2, SMT DEF Reached
  <2>4. CASE st = 2 /\ Pair3(s[1], s[2])
    <3>1. t = IF Follows(b) THEN 0 ELSE 1
      BY <1>10, <2>4
    <3>2. Reached(t, z)
      BY <2>1, <2>4, <3>1, SMT DEF Reached, Formed
    <3>3. QED
      BY <1>1, <1>2, <3>1, <3>2
  <2>5. CASE st = 3 /\ Pair4(s[1], s[2])
    <3>1. t = IF Follows(b) THEN 2 ELSE 1
      BY <1>10, <2>5
    <3>2. Reached(t, z)
      BY <2>1, <2>5, <3>1, SMT DEF Reached, Formed
    <3>3. QED
      BY <1>1, <1>2, <3>1, <3>2
  <2>6. QED
    BY <2>3, <2>4, <2>5
<1>8. CASE n = 3
  <2>1. Len(z) = 4 /\ z[1] = s[1] /\ z[2] = s[2] /\ z[3] = s[3] /\ z[4] = b
    BY <1>4, <1>5, <1>8
  <2>2. Len(s) = 3
    BY <1>5, <1>8
  <2>3. st = 2 /\ Pair4(s[1], s[2]) /\ Follows(s[3])
    BY <2>2, SMT DEF Reached
  <2>4. t = IF Follows(b) THEN 0 ELSE 1
    BY <1>10, <2>3
  <2>5. Reached(t, z)
    BY <2>1, <2>3, <2>4, SMT DEF Reached, Formed
  <2>6. QED
    BY <1>1, <1>2, <2>4, <2>5
<1>9. QED
  BY <1>6, <1>7, <1>8

\* What strict asks for, in terms of the states.
LEMMA ReachedStrict ==
  ASSUME NEW st \in 0..8, NEW s \in Seq(0..255), Reached(st, s)
  PROVE  (st = 1 <=> ~Completable(s)) /\ (st = 0 <=> Complete(s))
<1>0. Len(s) \in Nat /\ \A w \in 1..Len(s) : s[w] \in Int /\ 0 <= s[w] /\ s[w] < 256
  BY BytesAre
<1>1. Complete(s) <=> Formed(s)
  <2>1. s \in Seq(Int) /\ \A w \in 1..Len(s) : 0 <= s[w] /\ s[w] < 256
    BY BytesAre
  <2>2. QED
    BY <2>1, CompleteIs
<1>2. st # 0 => ~Formed(s)
  <2> DEFINE a == s[1]
             b == s[2]
  <2>4. Len(s) \in 1..4 => a \in Int
    BY <1>0
  <2>5. Len(s) \in 2..4 => b \in Int
    BY <1>0
  <2> HIDE DEF a, b
  <2>6. Len(s) = 2 => a \in Int /\ b \in Int
    BY <2>4, <2>5
  <2>1. CASE st = 1
    BY <2>1, <2>4, <2>5, SMTT(30) DEF Reached, Formed, Pair2, Pair3, Pair4, Follows, a, b
  <2>2. CASE st \in 2..8
    BY <2>2, <2>4, <2>5, SMTT(30) DEF Reached, Formed, Pair2, Pair3, Pair4, Follows, a, b
  <2>3. QED
    BY <2>1, <2>2
<1>3. st = 0 <=> Complete(s)
  BY <1>1, <1>2 DEF Reached
<1>4. ASSUME NEW n \in 0..3, NEW tail \in [1..n -> {128, 191}]
      PROVE  /\ s \o tail \in Seq(0..255) /\ Len(s \o tail) = Len(s) + n
             /\ \A w \in 1..Len(s) : (s \o tail)[w] = s[w]
             /\ \A w \in 1..n : (s \o tail)[Len(s) + w] = tail[w]
             /\ Complete(s \o tail) <=> Formed(s \o tail)
  <2>1. tail \in Seq({128, 191}) /\ Len(tail) = n
    BY SMT
  <2>2. tail \in Seq(0..255)
    BY <2>1, SMT
  <2>3. PICK z : z = s \o tail
    OBVIOUS
  <2>4. z \in Seq(0..255) /\ Len(z) = Len(s) + n
    BY <2>1, <2>2, <2>3
  <2>5. z \in Seq(Int) /\ \A w \in 1..Len(z) : 0 <= z[w] /\ z[w] < 256
    BY <2>4, BytesAre
  <2>6. Complete(z) <=> Formed(z)
    BY <2>5, CompleteIs
  <2>7. QED
    BY <2>1, <2>3, <2>4, <2>6
<1>5. st = 1 => ~Completable(s)
  <2> SUFFICES ASSUME st = 1, NEW n \in 0..3, NEW tail \in [1..n -> {128, 191}], Complete(s \o tail)
               PROVE  FALSE
    BY DEF Completable
  <2>1. PICK z : z = s \o tail
    OBVIOUS
  <2>2. Formed(z) /\ Len(z) = Len(s) + n /\ \A w \in 1..Len(s) : z[w] = s[w]
    BY <1>4, <2>1
  <2>3. CASE Len(s) = 1
    <3>1. z[1] = s[1] /\ Len(z) = 1 + n /\ s[1] \in Int
      BY <1>0, <2>2, <2>3
    <3>2. QED
      BY <2>2, <2>3, <3>1, SMT DEF Reached, Formed, Pair2, Pair3, Pair4, Follows
  <2>4. CASE Len(s) = 2
    <3>1. z[1] = s[1] /\ z[2] = s[2] /\ Len(z) = 2 + n
      BY <2>2, <2>4
    <3>3. s[1] \in Int /\ s[2] \in Int
      BY <1>0, <2>4
    <3>2. QED
      BY <2>2, <2>4, <3>1, <3>3, SMT DEF Reached, Formed, Pair2, Pair3, Pair4, Follows
  <2>5. CASE Len(s) = 3
    <3>1. z[1] = s[1] /\ z[2] = s[2] /\ z[3] = s[3] /\ Len(z) = 3 + n
      BY <2>2, <2>5
    <3>2. QED
      BY <2>2, <2>5, <3>1, SMT DEF Reached, Formed, Pair2, Pair3, Pair4, Follows
  <2>6. CASE Len(s) = 4
    <3>1. z[1] = s[1] /\ z[2] = s[2] /\ z[3] = s[3] /\ z[4] = s[4] /\ Len(z) = 4 + n
      BY <2>2, <2>6
    <3>2. ~Follows(s[4])
      BY <2>6, SMT DEF Reached
    <3>3. QED
      BY <2>2, <2>6, <3>1, <3>2, SMT DEF Formed
  <2>7. QED
    BY <2>3, <2>4, <2>5, <2>6, SMT DEF Reached
<1>6. ASSUME st # 1
      PROVE  Completable(s)
  <2>1. CASE st = 0
    <3>1. <<>> \in [1..0 -> {128, 191}] /\ s \o <<>> = s
      BY SMT
    <3>2. Complete(s \o <<>>)
      BY <1>3, <2>1, <3>1
    <3>3. \E tail \in [1..0 -> {128, 191}] : Complete(s \o tail)
      BY <3>1, <3>2, Zenon
    <3>4. 0 \in 0..3
      OBVIOUS
    <3>5. QED
      BY <3>3, <3>4, Zenon DEF Completable
  <2> DEFINE last == [w \in 1..1 |-> 128]
             two(a) == [w \in 1..2 |-> IF w = 1 THEN a ELSE 128]
             three(a) == [w \in 1..3 |-> IF w = 1 THEN a ELSE 128]
  <2>2. CASE st = 2
    <3>1. last \in [1..1 -> {128, 191}] /\ last[1] = 128
      BY SMT
    <3> HIDE DEF last
    <3>2. PICK z : z = s \o last
      OBVIOUS
    <3>3. Len(z) = Len(s) + 1 /\ \A w \in 1..Len(s) : z[w] = s[w]
      BY <1>4, <3>1, <3>2
    <3>6. z[Len(s) + 1] = 128 /\ (Complete(z) <=> Formed(z))
      BY <1>4, <3>1, <3>2
    <3>4. Formed(z)
      <4>1. CASE Len(s) = 1
        <5>1. Len(z) = 2 /\ z[1] = s[1] /\ z[2] = 128
          BY <3>3, <3>6, <4>1
        <5>2. QED
          BY <2>2, <4>1, <5>1, SMT DEF Reached, Formed, Pair2, Follows
      <4>2. CASE Len(s) = 2
        <5>1. Len(z) = 3 /\ z[1] = s[1] /\ z[2] = s[2] /\ z[3] = 128
          BY <3>3, <3>6, <4>2
        <5>2. QED
          BY <2>2, <4>2, <5>1, SMT DEF Reached, Formed, Follows
      <4>3. CASE Len(s) = 3
        <5>1. Len(z) = 4 /\ z[1] = s[1] /\ z[2] = s[2] /\ z[3] = s[3] /\ z[4] = 128
          BY <3>3, <3>6, <4>3
        <5>2. QED
          BY <2>2, <4>3, <5>1, SMT DEF Reached, Formed, Follows
      <4>4. QED
        BY <2>2, <4>1, <4>2, <4>3, SMT DEF Reached
    <3>5. QED
      BY <3>1, <3>2, <3>4, <3>6, SMT DEF Completable
  <2>3. CASE st \in 3..5
    <3> DEFINE a == IF st = 4 THEN 191 ELSE 128
    <3>1. two(a) \in [1..2 -> {128, 191}] /\ two(a)[1] = a /\ two(a)[2] = 128
      BY SMT
    <3> HIDE DEF a, two
    <3>2. PICK tail \in [1..2 -> {128, 191}] : tail[1] = a /\ tail[2] = 128
      BY <3>1, ZenonT(30)
    <3>3. PICK z : z = s \o tail
      OBVIOUS
    <3>4. Len(z) = Len(s) + 2 /\ \A w \in 1..Len(s) : z[w] = s[w]
      BY <1>4, <3>3
    <3>5. z[Len(s) + 1] = a /\ z[Len(s) + 2] = 128 /\ (Complete(z) <=> Formed(z))
      BY <1>4, <3>2, <3>3
    <3>6. Formed(z)
      <4>1. CASE Len(s) = 1
        <5>1. Len(z) = 3 /\ z[1] = s[1] /\ z[2] = a /\ z[3] = 128
          BY <3>4, <3>5, <4>1
        <5>2. QED
          BY <2>3, <4>1, <5>1, SMT DEF a, Reached, Formed, Pair3, Follows
      <4>2. CASE Len(s) = 2
        <5>1. Len(z) = 4 /\ z[1] = s[1] /\ z[2] = s[2] /\ z[3] = a /\ z[4] = 128
          BY <3>4, <3>5, <4>2
        <5>2. QED
          BY <2>3, <4>2, <5>1, SMT DEF a, Reached, Formed, Follows
      <4>3. QED
        BY <2>3, <4>1, <4>2, SMT DEF Reached
    <3>7. QED
      BY <3>3, <3>5, <3>6, SMT DEF Completable
  <2>4. CASE st \in 6..8
    <3> DEFINE a == IF st = 6 THEN 191 ELSE 128
    <3>1. three(a) \in [1..3 -> {128, 191}] /\ three(a)[1] = a /\ three(a)[2] = 128 /\ three(a)[3] = 128
      BY SMT
    <3> HIDE DEF a, three
    <3>2. PICK tail \in [1..3 -> {128, 191}] : tail[1] = a /\ tail[2] = 128 /\ tail[3] = 128
      BY <3>1, ZenonT(30)
    <3>3. PICK z : z = s \o tail
      OBVIOUS
    <3>4. Len(s) = 1
      BY <2>4, SMT DEF Reached
    <3>5. Len(z) = 4 /\ z[1] = s[1]
      BY <1>4, <3>3, <3>4
    <3>6. z[2] = a /\ z[3] = 128 /\ z[4] = 128 /\ (Complete(z) <=> Formed(z))
      BY <1>4, <3>2, <3>3, <3>4
    <3>7. Formed(z)
      BY <2>4, <3>4, <3>5, <3>6, SMT DEF a, Reached, Formed, Pair4, Follows
    <3>8. QED
      BY <3>3, <3>6, <3>7, SMT DEF Completable
  <2>5. QED
    BY <1>6, <2>1, <2>2, <2>3, <2>4
<1>7. QED
  BY <1>3, <1>5, <1>6

-----------------------------------------------------------------------------
(* The ranges that scan_string asks for. *)

\* What next_byte_in_range still asks for, by the state of decode.
RangesIn(st) ==
  CASE st = 2 -> << Later >>
    [] st = 3 -> << Later, Later >>
    [] st = 4 -> << 160..191, Later >>
    [] st = 5 -> << 128..159, Later >>
    [] st = 6 -> << 144..191, Later, Later >>
    [] st = 7 -> << Later, Later, Later >>
    [] st = 8 -> << 128..143, Later, Later >>

\* The ranges that follow each state.
LEMMA RangesAre ==
  /\ RangesIn(2) = << Later >>
  /\ RangesIn(3) = << Later, Later >>
  /\ RangesIn(4) = << 160..191, Later >>
  /\ RangesIn(5) = << 128..159, Later >>
  /\ RangesIn(6) = << 144..191, Later, Later >>
  /\ RangesIn(7) = << Later, Later, Later >>
  /\ RangesIn(8) = << 128..143, Later, Later >>
<1>1. RangesIn(2) = << Later >>
  BY SMT DEF RangesIn
<1>2. RangesIn(3) = << Later, Later >>
  BY SMT DEF RangesIn
<1>3. RangesIn(4) = << 160..191, Later >>
  BY SMT DEF RangesIn
<1>4. RangesIn(5) = << 128..159, Later >>
  BY SMT DEF RangesIn
<1>5. RangesIn(6) = << 144..191, Later, Later >>
  BY SMT DEF RangesIn
<1>6. RangesIn(7) = << Later, Later, Later >>
  BY SMT DEF RangesIn
<1>7. RangesIn(8) = << 128..143, Later, Later >>
  BY SMT DEF RangesIn
<1>8. QED
  BY <1>1, <1>2, <1>3, <1>4, <1>5, <1>6, <1>7, Zenon

\* The reader's first bytes are those of decode.
LEMMA RangesLead ==
  ASSUME NEW b \in 0..255, b > 127
  PROVE  IF NextState(0, Class(b)) = 1 THEN Ranges(b) = <<>>
         ELSE NextState(0, Class(b)) \in 2..8 /\ Ranges(b) = RangesIn(NextState(0, Class(b)))
<1>1. PICK t : t = NextState(0, Class(b))
  OBVIOUS
<1>2. t = IF b < 128 THEN 0 ELSE IF b < 194 THEN 1 ELSE IF b < 224 THEN 2 ELSE IF b = 224 THEN 4
          ELSE IF b = 237 THEN 5 ELSE IF b < 240 THEN 3 ELSE IF b = 240 THEN 6
          ELSE IF b < 244 THEN 7 ELSE IF b = 244 THEN 8 ELSE 1
  BY <1>1, FirstByte
<1>3. CASE b < 194
  <2>1. Ranges(b) = <<>>
    BY <1>3, SMT DEF Ranges
  <2>2. QED
    BY <1>1, <1>2, <1>3, <2>1
<1>4. CASE 194 <= b /\ b < 224
  <2>0. /\ b \in 194..223
        /\ ~(b = 224)
        /\ ~(b \in (225..239) \ {237})
        /\ ~(b = 237)
        /\ ~(b = 240)
        /\ ~(b \in 241..243)
        /\ ~(b = 244)
    BY <1>4, SMT
  <2>1. Ranges(b) = << Later >>
    BY <2>0, SMTT(30) DEF Ranges
  <2>2. t = 2
    BY <1>2, <1>4
  <2>3. QED
    BY <1>1, <2>1, <2>2, RangesAre
<1>5. CASE b = 224
  <2>1. Ranges(b) = << 160..191, Later >>
    BY <1>5, SMT DEF Ranges
  <2>2. t = 4
    BY <1>2, <1>5
  <2>3. QED
    BY <1>1, <2>1, <2>2, RangesAre
<1>6. CASE 224 < b /\ b < 240 /\ b # 237
  <2>0. /\ ~(b \in 194..223)
        /\ ~(b = 224)
        /\ b \in (225..239) \ {237}
        /\ ~(b = 237)
        /\ ~(b = 240)
        /\ ~(b \in 241..243)
        /\ ~(b = 244)
    BY <1>6, SMT
  <2>1. Ranges(b) = << Later, Later >>
    BY <2>0, SMTT(30) DEF Ranges
  <2>2. t = 3
    BY <1>2, <1>6
  <2>3. QED
    BY <1>1, <2>1, <2>2, RangesAre
<1>7. CASE b = 237
  <2>1. Ranges(b) = << 128..159, Later >>
    BY <1>7, SMT DEF Ranges
  <2>2. t = 5
    BY <1>2, <1>7
  <2>3. QED
    BY <1>1, <2>1, <2>2, RangesAre
<1>8. CASE b = 240
  <2>1. Ranges(b) = << 144..191, Later, Later >>
    BY <1>8, SMT DEF Ranges
  <2>2. t = 6
    BY <1>2, <1>8
  <2>3. QED
    BY <1>1, <2>1, <2>2, RangesAre
<1>9. CASE 240 < b /\ b < 244
  <2>0. /\ ~(b \in 194..223)
        /\ ~(b = 224)
        /\ ~(b \in (225..239) \ {237})
        /\ ~(b = 237)
        /\ ~(b = 240)
        /\ b \in 241..243
        /\ ~(b = 244)
    BY <1>9, SMT
  <2>1. Ranges(b) = << Later, Later, Later >>
    BY <2>0, SMTT(30) DEF Ranges
  <2>2. t = 7
    BY <1>2, <1>9
  <2>3. QED
    BY <1>1, <2>1, <2>2, RangesAre
<1>10. CASE b = 244
  <2>1. Ranges(b) = << 128..143, Later, Later >>
    BY <1>10, SMT DEF Ranges
  <2>2. t = 8
    BY <1>2, <1>10
  <2>3. QED
    BY <1>1, <2>1, <2>2, RangesAre
<1>11. CASE b > 244
  <2>1. Ranges(b) = <<>>
    BY <1>11, SMT DEF Ranges
  <2>2. QED
    BY <1>1, <1>2, <1>11, <2>1
<1>12. QED
  BY <1>3, <1>4, <1>5, <1>6, <1>7, <1>8, <1>9, <1>10, <1>11

\* Head and Tail of short sequences.
LEMMA Splits ==
  ASSUME NEW a, NEW b, NEW c
  PROVE  /\ Len(<<a>>) = 1 /\ Head(<<a>>) = a /\ Tail(<<a>>) = <<>>
         /\ Len(<<a, b>>) = 2 /\ Head(<<a, b>>) = a /\ Tail(<<a, b>>) = <<b>>
         /\ Len(<<a, b, c>>) = 3 /\ Head(<<a, b, c>>) = a /\ Tail(<<a, b, c>>) = <<b, c>>
BY SMT

\* And so are the ones behind them.
LEMMA RangesNext ==
  ASSUME NEW st \in 2..8, NEW b \in 0..255
  PROVE  LET t == NextState(st, Class(b))
             r == RangesIn(st)
         IN /\ r # <<>>
            /\ b \in Head(r) <=> t # 1
            /\ Len(r) = 1 <=> st = 2
            /\ t # 1 => IF st = 2 THEN t = 0 /\ Tail(r) = <<>> ELSE t \in 2..8 /\ Tail(r) = RangesIn(t)
<1> DEFINE t == NextState(st, Class(b))
           r == RangesIn(st)
<1>1. /\ b \in Later <=> Follows(b)
      /\ b \in 160..191 <=> 160 <= b /\ b < 192
      /\ b \in 128..159 <=> 128 <= b /\ b < 160
      /\ b \in 144..191 <=> 144 <= b /\ b < 192
      /\ b \in 128..143 <=> 128 <= b /\ b < 144
  BY SMT DEF Follows, Later
<1>2. PICK r2, r4, r5, r6, r8 : r2 = Later /\ r4 = 160..191 /\ r5 = 128..159 /\ r6 = 144..191 /\ r8 = 128..143
  OBVIOUS
<1>3. /\ b \in r2 <=> Follows(b)
      /\ b \in r4 <=> 160 <= b /\ b < 192
      /\ b \in r5 <=> 128 <= b /\ b < 160
      /\ b \in r6 <=> 144 <= b /\ b < 192
      /\ b \in r8 <=> 128 <= b /\ b < 144
  BY <1>1, <1>2
<1>4. /\ RangesIn(2) = <<r2>>
      /\ RangesIn(3) = <<r2, r2>>
      /\ RangesIn(4) = <<r4, r2>>
      /\ RangesIn(5) = <<r5, r2>>
      /\ RangesIn(6) = <<r6, r2, r2>>
      /\ RangesIn(7) = <<r2, r2, r2>>
      /\ RangesIn(8) = <<r8, r2, r2>>
  BY <1>2, RangesAre
<1> HIDE DEF t, r
<1>5. CASE st = 2
  <2>1. r = <<r2>> /\ t = IF Follows(b) THEN 0 ELSE 1
    BY <1>4, <1>5, NextByte DEF t, r
  <2>2. r # <<>> /\ Len(r) = 1 /\ Head(r) = r2 /\ Tail(r) = <<>>
    BY <2>1, Splits
  <2>3. Tail(r) = <<>>
    BY <1>4, <2>2
  <2>4. QED
    BY <1>3, <1>5, <2>1, <2>2, <2>3 DEF t, r
<1>6. CASE st = 3
  <2>1. r = <<r2, r2>> /\ t = IF Follows(b) THEN 2 ELSE 1
    BY <1>4, <1>6, NextByte DEF t, r
  <2>2. r # <<>> /\ Len(r) = 2 /\ Head(r) = r2 /\ Tail(r) = <<r2>>
    BY <2>1, Splits
  <2>3. Tail(r) = RangesIn(2)
    BY <1>4, <2>2
  <2>4. QED
    BY <1>3, <1>6, <2>1, <2>2, <2>3 DEF t, r
<1>7. CASE st = 4
  <2>1. r = <<r4, r2>> /\ t = IF 160 <= b /\ b < 192 THEN 2 ELSE 1
    BY <1>4, <1>7, NextByte DEF t, r
  <2>2. r # <<>> /\ Len(r) = 2 /\ Head(r) = r4 /\ Tail(r) = <<r2>>
    BY <2>1, Splits
  <2>3. Tail(r) = RangesIn(2)
    BY <1>4, <2>2
  <2>4. QED
    BY <1>3, <1>7, <2>1, <2>2, <2>3 DEF t, r
<1>8. CASE st = 5
  <2>1. r = <<r5, r2>> /\ t = IF 128 <= b /\ b < 160 THEN 2 ELSE 1
    BY <1>4, <1>8, NextByte DEF t, r
  <2>2. r # <<>> /\ Len(r) = 2 /\ Head(r) = r5 /\ Tail(r) = <<r2>>
    BY <2>1, Splits
  <2>3. Tail(r) = RangesIn(2)
    BY <1>4, <2>2
  <2>4. QED
    BY <1>3, <1>8, <2>1, <2>2, <2>3 DEF t, r
<1>9. CASE st = 6
  <2>1. r = <<r6, r2, r2>> /\ t = IF 144 <= b /\ b < 192 THEN 3 ELSE 1
    BY <1>4, <1>9, NextByte DEF t, r
  <2>2. r # <<>> /\ Len(r) = 3 /\ Head(r) = r6 /\ Tail(r) = <<r2, r2>>
    BY <2>1, Splits
  <2>3. Tail(r) = RangesIn(3)
    BY <1>4, <2>2
  <2>4. QED
    BY <1>3, <1>9, <2>1, <2>2, <2>3 DEF t, r
<1>10. CASE st = 7
  <2>1. r = <<r2, r2, r2>> /\ t = IF Follows(b) THEN 3 ELSE 1
    BY <1>4, <1>10, NextByte DEF t, r
  <2>2. r # <<>> /\ Len(r) = 3 /\ Head(r) = r2 /\ Tail(r) = <<r2, r2>>
    BY <2>1, Splits
  <2>3. Tail(r) = RangesIn(3)
    BY <1>4, <2>2
  <2>4. QED
    BY <1>3, <1>10, <2>1, <2>2, <2>3 DEF t, r
<1>11. CASE st = 8
  <2>1. r = <<r8, r2, r2>> /\ t = IF 128 <= b /\ b < 144 THEN 3 ELSE 1
    BY <1>4, <1>11, NextByte DEF t, r
  <2>2. r # <<>> /\ Len(r) = 3 /\ Head(r) = r8 /\ Tail(r) = <<r2, r2>>
    BY <2>1, Splits
  <2>3. Tail(r) = RangesIn(3)
    BY <1>4, <2>2
  <2>4. QED
    BY <1>3, <1>11, <2>1, <2>2, <2>3 DEF t, r
<1>12. QED
  BY <1>5, <1>6, <1>7, <1>8, <1>9, <1>10, <1>11

-----------------------------------------------------------------------------
(* Code points and their bytes. *)

\* Division with remainder.
LEMMA DivMod ==
  ASSUME NEW a \in Nat, NEW t \in Nat, t > 0
  PROVE  /\ a \div t \in Nat
         /\ a % t \in 0..(t - 1)
         /\ a = t * (a \div t) + (a % t)
OBVIOUS

\* A remainder is below the divisor.
LEMMA Below ==
  ASSUME NEW t \in Nat, NEW m \in 0..(t - 1)
  PROVE  m \in Nat /\ m < t
OBVIOUS

\* Division by 64, of which the shifts of Encoded are made.
LEMMA By64 ==
  ASSUME NEW n \in Nat
  PROVE  /\ n \div 64 \in Nat /\ n % 64 \in Nat /\ n % 64 < 64
         /\ n = 64 * (n \div 64) + (n % 64)
<1>1. 64 \in Nat /\ 64 > 0
  OBVIOUS
<1>2. n \div 64 \in Nat /\ n % 64 \in 0..(64 - 1) /\ n = 64 * (n \div 64) + (n % 64)
  BY <1>1, DivMod
<1>3. n % 64 \in Nat /\ n % 64 < 64
  BY <1>1, <1>2, Below, Zenon
<1>4. QED
  BY <1>2, <1>3, Zenon

\* The longer shifts are repeated ones.
LEMMA ByMore ==
  ASSUME NEW n \in Nat
  PROVE  /\ n \div 4096 = (n \div 64) \div 64
         /\ n \div 262144 = ((n \div 64) \div 64) \div 64
BY SMT

\* The arithmetic of \u escapes makes well-formed sequences.
LEMMA EncodedFormed ==
  ASSUME NEW cp \in Nat, cp <= 1114111, ~(55296 <= cp /\ cp < 57344)
  PROVE  Encoded(cp) \in Seq(0..255) /\ Formed(Encoded(cp))
<1>1. PICK q \in Nat, r \in Nat : q = cp \div 64 /\ r = cp % 64 /\ r < 64 /\ cp = 64 * q + r
  BY By64, SMT
<1>2. PICK q2 \in Nat, r2 \in Nat : q2 = cp \div 4096 /\ r2 = q % 64 /\ r2 < 64 /\ q = 64 * q2 + r2
  BY <1>1, By64, ByMore, SMT
<1>3. PICK q3 \in Nat, r3 \in Nat : q3 = cp \div 262144 /\ r3 = q2 % 64 /\ r3 < 64 /\ q2 = 64 * q3 + r3
  BY <1>1, <1>2, By64, ByMore, SMT
<1>12. q2 = cp \div 4096 /\ (cp \div 64) % 64 = r2 /\ (cp \div 4096) % 64 = r3
  BY <1>1, <1>2, <1>3, SMT
<1>4. cp \in TwoBytes <=> 128 <= cp /\ cp < 2048
  BY SMT DEF TwoBytes
<1>5. cp \in ThreeBytes <=> 2048 <= cp /\ cp < 65536
  BY SMT DEF ThreeBytes
<1>7. CASE cp < 128
  <2> DEFINE s == <<cp>>
  <2>1. Len(s) = 1 /\ s[1] = cp /\ s \in Seq(0..255)
    BY <1>7, SMT
  <2>2. Encoded(cp) = s
    BY <1>7, <1>4, <1>5, SMT DEF Encoded
  <2> HIDE DEF s
  <2>3. QED
    BY <1>7, <2>1, <2>2, SMT DEF Formed
<1>8. CASE 128 <= cp /\ cp < 2048
  <2> DEFINE a == 192 + q
             b == 128 + r
  <2>1. a \in Int /\ 0 <= a /\ a < 256 /\ b \in Int /\ 0 <= b /\ b < 256
    BY <1>1, <1>2, <1>3, <1>8, SMT
  <2>2. Pair2(a, b)
    BY <1>1, <1>2, <1>3, <1>8, SMT DEF Pair2, Pair3, Pair4, Follows
  <2>3. Encoded(cp) = <<192 + (cp \div 64), 128 + (cp % 64)>>
    BY <1>4, <1>5, <1>8, SMT DEF Encoded
  <2>4. Encoded(cp) = <<a, b>>
    BY <1>1, <1>2, <1>3, <1>12, <2>3, SMT
  <2> HIDE DEF a, b
  <2> DEFINE s == <<a, b>>
  <2>5. a \in 0..255 /\ b \in 0..255
    BY <2>1, SMT
  <2>6. Len(s) = 2 /\ s[1] = a /\ s[2] = b /\ s \in Seq(0..255)
    BY <2>5, SMT
  <2>7. Encoded(cp) = s
    BY <2>4, SMT DEF s
  <2> HIDE DEF s
  <2>8. QED
    BY <2>2, <2>6, <2>7, SMT DEF Formed
<1>9. CASE 2048 <= cp /\ cp < 65536
  <2> DEFINE a == 224 + q2
             b == 128 + r2
             c == 128 + r
  <2>1. a \in Int /\ 0 <= a /\ a < 256 /\ b \in Int /\ 0 <= b /\ b < 256 /\ c \in Int /\ 0 <= c /\ c < 256
    BY <1>1, <1>2, <1>3, <1>9, SMT
  <2>2. Pair3(a, b) /\ Follows(c)
    BY <1>1, <1>2, <1>3, <1>9, SMT DEF Pair2, Pair3, Pair4, Follows
  <2>3. Encoded(cp) = <<224 + (cp \div 4096), 128 + ((cp \div 64) % 64), 128 + (cp % 64)>>
    BY <1>4, <1>5, <1>9, SMT DEF Encoded
  <2>4. Encoded(cp) = <<a, b, c>>
    BY <1>1, <1>2, <1>3, <1>12, <2>3, SMT
  <2> HIDE DEF a, b, c
  <2> DEFINE s == <<a, b, c>>
  <2>5. a \in 0..255 /\ b \in 0..255 /\ c \in 0..255
    BY <2>1, SMT
  <2>6. Len(s) = 3 /\ s[1] = a /\ s[2] = b /\ s[3] = c /\ s \in Seq(0..255)
    BY <2>5, SMT
  <2>7. Encoded(cp) = s
    BY <2>4, SMT DEF s
  <2> HIDE DEF s
  <2>8. QED
    BY <2>2, <2>6, <2>7, SMT DEF Formed
<1>10. CASE 65536 <= cp
  <2> DEFINE a == 240 + q3
             b == 128 + r3
             c == 128 + r2
             d == 128 + r
  <2>1. a \in Int /\ 0 <= a /\ a < 256 /\ b \in Int /\ 0 <= b /\ b < 256 /\ c \in Int /\ 0 <= c /\ c < 256 /\ d \in Int /\ 0 <= d /\ d < 256
    BY <1>1, <1>2, <1>3, <1>10, SMT
  <2>2. Pair4(a, b) /\ Follows(c) /\ Follows(d)
    BY <1>1, <1>2, <1>3, <1>10, SMT DEF Pair2, Pair3, Pair4, Follows
  <2>3. Encoded(cp) = <<240 + (cp \div 262144), 128 + ((cp \div 4096) % 64), 128 + ((cp \div 64) % 64), 128 + (cp % 64)>>
    BY <1>4, <1>5, <1>10, SMT DEF Encoded
  <2>4. Encoded(cp) = <<a, b, c, d>>
    BY <1>1, <1>2, <1>3, <1>12, <2>3, SMT
  <2> HIDE DEF a, b, c, d
  <2> DEFINE s == <<a, b, c, d>>
  <2>5. a \in 0..255 /\ b \in 0..255 /\ c \in 0..255 /\ d \in 0..255
    BY <2>1, SMT
  <2>6. Len(s) = 4 /\ s[1] = a /\ s[2] = b /\ s[3] = c /\ s[4] = d /\ s \in Seq(0..255)
    BY <2>5, SMT
  <2>7. Encoded(cp) = s
    BY <2>4, SMT DEF s
  <2> HIDE DEF s
  <2>8. QED
    BY <2>2, <2>6, <2>7, SMT DEF Formed
<1>11. QED
  BY <1>7, <1>8, <1>9, <1>10, SMT

-----------------------------------------------------------------------------
(* What dump_escaped sends. *)

\* The decoder knows where it is in a code point, and the code point it has so
\* far is too large to be a character when its last byte comes.
DecodeInv ==
  /\ state \in Nat /\ state <= 8
  /\ codepoint \in Nat
  /\ sent \in Seq(0..255)
  /\ sent = <<>> => state = 0
  /\ sent # <<>> => Reached(state, sent)
  /\ state = 1 => writer # "dumping"
  /\ state = 2 => codepoint >= 2
  /\ state \in {3, 5, 7, 8} => codepoint >= 1

\* Room for what may follow.
RoomInv ==
  /\ bytes \in Nat /\ peak \in Nat
  /\ peak <= STRING_BUFFER
  /\ writer = "dumping" => bytes + 13 <= STRING_BUFFER + (IF state = 0 THEN 0 ELSE Len(sent))

\* dumpVars change in DumpByte alone.
DumpVarsKept == UNCHANGED dumpVars /\ (writer' = writer \/ writer' # "dumping")

\* Whatever scan_string does, it has called get().
LEMMA StringIsGot == ReadString => Get
<1>1. ScanQuote => Get
  BY SMT DEF ScanQuote, ScanString, GetAt
<1>2. ScanControl => Get
  BY SMT DEF ScanControl, ScanString, GetAt
<1>3. ScanAscii => Get
  BY SMT DEF ScanAscii, ScanString, GetAt
<1>4. ScanLead => Get
  BY SMT DEF ScanLead, ScanString, GetAt
<1>5. ScanRange => Get
  BY SMT DEF ScanRange, ScanString, GetAt
<1>6. ScanEscape => Get
  BY SMT DEF ScanEscape, ScanString, GetAt
<1>7. ScanHex => Get
  BY SMT DEF ScanHex, ScanString, GetAt
<1>8. ScanPair => Get
  <2>1. ScanPair => ScanString("pair") \/ ScanString("pair u")
    BY DEF ScanPair
  <2>2. QED
    BY <2>1 DEF ScanString, GetAt
<1>9. ScanEOF => Get
  BY SMT DEF ScanEOF
<1>10. QED
  BY <1>1, <1>2, <1>3, <1>4, <1>5, <1>6, <1>7, <1>8, <1>9, SMT DEF ReadString

\* Only a byte that is dumped changes dumpVars.
LEMMA DumpSteps ==
  ASSUME [TextNext]_textVars
  PROVE  (x = -1 /\ \E b \in Bytes : DumpByte(b)) \/ DumpVarsKept
<1>1. CASE Dump
  <2>1. CASE x = -1 /\ DumpString
    BY <2>1 DEF DumpString, DumpEnd, DumpVarsKept
  <2>2. CASE x # -1 /\ DumpNumber /\ UNCHANGED <<dumpVars, stringVars>>
    BY <2>2 DEF DumpNumber, DumpZero, StartFilling, FillPair, FillLast, Send, DumpVarsKept
  <2>3. QED
    BY <1>1, <2>1, <2>2 DEF Dump
<1>2. CASE Kill
  BY <1>2 DEF Kill, DumpVarsKept
<1>3. CASE EditedChar
  BY <1>3 DEF EditedChar, DumpVarsKept
<1>4. CASE Read
  <2>1. CASE LexerNext /\ UNCHANGED <<dumpVars, stringVars, integerVars, value>>
    BY <2>1, SMT DEF LexerNext, SkipBom, Choose, ScanLiteral, ScanAgain, GetAt, Get, DumpVarsKept
  <2>2. CASE ReadString
    BY <2>2, StringIsGot, SMT DEF ReadString, Get, DumpVarsKept
  <2>3. CASE ReadNumber /\ UNCHANGED <<dumpVars, stringVars>>
    BY <2>3 DEF ReadNumber, ScanOn, ScanError, ScanDone, Get, DumpVarsKept
  <2>4. QED
    BY <1>4, <2>1, <2>2, <2>3 DEF Read
<1>5. CASE UNCHANGED textVars
  BY <1>5 DEF textVars, DumpVarsKept
<1>6. QED
  BY <1>1, <1>2, <1>3, <1>4, <1>5 DEF TextNext

\* What the first byte makes of codepoint.
LEMMA CodepointFirst ==
  ASSUME NEW b \in 0..255, NEW t, t = NextState(0, Class(b)), state = 0
  PROVE  /\ NextCodepoint(b) \in Nat
         /\ t = 0 => NextCodepoint(b) = b
         /\ t = 2 => NextCodepoint(b) >= 2
         /\ t \in {3, 5, 7, 8} => NextCodepoint(b) >= 1
<1>1. PICK c : c = Class(b)
  OBVIOUS
<1>2. c = IF b < 128 THEN 0 ELSE IF b < 144 THEN 1 ELSE IF b < 160 THEN 9 ELSE IF b < 192 THEN 7
          ELSE IF b < 194 THEN 8 ELSE IF b < 224 THEN 2 ELSE IF b < 225 THEN 10 ELSE IF b < 237 THEN 3
          ELSE IF b < 238 THEN 4 ELSE IF b < 240 THEN 3 ELSE IF b < 241 THEN 11
          ELSE IF b < 244 THEN 6 ELSE IF b < 245 THEN 5 ELSE 8
  BY <1>1, ClassIs, SMT
<1>3. t = IF b < 128 THEN 0 ELSE IF b < 194 THEN 1 ELSE IF b < 224 THEN 2 ELSE IF b = 224 THEN 4
          ELSE IF b = 237 THEN 5 ELSE IF b < 240 THEN 3 ELSE IF b = 240 THEN 6
          ELSE IF b < 244 THEN 7 ELSE IF b = 244 THEN 8 ELSE 1
  BY FirstByte
<1>4. NextCodepoint(b) = IF c >= 8 THEN 0 ELSE b % <<256, 128, 64, 32, 16, 8, 4, 2>>[c + 1]
  BY <1>1, SMT DEF NextCodepoint, UTF8_ACCEPT
<1>5. NextCodepoint(b) = IF c >= 8 THEN 0 ELSE IF c = 0 THEN b % 256 ELSE IF c = 1 THEN b % 128
                         ELSE IF c = 2 THEN b % 64 ELSE IF c = 3 THEN b % 32 ELSE IF c = 4 THEN b % 16
                         ELSE IF c = 5 THEN b % 8 ELSE IF c = 6 THEN b % 4 ELSE b % 2
  <2>1. PICK u : u = <<256, 128, 64, 32, 16, 8, 4, 2>>
    OBVIOUS
  <2>2. u[1] = 256 /\ u[2] = 128 /\ u[3] = 64 /\ u[4] = 32 /\ u[5] = 16 /\ u[6] = 8 /\ u[7] = 4 /\ u[8] = 2
    BY <2>1, SMT
  <2>3. NextCodepoint(b) = IF c >= 8 THEN 0 ELSE b % u[c + 1]
    BY <1>4, <2>1, Zenon
  <2>4. c \in Int /\ 0 <= c
    BY <1>2, SMT
  <2>8. c >= 8 \/ c \in {0, 1, 2, 3, 4, 5, 6, 7}
    BY <2>4
  <2>5. c < 8 => NextCodepoint(b) = b % u[c + 1]
    BY <2>3, <2>4
  <2>6. /\ c = 0 => NextCodepoint(b) = b % 256
        /\ c = 1 => NextCodepoint(b) = b % 128
        /\ c = 2 => NextCodepoint(b) = b % 64
        /\ c = 3 => NextCodepoint(b) = b % 32
        /\ c = 4 => NextCodepoint(b) = b % 16
        /\ c = 5 => NextCodepoint(b) = b % 8
        /\ c = 6 => NextCodepoint(b) = b % 4
        /\ c = 7 => NextCodepoint(b) = b % 2
    BY <2>2, <2>5
  <2>7. QED
    BY <2>3, <2>4, <2>6, <2>8, SMT
<1>6. PICK v : v = NextCodepoint(b)
  OBVIOUS
<1>7. v \in Nat /\ (b < 128 => v = b)
  BY <1>2, <1>5, <1>6, SMT
<1>8. 194 <= b /\ b < 224 => v >= 2
  BY <1>2, <1>5, <1>6, SMT
<1>9. (224 < b /\ b < 240) \/ (240 < b /\ b < 245) => v >= 1
  BY <1>2, <1>5, <1>6, SMT
<1>10. QED
  BY <1>3, <1>6, <1>7, <1>8, <1>9, SMT

\* What a later byte makes of it.
LEMMA CodepointNext ==
  ASSUME NEW b \in 0..255, state \in Nat, state # 0, codepoint \in Nat
  PROVE  /\ NextCodepoint(b) = codepoint * 64 + (b % 64)
         /\ NextCodepoint(b) \in Nat
         /\ NextCodepoint(b) >= codepoint * 64
         /\ 144 <= b /\ b < 192 => NextCodepoint(b) >= 16
         /\ 160 <= b /\ b < 192 => NextCodepoint(b) >= 32
BY SMT DEF NextCodepoint, UTF8_ACCEPT

\* The letters of the short escapes.
LEMMA ShortIs ==
  /\ DOMAIN Short = {8, 9, 10, 12, 13, 34, 92}
  /\ Short[8] = 98 /\ Short[9] = 116 /\ Short[10] = 110 /\ Short[12] = 102 /\ Short[13] = 114
  /\ Short[34] = 34 /\ Short[92] = 92
BY SMT DEF Short, Quote, Backslash

Plain(c) == c >= 32 /\ c # 34 /\ c # 92

\* What is written for a code point.
LEMMA EscapedIs ==
  ASSUME NEW c \in Nat, NEW b
  PROVE  /\ Plain(c) => Escaped(c, b) = <<b>>
         /\ c \in DOMAIN Short => Escaped(c, b) = <<92, Short[c]>>
         /\ c < 32 /\ c \notin DOMAIN Short =>
              Escaped(c, b) = <<92, 117, 48, 48, HexChar(c \div 16), HexChar(c % 16)>>
<1>1. c \in DOMAIN Short => ~Plain(c)
  BY ShortIs, SMT DEF Plain
<1>2. CASE c \in DOMAIN Short
  <2>1. Escaped(c, b) = <<92, Short[c]>>
    BY <1>2, SMT DEF Escaped, Backslash
  <2>2. QED
    BY <1>1, <1>2, <2>1
<1>3. CASE c \notin DOMAIN Short /\ c < 32
  <2>1. ~Plain(c)
    BY <1>3, SMT DEF Plain
  <2>2. Escaped(c, b) = <<92, 117, 48, 48, HexChar(c \div 16), HexChar(c % 16)>>
    BY <1>3, SMT DEF Escaped, Backslash
  <2>3. QED
    BY <1>3, <2>1, <2>2
<1>4. CASE c \notin DOMAIN Short /\ ~(c < 32)
  <2>1. Escaped(c, b) = <<b>>
    BY <1>4, SMT DEF Escaped
  <2>2. QED
    BY <1>4, <2>1
<1>5. QED
  BY <1>2, <1>3, <1>4

\* A code point is a character, in one byte, or ends in a byte that is sent as it is.
LEMMA DecodeByte ==
  ASSUME DecodeInv, NEW b \in Bytes, DumpByte(b)
  PROVE  /\ DecodeInv'
         /\ state' = 0 /\ state # 0 => NextCodepoint(b) >= 128
         /\ state' = 0 /\ state = 0 => NextCodepoint(b) = b
<1>1. b \in 0..255
  BY StringAssumption
<1>2. /\ writer = "dumping"
      /\ state' = NextState(state, Class(b))
      /\ codepoint' = NextCodepoint(b)
      /\ sent' = IF state = 0 THEN <<b>> ELSE Append(sent, b)
      /\ state' = 1 => writer' # "dumping"
  BY SMT DEF DumpByte, UTF8_ACCEPT, UTF8_REJECT
<1>3. CASE state = 0
  <2>1. state' = NextState(0, Class(b)) /\ sent' = <<b>>
    BY <1>2, <1>3
  <2>2. state' \in 0..8 /\ Reached(state', sent')
    BY <1>1, <2>1, ReachedFirst
  <2>3. sent' \in Seq(0..255) /\ sent' # <<>>
    BY <1>1, <2>1
  <2>4. /\ NextCodepoint(b) \in Nat
        /\ state' = 0 => NextCodepoint(b) = b
        /\ state' = 2 => NextCodepoint(b) >= 2
        /\ state' \in {3, 5, 7, 8} => NextCodepoint(b) >= 1
    BY <1>1, <1>3, <2>1, CodepointFirst
  <2>5. state' \in Nat /\ state' <= 8
    BY <2>2, SMT
  <2>6. QED
    BY <1>2, <1>3, <2>2, <2>3, <2>4, <2>5 DEF DecodeInv
<1>4. CASE state # 0
  <2>1. state \in 2..8 /\ sent \in Seq(0..255) /\ Reached(state, sent) /\ codepoint \in Nat
    BY <1>2, <1>4, SMT DEF DecodeInv
  <2>2. sent' = Append(sent, b)
    BY <1>2, <1>4
  <2>3. state' \in 0..8 /\ Reached(state', sent')
    BY <1>1, <1>2, <2>1, <2>2, ReachedNext
  <2>4. sent' \in Seq(0..255) /\ sent' # <<>>
    BY <1>1, <2>1, <2>2
  <2>5. /\ NextCodepoint(b) \in Nat
        /\ NextCodepoint(b) >= codepoint * 64
        /\ 144 <= b /\ b < 192 => NextCodepoint(b) >= 16
        /\ 160 <= b /\ b < 192 => NextCodepoint(b) >= 32
    <3>1. state \in Nat
      BY DEF DecodeInv
    <3>2. QED
      BY <1>1, <1>4, <2>1, <3>1, CodepointNext
  <2>6. /\ state = 2 => state' \in {0, 1}
        /\ state \in {3, 4, 5} => state' \in {1, 2}
        /\ state \in {6, 7, 8} => state' \in {1, 3}
        /\ state = 4 => state' = 1 \/ (160 <= b /\ b < 192)
        /\ state = 6 => state' = 1 \/ (144 <= b /\ b < 192)
    <3>1. PICK t : t = NextState(state, Class(b))
      OBVIOUS
    <3>2. /\ state = 2 => t = IF Follows(b) THEN 0 ELSE 1
          /\ state = 3 => t = IF Follows(b) THEN 2 ELSE 1
          /\ state = 4 => t = IF 160 <= b /\ b < 192 THEN 2 ELSE 1
          /\ state = 5 => t = IF 128 <= b /\ b < 160 THEN 2 ELSE 1
          /\ state = 6 => t = IF 144 <= b /\ b < 192 THEN 3 ELSE 1
          /\ state = 7 => t = IF Follows(b) THEN 3 ELSE 1
          /\ state = 8 => t = IF 128 <= b /\ b < 144 THEN 3 ELSE 1
      BY <1>1, <3>1, NextByte
    <3>3. state' = t
      BY <1>2, <3>1
    <3>4. QED
      BY <3>2, <3>3
  <2>7. codepoint \in Nat /\ (state = 2 => codepoint >= 2) /\ (state \in {3, 5, 7, 8} => codepoint >= 1)
    BY DEF DecodeInv
  <2>8. /\ state' = 0 => NextCodepoint(b) >= 128
        /\ state' = 2 => NextCodepoint(b) >= 2
        /\ state' = 3 => NextCodepoint(b) >= 1
        /\ state' \notin {5, 7, 8}
    BY <2>1, <2>5, <2>6, <2>7, SMT
  <2>9. state' \in Nat /\ state' <= 8
    BY <2>3, SMT
  <2>10. QED
    BY <1>2, <1>4, <2>3, <2>4, <2>5, <2>8, <2>9 DEF DecodeInv
<1>5. QED
  BY <1>3, <1>4

\* No byte is written behind string_buffer.
LEMMA RoomForByte ==
  ASSUME DecodeInv, RoomInv, NEW b \in Bytes, DumpByte(b)
  PROVE  RoomInv'
<1> DEFINE s == NextState(state, Class(b))
           out == IF s = 0 THEN Escaped(NextCodepoint(b), b) ELSE <<b>>
<1>1. /\ writer = "dumping" /\ state' = s
      /\ sent' = IF state = 0 THEN <<b>> ELSE Append(sent, b)
      /\ \/ s = 1 /\ writer' = "threw" /\ UNCHANGED <<bytes, peak>>
         \/ /\ s # 1 /\ writer' = writer
            /\ bytes' = IF s = 0 THEN AfterFlush(bytes + Len(out)) ELSE bytes + 1
            /\ peak' = bytes + Len(out) + (IF Len(out) = 6 THEN 1 ELSE 0)
  BY SMT DEF DumpByte, UTF8_ACCEPT, UTF8_REJECT
<1>2. STRING_BUFFER \in Nat /\ STRING_BUFFER >= 13
  BY StringAssumption
<1>3. DecodeInv' /\ b \in 0..255
  BY DecodeByte, StringAssumption
<1>4. Len(out) \in 1..6 /\ (s # 0 => Len(out) = 1)
  <2>1. NextCodepoint(b) \in Nat
    BY <1>1, <1>3 DEF DecodeInv, DumpByte
  <2>2. Len(Escaped(NextCodepoint(b), b)) \in 1..6
    <3>1. PICK c \in Nat : c = NextCodepoint(b)
      BY <2>1
    <3>2. Plain(c) \/ c \in DOMAIN Short \/ (c < 32 /\ c \notin DOMAIN Short)
      BY <3>1, ShortIs, SMT DEF Plain
    <3>3. Plain(c) => Len(Escaped(c, b)) = 1
      BY EscapedIs, SMT
    <3>4. c \in DOMAIN Short => Len(Escaped(c, b)) = 2
      BY EscapedIs, SMT
    <3>5. c < 32 /\ c \notin DOMAIN Short => Len(Escaped(c, b)) = 6
      BY EscapedIs, SMT
    <3>6. QED
      BY <3>1, <3>2, <3>3, <3>4, <3>5
  <2>3. Len(<<b>>) = 1
    OBVIOUS
  <2>4. QED
    BY <2>2, <2>3
<1> HIDE DEF s, out
<1>5. state = 0 \/ Len(sent) <= 3
  BY <1>1, SMT DEF DecodeInv, Reached
<1>6. Len(sent) \in Nat /\ Len(sent') = IF state = 0 THEN 1 ELSE Len(sent) + 1
  BY <1>1, <1>3 DEF DecodeInv
<1>7. \A n \in Nat : AfterFlush(n) \in Nat /\ AfterFlush(n) + 13 <= STRING_BUFFER
  BY <1>2, SMT DEF AfterFlush
<1>8. PICK n \in Nat : n = Len(out) /\ 1 <= n /\ n <= 6 /\ (s # 0 => n = 1)
  <2>1. \A m \in 1..6 : m \in Nat /\ 1 <= m /\ m <= 6
    BY SMT
  <2>2. QED
    BY <1>4, <2>1
<1>9. bytes \in Nat /\ peak \in Nat /\ peak <= STRING_BUFFER /\ bytes + 10 <= STRING_BUFFER
  BY <1>1, <1>2, <1>5, <1>6, SMT DEF RoomInv
<1>10. CASE s = 1
  BY <1>1, <1>9, <1>10 DEF RoomInv
<1>11. CASE s # 1
  <2>1. peak' = bytes + n + (IF n = 6 THEN 1 ELSE 0)
    BY <1>1, <1>8, <1>11
  <2>2. peak' \in Nat /\ peak' <= STRING_BUFFER
    BY <1>2, <1>8, <1>9, <2>1, SMT
  <2>3. CASE s = 0
    <3>1. bytes' = AfterFlush(bytes + n)
      BY <1>1, <1>8, <1>11, <2>3
    <3>2. bytes + n \in Nat
      BY <1>8, <1>9
    <3>3. bytes' \in Nat /\ bytes' + 13 <= STRING_BUFFER
      BY <1>7, <3>1, <3>2
    <3>4. QED
      BY <1>1, <1>2, <2>2, <2>3, <3>3, SMT DEF RoomInv
  <2>4. CASE s # 0
    <3>1. bytes' = bytes + 1
      BY <1>1, <1>11, <2>4
    <3>2. bytes' \in Nat /\ bytes' + 13 <= STRING_BUFFER + Len(sent')
      <4>1. CASE state = 0
        BY <1>1, <1>2, <1>6, <3>1, <4>1, SMT DEF RoomInv
      <4>2. CASE state # 0
        BY <1>1, <1>2, <1>6, <3>1, <4>2, SMT DEF RoomInv
      <4>3. QED
        BY <4>1, <4>2
    <3>3. QED
      BY <1>1, <1>2, <2>2, <2>4, <3>2, SMT DEF RoomInv
  <2>5. QED
    BY <2>3, <2>4
<1>12. QED
  BY <1>10, <1>11

\* The invariants of dump_escaped hold at first.
LEMMA DumpStarts == TextInit \/ TextIdle => DecodeInv /\ RoomInv
<1> SUFFICES ASSUME TextInit \/ TextIdle
             PROVE  DecodeInv /\ RoomInv
  OBVIOUS
<1>1. state = 0 /\ codepoint = 0 /\ sent = <<>> /\ bytes = 0 /\ peak = 0
  BY DEF TextInit, TextIdle, StringInit, UTF8_ACCEPT
<1>2. sent \in Seq(0..255)
  BY <1>1
<1>3. DecodeInv
  BY <1>1, <1>2 DEF DecodeInv
<1>4. RoomInv
  BY <1>1, StringAssumption DEF RoomInv
<1>5. QED
  BY <1>3, <1>4

\* They are about dumpVars and the writer.
LEMMA DumpKept ==
  ASSUME DecodeInv, RoomInv, DumpVarsKept
  PROVE  DecodeInv' /\ RoomInv'
BY SMT DEF DecodeInv, RoomInv, DumpVarsKept, dumpVars

\* Every step keeps them.
LEMMA DumpNext == DecodeInv /\ RoomInv /\ [TextNext]_textVars => DecodeInv' /\ RoomInv'
<1> SUFFICES ASSUME DecodeInv, RoomInv, [TextNext]_textVars
             PROVE  DecodeInv' /\ RoomInv'
  OBVIOUS
<1>1. CASE x = -1 /\ \E b \in Bytes : DumpByte(b)
  BY <1>1, DecodeByte, RoomForByte
<1>2. CASE DumpVarsKept
  BY <1>2, DumpKept
<1>3. QED
  BY <1>1, <1>2, DumpSteps

\* decode() tells what can be completed and what is complete.
LEMMA StrictFollows == DecodeInv => StrictExactly
<1> SUFFICES ASSUME DecodeInv, sent # <<>>
             PROVE  (state = UTF8_REJECT <=> ~Completable(sent)) /\ (state = UTF8_ACCEPT <=> Complete(sent))
  BY DEF StrictExactly
<1>1. state \in 0..8 /\ sent \in Seq(0..255) /\ Reached(state, sent)
  BY SMT DEF DecodeInv
<1>2. (state = 1 <=> ~Completable(sent)) /\ (state = 0 <=> Complete(sent))
  BY <1>1, ReachedStrict
<1>3. QED
  BY <1>2 DEF UTF8_ACCEPT, UTF8_REJECT

\* dump_escaped writes nothing behind the end of string_buffer: with the 13
\* bytes it keeps free there is room for the next code point, its escape, and
\* the NUL that snprintf puts behind it, wherever strings and code points end.
THEOREM BufferSafe == TextSpec => []BufferNeverOverrun
<1>1. TextInit \/ TextIdle => DecodeInv /\ RoomInv
  BY DumpStarts
<1>2. DecodeInv /\ RoomInv /\ [TextNext]_textVars => (DecodeInv /\ RoomInv)'
  BY DumpNext
<1>3. DecodeInv /\ RoomInv => BufferNeverOverrun
  BY DEF RoomInv, BufferNeverOverrun
<1>4. QED
  BY <1>1, <1>2, <1>3, PTL DEF TextSpec

-----------------------------------------------------------------------------
(* What scan_string has read. *)

\* The characters of a file are bytes.
CharsInv ==
  /\ text \in Seq(0..255)
  /\ current \in Int /\ -1 <= current /\ current < 256
  /\ next_unget \in BOOLEAN

\* A sequence without its first element.
LEMMA HeadOff ==
  ASSUME NEW S, NEW s \in Seq(S), s # <<>>
  PROVE  Head(s) \in S /\ Tail(s) \in Seq(S) /\ Len(Tail(s)) = Len(s) - 1
OBVIOUS

\* get() returns a byte or EOF.
LEMMA GetsByte ==
  ASSUME CharsInv, Get
  PROVE  /\ text' \in Seq(0..255)
         /\ current' \in Int /\ -1 <= current' /\ current' < 256
<1>1. text # <<>> => Head(text) \in 0..255 /\ Tail(text) \in Seq(0..255)
  BY HeadOff DEF CharsInv
<1>2. \A b \in 0..255 : b \in Int /\ -1 <= b /\ b < 256
  BY SMT
<1>3. text' \in Seq(0..255)
  BY <1>1 DEF Get, CharsInv
<1>4. CASE next_unget
  BY <1>3, <1>4 DEF Get, CharsInv
<1>5. CASE ~next_unget /\ text = <<>>
  BY <1>3, <1>5 DEF Get, EOF
<1>6. CASE ~next_unget /\ text # <<>>
  <2>1. current' = Head(text) /\ Head(text) \in 0..255
    BY <1>1, <1>6 DEF Get
  <2>2. QED
    BY <1>2, <1>3, <2>1
<1>7. QED
  BY <1>4, <1>5, <1>6 DEF CharsInv

Whole(s) == s = <<>> \/ (s \in Seq(0..255) /\ Formed(s))

HexPlaces == {"hex", "pair", "pair u"}

ReadInv ==
  /\ lexer # "ranges" => Whole(got) /\ ranges = <<>>
  /\ lexer = "ranges" =>
       got \in Seq(0..255) /\ \E st \in 2..8 : Reached(st, got) /\ ranges = RangesIn(st)
  /\ lexer \notin HexPlaces => digits = <<>>
  /\ lexer \in HexPlaces => digits \in Seq(0..15) /\ Len(digits) <= 7
  /\ lexer \in {"pair", "pair u"} => Len(digits) = 4
  /\ lexer \in HexPlaces /\ Len(digits) >= 4 => IsHigh(Codepoint(digits))

\* Four hexadecimal digits are below 65536.
LEMMA FourDigits ==
  ASSUME NEW d \in Seq(0..15), Len(d) >= 4
  PROVE  Codepoint(d) \in Nat /\ Codepoint(d) <= 65535
<1>1. d[1] \in 0..15 /\ d[2] \in 0..15 /\ d[3] \in 0..15 /\ d[4] \in 0..15
  BY ElementOfSeq
<1>2. PICK a \in 0..15, b \in 0..15, c \in 0..15, e \in 0..15 : a = d[1] /\ b = d[2] /\ c = d[3] /\ e = d[4]
  BY <1>1
<1>3. Codepoint(d) = ((a * 16 + b) * 16 + c) * 16 + e
  BY <1>2, SMT DEF Codepoint
<1>4. \A n \in 0..15 : n \in Nat /\ n <= 15
  BY SMT
<1>5. a \in Nat /\ a <= 15 /\ b \in Nat /\ b <= 15 /\ c \in Nat /\ c <= 15 /\ e \in Nat /\ e <= 15
  BY <1>2, <1>4
<1>6. QED
  BY <1>3, <1>5, SMT

\* Surrogates, by comparisons.
LEMMA SurrogatesAre ==
  ASSUME NEW c \in Nat
  PROVE  /\ IsHigh(c) <=> 55296 <= c /\ c < 56320
         /\ IsLow(c) <=> 56320 <= c /\ c < 57344
BY SMT DEF IsHigh, IsLow

\* A formed sequence has a byte.
LEMMA NotEmpty ==
  ASSUME NEW s, Formed(s)
  PROVE  s # <<>>
BY SMT DEF Formed

\* What \uXXXX stands for is a whole code point.
LEMMA HexEncoded ==
  ASSUME NEW c \in Nat, c <= 65535, ~IsHigh(c), ~IsLow(c)
  PROVE  Whole(Encoded(c))
<1>1. c <= 1114111 /\ ~(55296 <= c /\ c < 57344)
  BY SurrogatesAre, SMT
<1>2. Encoded(c) \in Seq(0..255) /\ Formed(Encoded(c))
  BY <1>1, EncodedFormed, SMT
<1>3. QED
  BY <1>2, SMT DEF Whole

\* And so is what a pair of surrogates stands for.
LEMMA PairEncoded ==
  ASSUME NEW c \in Nat, NEW e \in Nat, IsHigh(c), IsLow(e)
  PROVE  Whole(Encoded(c * 1024 + e - 56613888))
<1>1. PICK v \in Nat : v = c * 1024 + e - 56613888 /\ 65536 <= v /\ v <= 1114111
  BY SurrogatesAre, SMT
<1>2. v <= 1114111 /\ ~(55296 <= v /\ v < 57344)
  BY <1>1, SMT
<1>3. Encoded(v) \in Seq(0..255) /\ Formed(Encoded(v))
  BY <1>2, EncodedFormed, SMT
<1>4. QED
  BY <1>1, <1>3, SMT DEF Whole

\* The digits of the second \u.
LEMMA LastFour ==
  ASSUME NEW d \in Seq(0..15), Len(d) = 8
  PROVE  SubSeq(d, 5, 8) \in Seq(0..15) /\ Len(SubSeq(d, 5, 8)) = 4
<1>1. \A w \in 1..Len(d) : d[w] \in 0..15
  BY ElementOfSeq
<1>4. \A w \in 5..8 : w \in 1..8
  BY SMT
<1>2. 5 \in Int /\ 8 \in Int /\ 5 <= 8 /\ 8 - 5 + 1 = 4
  BY SMT
<1>3. QED
  BY <1>1, <1>2, <1>4, SubSeqProperties

\* stringVars change in scan_string alone, which begins behind a quote.
StringVarsKept ==
  /\ UNCHANGED stringVars
  /\ \/ lexer' = lexer
     \/ lexer \notin StringPlaces /\ lexer' \notin StringPlaces \ {"plain"}

\* Where each part of scan leads.
LEMMA LexerPlaces ==
  /\ SkipBom => lexer \in {"scan", "mark"} /\ lexer' \in {"mark", "space", "token"}
  /\ Choose => /\ lexer \in {"scan", "space"}
               /\ lexer' \in {"space", "token", "literal", "plain", "minus", "zero", "any1"}
  /\ ScanLiteral => lexer = "literal" /\ lexer' \in {"token", "literal"}
  /\ ScanAgain => lexer = "token" /\ lexer' = "scan"
<1>1. SkipBom => lexer \in {"scan", "mark"} /\ lexer' \in {"mark", "space", "token"}
  BY DEF SkipBom, GetAt, NotUngot, Returns
<1>2. Choose => /\ lexer \in {"scan", "space"}
                /\ lexer' \in {"space", "token", "literal", "plain", "minus", "zero", "any1"}
  BY DEF Choose, GetAt, NotUngot, Returns, NumberPlace
<1>3. ScanLiteral => lexer = "literal" /\ lexer' \in {"token", "literal"}
  BY DEF ScanLiteral, GetAt, NotUngot, Returns
<1>4. ScanAgain => lexer = "token" /\ lexer' = "scan"
  BY DEF ScanAgain
<1>5. QED
  BY <1>1, <1>2, <1>3, <1>4

\* Where the steps of scan_number lead.
LEMMA NumberPlaces ==
  /\ ScanOn => lexer \in Label /\ lexer' \in Label
  /\ ScanError => lexer \in Label /\ lexer' = "token"
  /\ ScanDone => lexer \in Label /\ lexer' = "token"
<1>1. \A label, c : NextLabel(label, c) \in Label \cup {"none"}
  BY SMT DEF NextLabel, IntegerLabel, FractionLabel, Label
<1>2. ScanOn => lexer \in Label /\ lexer' \in Label
  BY <1>1 DEF ScanOn, NotUngot
<1>3. ScanError => lexer \in Label /\ lexer' = "token"
  BY DEF ScanError, Returns, NotUngot
<1>4. ScanDone => lexer \in Label /\ lexer' = "token"
  BY DEF ScanDone, MayEnd, Label
<1>5. QED
  BY <1>2, <1>3, <1>4

\* The places of scan_string are its own.
LEMMA PlacesApart ==
  ASSUME NEW p
  PROVE  /\ p \in Label => p \notin StringPlaces
         /\ p \in {"scan", "mark", "space", "token", "literal"} => p \notin StringPlaces
         /\ p \in {"space", "token", "literal", "plain", "minus", "zero", "any1"} => p \notin StringPlaces \ {"plain"}
BY DEF Label, StringPlaces

\* Only scan_string changes stringVars.
LEMMA ReadSteps ==
  ASSUME [TextNext]_textVars
  PROVE  ReadString \/ StringVarsKept
<1>1. CASE Dump
  <2>1. CASE x = -1 /\ DumpString
    <3>1. CASE \E b \in Bytes : DumpByte(b)
      BY <3>1, SMT DEF DumpByte, scanVars, StringVarsKept
    <3>2. CASE DumpEnd
      BY <3>2, SMT DEF DumpEnd, scanVars, StringVarsKept
    <3>3. QED
      BY <2>1, <3>1, <3>2 DEF DumpString
  <2>2. CASE x # -1 /\ DumpNumber /\ UNCHANGED <<dumpVars, stringVars>>
    BY <2>2 DEF DumpNumber, DumpZero, StartFilling, FillPair, FillLast, scanVars, StringVarsKept
  <2>3. QED
    BY <1>1, <2>1, <2>2 DEF Dump
<1>2. CASE Kill
  BY <1>2 DEF Kill, scanVars, StringVarsKept
<1>3. CASE EditedChar
  BY <1>3 DEF EditedChar, scanVars, StringVarsKept
<1>4. CASE Read
  <2>1. CASE LexerNext /\ UNCHANGED <<dumpVars, stringVars, integerVars, value>>
    <3>1. UNCHANGED stringVars
      BY <2>1
    <3>2. QED
      BY <2>1, <3>1, LexerPlaces, PlacesApart DEF LexerNext, StringVarsKept
  <2>2. CASE ReadString
    BY <2>2
  <2>3. CASE ReadNumber /\ UNCHANGED <<dumpVars, stringVars>>
    <3>1. UNCHANGED stringVars
      BY <2>3
    <3>2. QED
      BY <2>3, <3>1, NumberPlaces, PlacesApart DEF ReadNumber, StringVarsKept
  <2>4. QED
    BY <1>4, <2>1, <2>2, <2>3 DEF Read
<1>5. CASE UNCHANGED textVars
  BY <1>5 DEF textVars, scanVars, StringVarsKept
<1>6. QED
  BY <1>1, <1>2, <1>3, <1>4, <1>5 DEF TextNext

\* The invariant of scan_string holds at first.
LEMMA ReadStarts == TextInit \/ TextIdle => ReadInv
BY DEF TextInit, TextIdle, StringInit, ReadInv, Whole, HexPlaces

\* It is about stringVars and the place.
LEMMA ReadKept ==
  ASSUME ReadInv, StringVarsKept
  PROVE  ReadInv'
<1>1. got' = got /\ digits' = digits /\ ranges' = ranges
  BY DEF StringVarsKept, stringVars
<1>2. CASE lexer' = lexer
  BY <1>1, <1>2 DEF ReadInv
<1>3. CASE lexer \notin StringPlaces /\ lexer' \notin StringPlaces \ {"plain"}
  <2>1. lexer # "ranges" /\ lexer \notin HexPlaces /\ lexer' # "ranges" /\ lexer' \notin HexPlaces
    BY <1>3 DEF StringPlaces, HexPlaces
  <2>2. lexer' \notin {"pair", "pair u"}
    BY <2>1 DEF HexPlaces
  <2>3. QED
    BY <1>1, <2>1, <2>2 DEF ReadInv
<1>4. QED
  BY <1>2, <1>3 DEF StringVarsKept

\* No part of a code point is left.
LEMMA ReadWhole ==
  ASSUME Whole(got'), digits' = <<>>, ranges' = <<>>, lexer' \notin HexPlaces, lexer' # "ranges"
  PROVE  ReadInv'
<1>1. lexer' \notin {"pair", "pair u"}
  BY DEF HexPlaces
<1>2. QED
  BY <1>1 DEF ReadInv

\* An error leaves nothing behind.
LEMMA StringFails ==
  ASSUME Fail
  PROVE  ReadInv'
BY ReadWhole DEF Fail, Returns, NotUngot, Whole, HexPlaces

\* A whole code point is added.
LEMMA ReadAdds ==
  ASSUME NEW s, Whole(s), Add(s)
  PROVE  ReadInv'
BY ReadWhole DEF Add, NotUngot, HexPlaces

\* The quote, the backslash, what must be escaped and the end.
LEMMA ReadQuote ==
  ASSUME ReadInv, ScanQuote \/ ScanControl \/ ScanEOF
  PROVE  ReadInv'
<1>1. CASE ScanQuote
  <2>1. Whole(got) /\ ranges = <<>> /\ digits = <<>> /\ digits' = digits /\ ranges' = ranges
    BY <1>1 DEF ScanQuote, ScanString, GetAt, ReadInv, HexPlaces
  <2>2. Whole(<<>>)
    BY DEF Whole
  <2>3. QED
    BY <1>1, <2>1, <2>2, ReadWhole DEF ScanQuote, Returns, Goto, NotUngot, HexPlaces
<1>2. CASE ScanControl
  BY <1>2, StringFails DEF ScanControl
<1>3. CASE ScanEOF
  BY <1>3, StringFails DEF ScanEOF
<1>4. QED
  BY <1>1, <1>2, <1>3

\* An ASCII character is a whole code point.
LEMMA OneByte ==
  ASSUME NEW b, b \in 0..127
  PROVE  Whole(<<b>>)
<1>1. b \in 0..255 /\ 0 <= b /\ b < 128
  BY SMT
<1>2. <<b>> \in Seq(0..255) /\ Len(<<b>>) = 1 /\ <<b>>[1] = b
  BY <1>1
<1>3. Formed(<<b>>)
  BY <1>1, <1>2, SMT DEF Formed
<1>4. QED
  BY <1>2, <1>3 DEF Whole

\* One that stands for itself.
LEMMA ReadAscii ==
  ASSUME ScanAscii
  PROVE  ReadInv'
<1>1. current' \in 0..127 /\ Add(<<current'>>)
  BY SMT DEF ScanAscii
<1>2. QED
  BY <1>1, OneByte, ReadAdds

\* The character behind a backslash.
LEMMA ReadEscape ==
  ASSUME ReadInv, ScanEscape
  PROVE  ReadInv'
<1>1. lexer = "escape"
  BY DEF ScanEscape, ScanString, GetAt
<1>2. Whole(got) /\ ranges = <<>> /\ digits = <<>>
  BY <1>1 DEF ReadInv, HexPlaces
<1>3. CASE Goto("hex") /\ UNCHANGED <<digits, ranges, got>>
  <2>1. lexer' = "hex" /\ got' = got /\ ranges' = <<>> /\ digits' = <<>>
    BY <1>2, <1>3 DEF Goto, NotUngot
  <2>2. digits' \in Seq(0..15) /\ Len(digits') = 0
    BY <2>1
  <2>3. Len(digits') <= 7 /\ ~(Len(digits') >= 4)
    BY <2>2
  <2>4. lexer' # "ranges" /\ lexer' \in HexPlaces /\ lexer' \notin {"pair", "pair u"}
    BY <2>1 DEF HexPlaces
  <2>5. Whole(got')
    BY <1>2, <2>1
  <2>6. QED
    BY <2>1, <2>2, <2>3, <2>4, <2>5 DEF ReadInv
<1>4. CASE \E d \in {47} \cup DOMAIN Short : Add(<<d>>)
  <2>1. PICK d \in {47} \cup DOMAIN Short : Add(<<d>>)
    BY <1>4
  <2>2. d \in 0..127
    BY ShortIs, SMT
  <2>3. QED
    BY <2>1, <2>2, OneByte, ReadAdds
<1>5. CASE Fail
  BY <1>5, StringFails
<1>6. QED
  BY <1>3, <1>4, <1>5 DEF ScanEscape

\* The first of several bytes.
LEMMA ReadLead ==
  ASSUME CharsInv, ReadInv, ScanLead
  PROVE  ReadInv'
<1>1. current' > 127 /\ Get
  BY DEF ScanLead, ScanString, GetAt
<1>2. current' \in 0..255
  <2>1. current' \in Int /\ -1 <= current' /\ current' < 256
    BY <1>1, GetsByte
  <2>2. QED
    BY <1>1, <2>1
<1>3. CASE Fail
  BY <1>3, StringFails
<1>4. CASE Ranges(current') # <<>> /\ ~Fail
  <2>1. PICK b \in 0..255 : b = current' /\ b > 127 /\ Ranges(b) # <<>>
    BY <1>1, <1>2, <1>4
  <2>2. lexer = "plain" /\ lexer' = "ranges" /\ ranges' = Ranges(b) /\ got' = <<b>> /\ digits' = digits
    BY <1>4, <2>1 DEF ScanLead, ScanString, GetAt, Goto, NotUngot
  <2>3. digits' = <<>>
    BY <2>2 DEF ReadInv, HexPlaces
  <2>4. NextState(0, Class(b)) \in 2..8 /\ Ranges(b) = RangesIn(NextState(0, Class(b)))
    BY <2>1, RangesLead
  <2>5. Reached(NextState(0, Class(b)), <<b>>)
    BY ReachedFirst
  <2>7. <<b>> \in Seq(0..255)
    OBVIOUS
  <2>6. QED
    BY <2>2, <2>3, <2>4, <2>5, <2>7 DEF ReadInv, HexPlaces
<1>5. QED
  BY <1>3, <1>4 DEF ScanLead

\* A later one, in its range.
LEMMA ReadRange ==
  ASSUME CharsInv, ReadInv, ScanRange
  PROVE  ReadInv'
<1>1. lexer = "ranges" /\ Get
  BY DEF ScanRange, ScanString, GetAt
<1>2. CASE Fail
  BY <1>2, StringFails
<1>3. CASE current' \in Head(ranges) /\ ~Fail
  <2>1. PICK st \in 2..8 : Reached(st, got) /\ ranges = RangesIn(st)
    BY <1>1 DEF ReadInv
  <2>2. got \in Seq(0..255) /\ digits = <<>>
    BY <1>1 DEF ReadInv, HexPlaces
  <2>3. current' \in Int /\ -1 <= current' /\ current' < 256
    BY <1>1, GetsByte
  <2>4. current' \in 0..255
    <3>1. Head(ranges) \subseteq 0..255
      <4>1. st = 2 \/ st = 3 \/ st = 4 \/ st = 5 \/ st = 6 \/ st = 7 \/ st = 8
        BY SMT
      <4>2. /\ Head(RangesIn(2)) = Later /\ Head(RangesIn(3)) = Later /\ Head(RangesIn(7)) = Later
            /\ Head(RangesIn(4)) = 160..191 /\ Head(RangesIn(5)) = 128..159
            /\ Head(RangesIn(6)) = 144..191 /\ Head(RangesIn(8)) = 128..143
        BY RangesAre, Splits
      <4>3. /\ Later \subseteq 0..255 /\ 160..191 \subseteq 0..255 /\ 128..159 \subseteq 0..255
            /\ 144..191 \subseteq 0..255 /\ 128..143 \subseteq 0..255
        BY SMT DEF Later
      <4>4. CASE st \in {2, 3, 7}
        BY <2>1, <4>2, <4>3, <4>4
      <4>5. CASE st \in {4, 5}
        BY <2>1, <4>2, <4>3, <4>5
      <4>6. CASE st \in {6, 8}
        BY <2>1, <4>2, <4>3, <4>6
      <4>7. QED
        BY <4>1, <4>4, <4>5, <4>6
    <3>2. QED
      BY <1>3, <3>1
  <2>5. PICK b \in 0..255 : b = current'
    BY <2>4
  <2>6. /\ b \in Head(RangesIn(st))
        /\ ranges' = Tail(RangesIn(st)) /\ got' = Append(got, b) /\ digits' = <<>>
        /\ lexer' = IF Len(RangesIn(st)) = 1 THEN "plain" ELSE "ranges"
    BY <1>3, <2>1, <2>2, <2>5 DEF ScanRange, Goto, NotUngot
  <2> DEFINE t == NextState(st, Class(b))
  <2>7. /\ t # 1
        /\ Len(RangesIn(st)) = 1 <=> st = 2
        /\ IF st = 2 THEN t = 0 /\ Tail(RangesIn(st)) = <<>> ELSE t \in 2..8 /\ Tail(RangesIn(st)) = RangesIn(t)
    BY <2>6, RangesNext
  <2>8. Reached(t, Append(got, b)) /\ Append(got, b) \in Seq(0..255)
    <3>1. Reached(t, Append(got, b))
      BY <2>1, <2>2, ReachedNext
    <3>2. QED
      BY <2>2, <3>1
  <2> HIDE DEF t
  <2>9. CASE st = 2
    <3>1. Reached(0, got') /\ got' \in Seq(0..255)
      BY <2>6, <2>7, <2>8, <2>9
    <3>2. Whole(got')
      BY <3>1 DEF Reached, Whole
    <3>3. lexer' = "plain" /\ ranges' = <<>>
      BY <2>6, <2>7, <2>9
    <3>4. QED
      BY <2>6, <3>2, <3>3, ReadWhole DEF HexPlaces
  <2>10. CASE st # 2
    <3>1. lexer' = "ranges" /\ ranges' = RangesIn(t) /\ t \in 2..8 /\ Reached(t, got') /\ got' \in Seq(0..255)
      BY <2>6, <2>7, <2>8, <2>10
    <3>2. QED
      BY <2>6, <3>1 DEF ReadInv, HexPlaces
  <2>11. QED
    BY <2>9, <2>10
<1>4. QED
  BY <1>2, <1>3 DEF ScanRange

\* A hexadecimal digit, or -1.
LEMMA HexValueType ==
  ASSUME NEW c \in Int
  PROVE  HexValue(c) = -1 \/ HexValue(c) \in 0..15
BY SMT DEF HexValue

\* Digits behind the fourth do not change the first code point.
LEMMA FirstFour ==
  ASSUME NEW d \in Seq(0..15), NEW v \in 0..15, Len(d) >= 4
  PROVE  Codepoint(Append(d, v)) = Codepoint(d)
<1> DEFINE e == Append(d, v)
<1>1. e[1] = d[1] /\ e[2] = d[2] /\ e[3] = d[3] /\ e[4] = d[4]
  OBVIOUS
<1> HIDE DEF e
<1>2. Codepoint(e) = Codepoint(d)
  BY <1>1 DEF Codepoint
<1>3. QED
  BY <1>2 DEF e

\* A digit behind \u.
LEMMA ReadHex ==
  ASSUME CharsInv, ReadInv, ScanHex
  PROVE  ReadInv'
<1>1. lexer = "hex" /\ Get
  BY DEF ScanHex, ScanString, GetAt
<1>2. Whole(got) /\ ranges = <<>> /\ digits \in Seq(0..15) /\ Len(digits) <= 7
  BY <1>1 DEF ReadInv, HexPlaces
<1>3. Len(digits) >= 4 => IsHigh(Codepoint(digits))
  BY <1>1 DEF ReadInv, HexPlaces
<1>4. CASE Fail
  BY <1>4, StringFails
<1>5. CASE HexValue(current') # -1
  <2>1. current' \in Int
    BY <1>1, GetsByte
  <2>2. PICK v \in 0..15 : v = HexValue(current')
    BY <1>5, <2>1, HexValueType
  <2> DEFINE all == Append(digits, v)
             cp1 == Codepoint(all)
             last == SubSeq(all, 5, 8)
             cp2 == Codepoint(last)
  <2>3. all \in Seq(0..15) /\ Len(all) = Len(digits) + 1 /\ Len(all) <= 8 /\ Len(all) \in Nat
    BY <1>2
  <2>4. Len(digits) >= 4 => cp1 = Codepoint(digits)
    BY <1>2, FirstFour
  <2>5. \/ Fail
        \/ /\ Len(all) \notin {4, 8}
           /\ digits' = all
           /\ Goto("hex") /\ UNCHANGED <<ranges, got>>
        \/ /\ Len(all) = 4 /\ IsHigh(cp1)
           /\ Goto("pair")
           /\ digits' = all
           /\ UNCHANGED <<ranges, got>>
        \/ Len(all) = 4 /\ ~IsHigh(cp1) /\ ~IsLow(cp1) /\ Add(Encoded(cp1))
        \/ Len(all) = 8 /\ IsLow(cp2) /\ Add(Encoded(cp1 * 1024 + cp2 - 56613888))
    BY <2>2, SMT DEF ScanHex
  <2> HIDE DEF all, cp1, cp2, last
  <2>11. Len(digits) \in Nat /\ Len(all) = Len(digits) + 1
    BY <1>2, <2>3
  <2>12. 4 <= 7 /\ 4 >= 4 /\ 8 >= 4
    OBVIOUS
  <2>6. CASE Len(all) \notin {4, 8} /\ digits' = all /\ Goto("hex") /\ UNCHANGED <<ranges, got>>
    <3>1. lexer' = "hex" /\ got' = got /\ ranges' = <<>>
      BY <1>2, <2>6 DEF Goto, NotUngot
    <3>2. Len(digits') <= 7 /\ digits' \in Seq(0..15)
      BY <2>3, <2>6
    <3>3. Len(digits') >= 4 => Len(digits) >= 4
      BY <1>2, <2>3, <2>6
    <3>4. Len(digits') >= 4 => IsHigh(Codepoint(digits'))
      BY <1>3, <2>4, <2>6, <3>3 DEF cp1
    <3>5. QED
      BY <1>2, <3>1, <3>2, <3>4 DEF ReadInv, HexPlaces
  <2>7. CASE Len(all) = 4 /\ IsHigh(cp1) /\ Goto("pair") /\ digits' = all /\ UNCHANGED <<ranges, got>>
    <3>1. lexer' = "pair" /\ got' = got /\ ranges' = <<>>
      BY <1>2, <2>7 DEF Goto, NotUngot
    <3>5. digits' = all /\ Len(all) = 4
      BY <2>7
    <3>2. Len(digits') = 4 /\ Len(digits') <= 7 /\ digits' \in Seq(0..15)
      BY <2>3, <3>5, <2>12
    <3>3. IsHigh(Codepoint(digits'))
      BY <2>7 DEF cp1
    <3>4. QED
      BY <1>2, <3>1, <3>2, <3>3 DEF ReadInv, HexPlaces
  <2>8. CASE Len(all) = 4 /\ ~IsHigh(cp1) /\ ~IsLow(cp1) /\ Add(Encoded(cp1))
    <3>1. Len(all) >= 4
      BY <2>8
    <3>2. cp1 \in Nat /\ cp1 <= 65535
      BY <2>3, <3>1, FourDigits, SMT DEF cp1
    <3>3. Whole(Encoded(cp1))
      BY <2>8, <3>2, HexEncoded, SMT
    <3>4. QED
      BY <2>8, <3>3, ReadAdds, SMT
  <2>9. CASE Len(all) = 8 /\ IsLow(cp2) /\ Add(Encoded(cp1 * 1024 + cp2 - 56613888))
    <3>9. Len(all) = 8
      BY <2>9
    <3>10. PICK n \in Nat : n = Len(digits)
      BY <2>11
    <3>11. n + 1 = 8
      BY <2>11, <3>9, <3>10
    <3>12. n >= 4
      BY <3>11
    <3>1. Len(all) >= 4 /\ Len(digits) >= 4
      BY <2>12, <3>9, <3>10, <3>12
    <3>2. cp1 \in Nat
      BY <2>3, <3>1, FourDigits, SMT DEF cp1
    <3>3. last \in Seq(0..15) /\ Len(last) = 4
      BY <2>3, <2>9, LastFour, SMT DEF last
    <3>4. Len(last) >= 4
      BY <3>3, SMT
    <3>5. cp2 \in Nat
      <4>1. \A d \in Seq(0..15) : Len(d) >= 4 => Codepoint(d) \in Nat
        BY FourDigits, SMT
      <4>2. Codepoint(last) \in Nat
        BY <3>3, <3>4, <4>1, Zenon
      <4>3. QED
        BY <4>2 DEF cp2
    <3>6. IsHigh(cp1)
      BY <1>3, <2>4, <3>1, SMT
    <3>7. Whole(Encoded(cp1 * 1024 + cp2 - 56613888))
      BY <2>9, <3>2, <3>5, <3>6, PairEncoded, SMT
    <3>8. QED
      BY <2>9, <3>7, ReadAdds, SMT
  <2>10. QED
    BY <2>5, <2>6, <2>7, <2>8, <2>9, StringFails, SMT
<1>6. QED
  BY <1>4, <1>5, SMT DEF ScanHex

\* The two characters between the surrogates.
LEMMA ReadPair ==
  ASSUME ReadInv, ScanPair
  PROVE  ReadInv'
<1>1. lexer \in {"pair", "pair u"}
  BY DEF ScanPair, ScanString, GetAt
<1>2. Whole(got) /\ ranges = <<>> /\ digits \in Seq(0..15) /\ Len(digits) = 4
  BY <1>1 DEF ReadInv, HexPlaces
<1>6. 4 >= 4 /\ 4 <= 7
  OBVIOUS
<1>7. IsHigh(Codepoint(digits))
  BY <1>1, <1>2, <1>6 DEF ReadInv, HexPlaces
<1>3. CASE Fail
  BY <1>3, StringFails
<1>4. CASE UNCHANGED <<digits, ranges, got>> /\ lexer' \in {"pair u", "hex"}
  <2>1. Len(digits') = 4 /\ Len(digits') <= 7
    BY <1>2, <1>4, <1>6
  <2>2. QED
    BY <1>2, <1>4, <1>7, <2>1 DEF ReadInv, HexPlaces
<1>5. QED
  BY <1>1, <1>3, <1>4 DEF ScanPair, Goto, NotUngot

\* Every step keeps the invariant.
LEMMA ReadNext ==
  ASSUME CharsInv, ReadInv, [TextNext]_textVars
  PROVE  ReadInv'
<1>1. CASE ReadString
  BY <1>1, ReadQuote, ReadAscii, ReadLead, ReadRange, ReadEscape, ReadHex, ReadPair DEF ReadString
<1>2. CASE StringVarsKept
  BY <1>2, ReadKept
<1>3. QED
  BY <1>1, <1>2, ReadSteps

\* What was read whole is well-formed.
LEMMA ReadFollows == ReadInv => ReadsWellFormed
<1> SUFFICES ASSUME ReadInv, lexer = "plain", got # <<>>
             PROVE  Complete(got)
  BY DEF ReadsWellFormed
<1>1. got \in Seq(0..255) /\ Formed(got)
  BY DEF ReadInv, Whole
<1>2. got \in Seq(Int) /\ \A w \in 1..Len(got) : 0 <= got[w] /\ got[w] < 256
  BY <1>1, BytesAre
<1>3. QED
  BY <1>1, <1>2, CompleteIs

-----------------------------------------------------------------------------
(* A string that is dumped and read in lockstep. *)

\* The reader is behind the opening quote, or will be.
Opened == lexer = "plain" \/ (lexer = "space" /\ current = Quote)

\* What is on its way from the writer to the reader: nothing between two code
\* points, a character, the rest of an escape, the first byte of a code point,
\* nothing inside a code point, or one of its later bytes.
Between == Opened /\ text = <<>> /\ state = 0 /\ got = sent
Character == Opened /\ state = 0 /\ \E c \in 0..127 : sent = <<c>> /\ text = Escaped(c, c)
ShortEscape == lexer = "escape" /\ state = 0 /\ \E c \in DOMAIN Short : sent = <<c>> /\ text = <<Short[c]>>
LongEscape ==
  /\ lexer = "escape" /\ state = 0
  /\ \E c \in 0..31 : sent = <<c>> /\ text = <<117, 48, 48, HexChar(c \div 16), HexChar(c % 16)>>
HexDigit ==
  /\ lexer = "hex" /\ state = 0
  /\ \E c \in 0..31 :
       LET h == HexChar(c \div 16)
           l == HexChar(c % 16)
       IN /\ sent = <<c>>
          /\ \/ text = <<48, 48, h, l>> /\ digits = <<>>
             \/ text = <<48, h, l>> /\ digits = <<0>>
             \/ text = <<h, l>> /\ digits = <<0, 0>>
             \/ text = <<l>> /\ digits = <<0, 0, c \div 16>>
FirstSent ==
  /\ Opened /\ state \in 2..8
  /\ \E b \in 0..255 : sent = <<b>> /\ text = <<b>> /\ state = NextState(0, Class(b))
Inside == lexer = "ranges" /\ text = <<>> /\ state \in 2..8 /\ got = sent /\ ranges = RangesIn(state)
LaterSent ==
  /\ lexer = "ranges" /\ state # 1
  /\ \E p \in 2..8, b \in 0..255 :
       sent = Append(got, b) /\ text = <<b>> /\ ranges = RangesIn(p) /\ state = NextState(p, Class(b))

Following ==
  \/ Between \/ Character \/ ShortEscape \/ LongEscape \/ HexDigit
  \/ FirstSent \/ Inside \/ LaterSent

\* No quote is left that would end the string.
NoQuote ==
  \A w \in 1..Len(text) : text[w] = Quote =>
     \/ w = 1 /\ lexer = "escape"
     \/ w = 2 /\ text[1] = Backslash /\ lexer \in {"plain", "space"}

Lockstep ==
  x = -1 /\ writer \in {"dumping", "ended", "threw", "killed"} =>
    /\ lexer \in {"scan", "space", "token"} \cup StringPlaces
    /\ next_unget = (lexer = "space")
    /\ lexer \in {"scan", "space"} => got = <<>> /\ token = "none"
    /\ lexer = "scan" => fresh /\ sent = <<>> /\ state = 0
    /\ writer = "dumping" => token = "none" /\ (Following \/ (lexer = "scan" /\ text = <<Quote>>))
    /\ writer = "ended" =>
         \/ Opened /\ text = <<Quote>> /\ token = "none"
         \/ lexer = "token" /\ text = <<>> /\ token \in {"none", "string"}
    /\ writer \in {"threw", "killed"} =>
         /\ token # "string"
         /\ lexer = "scan" => text \in {<<>>, <<Quote>>}
         /\ lexer = "space" => current = Quote \/ (current = EOF /\ text = <<>>)
         /\ lexer # "scan" => NoQuote
-----------------------------------------------------------------------------
(* The lockstep from step to step. *)

\* Writer and reader begin together.
LEMMA LockStarts == TextInit \/ TextIdle => Lockstep
<1> SUFFICES ASSUME TextInit \/ TextIdle, x = -1, writer \in {"dumping", "ended", "threw", "killed"}
             PROVE  /\ got = <<>> /\ sent = <<>> /\ state = 0 /\ token = "none" /\ next_unget = FALSE /\ fresh
                    /\ \/ lexer = "scan" /\ text = <<Quote>> /\ writer = "dumping"
                       \/ lexer = "token" /\ text = <<>> /\ writer = "ended"
  BY DEF Lockstep
<1>1. got = <<>> /\ sent = <<>> /\ state = 0 /\ token = "none" /\ next_unget = FALSE /\ fresh
  BY DEF TextInit, TextIdle, LexerInit, StringInit, UTF8_ACCEPT
<1>2. CASE TextIdle
  BY <1>1, <1>2 DEF TextIdle
<1>3. CASE TextInit
  <2>1. x \in Numbers => x # -1
    BY NumberAssumption, SMT
  <2>2. QED
    BY <1>1, <1>3, <2>1 DEF TextInit
<1>4. QED
  BY <1>2, <1>3

\* A character is taken from the text.
LEMMA TakesChar ==
  ASSUME Get, ~next_unget
  PROVE  /\ writer \in {"dumping", "edited"} => text # <<>>
         /\ text # <<>> => current' = Head(text) /\ text' = Tail(text)
         /\ text = <<>> => current' = -1 /\ text' = <<>>
         /\ writer' = writer
BY DEF Get, EOF

\* What is written for an ASCII character.
LEMMA EscapedChar ==
  ASSUME NEW c \in 0..127
  PROVE  /\ Plain(c) => Escaped(c, c) = <<c>>
         /\ c \in DOMAIN Short => Escaped(c, c) = <<92, Short[c]>>
         /\ c < 32 /\ c \notin DOMAIN Short =>
              Escaped(c, c) = <<92, 117, 48, 48, HexChar(c \div 16), HexChar(c % 16)>>
         /\ Plain(c) \/ c \in DOMAIN Short \/ (c < 32 /\ c \notin DOMAIN Short)
<1>1. c \in Nat
  OBVIOUS
<1>2. Plain(c) \/ c \in DOMAIN Short \/ (c < 32 /\ c \notin DOMAIN Short)
  BY <1>1, ShortIs, SMT DEF Plain
<1>3. QED
  BY <1>1, <1>2, EscapedIs

\* What scan_string may do at each place.
LEMMA OnlyAt ==
  ASSUME ReadString
  PROVE  /\ Get /\ UNCHANGED <<dumpVars, literal, token_buffer>>
         /\ lexer = "plain" => ScanQuote \/ ScanControl \/ ScanAscii \/ ScanLead \/ ScanEOF
         /\ lexer = "escape" => ScanEscape \/ ScanEOF
         /\ lexer = "hex" => ScanHex \/ ScanEOF
         /\ lexer = "ranges" => ScanRange \/ ScanEOF
         /\ lexer \in StringPlaces
<1>1. /\ ScanQuote => lexer = "plain"
      /\ ScanControl => lexer = "plain"
      /\ ScanAscii => lexer = "plain"
      /\ ScanLead => lexer = "plain"
      /\ ScanRange => lexer = "ranges"
      /\ ScanEscape => lexer = "escape"
      /\ ScanHex => lexer = "hex"
      /\ ScanEOF => lexer \in StringPlaces
  BY DEF ScanQuote, ScanControl, ScanAscii, ScanLead, ScanRange, ScanEscape, ScanHex, ScanEOF, ScanString, GetAt
<1>2. ScanPair => lexer \in {"pair", "pair u"}
  BY DEF ScanPair, ScanString, GetAt
<1>3. Get /\ UNCHANGED <<dumpVars, literal, token_buffer>>
  BY StringIsGot DEF ReadString
<1>4. \/ ScanQuote \/ ScanControl \/ ScanAscii \/ ScanLead \/ ScanRange
      \/ ScanEscape \/ ScanHex \/ ScanPair \/ ScanEOF
  BY DEF ReadString
<1>5. lexer \in StringPlaces
  BY <1>1, <1>2, <1>4 DEF StringPlaces
<1>6. QED
  BY <1>1, <1>2, <1>3, <1>4, <1>5

\* A character is read, or the backslash of what was written for it.
LEMMA ReadsCharacter ==
  ASSUME Character, ReadString, lexer = "plain", ~next_unget
  PROVE  lexer' # "token" /\ token' = token /\ next_unget' = FALSE /\ (Between \/ ShortEscape \/ LongEscape)'
<1>1. PICK c \in 0..127 : sent = <<c>> /\ text = Escaped(c, c)
  BY DEF Character
<1>2. /\ sent' = sent /\ state' = 0 /\ Get
      /\ ScanQuote \/ ScanControl \/ ScanAscii \/ ScanLead \/ ScanEOF
  BY OnlyAt DEF Character, dumpVars
<1>3. c \in Int /\ 0 <= c /\ c < 128
  OBVIOUS
<1>4. CASE Plain(c)
  <2>1. text = <<c>>
    BY <1>1, <1>4, EscapedChar
  <2>2. current' = c /\ text' = <<>>
    BY <1>2, <2>1, TakesChar, Splits
  <2>3. c # 34 /\ c # 92 /\ c # -1 /\ c \notin 0..31 /\ ~(c > 127)
    BY <1>3, <1>4, SMT DEF Plain
  <2>4. ScanAscii
    BY <1>2, <2>2, <2>3 DEF ScanQuote, ScanControl, ScanLead, ScanEOF, Quote, Backslash, EOF
  <2>5. Add(<<c>>)
    BY <2>2, <2>4 DEF ScanAscii
  <2>6. got' = <<c>> /\ lexer' = "plain" /\ next_unget' = FALSE /\ token' = token
    BY <2>5 DEF Add, NotUngot
  <2>7. QED
    BY <1>1, <1>2, <2>2, <2>6 DEF Between, Opened
<1>5. CASE ~Plain(c)
  <2>1. PICK s : /\ text # <<>> /\ Head(text) = 92 /\ Tail(text) = s
                 /\ \/ c \in DOMAIN Short /\ s = <<Short[c]>>
                    \/ c < 32 /\ s = <<117, 48, 48, HexChar(c \div 16), HexChar(c % 16)>>
    <3>1. CASE c \in DOMAIN Short
      <4>1. text = <<92, Short[c]>>
        BY <1>1, <3>1, EscapedChar
      <4>2. text # <<>> /\ Head(text) = 92 /\ Tail(text) = <<Short[c]>>
        BY <4>1
      <4>3. QED
        BY <3>1, <4>2
    <3>2. CASE c < 32 /\ c \notin DOMAIN Short
      <4> DEFINE h == HexChar(c \div 16)
                 l == HexChar(c % 16)
      <4>1. text = <<92, 117, 48, 48, h, l>>
        BY <1>1, <3>2, EscapedChar
      <4> HIDE DEF h, l
      <4>2. text # <<>> /\ Head(text) = 92 /\ Tail(text) = <<117, 48, 48, h, l>>
        BY <4>1
      <4>3. QED
        BY <3>2, <4>2 DEF h, l
    <3>3. QED
      BY <1>5, <3>1, <3>2, EscapedChar
  <2>2. text # <<>> /\ Head(text) = 92 /\ Tail(text) = s
    BY <2>1
  <2>3. current' = 92 /\ text' = s
    BY <1>2, <2>2, TakesChar
  <2>4. ScanQuote
    BY <1>2, <2>3, SMT DEF ScanControl, ScanAscii, ScanLead, ScanEOF, Backslash, EOF
  <2>5. lexer' = "escape" /\ next_unget' = FALSE /\ token' = token
    BY <2>3, <2>4 DEF ScanQuote, Goto, NotUngot, Quote
  <2>6. c < 32 => c \in 0..31
    BY <1>3
  <2>7. QED
    BY <1>1, <1>2, <2>1, <2>3, <2>5, <2>6 DEF ShortEscape, LongEscape
<1>6. QED
  BY <1>4, <1>5

\* No two characters are escaped by the same letter, and none by the letters of
\* the other escapes.
LEMMA ShortLetters ==
  ASSUME NEW c \in DOMAIN Short
  PROVE  /\ Short[c] # 117 /\ Short[c] # 47 /\ Short[c] # -1
         /\ \A d \in DOMAIN Short : Short[c] = Short[d] => d = c
BY ShortIs, SMT

\* The letter behind the backslash.
LEMMA ReadsShort ==
  ASSUME ShortEscape, ReadString, ~next_unget
  PROVE  lexer' # "token" /\ token' = token /\ next_unget' = FALSE /\ Between'
<1>1. PICK c \in DOMAIN Short : sent = <<c>> /\ text = <<Short[c]>>
  BY DEF ShortEscape
<1>2. /\ sent' = sent /\ state' = 0 /\ Get
      /\ ScanEscape \/ ScanEOF
  BY OnlyAt DEF ShortEscape, dumpVars
<1>3. current' = Short[c] /\ text' = <<>>
  BY <1>1, <1>2, TakesChar, Splits
<1>4. ScanEscape
  BY <1>2, <1>3, ShortLetters DEF ScanEOF, EOF
<1>5. \E d \in DOMAIN Short : Short[c] = Short[d] /\ Add(<<d>>)
  <2>1. current' # 117 /\ current' # 47
    BY <1>3, ShortLetters
  <2>2. current' \in {117, 47} \cup {Short[d] : d \in DOMAIN Short}
    BY <1>3
  <2>3. QED
    BY <1>3, <1>4, <2>1, <2>2, Zenon DEF ScanEscape
<1>6. Add(<<c>>)
  BY <1>5, ShortLetters
<1>7. got' = <<c>> /\ lexer' = "plain" /\ next_unget' = FALSE /\ token' = token
  BY <1>6 DEF Add, NotUngot
<1>8. QED
  BY <1>1, <1>2, <1>3, <1>7 DEF Between, Opened

\* The u behind it.
LEMMA ReadsLong ==
  ASSUME LongEscape, ReadString, ~next_unget, ReadInv
  PROVE  lexer' # "token" /\ token' = token /\ next_unget' = FALSE /\ HexDigit'
<1>1. PICK c \in 0..31 : sent = <<c>> /\ text = <<117, 48, 48, HexChar(c \div 16), HexChar(c % 16)>>
  BY DEF LongEscape
<1>2. /\ sent' = sent /\ state' = 0 /\ Get
      /\ ScanEscape \/ ScanEOF
  BY OnlyAt DEF LongEscape, dumpVars
<1>3. current' = 117 /\ text' = <<48, 48, HexChar(c \div 16), HexChar(c % 16)>>
  <2> DEFINE h == HexChar(c \div 16)
             l == HexChar(c % 16)
  <2>1. text = <<117, 48, 48, h, l>>
    BY <1>1
  <2> HIDE DEF h, l
  <2>2. text # <<>> /\ Head(text) = 117 /\ Tail(text) = <<48, 48, h, l>>
    BY <2>1
  <2>3. QED
    BY <1>2, <2>2, TakesChar DEF h, l
<1>4. ScanEscape
  BY <1>2, <1>3, SMT DEF ScanEOF, EOF
<1>5. \A d \in DOMAIN Short : Short[d] # 117
  BY ShortLetters
<1>6. lexer' = "hex" /\ next_unget' = FALSE /\ token' = token /\ digits' = digits
  <2>1. ~(117 = 47)
    BY SMT
  <2>2. /\ ~(current' = 47)
        /\ ~(\E d \in DOMAIN Short : current' = Short[d])
        /\ current' \in {117, 47} \cup {Short[d] : d \in DOMAIN Short}
    BY <1>3, <1>5, <2>1
  <2>3. Goto("hex") /\ digits' = digits
    BY <1>4, <2>2, Zenon DEF ScanEscape
  <2>4. QED
    BY <2>3 DEF Goto, NotUngot
<1>7. digits = <<>>
  BY DEF ReadInv, LongEscape, HexPlaces
<1>8. QED
  BY <1>1, <1>2, <1>3, <1>6, <1>7, Zenon DEF HexDigit

\* The digits that dump_escaped writes have their values.
LEMMA HexCharValue ==
  ASSUME NEW d \in 0..15
  PROVE  HexValue(HexChar(d)) = d /\ HexChar(d) # -1 /\ HexChar(d) \in 48..102 /\ HexChar(d) # 34
<1>1. HexChar(d) = IF d < 10 THEN 48 + d ELSE 87 + d
  BY DEF HexChar
<1>2. CASE d < 10
  <2>1. HexChar(d) = 48 + d /\ 48 + d \in 48..57
    BY <1>1, <1>2
  <2>2. HexValue(48 + d) = 48 + d - 48
    BY <2>1, SMT DEF HexValue
  <2>3. QED
    BY <2>1, <2>2, SMT
<1>3. CASE ~(d < 10)
  <2>1. HexChar(d) = 87 + d /\ 87 + d \in 97..102 /\ 87 + d \notin 48..57 /\ 87 + d \notin 65..70
    BY <1>1, <1>3
  <2>2. HexValue(87 + d) = 87 + d - 87
    BY <2>1, SMT DEF HexValue
  <2>3. QED
    BY <2>1, <2>2, SMT
<1>4. QED
  BY <1>2, <1>3

\* A digit in "hex", by how many there are.
LEMMA TakesDigit ==
  ASSUME lexer = "hex", ReadString, ~next_unget, text # <<>>, NEW d \in 0..15, Head(text) = HexChar(d)
  PROVE  /\ text' = Tail(text) /\ UNCHANGED dumpVars
         /\ Len(Append(digits, d)) \notin {4, 8} =>
              digits' = Append(digits, d) /\ lexer' = "hex" /\ next_unget' = FALSE /\ token' = token
         /\ Len(Append(digits, d)) = 4 /\ ~IsHigh(Codepoint(Append(digits, d))) /\ ~IsLow(Codepoint(Append(digits, d))) =>
              Add(Encoded(Codepoint(Append(digits, d))))
<1>1. Get /\ UNCHANGED dumpVars /\ (ScanHex \/ ScanEOF)
  BY OnlyAt
<1>2. current' = HexChar(d) /\ text' = Tail(text)
  BY <1>1, TakesChar
<1>3. HexValue(current') = d /\ current' # -1
  BY <1>2, HexCharValue
<1>4. d # -1
  OBVIOUS
<1>5. ScanHex
  BY <1>1, <1>3 DEF ScanEOF, EOF
<1> DEFINE all == Append(digits, d)
<1>6. \/ Len(all) \notin {4, 8} /\ digits' = all /\ Goto("hex")
      \/ /\ Len(all) = 4
         /\ \/ IsHigh(Codepoint(all))
            \/ IsLow(Codepoint(all))
            \/ Add(Encoded(Codepoint(all)))
      \/ Len(all) = 8
  <2>1. Append(digits, HexValue(current')) = all
    BY <1>3
  <2> HIDE DEF all
  <2>2. QED
    BY <1>3, <1>4, <1>5, <2>1, SMT DEF ScanHex
<1> HIDE DEF all
<1>7. ~(4 = 8)
  BY SMT
<1>8. Len(all) \notin {4, 8} => digits' = all /\ Goto("hex")
  BY <1>6, Zenon
<1>9. Len(all) = 4 /\ ~IsHigh(Codepoint(all)) /\ ~IsLow(Codepoint(all)) => Add(Encoded(Codepoint(all)))
  BY <1>6, <1>7, Zenon
<1>10. QED
  BY <1>1, <1>2, <1>8, <1>9, Zenon DEF all, Goto, NotUngot

\* The two digits of a control character.
LEMMA SmallHex ==
  ASSUME NEW c \in 0..31
  PROVE  /\ c \div 16 \in 0..15 /\ c % 16 \in 0..15
         /\ c = 16 * (c \div 16) + (c % 16)
BY SMT

\* Append to short sequences.
LEMMA AppendToTwo ==
  ASSUME NEW S, NEW a \in S, NEW b \in S, NEW c \in S, NEW d \in S
  PROVE  /\ Append(<<a>>, b) = <<a, b>>
         /\ Append(<<a, b>>, c) = <<a, b, c>>
         /\ Append(<<a, b, c>>, d) = <<a, b, c, d>>
<1>1. Append(<<a>>, b) = <<a, b>>
  <2> DEFINE s == Append(<<a>>, b)
             t == <<a, b>>
  <2>1. s \in Seq(S) /\ Len(s) = 2 /\ s[1] = a /\ s[2] = b
    OBVIOUS
  <2>2. t \in Seq(S) /\ Len(t) = 2 /\ t[1] = a /\ t[2] = b
    OBVIOUS
  <2> HIDE DEF s, t
  <2>3. \A w \in 1..2 : w = 1 \/ w = 2
    OBVIOUS
  <2>4. QED
    BY <2>1, <2>2, <2>3, SeqEqual, Zenon DEF s, t
<1>2. Append(<<a, b>>, c) = <<a, b, c>>
  <2> DEFINE s == Append(<<a, b>>, c)
             t == <<a, b, c>>
  <2>1. s \in Seq(S) /\ Len(s) = 3 /\ s[1] = a /\ s[2] = b /\ s[3] = c
    OBVIOUS
  <2>2. t \in Seq(S) /\ Len(t) = 3 /\ t[1] = a /\ t[2] = b /\ t[3] = c
    OBVIOUS
  <2> HIDE DEF s, t
  <2>3. \A w \in 1..3 : w = 1 \/ w = 2 \/ w = 3
    OBVIOUS
  <2>4. QED
    BY <2>1, <2>2, <2>3, SeqEqual, Zenon DEF s, t
<1>3. Append(<<a, b, c>>, d) = <<a, b, c, d>>
  <2> DEFINE s == Append(<<a, b, c>>, d)
             t == <<a, b, c, d>>
  <2>1. s \in Seq(S) /\ Len(s) = 4 /\ s[1] = a /\ s[2] = b /\ s[3] = c /\ s[4] = d
    OBVIOUS
  <2>2. t \in Seq(S) /\ Len(t) = 4 /\ t[1] = a /\ t[2] = b /\ t[3] = c /\ t[4] = d
    OBVIOUS
  <2> HIDE DEF s, t
  <2>3. \A w \in 1..4 : w = 1 \/ w = 2 \/ w = 3 \/ w = 4
    OBVIOUS
  <2>4. QED
    BY <2>1, <2>2, <2>3, SeqEqual, Zenon DEF s, t
<1>4. QED
  BY <1>1, <1>2, <1>3

\* The digits that are read of a control character.
LEMMA AppendIs ==
  ASSUME NEW p \in 0..15, NEW q \in 0..15
  PROVE  /\ Append(<<>>, 0) = <<0>> /\ <<0>> \in Seq(0..15) /\ Len(<<0>>) = 1
         /\ Append(<<0>>, 0) = <<0, 0>> /\ <<0, 0>> \in Seq(0..15) /\ Len(<<0, 0>>) = 2
         /\ Append(<<0, 0>>, p) = <<0, 0, p>> /\ <<0, 0, p>> \in Seq(0..15) /\ Len(<<0, 0, p>>) = 3
         /\ Append(<<0, 0, p>>, q) = <<0, 0, p, q>> /\ Len(<<0, 0, p, q>>) = 4
<1>1. Append(<<>>, 0) = <<0>> /\ <<0>> \in Seq(0..15) /\ Len(<<0>>) = 1
  OBVIOUS
<1>2. /\ Append(<<0>>, 0) = <<0, 0>>
      /\ Append(<<0, 0>>, p) = <<0, 0, p>>
      /\ Append(<<0, 0, p>>, q) = <<0, 0, p, q>>
  <2> DEFINE S == 0..15
  <2>1. 0 \in S /\ p \in S /\ q \in S
    OBVIOUS
  <2> HIDE DEF S
  <2>2. QED
    BY <2>1, AppendToTwo
<1>3. <<0, 0>> \in Seq(0..15) /\ Len(<<0, 0>>) = 2
  OBVIOUS
<1>5. <<0, 0, p>> \in Seq(0..15) /\ Len(<<0, 0, p>>) = 3
  OBVIOUS
<1>7. Len(<<0, 0, p, q>>) = 4
  OBVIOUS
<1>8. QED
  BY <1>1, <1>2, <1>3, <1>5, <1>7

\* An ASCII character is not encoded in more than one byte.
LEMMA NotMore ==
  ASSUME NEW n \in Nat, n < 128
  PROVE  n \notin TwoBytes /\ n \notin ThreeBytes
<1>1. n \in TwoBytes <=> 128 <= n /\ n < 2048
  BY SMT DEF TwoBytes
<1>2. n \in ThreeBytes <=> 2048 <= n /\ n < 65536
  BY SMT DEF ThreeBytes
<1>3. QED
  BY <1>1, <1>2, SMT

\* The digits of a control character have been read.
LEMMA ControlEncoded ==
  ASSUME NEW c \in 0..31
  PROVE  LET all == <<0, 0, c \div 16, c % 16>>
         IN /\ ~IsHigh(Codepoint(all)) /\ ~IsLow(Codepoint(all))
            /\ Encoded(Codepoint(all)) = <<c>>
<1> DEFINE all == <<0, 0, c \div 16, c % 16>>
<1>1. Codepoint(all) = ((0 * 16 + 0) * 16 + (c \div 16)) * 16 + (c % 16)
  BY DEF Codepoint
<1>2. Codepoint(all) = c
  BY <1>1, SmallHex, SMT
<1>3. c < 128 /\ c \in Nat
  OBVIOUS
<1>4. ~IsHigh(c) /\ ~IsLow(c)
  BY <1>3, SurrogatesAre, SMT
<1>5. Encoded(c) = <<c>>
  <2>1. c \notin TwoBytes /\ c \notin ThreeBytes
    BY <1>3, NotMore
  <2>2. QED
    BY <1>3, <2>1, SMT DEF Encoded
<1>6. QED
  BY <1>2, <1>4, <1>5

\* A digit of a control character.
LEMMA ReadsHex ==
  ASSUME HexDigit, ReadString, ~next_unget
  PROVE  lexer' # "token" /\ token' = token /\ next_unget' = FALSE /\ (HexDigit \/ Between)'
<1>1. PICK c \in 0..31 :
        LET h == HexChar(c \div 16)
            l == HexChar(c % 16)
        IN /\ sent = <<c>>
           /\ \/ text = <<48, 48, h, l>> /\ digits = <<>>
              \/ text = <<48, h, l>> /\ digits = <<0>>
              \/ text = <<h, l>> /\ digits = <<0, 0>>
              \/ text = <<l>> /\ digits = <<0, 0, c \div 16>>
  BY DEF HexDigit
<1>2. lexer = "hex" /\ state = 0
  BY DEF HexDigit
<1>3. PICK p \in 0..15, q \in 0..15 : p = c \div 16 /\ q = c % 16
  BY SmallHex
<1> DEFINE h == HexChar(p)
           l == HexChar(q)
<1>4. /\ sent = <<c>>
      /\ \/ text = <<48, 48, h, l>> /\ digits = <<>>
         \/ text = <<48, h, l>> /\ digits = <<0>>
         \/ text = <<h, l>> /\ digits = <<0, 0>>
         \/ text = <<l>> /\ digits = <<0, 0, p>>
  BY <1>1, <1>3
<1>5. h = HexChar(p) /\ l = HexChar(q) /\ HexChar(0) = 48
  BY SMT DEF HexChar
<1> HIDE DEF h, l
<1>6. ASSUME NEW d \in 0..15, NEW more, text # <<>>, Head(text) = HexChar(d), Tail(text) = more,
             Append(digits, d) \in Seq(0..15), Len(Append(digits, d)) \in {1, 2, 3},
             \/ more = <<48, h, l>> /\ Append(digits, d) = << 0 >>
             \/ more = <<h, l>> /\ Append(digits, d) = <<0, 0>>
             \/ more = <<l>> /\ Append(digits, d) = <<0, 0, p>>
      PROVE  lexer' # "token" /\ token' = token /\ next_unget' = FALSE /\ HexDigit'
  <2>1. Len(Append(digits, d)) \notin {4, 8}
    BY <1>6, SMT
  <2>2. /\ digits' = Append(digits, d) /\ lexer' = "hex" /\ next_unget' = FALSE /\ token' = token
        /\ text' = more /\ sent' = sent /\ state' = state
    BY <1>2, <1>6, <2>1, TakesDigit DEF dumpVars
  <2>3. QED
    BY <1>2, <1>3, <1>4, <1>5, <1>6, <2>2, Zenon DEF HexDigit
<1>7. CASE text = <<48, 48, h, l>> /\ digits = <<>>
  <2>1. text # <<>> /\ Head(text) = HexChar(0) /\ Tail(text) = <<48, h, l>>
    BY <1>5, <1>7
  <2>2. Append(digits, 0) = <<0>> /\ <<0>> \in Seq(0..15) /\ Len(<<0>>) = 1 /\ 0 \in 0..15
    BY <1>7, AppendIs
  <2>3. QED
    BY <1>6, <2>1, <2>2
<1>8. CASE text = <<48, h, l>> /\ digits = <<0>>
  <2>1. text # <<>> /\ Head(text) = HexChar(0) /\ Tail(text) = <<h, l>>
    BY <1>5, <1>8
  <2>2. Append(digits, 0) = <<0, 0>> /\ <<0, 0>> \in Seq(0..15) /\ Len(<<0, 0>>) = 2 /\ 0 \in 0..15
    BY <1>8, AppendIs
  <2>3. QED
    BY <1>6, <2>1, <2>2
<1>9. CASE text = <<h, l>> /\ digits = <<0, 0>>
  <2>1. text # <<>> /\ Head(text) = HexChar(p) /\ Tail(text) = <<l>>
    BY <1>5, <1>9
  <2>2. Append(digits, p) = <<0, 0, p>> /\ <<0, 0, p>> \in Seq(0..15) /\ Len(<<0, 0, p>>) = 3
    BY <1>9, AppendIs
  <2>3. QED
    BY <1>6, <2>1, <2>2
<1>10. CASE text = <<l>> /\ digits = <<0, 0, p>>
  <2> DEFINE all == <<0, 0, p, q>>
  <2>1. text # <<>> /\ Head(text) = HexChar(q) /\ Tail(text) = <<>>
    BY <1>5, <1>10
  <2>2. Append(digits, q) = all /\ Len(all) = 4
    BY <1>10, AppendIs
  <2>3. ~IsHigh(Codepoint(all)) /\ ~IsLow(Codepoint(all)) /\ Encoded(Codepoint(all)) = <<c>>
    BY <1>3, ControlEncoded
  <2> HIDE DEF all
  <2>4. Add(<<c>>) /\ text' = <<>> /\ sent' = sent /\ state' = state
    BY <1>2, <2>1, <2>2, <2>3, TakesDigit DEF dumpVars
  <2>5. got' = <<c>> /\ lexer' = "plain" /\ next_unget' = FALSE /\ token' = token
    BY <2>4 DEF Add, NotUngot
  <2>6. QED
    BY <1>2, <1>4, <2>4, <2>5 DEF Between, Opened
<1>11. QED
  BY <1>4, <1>7, <1>8, <1>9, <1>10

\* The first byte of a longer code point.
LEMMA FirstOfMore ==
  ASSUME NEW b \in 0..255, NextState(0, Class(b)) \in 2..8
  PROVE  b > 127 /\ Ranges(b) = RangesIn(NextState(0, Class(b))) /\ Ranges(b) # <<>>
<1>1. b > 127
  BY FirstByte, SMT
<1>2. Ranges(b) = RangesIn(NextState(0, Class(b)))
  <2>1. \A t \in 2..8 : t # 1
    OBVIOUS
  <2>2. QED
    BY <1>1, <2>1, RangesLead
<1>3. QED
  BY <1>1, <1>2, RangesNext

\* The first of several bytes is read.
LEMMA ReadsFirst ==
  ASSUME FirstSent, ReadString, lexer = "plain", ~next_unget
  PROVE  lexer' # "token" /\ token' = token /\ next_unget' = FALSE /\ Inside'
<1>1. PICK b \in 0..255 : sent = <<b>> /\ text = <<b>> /\ state = NextState(0, Class(b)) /\ state \in 2..8
  BY DEF FirstSent
<1>2. /\ sent' = sent /\ state' = state /\ Get
      /\ ScanQuote \/ ScanControl \/ ScanAscii \/ ScanLead \/ ScanEOF
  BY OnlyAt DEF dumpVars
<1>3. current' = b /\ text' = <<>>
  BY <1>1, <1>2, TakesChar, Splits
<1>4. b > 127 /\ Ranges(b) = RangesIn(state) /\ Ranges(b) # <<>>
  BY <1>1, FirstOfMore
<1>5. b # 34 /\ b # 92 /\ b # -1 /\ b \notin 0..31 /\ b \notin 32..127
  BY <1>4, SMT
<1>6. ScanLead
  BY <1>2, <1>3, <1>5 DEF ScanQuote, ScanControl, ScanAscii, ScanEOF, Quote, Backslash, EOF
<1>7. Goto("ranges") /\ ranges' = Ranges(b) /\ got' = <<b>>
  BY <1>3, <1>4, <1>6 DEF ScanLead
<1>8. lexer' = "ranges" /\ next_unget' = FALSE /\ token' = token
  BY <1>7 DEF Goto, NotUngot
<1>9. QED
  BY <1>1, <1>2, <1>3, <1>4, <1>7, <1>8 DEF Inside

\* A later one is.
LEMMA ReadsLater ==
  ASSUME LaterSent, ReadString, ~next_unget
  PROVE  lexer' # "token" /\ token' = token /\ next_unget' = FALSE /\ (Inside \/ Between)'
<1>1. PICK p \in 2..8, b \in 0..255 :
        sent = Append(got, b) /\ text = <<b>> /\ ranges = RangesIn(p) /\ state = NextState(p, Class(b))
  BY DEF LaterSent
<1>2. lexer = "ranges" /\ state # 1
  BY DEF LaterSent
<1>3. /\ sent' = sent /\ state' = state /\ Get
      /\ ScanRange \/ ScanEOF
  BY <1>2, OnlyAt DEF dumpVars
<1>4. current' = b /\ text' = <<>>
  BY <1>1, <1>3, TakesChar, Splits
<1>5. /\ b \in Head(ranges)
      /\ Len(ranges) = 1 <=> p = 2
      /\ IF p = 2 THEN state = 0 ELSE state \in 2..8 /\ Tail(ranges) = RangesIn(state)
  BY <1>1, <1>2, RangesNext
<1>6. b # -1
  BY SMT
<1>7. ScanRange
  BY <1>3, <1>4, <1>6 DEF ScanEOF, EOF
<1>8. /\ ranges' = Tail(ranges)
      /\ got' = Append(got, b)
      /\ Goto(IF p = 2 THEN "plain" ELSE "ranges")
  BY <1>4, <1>5, <1>7 DEF ScanRange
<1>9. lexer' = (IF p = 2 THEN "plain" ELSE "ranges") /\ next_unget' = FALSE /\ token' = token
  BY <1>8 DEF Goto, NotUngot
<1>10. CASE p = 2
  BY <1>1, <1>3, <1>4, <1>5, <1>8, <1>9, <1>10 DEF Between, Opened
<1>11. CASE p # 2
  BY <1>1, <1>3, <1>4, <1>5, <1>8, <1>9, <1>11 DEF Inside
<1>12. QED
  BY <1>10, <1>11

\* The places behind the opening quote.
LEMMA OpenedAt ==
  ASSUME Opened
  PROVE  lexer \in {"plain", "space"} /\ (lexer = "space" => current = 34)
BY DEF Opened, Quote

\* The places of a reader that follows.
LEMMA FollowingAt ==
  ASSUME Following
  PROVE  /\ lexer \in {"plain", "space", "escape", "hex", "ranges"}
         /\ lexer = "space" => current = 34
         /\ lexer = "plain" => Between \/ Character \/ FirstSent
         /\ lexer = "space" => Between \/ Character \/ FirstSent
         /\ lexer = "escape" => ShortEscape \/ LongEscape
         /\ lexer = "hex" => HexDigit
         /\ lexer = "ranges" => Inside \/ LaterSent
         /\ text = <<>> => Between \/ Inside
<1>1. /\ Between \/ Character \/ FirstSent => Opened
      /\ ShortEscape \/ LongEscape => lexer = "escape"
      /\ HexDigit => lexer = "hex"
      /\ Inside \/ LaterSent => lexer = "ranges"
  BY DEF Between, Character, FirstSent, ShortEscape, LongEscape, HexDigit, Inside, LaterSent
<1>2. /\ Character => text # <<>>
      /\ FirstSent => text # <<>>
      /\ ShortEscape => text # <<>>
      /\ LongEscape => text # <<>>
      /\ HexDigit => text # <<>>
      /\ LaterSent => text # <<>>
  <2>1. Character => text # <<>>
    <3>1. SUFFICES ASSUME NEW c \in 0..127
                   PROVE  Escaped(c, c) # <<>>
      BY DEF Character
    <3>2. CASE Plain(c)
      <4>1. Escaped(c, c) = <<c>>
        BY <3>2, EscapedChar
      <4>2. QED
        BY <4>1
    <3>3. CASE c \in DOMAIN Short
      <4>1. Escaped(c, c) = <<92, Short[c]>>
        BY <3>3, EscapedChar
      <4>2. QED
        BY <4>1
    <3>4. CASE c < 32 /\ c \notin DOMAIN Short
      <4>1. PICK h, l : Escaped(c, c) = <<92, 117, 48, 48, h, l>>
        BY <3>4, EscapedChar
      <4>2. QED
        BY <4>1
    <3>5. QED
      BY <3>2, <3>3, <3>4, EscapedChar
  <2>2. FirstSent => text # <<>>
    BY DEF FirstSent
  <2>3. ShortEscape => text # <<>>
    BY DEF ShortEscape
  <2>4. LongEscape => text # <<>>
    BY DEF LongEscape
  <2>5. HexDigit => text # <<>>
    BY DEF HexDigit
  <2>6. LaterSent => text # <<>>
    BY DEF LaterSent
  <2>7. QED
    BY <2>1, <2>2, <2>3, <2>4, <2>5, <2>6
<1>3. Opened => lexer \in {"plain", "space"} /\ (lexer = "space" => current = 34)
  BY OpenedAt
<1>4. QED
  BY <1>1, <1>2, <1>3, SMT DEF Following


\* What is not read yet holds no quote before the end.
LEMMA NoQuoteWithin ==
  ASSUME Following
  PROVE  NoQuote
<1>1. \A h \in 0..15 : HexChar(h) # 34
  BY HexCharValue
<1>2. CASE text = <<>>
  BY <1>2 DEF NoQuote
<1>3. CASE Character
  <2>1. PICK c \in 0..127 : text = Escaped(c, c) /\ Opened
    BY <1>3 DEF Character
  <2>2. CASE Plain(c)
    <3>1. text = <<c>> /\ c # 34
      BY <2>1, <2>2, EscapedChar DEF Plain
    <3>2. QED
      BY <3>1 DEF NoQuote, Quote
  <2>3. CASE c \in DOMAIN Short
    <3>1. text = <<92, Short[c]>> /\ lexer \in {"plain", "space"}
      BY <2>1, <2>3, EscapedChar, OpenedAt
    <3>2. QED
      BY <3>1 DEF NoQuote, Quote, Backslash
  <2>4. CASE c < 32 /\ c \notin DOMAIN Short
    <3>1. c \in 0..31
      BY <2>4
    <3>2. PICK h \in 0..15, l \in 0..15 : h = c \div 16 /\ l = c % 16
      BY <3>1, SmallHex
    <3>3. text = <<92, 117, 48, 48, HexChar(h), HexChar(l)>>
      BY <2>1, <2>4, <3>2, EscapedChar
    <3>4. HexChar(h) # 34 /\ HexChar(l) # 34
      BY <1>1
    <3>5. QED
      BY <3>3, <3>4 DEF NoQuote, Quote
  <2>5. QED
    BY <2>2, <2>3, <2>4, EscapedChar
<1>4. CASE ShortEscape
  <2>1. PICK c \in DOMAIN Short : text = <<Short[c]>> /\ lexer = "escape"
    BY <1>4 DEF ShortEscape
  <2>2. QED
    BY <2>1 DEF NoQuote
<1>5. CASE LongEscape
  <2>1. PICK c \in 0..31 : text = <<117, 48, 48, HexChar(c \div 16), HexChar(c % 16)>>
    BY <1>5 DEF LongEscape
  <2>2. PICK h \in 0..15, l \in 0..15 : h = c \div 16 /\ l = c % 16
    BY SmallHex
  <2>3. text = <<117, 48, 48, HexChar(h), HexChar(l)>> /\ HexChar(h) # 34 /\ HexChar(l) # 34
    BY <1>1, <2>1, <2>2
  <2>4. QED
    BY <2>3 DEF NoQuote, Quote
<1>6. CASE HexDigit
  <2>1. PICK c \in 0..31 :
             \/ text = <<48, 48, HexChar(c \div 16), HexChar(c % 16)>>
             \/ text = <<48, HexChar(c \div 16), HexChar(c % 16)>>
             \/ text = <<HexChar(c \div 16), HexChar(c % 16)>>
             \/ text = <<HexChar(c % 16)>>
    BY <1>6 DEF HexDigit
  <2>2. PICK p \in 0..15, q \in 0..15 : p = c \div 16 /\ q = c % 16
    BY SmallHex
  <2> DEFINE h == HexChar(p)
             l == HexChar(q)
  <2>3. h # 34 /\ l # 34
    BY <1>1
  <2>4. text = <<48, 48, h, l>> \/ text = <<48, h, l>> \/ text = <<h, l>> \/ text = <<l>>
    BY <2>1, <2>2
  <2> HIDE DEF h, l
  <2>5. CASE text = <<48, 48, h, l>>
    BY <2>3, <2>5 DEF NoQuote, Quote
  <2>6. CASE text = <<48, h, l>>
    BY <2>3, <2>6 DEF NoQuote, Quote
  <2>7. CASE text = <<h, l>>
    BY <2>3, <2>7 DEF NoQuote, Quote
  <2>8. CASE text = <<l>>
    BY <2>3, <2>8 DEF NoQuote, Quote
  <2>9. QED
    BY <2>4, <2>5, <2>6, <2>7, <2>8
<1>7. CASE FirstSent
  <2>1. PICK b \in 0..255 : text = <<b>> /\ NextState(0, Class(b)) \in 2..8
    BY <1>7 DEF FirstSent
  <2>2. b > 127
    BY <2>1, FirstOfMore
  <2>3. b # 34
    BY <2>2
  <2>4. QED
    BY <2>1, <2>3 DEF NoQuote, Quote
<1>8. CASE LaterSent
  <2>1. PICK p \in 2..8, b \in 0..255 : text = <<b>> /\ NextState(p, Class(b)) # 1
    BY <1>8 DEF LaterSent
  <2>2. b # 34
    <3>1. b >= 128
      BY <2>1, NextByte, SMT DEF Follows
    <3>2. QED
      BY <3>1
  <2>3. QED
    BY <2>1, <2>2 DEF NoQuote, Quote
<1>9. QED
  BY <1>2, <1>3, <1>4, <1>5, <1>6, <1>7, <1>8 DEF Following, Between, Inside

\* And so does any beginning of it.
LEMMA NoQuoteBefore ==
  ASSUME NoQuote, text \in Seq(0..255), NEW n \in 0..Len(text), text' = SubSeq(text, 1, n), lexer' = lexer
  PROVE  NoQuote'
<1>1. Len(text') = n /\ \A w \in 1..n : text'[w] = text[w]
  <2>1. \A w \in 1..n : text[w] \in 0..255
    <3>1. \A w \in 1..n : w \in 1..Len(text)
      OBVIOUS
    <3>2. QED
      BY <3>1, ElementOfSeq
  <2>2. n \in Nat /\ 1 \in Int /\ n \in Int
    OBVIOUS
  <2>3. /\ Len(SubSeq(text, 1, n)) = IF 1 <= n THEN n - 1 + 1 ELSE 0
        /\ \A w \in 1..(n - 1 + 1) : SubSeq(text, 1, n)[w] = text[1 + w - 1]
    BY <2>1, <2>2, SubSeqProperties
  <2>4. QED
    BY <2>2, <2>3
<1>2. \A w \in 1..n : w \in 1..Len(text)
  OBVIOUS
<1>3. n >= 2 => 1 \in 1..n
  OBVIOUS
<1>4. \A w \in 1..n : w = 2 => n >= 2
  OBVIOUS
<1>5. QED
  BY <1>1, <1>2, <1>3, <1>4, Zenon DEF NoQuote

\* What the state of the dump and the reader are while both go on, and after the
\* dump has ended or was cut off.
GoesOn ==
  /\ lexer \in {"scan", "space", "token"} \cup StringPlaces
  /\ next_unget = (lexer = "space")
  /\ lexer \in {"scan", "space"} => got = <<>> /\ token = "none"
  /\ lexer = "scan" => fresh /\ sent = <<>> /\ state = 0
WhileDumping ==
  writer = "dumping" => token = "none" /\ (Following \/ (lexer = "scan" /\ text = <<Quote>>))
AfterEnd ==
  writer = "ended" =>
    \/ Opened /\ text = <<Quote>> /\ token = "none"
    \/ lexer = "token" /\ text = <<>> /\ token \in {"none", "string"}
AfterCut ==
  writer \in {"threw", "killed"} =>
    /\ token # "string"
    /\ lexer = "scan" => text \in {<<>>, <<Quote>>}
    /\ lexer = "space" => current = Quote \/ (current = EOF /\ text = <<>>)
    /\ lexer # "scan" => NoQuote

\* The parts of Lockstep.
LEMMA LockIs ==
  /\ Lockstep <=> (x = -1 /\ writer \in {"dumping", "ended", "threw", "killed"} =>
                     GoesOn /\ WhileDumping /\ AfterEnd /\ AfterCut)
  /\ Lockstep' <=> (x' = -1 /\ writer' \in {"dumping", "ended", "threw", "killed"} =>
                     GoesOn' /\ WhileDumping' /\ AfterEnd' /\ AfterCut')
BY DEF Lockstep, GoesOn, WhileDumping, AfterEnd, AfterCut

\* A byte is dumped only when everything before it has been read.
LEMMA DumpBytes ==
  ASSUME DecodeInv, Lockstep, NEW b \in Bytes, DumpByte(b), x = -1
  PROVE  /\ writer = "dumping" /\ text = <<>> /\ UNCHANGED <<scanVars, stringVars>>
         /\ Between \/ Inside
         /\ (writer' = "threw" /\ text' = <<>>) \/ (writer' = "dumping" /\ (Character \/ FirstSent \/ LaterSent)')
<1>1. /\ writer = "dumping" /\ text = <<>> /\ UNCHANGED <<scanVars, stringVars>>
      /\ state' = NextState(state, Class(b)) /\ codepoint' = NextCodepoint(b)
      /\ sent' = IF state = 0 THEN <<b>> ELSE Append(sent, b)
      /\ \/ state' = 1 /\ writer' = "threw" /\ text' = text
         \/ /\ state' # 1 /\ writer' = writer
            /\ text' = IF state' = 0 THEN Escaped(NextCodepoint(b), b) ELSE <<b>>
  BY Zenon DEF DumpByte, UTF8_ACCEPT, UTF8_REJECT
<1>2. Between \/ Inside
  <2>1. Following
    <3>1. Following \/ text = <<Quote>>
      BY <1>1 DEF Lockstep
    <3>2. QED
      BY <1>1, <3>1
  <2>2. QED
    BY <1>1, <2>1, FollowingAt
<1>3. b \in 0..255
  BY StringAssumption
<1>4. UNCHANGED <<lexer, got, ranges, current>>
  BY <1>1 DEF scanVars, stringVars
<1>5. /\ state' = 0 /\ state # 0 => NextCodepoint(b) >= 128
      /\ state' = 0 /\ state = 0 => NextCodepoint(b) = b
      /\ DecodeInv'
  BY DecodeByte
<1>6. CASE state' = 1
  BY <1>1, <1>2, <1>6
<1>7. CASE state' # 1 /\ Between
  <2>1. state = 0 /\ sent' = <<b>> /\ Opened' /\ state' = NextState(0, Class(b))
    BY <1>1, <1>4, <1>7 DEF Between, Opened
  <2>2. CASE state' = 0
    <3>1. b < 128
      BY <1>3, <2>1, <2>2, FirstByte, SMT
    <3>2. b \in 0..127
      BY <1>3, <3>1
    <3>3. text' = Escaped(b, b)
      BY <1>1, <1>5, <1>7, <2>1, <2>2
    <3>4. Character'
      BY <2>1, <2>2, <3>2, <3>3 DEF Character
    <3>5. QED
      BY <1>1, <1>2, <1>7, <3>4
  <2>3. CASE state' # 0
    <3>1. state' \in 2..8
      <4>1. state' \in 0..8
        BY <1>3, <2>1, ReachedFirst
      <4>2. QED
        BY <1>7, <2>3, <4>1
    <3>2. FirstSent'
      BY <1>1, <1>3, <1>7, <2>1, <2>3, <3>1 DEF FirstSent
    <3>3. QED
      BY <1>1, <1>2, <1>7, <3>2
  <2>4. QED
    BY <2>2, <2>3
<1>8. CASE state' # 1 /\ Inside
  <2>1. lexer' = "ranges" /\ state \in 2..8 /\ sent' = Append(got', b) /\ ranges' = RangesIn(state)
    <3>1. \A t \in 2..8 : t # 0
      OBVIOUS
    <3>2. QED
      BY <1>1, <1>4, <1>8, <3>1 DEF Inside
  <2>2. text' = <<b>>
    <3>1. CASE state' = 0
      <4>1. NextCodepoint(b) \in Nat /\ NextCodepoint(b) >= 128
        <5>1. \A t \in 2..8 : t # 0
          OBVIOUS
        <5>2. codepoint' \in Nat
          BY <1>5 DEF DecodeInv
        <5>3. QED
          BY <1>1, <1>5, <2>1, <3>1, <5>1, <5>2
      <4>2. PICK n \in Nat : n = NextCodepoint(b) /\ n >= 128
        BY <4>1
      <4>3. Plain(n)
        BY <4>2 DEF Plain
      <4>4. QED
        BY <1>1, <1>8, <3>1, <4>2, <4>3, EscapedIs
    <3>2. QED
      BY <1>1, <1>8, <3>1
  <2>3. LaterSent'
    BY <1>1, <1>3, <1>8, <2>1, <2>2 DEF LaterSent
  <2>4. QED
    BY <1>1, <1>2, <1>8, <2>3
<1>9. QED
  BY <1>2, <1>6, <1>7, <1>8

\* The writer's steps.
LEMMA LockDump ==
  ASSUME DecodeInv, Lockstep, x = -1, UNCHANGED x, DumpString
  PROVE  Lockstep'
<1>1. writer = "dumping" /\ UNCHANGED <<scanVars, stringVars>>
  BY DEF DumpString, DumpByte, DumpEnd
<1>2. UNCHANGED <<lexer, token, fresh, current, next_unget, got, ranges, digits>>
  BY <1>1 DEF scanVars, stringVars
<1>3. GoesOn /\ WhileDumping
  BY <1>1, LockIs
<1>4. ASSUME NEW b \in Bytes, DumpByte(b)
      PROVE  Lockstep'
  <2>1. /\ text = <<>> /\ (Between \/ Inside)
        /\ (writer' = "threw" /\ text' = <<>>) \/ (writer' = "dumping" /\ (Character \/ FirstSent \/ LaterSent)')
    BY <1>4, DumpBytes
  <2>2. token = "none" /\ lexer \in {"plain", "space", "ranges"} /\ (lexer = "space" => current = 34)
    BY <1>1, <1>3, <2>1, OpenedAt DEF WhileDumping, Between, Inside
  <2>3. GoesOn'
    BY <1>2, <1>3, <2>2, Zenon DEF GoesOn
  <2>4. CASE writer' = "threw" /\ text' = <<>>
    <3>1. NoQuote'
      BY <2>4 DEF NoQuote
    <3>2. AfterCut'
      BY <1>2, <2>2, <2>4, <3>1, Zenon DEF AfterCut, Quote
    <3>3. QED
      BY <2>3, <2>4, <3>2, LockIs DEF WhileDumping, AfterEnd
  <2>5. CASE writer' = "dumping" /\ (Character \/ FirstSent \/ LaterSent)'
    <3>1. Following'
      BY <2>5 DEF Following
    <3>2. QED
      BY <1>2, <2>2, <2>3, <2>5, <3>1, LockIs DEF WhileDumping, AfterEnd, AfterCut
  <2>6. QED
    BY <2>1, <2>4, <2>5
<1>5. CASE DumpEnd
  <2>1. /\ text = <<>> /\ UNCHANGED dumpVars
        /\ (state = 0 /\ writer' = "ended" /\ text' = <<Quote>>) \/ (state # 0 /\ writer' = "threw" /\ text' = <<>>)
    BY <1>5 DEF DumpEnd, UTF8_ACCEPT
  <2>2. Following /\ token = "none"
    BY <1>1, <1>3, <2>1 DEF WhileDumping
  <2>3. Between \/ Inside
    BY <2>1, <2>2, FollowingAt
  <2>4. lexer \in {"plain", "space", "ranges"} /\ (lexer = "space" => current = 34)
    BY <2>3, OpenedAt DEF Between, Inside
  <2>5. GoesOn'
    BY <1>2, <1>3, <2>4, Zenon DEF GoesOn
  <2>6. CASE state # 0 /\ writer' = "threw" /\ text' = <<>>
    <3>1. NoQuote'
      BY <2>6 DEF NoQuote
    <3>2. AfterCut'
      BY <1>2, <2>2, <2>4, <2>6, <3>1, Zenon DEF AfterCut, Quote
    <3>3. QED
      BY <2>5, <2>6, <3>2, LockIs DEF WhileDumping, AfterEnd
  <2>7. CASE state = 0 /\ writer' = "ended" /\ text' = <<Quote>>
    <3>1. Between
      <4>1. \A t \in 2..8 : t # 0
        OBVIOUS
      <4>2. QED
        BY <2>3, <2>7, <4>1 DEF Inside
    <3>2. Opened'
      BY <1>2, <3>1 DEF Between, Opened
    <3>3. QED
      BY <1>2, <2>2, <2>5, <2>7, <3>2, LockIs DEF WhileDumping, AfterEnd, AfterCut
  <2>8. QED
    BY <2>1, <2>6, <2>7
<1>6. QED
  BY <1>4, <1>5 DEF DumpString

\* The file ends anywhere.
LEMMA LockKill ==
  ASSUME CharsInv, Lockstep, x = -1, Kill
  PROVE  Lockstep'
<1>1. UNCHANGED <<scanVars, dumpVars, stringVars, integerVars>>
  BY DEF Kill
<1>2. UNCHANGED <<lexer, token, fresh, current, next_unget, got, ranges, digits, sent, state, x>>
  BY <1>1 DEF scanVars, stringVars, dumpVars, integerVars
<1>3. CASE writer = "edited"
  <2>1. writer' = "edited end"
    BY <1>3 DEF Kill
  <2>2. QED
    BY <2>1, LockIs
<1>4. CASE writer # "edited"
  <2>1. writer = "dumping" /\ writer' = "killed"
    BY <1>4 DEF Kill
  <2>2. PICK n \in 0..Len(text) : text' = SubSeq(text, 1, n)
    BY DEF Kill
  <2>3. GoesOn /\ WhileDumping
    BY <2>1, LockIs
  <2>4. GoesOn'
    BY <1>2, <2>3, Zenon DEF GoesOn
  <2>5. CASE Following
    <3>1. NoQuote'
      BY <1>2, <2>2, <2>5, NoQuoteWithin, NoQuoteBefore DEF CharsInv
    <3>2. lexer # "scan" /\ (lexer = "space" => current = 34)
      BY <2>5, FollowingAt
    <3>3. AfterCut'
      BY <1>2, <2>1, <2>3, <3>1, <3>2 DEF AfterCut, WhileDumping, Quote
    <3>4. QED
      BY <2>1, <2>4, <3>3, LockIs DEF WhileDumping, AfterEnd
  <2>6. CASE lexer = "scan" /\ text = <<Quote>>
    <3>1. text' \in {<<>>, <<Quote>>}
      <4>1. n = 0 \/ n = 1
        BY <2>2, <2>6
      <4>2. CASE n = 0
        BY <2>2, <4>2, SubSeqEmpty
      <4>3. CASE n = 1
        <5>1. Len(text) = 1 /\ text \in Seq(0..255)
          BY <2>6 DEF CharsInv
        <5>2. QED
          BY <2>2, <2>6, <4>3, <5>1, SubSeqFull
      <4>4. QED
        BY <4>1, <4>2, <4>3
    <3>2. AfterCut'
      BY <1>2, <2>1, <2>3, <2>6, <3>1 DEF AfterCut, WhileDumping
    <3>3. QED
      BY <2>1, <2>4, <3>2, LockIs DEF WhileDumping, AfterEnd
  <2>7. QED
    BY <2>1, <2>3, <2>5, <2>6 DEF WhileDumping
<1>5. QED
  BY <1>3, <1>4

\* The quote is no byte order mark.
LEMMA LockBom ==
  ASSUME Lockstep, x = -1, x' = x, writer \in {"dumping", "ended", "threw", "killed"}, SkipBom,
         UNCHANGED <<dumpVars, stringVars>>
  PROVE  Lockstep'
<1>1. GoesOn /\ WhileDumping /\ AfterEnd /\ AfterCut
  BY LockIs
<1>2. UNCHANGED <<sent, state, got, ranges, digits>>
  BY DEF dumpVars, stringVars
<1>3. lexer = "scan" /\ next_unget = FALSE
  <2>1. lexer # "mark"
    BY <1>1 DEF GoesOn, StringPlaces
  <2>2. QED
    BY <1>1, <2>1, LexerPlaces DEF GoesOn
<1>4. /\ Get /\ token' = token /\ writer' = writer
      /\ current' # 239 => lexer' = "space" /\ next_unget' = TRUE /\ fresh' = fresh
  BY <1>3, Zenon DEF SkipBom, GetAt, Unget, Get
<1>5. text \in {<<>>, <<Quote>>} /\ (writer = "dumping" => text = <<Quote>>)
      /\ writer # "ended"
  BY <1>1, <1>3, FollowingAt DEF WhileDumping, AfterEnd, AfterCut, Opened
<1>6. CASE text = <<Quote>>
  <2>1. current' = Quote /\ text' = <<>>
    BY <1>3, <1>4, <1>6, TakesChar, Splits
  <2>2. lexer' = "space" /\ next_unget' = TRUE
    BY <1>4, <2>1, SMT DEF Quote
  <2>6. NoQuote'
    BY <2>1 DEF NoQuote
  <2>3. GoesOn' /\ NoQuote' /\ token' # "string" /\ token' = "none"
    BY <1>1, <1>2, <1>3, <1>4, <2>1, <2>2, <2>6 DEF GoesOn
  <2>4. Between'
    BY <1>1, <1>2, <1>3, <2>1, <2>2 DEF Between, Opened, GoesOn
  <2>5. QED
    BY <1>4, <1>5, <2>1, <2>2, <2>3, <2>4, LockIs DEF WhileDumping, AfterEnd, AfterCut, Following
<1>7. CASE text = <<>>
  <2>1. current' = EOF /\ text' = <<>>
    BY <1>3, <1>4, <1>7, TakesChar DEF EOF
  <2>2. lexer' = "space" /\ next_unget' = TRUE
    BY <1>4, <2>1, SMT DEF EOF
  <2>6. NoQuote'
    BY <2>1 DEF NoQuote
  <2>3. GoesOn' /\ NoQuote' /\ token' # "string" /\ token' = "none"
    BY <1>1, <1>2, <1>3, <1>4, <2>1, <2>2, <2>6 DEF GoesOn
  <2>4. writer' \in {"threw", "killed"}
    BY <1>4, <1>5, <1>7
  <2>5. QED
    BY <2>1, <2>2, <2>3, <2>4, LockIs DEF WhileDumping, AfterEnd, AfterCut
<1>8. QED
  BY <1>5, <1>6, <1>7

\* What is chosen by a quote, and at the end.
LEMMA ChosenString ==
  ASSUME Choose, current' \in {Quote, EOF}
  PROVE  /\ Get /\ next_unget' = FALSE /\ fresh' = FALSE
         /\ current' = Quote => lexer' = "plain" /\ token' = token
         /\ current' = EOF => lexer' = "token" /\ token' = "end_of_input"
<1>1. /\ DOMAIN Structural = {91, 93, 123, 125, 58, 44}
      /\ DOMAIN Literals = {116, 102, 110}
  BY DEF Structural, Literals
<1>2. \A c \in {Quote, EOF} : /\ c \notin DOMAIN Structural /\ c \notin DOMAIN Literals
                              /\ c \notin White /\ c \notin Decimals \cup {Minus}
  BY <1>1, SMT DEF White, Decimals, Minus, Quote, EOF
<1>3. Quote # EOF /\ Quote # 0
  BY SMT DEF Quote, EOF
<1>4. Get
  BY DEF Choose, GetAt
<1>5. \/ current' = Quote /\ NotUngot("plain") /\ token' = token
      \/ current' \in {0, EOF} /\ Returns("end_of_input")
  BY <1>2, Zenon DEF Choose
<1>6. QED
  BY <1>3, <1>4, <1>5, Zenon DEF NotUngot, Returns

\* The quote begins a string; the end of a cut text ends it.
LEMMA LockChoose ==
  ASSUME Lockstep, x = -1, x' = x, writer \in {"dumping", "ended", "threw", "killed"}, Choose,
         UNCHANGED <<dumpVars, stringVars>>
  PROVE  Lockstep'
<1>1. GoesOn /\ WhileDumping /\ AfterEnd /\ AfterCut
  BY LockIs
<1>2. UNCHANGED <<sent, state, got, ranges, digits>>
  BY DEF dumpVars, stringVars
<1>3. lexer = "space" /\ next_unget = TRUE /\ token = "none" /\ got = <<>>
  <2>1. lexer # "scan"
    BY <1>1 DEF Choose, GetAt, GoesOn
  <2>2. QED
    BY <1>1, <2>1, LexerPlaces DEF GoesOn
<1>4. Get
  BY DEF Choose, GetAt
<1>5. current' = current /\ text' = text /\ writer' = writer
  BY <1>3, <1>4 DEF Get
<1>6. \/ current = Quote
      \/ current = EOF /\ text = <<>> /\ writer \in {"threw", "killed"}
  BY <1>1, <1>3, FollowingAt DEF WhileDumping, AfterEnd, AfterCut, Opened, Quote
<1>7. CASE current = Quote
  <2>1. lexer' = "plain" /\ token' = token /\ next_unget' = FALSE
    BY <1>5, <1>7, ChosenString
  <2>2. GoesOn'
    BY <2>1 DEF GoesOn, StringPlaces
  <2>3. Opened' /\ (Opened <=> TRUE)
    BY <1>3, <1>7, <2>1 DEF Opened
  <2>4. Following => Following'
    <3>1. Following => Between \/ Character \/ FirstSent
      BY <1>3, FollowingAt
    <3>2. /\ Between => Between'
          /\ FirstSent => FirstSent'
      BY <1>2, <1>5, <2>3 DEF Between, FirstSent
    <3>3. Character => Character'
      BY <1>2, <1>5, <2>3 DEF Character
    <3>4. QED
      BY <3>1, <3>2, <3>3 DEF Following
  <2>5. NoQuote => NoQuote'
    BY <1>3, <1>5, <2>1 DEF NoQuote
  <2>6. WhileDumping'
    BY <1>1, <1>3, <1>5, <2>1, <2>4 DEF WhileDumping
  <2>7. AfterEnd'
    BY <1>1, <1>3, <1>5, <2>1, <2>3 DEF AfterEnd
  <2>8. AfterCut'
    BY <1>1, <1>3, <1>5, <2>1, <2>5 DEF AfterCut
  <2>9. QED
    BY <2>2, <2>6, <2>7, <2>8, LockIs
<1>8. CASE current = EOF /\ text = <<>> /\ writer \in {"threw", "killed"}
  <2>1. lexer' = "token" /\ token' = "end_of_input" /\ next_unget' = FALSE
    BY <1>5, <1>8, ChosenString
  <2>4. NoQuote'
    BY <1>5, <1>8 DEF NoQuote
  <2>2. GoesOn' /\ NoQuote'
    BY <1>5, <1>8, <2>1, <2>4 DEF GoesOn
  <2>3. QED
    BY <1>5, <1>8, <2>1, <2>2, LockIs DEF WhileDumping, AfterEnd, AfterCut
<1>9. QED
  BY <1>6, <1>7, <1>8

\* What scan_string does to place and token.
LEMMA PlacesNamed ==
  ASSUME ReadString
  PROVE  /\ lexer' \in {"token"} \cup StringPlaces
         /\ next_unget' = FALSE
         /\ lexer \in {"plain", "escape", "hex", "ranges", "pair", "pair u"}
         /\ token' = token \/ token' = "parse_error" \/ (token' = "string" /\ lexer = "plain" /\ current' = Quote)
<1>1. Fail => lexer' = "token" /\ next_unget' = FALSE /\ token' = "parse_error"
  BY DEF Fail, Returns, NotUngot
<1>2. \A s : Add(s) => lexer' = "plain" /\ next_unget' = FALSE /\ token' = token
  BY DEF Add, NotUngot
<1>3. \A p : Goto(p) => lexer' = p /\ next_unget' = FALSE /\ token' = token
  BY DEF Goto, NotUngot
<1>4. "plain" \in StringPlaces /\ "escape" \in StringPlaces /\ "hex" \in StringPlaces
      /\ "ranges" \in StringPlaces /\ "pair" \in StringPlaces /\ "pair u" \in StringPlaces
  BY DEF StringPlaces
<1> DEFINE Done == /\ lexer' \in {"token"} \cup StringPlaces
                   /\ next_unget' = FALSE
                   /\ token' = token \/ token' = "parse_error" \/ (token' = "string" /\ lexer = "plain" /\ current' = Quote)
<1>5. Fail => Done
  BY <1>1
<1>6. \A s : Add(s) => Done
  BY <1>2, <1>4
<1>19. \A p \in StringPlaces : Goto(p) => Done
  BY <1>3
<1>8. ScanQuote => Done
  <2>1. Returns("string") => lexer' = "token" /\ next_unget' = FALSE /\ token' = "string"
    BY DEF Returns, NotUngot
  <2> HIDE DEF Done
  <2>2. lexer = "plain" /\ current' = Quote /\ Returns("string") => Done
    BY <2>1 DEF Done
  <2>3. ScanQuote => lexer = "plain"
    BY DEF ScanQuote, ScanString, GetAt
  <2>5. Goto("escape") => Done
    BY <1>4, <1>19
  <2>4. QED
    BY <2>2, <2>3, <2>5 DEF ScanQuote
<1> HIDE DEF Done
<1>7. Goto("escape") \/ Goto("hex") \/ Goto("ranges") \/ Goto("plain") \/ Goto("pair") \/ Goto("pair u") => Done
  BY <1>4, <1>19, Zenon
<1>9. ScanControl \/ ScanEOF => Done
  BY <1>5 DEF ScanControl, ScanEOF
<1>10. ScanAscii => Done
  BY <1>6 DEF ScanAscii
<1>11. ScanLead => Done
  BY <1>5, <1>7 DEF ScanLead
<1>12. ScanRange => Done
  BY <1>5, <1>7 DEF ScanRange
<1>13. ScanEscape => Done
  BY <1>5, <1>6, <1>7 DEF ScanEscape
<1>14. ScanHex => Done
  <2> DEFINE all == Append(digits, HexValue(current'))
             cp1 == Codepoint(all)
             cp2 == Codepoint(SubSeq(all, 5, 8))
             v == Encoded(cp1 * 1024 + cp2 - 56613888)
  <2>1. ScanHex => Fail \/ Goto("hex") \/ Goto("pair") \/ Add(Encoded(cp1)) \/ Add(v)
    BY SMT DEF ScanHex
  <2> HIDE DEF cp1, v
  <2>2. QED
    BY <1>5, <1>6, <1>7, <2>1
<1>15. ScanPair => Done
  BY <1>5, <1>7 DEF ScanPair
<1>16. Done
  BY <1>8, <1>9, <1>10, <1>11, <1>12, <1>13, <1>14, <1>15 DEF ReadString
<1>17. lexer \in {"plain", "escape", "hex", "ranges", "pair", "pair u"}
  BY OnlyAt DEF StringPlaces
<1>18. QED
  BY <1>16, <1>17 DEF Done

\* The reader's steps while there is more to come.
LEMMA LockDumpingRead ==
  ASSUME ReadInv, Lockstep, x = -1, x' = x, writer = "dumping", ReadString
  PROVE  Lockstep'
<1>1. GoesOn /\ WhileDumping
  BY LockIs
<1>2. lexer \in {"plain", "escape", "hex", "ranges", "pair", "pair u"} /\ Get /\ writer' = "dumping"
  BY PlacesNamed, OnlyAt DEF Get
<1>3. Following /\ token = "none" /\ ~next_unget /\ text # <<>>
  BY <1>1, <1>2 DEF GoesOn, WhileDumping, Get
<1>4. \/ lexer = "plain" /\ (Character \/ FirstSent)
      \/ lexer = "escape" /\ (ShortEscape \/ LongEscape)
      \/ lexer = "hex" /\ HexDigit
      \/ lexer = "ranges" /\ LaterSent
  BY <1>2, <1>3, FollowingAt DEF Between, Inside
<1>5. lexer' # "token" /\ token' = token /\ next_unget' = FALSE /\ Following'
  BY <1>3, <1>4, ReadsCharacter, ReadsFirst, ReadsShort, ReadsLong, ReadsHex, ReadsLater DEF Following
<1>6. lexer' \in StringPlaces
  BY <1>5, PlacesNamed
<1>7. GoesOn'
  <2>1. lexer' \notin {"scan", "space"}
    BY <1>6 DEF StringPlaces
  <2>2. QED
    BY <1>5, <1>6, <2>1 DEF GoesOn
<1>8. QED
  BY <1>2, <1>3, <1>5, <1>7, LockIs DEF WhileDumping, AfterEnd, AfterCut

\* Behind the writer's last quote.
LEMMA LockEndedRead ==
  ASSUME Lockstep, x = -1, x' = x, writer = "ended", ReadString
  PROVE  Lockstep'
<1>1. GoesOn /\ AfterEnd
  BY LockIs
<1>2. /\ Get /\ writer' = "ended"
      /\ lexer \in {"plain", "escape", "hex", "ranges", "pair", "pair u"}
  BY PlacesNamed, OnlyAt DEF Get
<1>3. lexer = "plain" /\ text = <<Quote>> /\ ~next_unget
  BY <1>1, <1>2, OpenedAt DEF AfterEnd, GoesOn
<1>4. current' = 34 /\ text' = <<>>
  BY <1>2, <1>3, TakesChar, Splits DEF Quote
<1>5. ScanQuote \/ ScanControl \/ ScanAscii \/ ScanLead \/ ScanEOF
  BY <1>3, OnlyAt
<1>6. ScanQuote
  <2>1. 34 \notin 0..31 /\ ~(34 > 127) /\ 34 # -1
    BY SMT
  <2>2. QED
    BY <1>4, <1>5, <2>1 DEF ScanControl, ScanAscii, ScanLead, ScanEOF, Quote, EOF
<1>7. lexer' = "token" /\ token' = "string" /\ next_unget' = FALSE
  <2>1. 34 # 92
    BY SMT
  <2>2. QED
    BY <1>4, <1>6, <2>1 DEF ScanQuote, Returns, NotUngot, Backslash
<1>8. GoesOn'
  BY <1>7 DEF GoesOn
<1>9. QED
  BY <1>2, <1>4, <1>7, <1>8, LockIs DEF WhileDumping, AfterEnd, AfterCut

\* In a text that was cut: it never becomes a shorter string.
LEMMA LockCutRead ==
  ASSUME CharsInv, Lockstep, x = -1, x' = x, writer \in {"threw", "killed"}, ReadString
  PROVE  Lockstep'
<1>1. GoesOn /\ AfterCut
  BY LockIs
<1>2. /\ Get /\ writer' = writer
      /\ lexer \in {"plain", "escape", "hex", "ranges", "pair", "pair u"}
      /\ lexer' \in {"token"} \cup StringPlaces /\ next_unget' = FALSE
      /\ token' = token \/ token' = "parse_error" \/ (token' = "string" /\ lexer = "plain" /\ current' = Quote)
  BY PlacesNamed, OnlyAt DEF Get
<1>3. ~next_unget /\ NoQuote /\ token # "string"
  BY <1>1, <1>2 DEF AfterCut, GoesOn
<1>4. lexer' \notin {"scan", "space"} /\ GoesOn'
  <2>1. lexer' \notin {"scan", "space"}
    BY <1>2 DEF StringPlaces
  <2>2. QED
    BY <1>2, <2>1 DEF GoesOn
<1>5. NoQuote' /\ (lexer = "plain" => current' # Quote)
  <2>1. CASE text = <<>>
    <3>1. current' = -1 /\ text' = <<>>
      BY <1>2, <1>3, <2>1, TakesChar
    <3>2. current' # Quote
      BY <3>1, SMT DEF Quote
    <3>3. NoQuote'
      BY <3>1 DEF NoQuote
    <3>4. QED
      BY <3>2, <3>3
  <2>2. CASE text # <<>>
    <3>1. /\ current' = text[1] /\ 1 \in 1..Len(text)
          /\ Len(text') = Len(text) - 1
          /\ \A w \in 1..Len(text') : text'[w] = text[w + 1] /\ w + 1 \in 1..Len(text)
      <4>1. current' = Head(text) /\ text' = Tail(text) /\ text \in Seq(0..255)
        BY <1>2, <1>3, <2>2, TakesChar DEF CharsInv
      <4>2. Head(text) = text[1] /\ Len(text) \in Nat /\ Len(text) > 0
        BY <2>2, <4>1
      <4>3. Len(Tail(text)) = Len(text) - 1 /\ \A w \in 1..Len(Tail(text)) : Tail(text)[w] = text[w + 1]
        BY <2>2, <4>1, HeadTailProperties
      <4>4. QED
        BY <4>1, <4>2, <4>3
    <3>2. ~(1 = 2)
      OBVIOUS
    <3>3. lexer = "plain" => current' # Quote
      BY <1>3, <3>1, <3>2, Zenon DEF NoQuote
    <3>4. \A w \in 1..Len(text') : text'[w] = Quote => w = 1 /\ text[1] = Backslash /\ lexer \in {"plain", "space"}
      <4>1. SUFFICES ASSUME NEW w \in 1..Len(text'), text'[w] = Quote
                     PROVE  w = 1 /\ text[1] = Backslash /\ lexer \in {"plain", "space"}
        OBVIOUS
      <4>2. w \in Nat /\ w # 0
        BY <3>1
      <4>3. w + 1 # 1 /\ (w + 1 = 2 => w = 1)
        BY <4>2
      <4>4. text[w + 1] = Quote /\ w + 1 \in 1..Len(text)
        BY <3>1, <4>1
      <4>5. (w + 1 = 1 /\ lexer = "escape") \/ (w + 1 = 2 /\ text[1] = Backslash /\ lexer \in {"plain", "space"})
        BY <1>3, <4>4, Zenon DEF NoQuote
      <4>6. QED
        BY <4>3, <4>5
    <3>5. lexer = "plain" /\ current' = Backslash => lexer' = "escape"
      <4>1. SUFFICES ASSUME lexer = "plain", current' = Backslash
                     PROVE  lexer' = "escape"
        OBVIOUS
      <4>2. ScanQuote \/ ScanControl \/ ScanAscii \/ ScanLead \/ ScanEOF
        BY <4>1, OnlyAt
      <4>3. 92 \notin 0..31 /\ ~(92 > 127) /\ 92 # -1 /\ 92 # 34
        BY SMT
      <4>4. ScanQuote
        BY <4>1, <4>2, <4>3 DEF ScanControl, ScanAscii, ScanLead, ScanEOF, Backslash, EOF
      <4>5. QED
        BY <4>1, <4>3, <4>4 DEF ScanQuote, Goto, NotUngot, Backslash, Quote
    <3>6. NoQuote'
      BY <1>2, <3>1, <3>4, <3>5, Zenon DEF NoQuote
    <3>7. QED
      BY <3>3, <3>6
  <2>3. QED
    BY <2>1, <2>2
<1>6. QED
  BY <1>2, <1>3, <1>4, <1>5, LockIs DEF WhileDumping, AfterEnd, AfterCut

\* The reader's steps.
LEMMA LockRead ==
  ASSUME CharsInv, ReadInv, Lockstep, x = -1, writer \in {"dumping", "ended", "threw", "killed"}, Read
  PROVE  Lockstep'
<1>1. GoesOn
  BY LockIs
<1>2. lexer \in {"scan", "space", "token"} \cup StringPlaces /\ (next_unget <=> lexer = "space")
  BY <1>1 DEF GoesOn
<1>3. CASE LexerNext /\ UNCHANGED <<dumpVars, stringVars, integerVars, value>>
  <2>1. x' = x
    BY <1>3 DEF integerVars
  <2>2. ~ScanLiteral
    BY <1>2, LexerPlaces, PlacesApart
  <2>3. ~ScanAgain
    BY <1>2 DEF ScanAgain
  <2>4. QED
    BY <1>3, <2>1, <2>2, <2>3, LockBom, LockChoose DEF LexerNext
<1>4. CASE ReadString /\ UNCHANGED <<integerVars, value>>
  <2>1. x' = x
    BY <1>4 DEF integerVars
  <2>2. QED
    BY <1>4, <2>1, LockDumpingRead, LockEndedRead, LockCutRead
<1>5. ~ReadNumber
  <2>1. "scan" \notin Label /\ "space" \notin Label /\ "token" \notin Label
    BY DEF Label
  <2>2. lexer \notin Label
    BY <1>2, <2>1, PlacesApart
  <2>3. QED
    BY <2>2, NumberPlaces DEF ReadNumber
<1>6. QED
  BY <1>3, <1>4, <1>5 DEF Read

\* The lockstep of dumping and reading a string goes on.
LEMMA LockNext == CharsInv /\ DecodeInv /\ ReadInv /\ Lockstep /\ [TextNext]_textVars => Lockstep'
<1> SUFFICES ASSUME CharsInv, DecodeInv, ReadInv, Lockstep, [TextNext]_textVars
             PROVE  Lockstep'
  OBVIOUS
<1>1. x' = x
  BY DEF TextNext, textVars, integerVars, Dump, Kill, EditedChar, Read, DumpNumber, DumpZero, StartFilling, FillPair,
         FillLast, ReadNumber
<1>2. CASE x # -1
  BY <1>1, <1>2, LockIs
<1>3. CASE x = -1 /\ writer \notin {"dumping", "ended", "threw", "killed"}
  <2>1. writer' \notin {"dumping", "ended", "threw", "killed"}
    <3>1. CASE UNCHANGED textVars
      BY <1>3, <3>1 DEF textVars
    <3>2. ~Dump
      BY <1>3 DEF Dump, DumpString, DumpByte, DumpEnd
    <3>3. Kill => writer' = "edited end"
      BY <1>3 DEF Kill
    <3>4. EditedChar => writer' = writer
      BY DEF EditedChar
    <3>5. Read => writer' = writer
      <4>1. LexerNext => writer' = writer
        BY DEF LexerNext, SkipBom, Choose, ScanLiteral, ScanAgain, GetAt, Get
      <4>2. ReadString => writer' = writer
        BY StringIsGot DEF Get
      <4>3. ReadNumber => writer' = writer
        BY DEF ReadNumber, ScanOn, ScanError, ScanDone, Get
      <4>4. QED
        BY <4>1, <4>2, <4>3 DEF Read
    <3>6. QED
      BY <1>3, <3>1, <3>2, <3>3, <3>4, <3>5 DEF TextNext
  <2>2. QED
    BY <2>1, LockIs
<1>4. CASE x = -1 /\ writer \in {"dumping", "ended", "threw", "killed"}
  <2>1. Dump => DumpString
    BY <1>4 DEF Dump
  <2>2. ~EditedChar
    BY <1>4 DEF EditedChar
  <2>3. CASE UNCHANGED textVars
    <3>1. UNCHANGED <<writer, text, lexer, token, fresh, current, next_unget, literal, token_buffer>>
      BY <2>3 DEF textVars, scanVars
    <3>2. UNCHANGED <<state, codepoint, sent, bytes, peak, digits, ranges, got, x>>
      BY <2>3 DEF textVars, dumpVars, stringVars, integerVars
    <3>3. (Opened => Opened') /\ (NoQuote => NoQuote')
      BY <3>1 DEF Opened, NoQuote
    <3>4. /\ Between => Between'
          /\ Character => Character'
          /\ ShortEscape => ShortEscape'
          /\ LongEscape => LongEscape'
      BY <3>1, <3>2, <3>3 DEF Between, Character, ShortEscape, LongEscape
    <3>5. HexDigit => HexDigit'
      BY <3>1, <3>2 DEF HexDigit
    <3>6. /\ FirstSent => FirstSent'
          /\ Inside => Inside'
          /\ LaterSent => LaterSent'
      BY <3>1, <3>2, <3>3 DEF FirstSent, Inside, LaterSent
    <3>7. Following => Following'
      BY <3>4, <3>5, <3>6 DEF Following
    <3>8. QED
      BY <3>1, <3>2, <3>3, <3>7 DEF Lockstep
  <2>4. QED
    BY <1>1, <1>4, <2>1, <2>2, <2>3, LockDump, LockKill, LockRead DEF TextNext
<1>5. QED
  BY <1>2, <1>3, <1>4

-----------------------------------------------------------------------------
(* Recursion over the numbers. *)

\* Induction over all smaller numbers.
LEMMA StrongInduction ==
  ASSUME NEW S \in SUBSET Nat, \A n \in Nat : (\A m \in Nat : m < n => m \in S) => n \in S
  PROVE  S = Nat
<1> DEFINE T == {n \in Nat : \A m \in Nat : m < n => m \in S}
<1>1. 0 \in T
  OBVIOUS
<1>2. ASSUME NEW n \in T
      PROVE  n + 1 \in T
  <2>1. n \in Nat /\ n \in S
    OBVIOUS
  <2>2. \A m \in Nat : m < n + 1 => m < n \/ m = n
    BY <2>1
  <2>3. QED
    BY <2>1, <2>2
<1> HIDE DEF T
<1>3. T = Nat
  <2>1. T \in SUBSET Nat
    BY DEF T
  <2>2. QED
    BY <1>1, <1>2, <2>1, NatSetInduction
<1>4. \A n \in Nat : n < n + 1 /\ n + 1 \in Nat
  OBVIOUS
<1>5. QED
  BY <1>3, <1>4 DEF T

\* f takes n steps from a.
Steps(f, n, S, a, step) ==
  /\ f \in [0..n -> S]
  /\ f[0] = a
  /\ \A k \in 1..n : f[k] = step[<<k, f[k - 1]>>]

\* f takes steps from a forever.
Stepping(f, S, a, step) ==
  f \in [Nat -> S] /\ f[0] = a /\ \A n \in Nat \ {0} : f[n] = step[<<n, f[n - 1]>>]

\* A step that stays in S has an iteration; LET functions are such.
LEMMA Iterates ==
  ASSUME NEW S, NEW a \in S, NEW step, \A k \in Nat : \A s \in S : step[<<k, s>>] \in S
  PROVE  \E f : Stepping(f, S, a, step)
<1> DEFINE Some == {n \in Nat : \E f : Steps(f, n, S, a, step)}
<1>1. Some = Nat
  <2>1. 0 \in Some
    <3>1. Steps([k \in 0..0 |-> a], 0, S, a, step)
      BY DEF Steps
    <3>2. QED
      BY <3>1
  <2>2. ASSUME NEW n \in Some
        PROVE  n + 1 \in Some
    <3>1. PICK f : Steps(f, n, S, a, step)
      OBVIOUS
    <3> DEFINE g == [k \in 0..(n + 1) |-> IF k <= n THEN f[k] ELSE step[<<n + 1, f[n]>>]]
    <3>2. n \in Nat /\ n \in 0..n /\ f \in [0..n -> S] /\ f[n] \in S /\ 0 \in 0..n
      BY <3>1 DEF Steps
    <3>3. step[<<n + 1, f[n]>>] \in S
      BY <3>2
    <3>4. \A k \in 0..(n + 1) : k <= n => k \in 0..n
      OBVIOUS
    <3>5. g \in [0..(n + 1) -> S]
      BY <3>2, <3>3, <3>4
    <3>6. \A k \in 0..n : g[k] = f[k]
      BY <3>2
    <3>7. g[n + 1] = step[<<n + 1, f[n]>>]
      BY <3>2
    <3> HIDE DEF g
    <3>8. \A k \in 1..(n + 1) : g[k] = step[<<k, g[k - 1]>>]
      <4>1. TAKE k \in 1..(n + 1)
      <4>2. k - 1 \in 0..n /\ (k \in 1..n \/ k = n + 1)
        BY <3>2
      <4>3. CASE k \in 1..n
        <5>1. k \in 0..n /\ f[k] = step[<<k, f[k - 1]>>]
          BY <3>1, <4>3 DEF Steps
        <5>2. QED
          BY <3>6, <4>2, <5>1
      <4>4. CASE k = n + 1
        <5>1. k - 1 = n
          BY <3>2, <4>4
        <5>2. QED
          BY <3>2, <3>6, <3>7, <4>4, <5>1
      <4>5. QED
        BY <4>2, <4>3, <4>4
    <3>9. Steps(g, n + 1, S, a, step)
      BY <3>1, <3>2, <3>5, <3>6, <3>8 DEF Steps
    <3>10. QED
      BY <3>2, <3>9
  <2> HIDE DEF Some
  <2>3. Some \in SUBSET Nat
    BY DEF Some
  <2>4. QED
    BY <2>1, <2>2, <2>3, NatSetInduction
<1>2. \A n \in Nat : \E f : Steps(f, n, S, a, step)
  BY <1>1
<1> HIDE DEF Some
<1> DEFINE g(n) == CHOOSE f : Steps(f, n, S, a, step)
           h == [n \in Nat |-> g(n)[n]]
<1>3. \A n \in Nat : Steps(g(n), n, S, a, step)
  BY <1>2
<1> HIDE DEF g
<1>4. ASSUME NEW n \in Nat
      PROVE  \A k \in 0..n : g(n)[k] = g(n + 1)[k]
  <2> DEFINE Same == {k \in Nat : k <= n => g(n)[k] = g(n + 1)[k]}
  <2>1. 0 \in Same
    BY <1>3 DEF Steps
  <2>2. ASSUME NEW k \in Same
        PROVE  k + 1 \in Same
    <3>1. CASE k + 1 <= n
      <4>1. /\ k \in Nat /\ k <= n /\ k + 1 \in 1..n /\ k + 1 \in 1..(n + 1) /\ (k + 1) - 1 = k
        BY <3>1
      <4>2. g(n)[k] = g(n + 1)[k]
        BY <4>1
      <4>3. g(n)[k + 1] = step[<<k + 1, g(n)[k]>>]
        BY <1>3, <4>1 DEF Steps
      <4>4. g(n + 1)[k + 1] = step[<<k + 1, g(n + 1)[k]>>]
        <5>1. n + 1 \in Nat
          OBVIOUS
        <5>2. QED
          BY <1>3, <4>1, <5>1 DEF Steps
      <4>5. QED
        BY <4>1, <4>2, <4>3, <4>4
    <3>2. QED
      BY <3>1
  <2> HIDE DEF Same
  <2>3. Same = Nat
    <3>1. Same \in SUBSET Nat
      BY DEF Same
    <3>2. QED
      BY <2>1, <2>2, <3>1, NatSetInduction
  <2>4. \A k \in 0..n : k \in Nat /\ k <= n
    OBVIOUS
  <2>5. QED
    BY <2>3, <2>4 DEF Same
<1>5. h \in [Nat -> S]
  <2>1. \A n \in Nat : n \in 0..n
    OBVIOUS
  <2>2. \A n \in Nat : g(n)[n] \in S
    BY <1>3, <2>1 DEF Steps
  <2>3. QED
    BY <2>2
<1>6. h[0] = a
  BY <1>3 DEF Steps
<1>7. ASSUME NEW n \in Nat \ {0}
      PROVE  h[n] = step[<<n, h[n - 1]>>]
  <2>1. n \in Nat /\ n - 1 \in Nat /\ n \in 1..n /\ n - 1 \in 0..(n - 1) /\ (n - 1) + 1 = n
    OBVIOUS
  <2>2. g(n)[n] = step[<<n, g(n)[n - 1]>>]
    BY <1>3, <2>1 DEF Steps
  <2>3. g(n)[n - 1] = g(n - 1)[n - 1]
    <3>1. g(n - 1)[n - 1] = g((n - 1) + 1)[n - 1]
      BY <1>4, <2>1
    <3>2. QED
      BY <2>1, <3>1
  <2>4. QED
    BY <2>1, <2>2, <2>3
<1>8. Stepping(h, S, a, step)
  <2> HIDE DEF h
  <2>1. QED
    BY <1>5, <1>6, <1>7 DEF Stepping
<1>9. QED
  BY <1>8

-----------------------------------------------------------------------------
(* Decimal digits. *)

\* The powers of ten.
LEMMA TensAre ==
  /\ Tens[0] = 1
  /\ \A n \in Nat : Tens[n] \in Nat /\ Tens[n] > 0 /\ Tens[n + 1] = 10 * Tens[n]
<1> DEFINE step == [p \in Nat \X Nat |-> 10 * p[2]]
<1>1. \A k, n \in Nat : step[<<k, n>>] = 10 * n /\ step[<<k, n>>] \in Nat
  OBVIOUS
<1> HIDE DEF step
<1>2. PICK f : f \in [Nat -> Nat] /\ f[0] = 1 /\ \A n \in Nat \ {0} : f[n] = step[<<n, f[n - 1]>>]
  <2> DEFINE S == Nat
             a == 1
  <2>1. a \in S
    OBVIOUS
  <2>2. \A k \in Nat : \A s \in S : step[<<k, s>>] \in S
    BY <1>1
  <2> HIDE DEF S, a
  <2>3. \E f : Stepping(f, S, a, step)
    BY <2>1, <2>2, Iterates
  <2>4. QED
    BY <2>3 DEF a, S, Stepping
<1>3. \A n \in Nat \ {0} : n \in Nat /\ n - 1 \in Nat
  OBVIOUS
<1>4. \A n \in Nat \ {0} : f[n] = 10 * f[n - 1]
  BY <1>1, <1>2, <1>3
<1>5. f = [n \in Nat |-> IF n = 0 THEN 1 ELSE 10 * f[n - 1]]
  BY <1>2, <1>4
<1>6. Tens = [n \in Nat |-> IF n = 0 THEN 1 ELSE 10 * Tens[n - 1]]
  BY <1>5 DEF Tens
<1>7. Tens[0] = 1
  BY <1>6
<1>8. \A n \in Nat : Tens[n + 1] = 10 * Tens[n]
  <2>1. \A n \in Nat : n + 1 \in Nat /\ n + 1 # 0 /\ (n + 1) - 1 = n
    OBVIOUS
  <2>2. QED
    BY <1>6, <2>1
<1> DEFINE S == {n \in Nat : Tens[n] \in Nat /\ Tens[n] > 0}
<1>9. S = Nat
  <2>1. 0 \in S
    BY <1>7
  <2>2. ASSUME NEW n \in S
        PROVE  n + 1 \in S
    BY <1>8
  <2> HIDE DEF S
  <2>3. S \in SUBSET Nat
    BY DEF S
  <2>4. QED
    BY <2>1, <2>2, <2>3, NatSetInduction
<1>10. QED
  BY <1>7, <1>8, <1>9

\* Cut(n)[k] is n without its last k digits.
Cut(n) ==
  LET cut[k \in Nat] == IF k = 0 THEN n ELSE cut[k - 1] \div 10
  IN cut

IsCut(f, n) == f \in [Nat -> Nat] /\ f[0] = n /\ \A k \in Nat : f[k + 1] = f[k] \div 10

\* A number without its last digit.
LEMMA By10 ==
  ASSUME NEW n \in Nat
  PROVE  /\ n \div 10 \in Nat /\ n % 10 \in 0..9 /\ n = 10 * (n \div 10) + (n % 10)
         /\ n < 10 <=> n \div 10 = 0
         /\ n > 0 => n \div 10 < n
         /\ n \div 100 = (n \div 10) \div 10
         /\ n \div 10000 = (((n \div 10) \div 10) \div 10) \div 10
         /\ (n % 100) % 10 = n % 10
         /\ (n % 100) \div 10 = (n \div 10) % 10
         /\ n % 100 \in 0..99
BY SMT

\* A number without its last k digits.
LEMMA CutIs ==
  ASSUME NEW n \in Nat
  PROVE  IsCut(Cut(n), n)
<1> DEFINE step == [p \in Nat \X Nat |-> p[2] \div 10]
<1>1. \A k, m \in Nat : step[<<k, m>>] = m \div 10 /\ step[<<k, m>>] \in Nat
  BY By10
<1> HIDE DEF step
<1>2. PICK f : f \in [Nat -> Nat] /\ f[0] = n /\ \A k \in Nat \ {0} : f[k] = step[<<k, f[k - 1]>>]
  <2> DEFINE S == Nat
  <2>1. n \in S
    OBVIOUS
  <2>2. \A k \in Nat : \A s \in S : step[<<k, s>>] \in S
    BY <1>1
  <2> HIDE DEF S
  <2>3. \E f : Stepping(f, S, n, step)
    BY <2>1, <2>2, Iterates
  <2>4. QED
    BY <2>3 DEF S, Stepping
<1>3. \A k \in Nat : f[k + 1] = f[k] \div 10
  <2>1. \A k \in Nat : k + 1 \in Nat \ {0} /\ k + 1 \in Nat /\ (k + 1) - 1 = k
    OBVIOUS
  <2>2. QED
    BY <1>1, <1>2, <2>1, ZenonT(30)
<1>4. f = [k \in Nat |-> IF k = 0 THEN n ELSE f[k - 1] \div 10]
  <2>1. \A k \in Nat \ {0} : f[k] = f[k - 1] \div 10
    <3>1. \A k \in Nat \ {0} : k \in Nat /\ k - 1 \in Nat
      OBVIOUS
    <3>2. QED
      BY <1>1, <1>2, <3>1
  <2>2. QED
    BY <1>2, <2>1
<1>5. Cut(n) = [k \in Nat |-> IF k = 0 THEN n ELSE Cut(n)[k - 1] \div 10]
  BY <1>4 DEF Cut
<1> DEFINE c == Cut(n)
           Same == {k \in Nat : c[k] = f[k]}
<1>6. c = [k \in Nat |-> IF k = 0 THEN n ELSE c[k - 1] \div 10]
  BY <1>5
<1> HIDE DEF c
<1>7. Same = Nat
  <2>1. 0 \in Same
    BY <1>2, <1>6
  <2>2. ASSUME NEW k \in Same
        PROVE  k + 1 \in Same
    <3>1. k \in Nat /\ k + 1 \in Nat /\ k + 1 # 0 /\ (k + 1) - 1 = k /\ c[k] = f[k]
      OBVIOUS
    <3>2. c[k + 1] = c[k] \div 10
      BY <1>6, <3>1
    <3>3. QED
      BY <1>3, <3>1, <3>2
  <2> HIDE DEF Same
  <2>3. Same \in SUBSET Nat
    BY DEF Same
  <2>4. QED
    BY <2>1, <2>2, <2>3, NatSetInduction
<1> HIDE DEF Same
<1>8. \A k \in Nat : c[k] = f[k]
  BY <1>7 DEF Same
<1>9. c = f
  <2>1. c = [k \in Nat |-> c[k]]
    BY <1>6
  <2>2. f = [k \in Nat |-> f[k]]
    BY <1>2
  <2>3. QED
    BY <1>8, <2>1, <2>2
<1>10. QED
  BY <1>2, <1>3, <1>9 DEF IsCut, c

\* Digits are cut off one after the other.
LEMMA CutShift ==
  ASSUME NEW n \in Nat, NEW m \in Nat
  PROVE  Cut(n)[m] \in Nat /\ \A k \in Nat : Cut(Cut(n)[m])[k] = Cut(n)[m + k]
<1> DEFINE f == Cut(n)
           g == Cut(f[m])
           S == {k \in Nat : g[k] = f[m + k]}
<1>1. IsCut(f, n)
  BY CutIs
<1> HIDE DEF f
<1>2. f[m] \in Nat
  BY <1>1 DEF IsCut
<1>3. IsCut(g, f[m])
  BY <1>2, CutIs
<1> HIDE DEF g
<1>4. 0 \in S
  BY <1>3 DEF IsCut
<1>5. ASSUME NEW k \in S
      PROVE  k + 1 \in S
  <2>1. k \in Nat /\ m + k \in Nat /\ m + (k + 1) = (m + k) + 1 /\ g[k] = f[m + k] /\ k + 1 \in Nat
    OBVIOUS
  <2>2. g[k + 1] = g[k] \div 10 /\ f[(m + k) + 1] = f[m + k] \div 10
    BY <1>1, <1>3, <2>1 DEF IsCut
  <2>3. QED
    BY <2>1, <2>2
<1> HIDE DEF S
<1>6. S = Nat
  <2>1. S \in SUBSET Nat
    BY DEF S
  <2>2. QED
    BY <1>4, <1>5, <2>1, NatSetInduction
<1>7. QED
  BY <1>2, <1>6 DEF S, f, g

\* Nothing is left of nothing.
LEMMA CutZero ==
  ASSUME NEW n \in Nat, NEW m \in Nat, Cut(n)[m] = 0, NEW k \in Nat, m <= k
  PROVE  Cut(n)[k] = 0
<1> DEFINE S == {j \in Nat : Cut(n)[m + j] = 0}
<1>1. IsCut(Cut(n), n)
  BY CutIs
<1>2. 0 \in S
  OBVIOUS
<1>3. ASSUME NEW j \in S
      PROVE  j + 1 \in S
  <2>1. m + j \in Nat /\ m + (j + 1) = (m + j) + 1 /\ Cut(n)[m + j] = 0 /\ j + 1 \in Nat
    OBVIOUS
  <2>2. Cut(n)[(m + j) + 1] = 0 \div 10
    BY <1>1, <2>1 DEF IsCut
  <2>3. QED
    BY <2>1, <2>2
<1> HIDE DEF S
<1>4. S = Nat
  <2>1. S \in SUBSET Nat
    BY DEF S
  <2>2. QED
    BY <1>2, <1>3, <2>1, NatSetInduction
<1>5. k - m \in Nat /\ m + (k - m) = k
  OBVIOUS
<1>6. k - m \in S
  BY <1>4, <1>5
<1>7. Cut(n)[m + (k - m)] = 0
  BY <1>6 DEF S
<1>8. QED
  BY <1>5, <1>7

\* n has d decimal digits.
HasDigits(n, d) == d \in Nat \ {0} /\ Cut(n)[d] = 0 /\ (d = 1 \/ Cut(n)[d - 1] >= 1)

\* A number has one number of digits.
LEMMA DigitsUnique ==
  ASSUME NEW n \in Nat, NEW d, NEW e, HasDigits(n, d), HasDigits(n, e)
  PROVE  d = e
<1>1. d \in Nat /\ e \in Nat /\ d # 0 /\ e # 0
  BY DEF HasDigits
<1>2. ASSUME NEW a \in Nat, NEW b \in Nat, a # 0, a < b, HasDigits(n, a), HasDigits(n, b)
      PROVE  FALSE
  <2>1. b - 1 \in Nat /\ a <= b - 1 /\ b # 1
    BY <1>2
  <2>2. Cut(n)[b - 1] = 0
    BY <1>2, <2>1, CutZero DEF HasDigits
  <2>3. ~(0 >= 1)
    OBVIOUS
  <2>4. QED
    BY <1>2, <2>1, <2>2, <2>3 DEF HasDigits
<1>3. d < e \/ e < d \/ d = e
  BY <1>1
<1>4. QED
  BY <1>1, <1>2, <1>3

\* A number with j more digits than another.
LEMMA DigitsMore ==
  ASSUME NEW n \in Nat, NEW j \in Nat, Cut(n)[j] >= 1, NEW d, HasDigits(Cut(n)[j], d)
  PROVE  HasDigits(n, j + d)
<1> DEFINE m == Cut(n)[j]
<1>1. m \in Nat /\ \A k \in Nat : Cut(m)[k] = Cut(n)[j + k]
  BY CutShift
<1>2. d \in Nat /\ d # 0 /\ Cut(m)[d] = 0 /\ (d = 1 \/ Cut(m)[d - 1] >= 1) /\ m >= 1
  BY DEF HasDigits
<1> HIDE DEF m
<1>3. IsCut(Cut(m), m)
  BY <1>1, CutIs
<1>4. Cut(n)[j + d] = 0
  BY <1>1, <1>2
<1>5. Cut(n)[(j + d) - 1] >= 1
  <2>1. d - 1 \in Nat /\ (j + d) - 1 = j + (d - 1)
    BY <1>2
  <2>2. Cut(m)[d - 1] >= 1
    <3>1. CASE d = 1
      <4>1. d - 1 = 0
        BY <3>1
      <4>2. QED
        BY <1>2, <1>3, <4>1 DEF IsCut
    <3>2. QED
      BY <1>2, <3>1
  <2>3. QED
    BY <1>1, <2>1, <2>2
<1>6. QED
  BY <1>2, <1>4, <1>5 DEF HasDigits

\* The first four cuts.
LEMMA CutFirst ==
  ASSUME NEW n \in Nat
  PROVE  /\ Cut(n)[0] = n /\ Cut(n)[1] = n \div 10 /\ Cut(n)[2] = (n \div 10) \div 10
         /\ Cut(n)[3] = ((n \div 10) \div 10) \div 10
         /\ Cut(n)[4] = n \div 10000
<1> DEFINE f == Cut(n)
<1>1. IsCut(f, n)
  BY CutIs
<1> HIDE DEF f
<1>2. f[0] = n /\ f[0 + 1] = f[0] \div 10 /\ f[1 + 1] = f[1] \div 10 /\ f[2 + 1] = f[2] \div 10 /\ f[3 + 1] = f[3] \div 10
  BY <1>1, Zenon DEF IsCut
<1>3. 0 + 1 = 1 /\ 1 + 1 = 2 /\ 2 + 1 = 3 /\ 3 + 1 = 4
  OBVIOUS
<1>4. QED
  BY <1>2, <1>3, By10 DEF f

\* CountSmall counts the digits below 10000.
LEMMA DigitsSmall ==
  ASSUME NEW n \in Nat, n < 10000
  PROVE  HasDigits(n, CountSmall(n, 4))
<1>1. CASE n < 10
  <2>1. n \div 10 = 0
    BY <1>1, By10
  <2>2. QED
    BY <1>1, <2>1, CutFirst DEF CountSmall, HasDigits
<1>2. CASE 10 <= n /\ n < 100
  <2>1. n \div 10 >= 1 /\ (n \div 10) \div 10 = 0
    BY <1>2, SMT
  <2>2. CountSmall(n, 4) = 2 /\ 2 - 1 = 1 /\ 2 # 0
    BY <1>2 DEF CountSmall
  <2>3. QED
    BY <2>1, <2>2, CutFirst DEF HasDigits
<1>3. CASE 100 <= n /\ n < 1000
  <2>1. (n \div 10) \div 10 >= 1 /\ ((n \div 10) \div 10) \div 10 = 0
    BY <1>3, SMT
  <2>2. CountSmall(n, 4) = 3 /\ 3 - 1 = 2 /\ 3 # 0
    BY <1>3 DEF CountSmall
  <2>3. QED
    BY <2>1, <2>2, CutFirst DEF HasDigits
<1>4. CASE 1000 <= n
  <2>1. ((n \div 10) \div 10) \div 10 >= 1 /\ n \div 10000 = 0
    BY <1>4, SMT
  <2>2. CountSmall(n, 4) = 4 /\ 4 - 1 = 3 /\ 4 # 0
    BY <1>4 DEF CountSmall
  <2>3. QED
    BY <2>1, <2>2, CutFirst DEF HasDigits
<1>5. QED
  BY <1>1, <1>2, <1>3, <1>4

\* Every number has a number of digits.
LEMMA DigitCount ==
  ASSUME NEW n \in Nat
  PROVE  \E d \in Nat : HasDigits(n, d)
<1> DEFINE S == {m \in Nat : \E d \in Nat : HasDigits(m, d)}
<1>1. ASSUME NEW m \in Nat, \A k \in Nat : k < m => k \in S
      PROVE  m \in S
  <2>1. CASE m < 10
    <3>1. HasDigits(m, CountSmall(m, 4)) /\ CountSmall(m, 4) = 1
      BY <2>1, DigitsSmall DEF CountSmall
    <3>2. QED
      BY <3>1 DEF HasDigits
  <2>2. CASE ~(m < 10)
    <3>1. m \div 10 \in Nat /\ m \div 10 < m /\ m \div 10 >= 1
      BY <2>2, By10
    <3>2. PICK d \in Nat : HasDigits(m \div 10, d)
      BY <1>1, <3>1
    <3>3. Cut(m)[1] = m \div 10 /\ 1 \in Nat
      BY CutFirst
    <3>4. HasDigits(m, 1 + d)
      BY <3>1, <3>2, <3>3, DigitsMore
    <3>5. QED
      BY <3>4 DEF HasDigits
  <2>3. QED
    BY <2>1, <2>2
<1> HIDE DEF S
<1>2. S = Nat
  <2>1. S \in SUBSET Nat
    BY DEF S
  <2>2. QED
    BY <1>1, <2>1, StrongInduction
<1>3. QED
  BY <1>2 DEF S

\* Four digits less are fewer.
LEMMA Large ==
  ASSUME NEW n \in Nat, ~(n < 10000)
  PROVE  n \div 10000 \in Nat /\ n \div 10000 >= 1 /\ n \div 10000 < n
BY SMT

\* CountDigits counts them.
LEMMA Counted ==
  ASSUME NEW n \in Nat
  PROVE  HasDigits(n, CountDigits[n])
<1> DEFINE D == [m \in Nat |-> CHOOSE d : HasDigits(m, d)]
<1>1. \A m \in Nat : HasDigits(m, D[m])
  BY DigitCount
<1> HIDE DEF D
<1>2. ASSUME NEW m \in Nat
      PROVE  D[m] = IF m < 10000 THEN CountSmall(m, 4) ELSE 4 + D[m \div 10000]
  <2>1. CASE m < 10000
    BY <1>1, <2>1, DigitsSmall, DigitsUnique
  <2>2. CASE ~(m < 10000)
    <3>1. m \div 10000 \in Nat /\ m \div 10000 >= 1
      BY <2>2, Large
    <3>2. Cut(m)[4] = m \div 10000 /\ 4 \in Nat
      BY CutFirst
    <3>3. HasDigits(m, 4 + D[m \div 10000])
      BY <1>1, <3>1, <3>2, DigitsMore
    <3>4. QED
      BY <1>1, <2>2, <3>3, DigitsUnique
  <2>3. QED
    BY <2>1, <2>2
<1>3. D = [m \in Nat |-> IF m < 10000 THEN CountSmall(m, 4) ELSE 4 + D[m \div 10000]]
  <2> DEFINE E == [m \in Nat |-> IF m < 10000 THEN CountSmall(m, 4) ELSE 4 + D[m \div 10000]]
  <2>1. D = [m \in Nat |-> D[m]]
    BY DEF D
  <2>2. \A m \in Nat : E[m] = D[m]
    BY <1>2
  <2>3. E = [m \in Nat |-> E[m]]
    OBVIOUS
  <2> HIDE DEF E
  <2>4. E = D
    BY <2>1, <2>2, <2>3
  <2>5. QED
    BY <2>4 DEF E
<1>4. CountDigits = [m \in Nat |-> IF m < 10000 THEN CountSmall(m, 4) ELSE 4 + CountDigits[m \div 10000]]
  BY <1>3 DEF CountDigits
<1> DEFINE S == {m \in Nat : HasDigits(m, CountDigits[m])}
<1>5. ASSUME NEW m \in Nat, \A k \in Nat : k < m => k \in S
      PROVE  m \in S
  <2>1. CASE m < 10000
    <3>1. CountDigits[m] = CountSmall(m, 4)
      BY <1>4, <2>1
    <3>2. QED
      BY <2>1, <3>1, DigitsSmall
  <2>2. CASE ~(m < 10000)
    <3>1. m \div 10000 \in Nat /\ m \div 10000 >= 1 /\ m \div 10000 < m
      BY <2>2, Large
    <3>2. Cut(m)[4] = m \div 10000 /\ 4 \in Nat
      BY CutFirst
    <3>3. HasDigits(m \div 10000, CountDigits[m \div 10000])
      BY <1>5, <3>1
    <3>4. CountDigits[m] = 4 + CountDigits[m \div 10000]
      BY <1>4, <2>2
    <3>5. QED
      BY <3>1, <3>2, <3>3, <3>4, DigitsMore
  <2>3. QED
    BY <2>1, <2>2
<1> HIDE DEF S
<1>6. S = Nat
  <2>1. S \in SUBSET Nat
    BY DEF S
  <2>2. QED
    BY <1>5, <2>1, StrongInduction
<1>7. QED
  BY <1>6 DEF S

\* How many digits there are by the powers of ten.
LEMMA CutTens ==
  ASSUME NEW k \in Nat
  PROVE  \A n \in Nat : Cut(n)[k] >= 1 <=> n >= Tens[k]
<1> DEFINE S == {j \in Nat : \A n \in Nat : Cut(n)[j] >= 1 <=> n >= Tens[j]}
<1>1. 0 \in S
  BY CutFirst, TensAre
<1>2. ASSUME NEW j \in S
      PROVE  j + 1 \in S
  <2>1. ASSUME NEW n \in Nat
        PROVE  Cut(n)[j + 1] >= 1 <=> n >= Tens[j + 1]
    <3>1. PICK q \in Nat, r \in 0..9 : q = n \div 10 /\ n = 10 * q + r
      BY By10
    <3>2. 1 \in Nat /\ j \in Nat /\ 1 + j = j + 1
      OBVIOUS
    <3>3. Cut(n)[j + 1] = Cut(q)[j]
      <4>1. Cut(n)[1] = q
        <5>1. Cut(n)[1] = n \div 10
          BY CutFirst
        <5>2. QED
          BY <3>1, <5>1
      <4>2. Cut(Cut(n)[1])[j] = Cut(n)[1 + j]
        BY <3>2, CutShift
      <4>3. QED
        BY <3>2, <4>1, <4>2
    <3>4. Cut(q)[j] >= 1 <=> q >= Tens[j]
      BY <3>1
    <3>5. PICK t \in Nat : t = Tens[j] /\ Tens[j + 1] = 10 * t
      BY <3>2, TensAre
    <3>6. q >= t <=> 10 * q + r >= 10 * t
      BY <3>1, <3>5
    <3>7. QED
      BY <3>1, <3>3, <3>4, <3>5, <3>6
  <2>2. QED
    BY <2>1
<1> HIDE DEF S
<1>3. S = Nat
  <2>1. S \in SUBSET Nat
    BY DEF S
  <2>2. QED
    BY <1>1, <1>2, <2>1, NatSetInduction
<1>4. QED
  BY <1>3 DEF S

\* The digits of a number, by powers of ten.
LEMMA DigitsTens ==
  ASSUME NEW n \in Nat, NEW d, HasDigits(n, d)
  PROVE  /\ d \in Nat /\ d >= 1
         /\ d = 1 \/ Tens[d - 1] <= n
         /\ n < Tens[d]
         /\ \A k \in Nat : n < Tens[k] => d <= k \/ d = 1
<1>1. d \in Nat /\ d >= 1 /\ d - 1 \in Nat /\ Cut(n)[d] = 0 /\ (d = 1 \/ Cut(n)[d - 1] >= 1)
  BY DEF HasDigits
<1>2. \A k \in Nat : Tens[k] \in Nat /\ (Cut(n)[k] >= 1 <=> n >= Tens[k])
  BY CutTens, TensAre
<1>3. n < Tens[d]
  <2>1. ~(0 >= 1)
    OBVIOUS
  <2>2. ~(n >= Tens[d]) /\ Tens[d] \in Nat
    BY <1>1, <1>2, <2>1
  <2>3. QED
    BY <2>2
<1>4. d = 1 \/ Tens[d - 1] <= n
  BY <1>1, <1>2
<1>5. ASSUME NEW k \in Nat, n < Tens[k], ~(d <= k), d # 1
      PROVE  FALSE
  <2>1. ~(n >= Tens[k])
    BY <1>2, <1>5
  <2>2. ~(Cut(n)[k] >= 1) /\ Cut(n)[k] \in Nat
    BY <1>2, <2>1, CutShift
  <2>3. Cut(n)[k] = 0 /\ k <= d - 1
    BY <1>1, <1>5, <2>2
  <2>4. Cut(n)[d - 1] = 0
    BY <1>1, <2>3, CutZero
  <2>5. QED
    BY <1>1, <1>5, <2>4
<1>6. QED
  BY <1>1, <1>3, <1>4, <1>5

-----------------------------------------------------------------------------
(* dump_integer. *)

\* A number without its last j digits has j digits less.
LEMMA DigitsLess ==
  ASSUME NEW n \in Nat, NEW d, HasDigits(n, d), NEW j \in Nat, j < d
  PROVE  HasDigits(Cut(n)[j], d - j)
<1> DEFINE m == Cut(n)[j]
<1>1. \A k \in Nat : Cut(m)[k] = Cut(n)[j + k]
  BY CutShift
<1>2. d \in Nat /\ d # 0 /\ Cut(n)[d] = 0 /\ (d = 1 \/ Cut(n)[d - 1] >= 1)
  BY DEF HasDigits
<1> HIDE DEF m
<1>3. d - j \in Nat /\ d - j # 0 /\ j + (d - j) = d
  BY <1>2
<1>4. Cut(m)[d - j] = 0
  BY <1>1, <1>2, <1>3
<1>5. ASSUME d - j # 1
      PROVE  Cut(m)[(d - j) - 1] >= 1
  <2>1. (d - j) - 1 \in Nat /\ j + ((d - j) - 1) = d - 1 /\ d # 1
    BY <1>2, <1>5
  <2>2. QED
    BY <1>1, <1>2, <2>1
<1>6. QED
  BY <1>3, <1>4, <1>5 DEF HasDigits, m

\* The two digits that are written next.
LEMMA NextPair ==
  ASSUME NEW v \in Nat, NEW n \in Nat, NEW p \in Nat, 1 <= p, p <= n, NEW a \in Nat, a = Cut(v)[n - p], HasDigits(a, p), a >= 10
  PROVE  /\ p >= 2
         /\ a \div 10 = Cut(v)[(n - p) + 1]
         /\ a < 100 => p = 2 /\ (a \div 10) % 10 = a \div 10
         /\ a >= 100 => /\ p >= 3 /\ a \div 100 = Cut(v)[n - (p - 2)] /\ a \div 100 >= 1
                        /\ HasDigits(a \div 100, p - 2)
<1>1. n - p \in Nat /\ p \in Nat /\ 1 \in Nat /\ 2 \in Nat
  OBVIOUS
<1>2. a \in Nat /\ \A k \in Nat : Cut(a)[k] = Cut(v)[(n - p) + k]
  BY <1>1, CutShift
<1>3. Cut(a)[1] = a \div 10 /\ Cut(a)[2] = a \div 100
  <2>1. Cut(a)[1] = a \div 10 /\ Cut(a)[2] = (a \div 10) \div 10
    BY <1>2, CutFirst
  <2>2. a \div 100 = (a \div 10) \div 10
    BY <1>2, By10
  <2>3. QED
    BY <2>1, <2>2
<1>4. a \div 10 = Cut(v)[(n - p) + 1]
  BY <1>1, <1>2, <1>3
<1>5. CASE a < 100
  <2>1. HasDigits(a, 2)
    <3>1. HasDigits(a, CountSmall(a, 4))
      BY <1>2, <1>5, DigitsSmall
    <3>2. CountSmall(a, 4) = 2
      BY <1>2, <1>5 DEF CountSmall
    <3>3. QED
      BY <3>1, <3>2
  <2>2. p = 2
    BY <1>2, <2>1, DigitsUnique
  <2>3. (a \div 10) % 10 = a \div 10
    BY <1>2, <1>5, SMT
  <2>4. QED
    BY <1>2, <1>4, <1>5, <2>2, <2>3
<1>6. CASE ~(a < 100)
  <2>1. a \div 100 >= 1 /\ a \div 100 \in Nat
    BY <1>2, <1>6, SMT
  <2>2. p > 2
    <3>1. ASSUME ~(p > 2)
          PROVE  FALSE
      <4>1. Cut(a)[2] = 0
        <5>1. Cut(a)[p] = 0 /\ p <= 2
          BY <1>1, <3>1 DEF HasDigits
        <5>2. QED
          BY <1>1, <1>2, <5>1, CutZero
      <4>2. QED
        BY <1>3, <2>1, <4>1
    <3>2. QED
      BY <3>1
  <2>3. HasDigits(a \div 100, p - 2)
    BY <1>1, <1>2, <1>3, <2>2, DigitsLess
  <2>4. a \div 100 = Cut(v)[n - (p - 2)]
    <3>1. (n - p) + 2 = n - (p - 2)
      OBVIOUS
    <3>2. QED
      BY <1>1, <1>2, <1>3, <3>1
  <2>5. QED
    BY <1>2, <1>4, <1>6, <2>1, <2>2, <2>3, <2>4
<1>7. QED
  BY <1>5, <1>6

\* The digits of n, as they are written.
Written(n) == [w \in 1..CountDigits[n] |-> Zero + (Cut(n)[CountDigits[n] - w] % 10)]

\* The places of the buffer from p on have the last digits of v, of n.
Filled(f, v, n, p, size) ==
  f \in [0..size - 1 -> Int] /\ \A j \in p..n - 1 : f[j] = Zero + (Cut(v)[(n - 1) - j] % 10)

IntegerInv ==
  x # -1 =>
    /\ x \in Nat /\ x <= MAX_UNSIGNED
    /\ follower \in {Comma, Brace, EOF}
    /\ n_chars = 0 \/ (x > 0 /\ n_chars = CountDigits[x])
    /\ buffer \in [0..NUMBER_BUFFER - 1 -> Int]
    /\ writer = "dumping" /\ n_chars # 0 =>
         /\ buffer_ptr \in 1..n_chars
         /\ abs_value = Cut(x)[n_chars - buffer_ptr] /\ abs_value >= 1
         /\ HasDigits(abs_value, buffer_ptr)
         /\ Filled(buffer, x, n_chars, buffer_ptr, NUMBER_BUFFER)
    /\ writer = "ended" /\ x > 0 => n_chars # 0 /\ buffer_ptr = 0

\* A value has no more digits than the buffer has room for.
LEMMA Fits ==
  ASSUME NEW v \in Nat, v <= MAX_UNSIGNED
  PROVE  CountDigits[v] \in Nat /\ CountDigits[v] >= 1 /\ CountDigits[v] <= NUMBER_BUFFER - 1
<1>1. HasDigits(v, CountDigits[v])
  BY Counted
<1> DEFINE d == CountDigits[v]
           k == NUMBER_BUFFER - 2
<1>2. k \in Nat /\ MAX_UNSIGNED \in Nat /\ MAX_UNSIGNED < Tens[k] /\ NUMBER_BUFFER \in Nat
  BY NumberAssumption
<1>3. NUMBER_BUFFER = k + 2
  BY <1>2
<1> HIDE DEF d, k
<1>4. Tens[k] \in Nat
  BY <1>2, TensAre
<1>5. v < Tens[k]
  BY <1>2, <1>4
<1>6. d \in Nat /\ d >= 1 /\ (d <= k \/ d = 1)
  BY <1>1, <1>2, <1>5, DigitsTens DEF d
<1>7. QED
  BY <1>2, <1>3, <1>6 DEF d

-----------------------------------------------------------------------------
(* dump_integer step by step. *)

\* The invariant of dump_integer holds at first.
LEMMA IntegerStarts == TextInit \/ TextIdle => IntegerInv
<1>1. x # -1 /\ (TextInit \/ TextIdle) => x \in Nat /\ x <= MAX_UNSIGNED
  <2>1. x # -1 /\ (TextInit \/ TextIdle) => x \in Numbers
    BY DEF TextInit, TextIdle
  <2>2. \A v \in Numbers : v \in Nat /\ v <= MAX_UNSIGNED
    BY NumberAssumption
  <2>3. QED
    BY <2>1, <2>2
<1>2. QED
  BY <1>1 DEF TextInit, TextIdle, NumberInit, IntegerInv

\* Zero is written as a digit.
LEMMA WrittenZero == Written(0) = <<Zero>>
<1>1. CountDigits[0] = 1
  <2>1. HasDigits(0, CountDigits[0]) /\ HasDigits(0, CountSmall(0, 4))
    BY Counted, DigitsSmall
  <2>2. CountSmall(0, 4) = 1
    BY DEF CountSmall
  <2>3. QED
    BY <2>1, <2>2, DigitsUnique
<1>2. Cut(0)[0] = 0 /\ 1 - 1 = 0 /\ 0 % 10 = 0
  BY CutFirst
<1>3. \A w \in 1..1 : Zero + (Cut(0)[1 - w] % 10) = Zero
  BY <1>2 DEF Zero
<1>4. QED
  BY <1>1, <1>3 DEF Written

\* The digits are counted.
LEMMA StartInteger ==
  ASSUME IntegerInv, x # -1, StartFilling
  PROVE  IntegerInv'
<1>1. /\ writer' = writer /\ writer = "dumping" /\ x > 0 /\ x' = x /\ buffer' = buffer /\ follower' = follower
      /\ abs_value' = x /\ n_chars' = CountDigits[x] /\ buffer_ptr' = CountDigits[x]
  BY DEF StartFilling
<1>2. x \in Nat /\ x <= MAX_UNSIGNED /\ follower \in {Comma, Brace, EOF} /\ buffer \in [0..NUMBER_BUFFER - 1 -> Int]
  BY DEF IntegerInv
<1> DEFINE n == CountDigits[x]
<1>3. HasDigits(x, n) /\ n \in Nat /\ n >= 1
  BY <1>2, Counted, Fits
<1> HIDE DEF n
<1>4. Cut(x)[0] = x /\ n - n = 0
  BY <1>2, <1>3, CutFirst
<1>5. n \in 1..n /\ Filled(buffer, x, n, n, NUMBER_BUFFER)
  BY <1>2, <1>3 DEF Filled
<1>6. n_chars' = n /\ buffer_ptr' = n /\ n # 0
  BY <1>1, <1>3 DEF n
<1>7. writer' # "ended"
  BY <1>1
<1>8. (abs_value = Cut(x)[n_chars - buffer_ptr] /\ abs_value >= 1 /\ HasDigits(abs_value, buffer_ptr))'
  BY <1>1, <1>2, <1>3, <1>4, <1>6
<1>9. QED
  BY <1>1, <1>2, <1>5, <1>6, <1>7, <1>8 DEF IntegerInv, n

\* What holds while the buffer is being filled.
LEMMA WhileFilling ==
  ASSUME IntegerInv, x # -1, writer = "dumping", n_chars > 0
  PROVE  /\ x \in Nat /\ x <= MAX_UNSIGNED /\ x > 0 /\ follower \in {Comma, Brace, EOF}
         /\ n_chars = CountDigits[x] /\ n_chars \in Nat /\ n_chars >= 1 /\ n_chars <= NUMBER_BUFFER - 1
         /\ NUMBER_BUFFER \in Nat
         /\ buffer \in [0..NUMBER_BUFFER - 1 -> Int]
         /\ buffer_ptr \in 1..n_chars
         /\ abs_value = Cut(x)[n_chars - buffer_ptr] /\ abs_value >= 1 /\ abs_value \in Nat
         /\ HasDigits(abs_value, buffer_ptr)
         /\ Filled(buffer, x, n_chars, buffer_ptr, NUMBER_BUFFER)
<1>1. /\ x \in Nat /\ x <= MAX_UNSIGNED /\ follower \in {Comma, Brace, EOF}
      /\ n_chars = 0 \/ (x > 0 /\ n_chars = CountDigits[x])
      /\ buffer \in [0..NUMBER_BUFFER - 1 -> Int]
  BY DEF IntegerInv
<1>2. NUMBER_BUFFER \in Nat
  BY NumberAssumption
<1>3. n_chars = CountDigits[x] /\ x > 0 /\ n_chars \in Nat /\ n_chars >= 1 /\ n_chars <= NUMBER_BUFFER - 1
  <2>1. n_chars # 0
    OBVIOUS
  <2>2. n_chars = CountDigits[x] /\ x > 0
    BY <1>1, <2>1
  <2>3. QED
    BY <1>1, <2>2, Fits
<1>4. /\ buffer_ptr \in 1..n_chars
      /\ abs_value = Cut(x)[n_chars - buffer_ptr] /\ abs_value >= 1
      /\ HasDigits(abs_value, buffer_ptr)
      /\ Filled(buffer, x, n_chars, buffer_ptr, NUMBER_BUFFER)
  BY <1>3 DEF IntegerInv
<1>5. abs_value \in Nat
  <2>1. n_chars - buffer_ptr \in Nat
    BY <1>3, <1>4
  <2>2. QED
    BY <1>1, <1>4, <2>1, CutShift
<1>6. QED
  BY <1>1, <1>2, <1>3, <1>4, <1>5

\* A pair of digits goes in front of the others.
LEMMA PutsPair ==
  ASSUME NEW N \in Nat, NEW n \in Nat, n <= N - 1, NEW p \in Nat, 2 <= p, p <= n, NEW a \in Int, NEW b \in Int,
         NEW v, NEW f, Filled(f, v, n, p, N),
         a = Cut(v)[n - p] % 10, b = Cut(v)[(n - p) + 1] % 10
  PROVE  Filled([f EXCEPT ![p - 1] = Zero + a, ![p - 2] = Zero + b], v, n, p - 2, N)
<1> DEFINE g == [f EXCEPT ![p - 1] = Zero + a, ![p - 2] = Zero + b]
<1>0. p - 1 \in 0..N - 1 /\ p - 2 \in 0..N - 1 /\ p - 1 # p - 2 /\ Zero + a \in Int /\ Zero + b \in Int
  BY DEF Zero
<1>1. f \in [0..N - 1 -> Int] /\ g \in [0..N - 1 -> Int]
  BY <1>0 DEF Filled
<1>2. g[p - 1] = Zero + a /\ g[p - 2] = Zero + b
  BY <1>0, <1>1
<1>3. \A j \in p..n - 1 : g[j] = f[j] /\ f[j] = Zero + (Cut(v)[(n - 1) - j] % 10)
  BY <1>1 DEF Filled
<1> HIDE DEF g
<1>4. \A j \in p - 2..n - 1 : j = p - 1 \/ j = p - 2 \/ j \in p..n - 1
  OBVIOUS
<1>5. (n - 1) - (p - 1) = n - p /\ (n - 1) - (p - 2) = (n - p) + 1
  OBVIOUS
<1>6. \A j \in p - 2..n - 1 : g[j] = Zero + (Cut(v)[(n - 1) - j] % 10)
  BY <1>2, <1>3, <1>4, <1>5
<1>7. QED
  BY <1>1, <1>6 DEF g, Filled

\* Two more digits are in the buffer.
LEMMA FillsPair ==
  ASSUME IntegerInv, x # -1, FillPair
  PROVE  IntegerInv'
<1>1. /\ writer' = writer /\ writer = "dumping" /\ n_chars > 0 /\ abs_value >= 100
      /\ x' = x /\ n_chars' = n_chars /\ follower' = follower
      /\ abs_value' = abs_value \div 100 /\ buffer_ptr' = buffer_ptr - 2
      /\ buffer' = [buffer EXCEPT ![buffer_ptr - 1] = Zero + ((abs_value % 100) % 10),
                                  ![buffer_ptr - 2] = Zero + ((abs_value % 100) \div 10)]
  BY DEF FillPair, PutPair
<1>2. PICK n, p, a, v, f, N : n = n_chars /\ p = buffer_ptr /\ a = abs_value /\ v = x /\ f = buffer /\ N = NUMBER_BUFFER
  OBVIOUS
<1>3. /\ v \in Nat /\ v <= MAX_UNSIGNED /\ v > 0 /\ follower \in {Comma, Brace, EOF}
      /\ n = CountDigits[v] /\ n \in Nat /\ n >= 1 /\ n <= N - 1 /\ N \in Nat
      /\ p \in 1..n /\ p \in Nat
      /\ a = Cut(v)[n - p] /\ a >= 1 /\ a \in Nat /\ HasDigits(a, p)
      /\ Filled(f, v, n, p, N)
  BY <1>1, <1>2, WhileFilling
<1>4. a >= 100 /\ a >= 10
  BY <1>1, <1>2, <1>3
<1>5. /\ p >= 3 /\ a \div 100 = Cut(v)[n - (p - 2)] /\ a \div 100 >= 1 /\ HasDigits(a \div 100, p - 2)
      /\ a \div 10 = Cut(v)[(n - p) + 1]
  <2>1. a = Cut(v)[n - p] /\ HasDigits(a, p) /\ p \in Nat /\ 1 <= p /\ p <= n /\ n \in Nat /\ v \in Nat /\ a \in Nat /\ a >= 10 /\ a >= 100
    BY <1>3, <1>4
  <2>2. /\ a \div 10 = Cut(v)[(n - p) + 1]
        /\ a >= 100 => /\ p >= 3 /\ a \div 100 = Cut(v)[n - (p - 2)] /\ a \div 100 >= 1
                       /\ HasDigits(a \div 100, p - 2)
    BY <2>1, NextPair
  <2>3. QED
    BY <2>1, <2>2
<1>6. (a % 100) % 10 = Cut(v)[n - p] % 10 /\ (a % 100) \div 10 = Cut(v)[(n - p) + 1] % 10
  <2>1. (a % 100) % 10 = a % 10 /\ (a % 100) \div 10 = (a \div 10) % 10
    BY <1>3, By10
  <2>2. QED
    BY <1>3, <1>5, <2>1
<1>7. (a % 100) % 10 \in Int /\ (a % 100) \div 10 \in Int
  BY <1>3, SMT
<1>8. p - 2 \in 1..n /\ 2 <= p /\ p <= n
  BY <1>3, <1>5
<1> DEFINE g == [f EXCEPT ![p - 1] = Zero + ((a % 100) % 10), ![p - 2] = Zero + ((a % 100) \div 10)]
<1>9. Filled(g, v, n, p - 2, N)
  <2>1. PICK d, e : d = (a % 100) % 10 /\ e = (a % 100) \div 10
    OBVIOUS
  <2>2. d \in Int /\ e \in Int /\ d = Cut(v)[n - p] % 10 /\ e = Cut(v)[(n - p) + 1] % 10
    BY <1>6, <1>7, <2>1
  <2>3. Filled([f EXCEPT ![p - 1] = Zero + d, ![p - 2] = Zero + e], v, n, p - 2, N)
    BY <1>3, <1>8, <2>2, PutsPair
  <2>4. QED
    BY <2>1, <2>3
<1>10. buffer' = g
  BY <1>1, <1>2
<1> HIDE DEF g
<1>11. g \in [0..N - 1 -> Int]
  BY <1>9 DEF Filled
<1>12. /\ x' = v /\ n_chars' = n /\ buffer_ptr' = p - 2 /\ abs_value' = a \div 100 /\ writer' = "dumping"
       /\ follower' \in {Comma, Brace, EOF}
  BY <1>1, <1>2, <1>3
<1>13. QED
  BY <1>2, <1>3, <1>5, <1>8, <1>9, <1>10, <1>11, <1>12 DEF IntegerInv

-----------------------------------------------------------------------------
(* The last digits; the number is sent. *)

Rest == IF follower = EOF THEN <<>> ELSE <<follower>>

\* The first digit is put in front.
LEMMA PutsLast ==
  ASSUME NEW N \in Nat, NEW n \in Nat, n <= N - 1, 1 <= n, NEW a \in Int,
         NEW v, NEW f, Filled(f, v, n, 1, N), a = Cut(v)[n - 1] % 10
  PROVE  Filled([f EXCEPT ![1 - 1] = Zero + a], v, n, 0, N)
<1> DEFINE g == [f EXCEPT ![1 - 1] = Zero + a]
<1>0. 0 \in 0..N - 1 /\ 1 - 1 = 0 /\ Zero + a \in Int
  BY DEF Zero
<1>1. f \in [0..N - 1 -> Int] /\ g \in [0..N - 1 -> Int]
  BY <1>0 DEF Filled
<1>2. g[0] = Zero + a
  BY <1>0, <1>1
<1>3. \A j \in 1..n - 1 : g[j] = f[j] /\ f[j] = Zero + (Cut(v)[(n - 1) - j] % 10)
  BY <1>1 DEF Filled
<1> HIDE DEF g
<1>4. \A j \in 0..n - 1 : j = 0 \/ j \in 1..n - 1
  OBVIOUS
<1>5. (n - 1) - 0 = n - 1
  OBVIOUS
<1>6. \A j \in 0..n - 1 : g[j] = Zero + (Cut(v)[(n - 1) - j] % 10)
  BY <1>2, <1>3, <1>4, <1>5
<1>7. QED
  BY <1>1, <1>6 DEF g, Filled

\* A buffer filled from 0 on holds the number.
LEMMA FilledAll ==
  ASSUME NEW v \in Nat, NEW f, NEW N, Filled(f, v, CountDigits[v], 0, N)
  PROVE  [w \in 1..CountDigits[v] |-> f[w - 1]] = Written(v)
<1> DEFINE n == CountDigits[v]
<1>1. n \in Nat
  BY Counted DEF HasDigits
<1>2. \A j \in 0..n - 1 : f[j] = Zero + (Cut(v)[(n - 1) - j] % 10)
  BY DEF Filled
<1> HIDE DEF n
<1>3. \A w \in 1..n : w - 1 \in 0..n - 1 /\ (n - 1) - (w - 1) = n - w
  BY <1>1
<1>4. \A w \in 1..n : f[w - 1] = Zero + (Cut(v)[n - w] % 10)
  BY <1>2, <1>3
<1>5. [w \in 1..n |-> f[w - 1]] = [w \in 1..n |-> Zero + (Cut(v)[n - w] % 10)]
  BY <1>4
<1>6. QED
  BY <1>5 DEF Written, n

\* The first one or two digits; the number is sent.
LEMMA FillsLast ==
  ASSUME IntegerInv, x # -1, FillLast
  PROVE  IntegerInv' /\ writer' = "ended" /\ text' = Written(x) \o Rest /\ x' = x
<1>1. /\ writer' = "ended" /\ writer = "dumping" /\ n_chars > 0 /\ abs_value < 100
      /\ x' = x /\ n_chars' = n_chars /\ follower' = follower
      /\ text' = [w \in 1..n_chars |-> buffer'[w - 1]] \o Rest
      /\ \/ /\ LastPair /\ buffer_ptr' = buffer_ptr - 2
            /\ buffer' = [buffer EXCEPT ![buffer_ptr - 1] = Zero + (abs_value % 10),
                                        ![buffer_ptr - 2] = Zero + (abs_value \div 10)]
         \/ /\ ~LastPair /\ buffer_ptr' = buffer_ptr - 1
            /\ buffer' = [buffer EXCEPT ![buffer_ptr - 1] = Zero + abs_value]
  BY DEF FillLast, PutPair, Send, Rest
<1>2. PICK n, p, a, v, f, N : n = n_chars /\ p = buffer_ptr /\ a = abs_value /\ v = x /\ f = buffer /\ N = NUMBER_BUFFER
  OBVIOUS
<1>3. /\ v \in Nat /\ v <= MAX_UNSIGNED /\ v > 0 /\ follower \in {Comma, Brace, EOF}
      /\ n = CountDigits[v] /\ n \in Nat /\ n >= 1 /\ n <= N - 1 /\ N \in Nat
      /\ p \in Nat /\ 1 <= p /\ p <= n
      /\ a = Cut(v)[n - p] /\ a >= 1 /\ a \in Nat /\ HasDigits(a, p)
      /\ Filled(f, v, n, p, N)
  BY <1>1, <1>2, WhileFilling
<1>4. a < 100
  BY <1>1, <1>2
<1>5. Filled(buffer', v, n, 0, N) /\ buffer_ptr' = 0
  <2>1. CASE LastPair
    <3>1. a >= 10 /\ ~(~LastPair)
      BY <1>2, <2>1 DEF LastPair
    <3>2. p = 2 /\ a \div 10 = Cut(v)[(n - p) + 1] /\ (a \div 10) % 10 = a \div 10
      <4>1. a = Cut(v)[n - p] /\ HasDigits(a, p) /\ p \in Nat /\ 1 <= p /\ p <= n /\ n \in Nat /\ v \in Nat /\ a \in Nat
        BY <1>3
      <4>2. QED
        BY <1>4, <3>1, <4>1, NextPair
    <3>3. PICK d, e : d = a % 10 /\ e = a \div 10
      OBVIOUS
    <3>4. d \in Int /\ e \in Int /\ d = Cut(v)[n - p] % 10 /\ e = Cut(v)[(n - p) + 1] % 10
      BY <1>3, <3>2, <3>3, By10
    <3>5. Filled([f EXCEPT ![p - 1] = Zero + d, ![p - 2] = Zero + e], v, n, p - 2, N)
      BY <1>3, <3>2, <3>4, PutsPair
    <3>6. buffer' = [f EXCEPT ![p - 1] = Zero + d, ![p - 2] = Zero + e] /\ buffer_ptr' = p - 2
      BY <1>1, <1>2, <3>1, <3>3
    <3>7. p - 2 = 0
      BY <3>2
    <3>8. QED
      BY <3>5, <3>6, <3>7
  <2>2. CASE ~LastPair
    <3>1. a < 10
      BY <1>2, <1>3, <2>2 DEF LastPair
    <3>2. p = 1 /\ a % 10 = a
      <4>1. HasDigits(a, CountSmall(a, 4)) /\ CountSmall(a, 4) = 1
        BY <1>3, <3>1, DigitsSmall DEF CountSmall
      <4>2. p = 1
        BY <1>3, <4>1, DigitsUnique
      <4>3. a % 10 = a
        BY <1>3, <3>1
      <4>4. QED
        BY <4>2, <4>3
    <3>3. a = Cut(v)[n - 1] % 10 /\ Filled(f, v, n, 1, N)
      BY <1>3, <3>2
    <3>4. Filled([f EXCEPT ![1 - 1] = Zero + a], v, n, 0, N)
      BY <1>3, <3>3, PutsLast
    <3>5. buffer' = [f EXCEPT ![1 - 1] = Zero + a] /\ buffer_ptr' = 1 - 1
      BY <1>1, <1>2, <2>2, <3>2
    <3>6. QED
      BY <3>4, <3>5
  <2>3. QED
    BY <2>1, <2>2
<1>6. text' = Written(x) \o Rest
  <2>1. [w \in 1..n |-> buffer'[w - 1]] = Written(v)
    BY <1>3, <1>5, FilledAll
  <2>2. QED
    BY <1>1, <1>2, <2>1
<1>7. IntegerInv'
  <2>1. buffer' \in [0..N - 1 -> Int]
    BY <1>5 DEF Filled
  <2>2. n # 0
    BY <1>3
  <2>3. QED
    BY <1>1, <1>2, <1>3, <1>5, <2>1, <2>2 DEF IntegerInv
<1>8. QED
  BY <1>1, <1>6, <1>7

\* Zero is sent.
LEMMA DumpsZero ==
  ASSUME IntegerInv, x # -1, DumpZero
  PROVE  IntegerInv' /\ writer' = "ended" /\ text' = Written(x) \o Rest /\ x' = x
<1>1. /\ writer' = "ended" /\ x = 0 /\ text' = <<Zero>> \o Rest
      /\ UNCHANGED integerVars
  BY DEF DumpZero, Send, Rest
<1>2. text' = Written(x) \o Rest
  BY <1>1, WrittenZero
<1>3. IntegerInv'
  <2>1. writer' # "dumping" /\ x' = 0 /\ ~(x' > 0)
    BY <1>1 DEF integerVars
  <2>2. QED
    BY <1>1, <2>1 DEF IntegerInv, integerVars
<1>4. QED
  BY <1>1, <1>2, <1>3 DEF integerVars

\* Reading leaves the writer alone.
LEMMA ReadKeeps == Read => writer' = writer /\ UNCHANGED integerVars
<1>1. Get => writer' = writer
  BY DEF Get
<1>2. LexerNext => writer' = writer
  BY <1>1 DEF LexerNext, SkipBom, Choose, ScanLiteral, ScanAgain, GetAt
<1>3. ReadString => writer' = writer
  BY <1>1, StringIsGot
<1>4. ReadNumber => writer' = writer /\ UNCHANGED integerVars
  BY <1>1 DEF ReadNumber, ScanOn, ScanError, ScanDone
<1>5. QED
  BY <1>2, <1>3, <1>4 DEF Read

\* The invariant is about integerVars and the writer.
LEMMA IntegerKept ==
  ASSUME IntegerInv, UNCHANGED integerVars, writer' = writer \/ writer' \notin {"dumping", "ended"}
  PROVE  IntegerInv'
BY DEF IntegerInv, integerVars

\* Every step keeps it.
LEMMA IntegerNext == IntegerInv /\ [TextNext]_textVars => IntegerInv'
<1> SUFFICES ASSUME IntegerInv, [TextNext]_textVars
             PROVE  IntegerInv'
  OBVIOUS
<1>1. CASE x # -1 /\ DumpNumber
  BY <1>1, DumpsZero, StartInteger, FillsPair, FillsLast DEF DumpNumber
<1>2. CASE Read
  BY <1>2, ReadKeeps, IntegerKept
<1>3. CASE Kill
  BY <1>3, IntegerKept DEF Kill
<1>4. CASE EditedChar
  BY <1>4, IntegerKept DEF EditedChar
<1>5. CASE x = -1 /\ UNCHANGED integerVars
  BY <1>5 DEF IntegerInv, integerVars
<1>6. CASE UNCHANGED textVars
  BY <1>6, IntegerKept DEF textVars
<1>7. QED
  BY <1>1, <1>2, <1>3, <1>4, <1>5, <1>6 DEF TextNext, Dump

\* The buffer is filled from 0 on.
LEMMA IntegerFollows == IntegerInv => ExactlyFilled
<1> SUFFICES ASSUME IntegerInv, x > 0, writer = "ended"
             PROVE  buffer_ptr = 0 /\ (n_chars = 1 \/ Tens[n_chars - 1] <= x) /\ x < Tens[n_chars]
  BY DEF ExactlyFilled
<1>1. x # -1
  OBVIOUS
<1>2. buffer_ptr = 0 /\ x \in Nat /\ n_chars = CountDigits[x]
  BY <1>1 DEF IntegerInv
<1>3. HasDigits(x, n_chars)
  BY <1>2, Counted
<1>4. QED
  BY <1>2, <1>3, DigitsTens

-----------------------------------------------------------------------------
(* What strtoull reads. *)

\* g[k] is the value of the first k digits of s.
Reading(g, s) ==
  /\ g \in [0..Len(s) -> Int]
  /\ g[0] = 0
  /\ \A k \in 1..Len(s) : g[k] = 10 * g[k - 1] + (s[k] - Zero)

\* Positional is the one function that reads digit by digit.
LEMMA PositionalIs ==
  ASSUME NEW s, Len(s) \in Nat, NEW g, Reading(g, s)
  PROVE  Positional(s) = g[Len(s)]
<1> DEFINE n == Len(s)
           IsIt(r) == r = [k \in 0..n |-> IF k = 0 THEN 0 ELSE 10 * r[k - 1] + (s[k] - Zero)]
           r == CHOOSE f : IsIt(f)
<1>1. n \in Nat /\ g \in [0..n -> Int] /\ g[0] = 0 /\ \A k \in 1..n : g[k] = 10 * g[k - 1] + (s[k] - Zero)
  BY DEF Reading
<1>2. Positional(s) = r[n]
  BY DEF Positional
<1> HIDE DEF n
<1>3. IsIt(g)
  <2>1. \A k \in 0..n : k = 0 \/ k \in 1..n
    BY <1>1
  <2>2. \A k \in 0..n : g[k] = IF k = 0 THEN 0 ELSE 10 * g[k - 1] + (s[k] - Zero)
    BY <1>1, <2>1
  <2>3. g = [k \in 0..n |-> g[k]]
    BY <1>1
  <2>4. QED
    BY <2>2, <2>3
<1>4. IsIt(r)
  BY <1>3
<1> HIDE DEF r
<1>5. r[0] = 0 /\ \A k \in 1..n : r[k] = 10 * r[k - 1] + (s[k] - Zero)
  <2>1. 0 \in 0..n /\ \A k \in 1..n : k \in 0..n /\ k # 0
    BY <1>1
  <2>2. \A k \in 0..n : r[k] = IF k = 0 THEN 0 ELSE 10 * r[k - 1] + (s[k] - Zero)
    BY <1>4
  <2>3. QED
    BY <2>1, <2>2
<1> DEFINE S == {k \in Nat : k <= n => r[k] = g[k]}
<1>6. S = Nat
  <2>1. 0 \in S
    BY <1>1, <1>5
  <2>2. ASSUME NEW k \in S
        PROVE  k + 1 \in S
    <3>1. CASE k + 1 <= n
      <4>1. k + 1 \in 1..n /\ (k + 1) - 1 = k /\ r[k] = g[k] /\ k + 1 \in Nat
        BY <1>1, <3>1
      <4>2. QED
        BY <1>1, <1>5, <4>1
    <3>2. QED
      BY <3>1
  <2> HIDE DEF S
  <2>3. S \in SUBSET Nat
    BY DEF S
  <2>4. QED
    BY <2>1, <2>2, <2>3, NatSetInduction
<1> HIDE DEF S
<1>7. r[n] = g[n]
  <2>1. n \in S /\ n <= n
    BY <1>1, <1>6
  <2>2. QED
    BY <2>1 DEF S
<1>8. QED
  BY <1>2, <1>7 DEF n

\* It is a natural number.
LEMMA PositionalType ==
  ASSUME NEW s \in Seq(Decimals)
  PROVE  Positional(s) \in Nat
<1> DEFINE n == Len(s)
           step == [p \in Nat \X Nat |-> IF p[1] \in 1..n THEN 10 * p[2] + (s[p[1]] - Zero) ELSE p[2]]
           S == Nat
           a == 0
<1>1. n \in Nat /\ \A k \in 1..n : s[k] \in Int /\ s[k] - Zero \in Nat
  BY DEF Decimals, Zero
<1> HIDE DEF n
<1>2. \A k \in Nat : \A m \in S : step[<<k, m>>] = (IF k \in 1..n THEN 10 * m + (s[k] - Zero) ELSE m)
  OBVIOUS
<1>3. \A k \in Nat : \A m \in S : step[<<k, m>>] \in S
  <2> HIDE DEF step
  <2> SUFFICES ASSUME NEW k \in Nat, NEW m \in S
               PROVE  step[<<k, m>>] \in S
    OBVIOUS
  <2>2. CASE k \in 1..n
    <3>1. PICK d \in Nat : d = s[k] - Zero
      BY <1>1, <2>2
    <3>2. step[<<k, m>>] = 10 * m + d
      BY <1>2, <2>2, <3>1
    <3>3. QED
      BY <3>2
  <2>3. CASE k \notin 1..n
    BY <1>2, <2>3
  <2>4. QED
    BY <2>2, <2>3
<1>4. a \in S
  OBVIOUS
<1>5. PICK f : Stepping(f, S, a, step)
  <2> HIDE DEF a, S, step
  <2>1. QED
    BY <1>3, <1>4, Iterates
<1>6. f \in [Nat -> Nat] /\ f[0] = 0 /\ \A k \in Nat \ {0} : f[k] = step[<<k, f[k - 1]>>]
  BY <1>5 DEF Stepping
<1> HIDE DEF step
<1> DEFINE g == [k \in 0..n |-> f[k]]
<1>7. g \in [0..n -> Nat] /\ g[0] = 0
  BY <1>1, <1>6
<1>8. ASSUME NEW k \in 1..n
      PROVE  g[k] = 10 * g[k - 1] + (s[k] - Zero)
  <2>1. k \in Nat \ {0} /\ k - 1 \in Nat /\ k \in 0..n /\ k - 1 \in 0..n
    BY <1>1
  <2>2. f[k] = 10 * f[k - 1] + (s[k] - Zero)
    BY <1>2, <1>6, <2>1
  <2>3. QED
    BY <2>1, <2>2
<1> HIDE DEF g
<1>9. Reading(g, s)
  BY <1>7, <1>8 DEF Reading, n
<1>10. QED
  BY <1>1, <1>7, <1>9, PositionalIs DEF n

\* The digits of a number are read as that number.
LEMMA WrittenIs ==
  ASSUME NEW v \in Nat
  PROVE  LET D == Written(v) IN
         /\ D \in Seq(Decimals) /\ D # <<>>
         /\ Positional(D) = v
         /\ D[1] = Zero => Len(D) = 1
<1> DEFINE n == CountDigits[v]
           D == Written(v)
           f == Cut(v)
<1>1. HasDigits(v, n)
  BY Counted
<1>2. n \in Nat /\ n # 0 /\ f[n] = 0 /\ (n = 1 \/ f[n - 1] >= 1)
  BY <1>1 DEF HasDigits
<1>3. IsCut(f, v)
  BY CutIs
<1> HIDE DEF f
<1>4. f \in [Nat -> Nat] /\ f[0] = v /\ \A k \in Nat : f[k + 1] = f[k] \div 10
  BY <1>3 DEF IsCut
<1>5. D = [w \in 1..n |-> Zero + (f[n - w] % 10)]
  BY DEF Written, f
<1> HIDE DEF n, D
<1>6. \A w \in 1..n : n - w \in Nat /\ f[n - w] \in Nat /\ f[n - w] % 10 \in 0..9
  <2>1. TAKE w \in 1..n
  <2>2. n - w \in Nat /\ f[n - w] \in Nat
    BY <1>2, <1>4
  <2>3. QED
    BY <2>2, By10
<1>7. \A w \in 1..n : D[w] = Zero + (f[n - w] % 10) /\ D[w] \in Decimals
  BY <1>5, <1>6 DEF Zero, Decimals
<1>8. D \in Seq(Decimals) /\ Len(D) = n
  <2>1. D \in [1..n -> Decimals]
    BY <1>5, <1>7
  <2>2. QED
    BY <1>2, <2>1
<1> DEFINE g == [k \in 0..n |-> f[n - k]]
<1>9. g \in [0..n -> Int] /\ g[0] = 0 /\ g[n] = v
  <2>1. \A k \in 0..n : n - k \in Nat /\ f[n - k] \in Int
    BY <1>2, <1>4
  <2>2. n - 0 = n /\ n - n = 0 /\ 0 \in 0..n /\ n \in 0..n
    BY <1>2
  <2>3. QED
    BY <1>2, <1>4, <2>1, <2>2
<1>10. ASSUME NEW k \in 1..n
       PROVE  g[k] = 10 * g[k - 1] + (D[k] - Zero)
  <2>1. k - 1 \in 0..n /\ k \in 0..n /\ n - (k - 1) = (n - k) + 1 /\ n - k \in Nat
    BY <1>2
  <2>2. g[k] = f[n - k] /\ g[k - 1] = f[(n - k) + 1]
    BY <2>1
  <2>3. PICK c \in Nat : c = f[n - k] /\ f[(n - k) + 1] = c \div 10
    BY <1>4, <2>1
  <2>4. c = 10 * (c \div 10) + (c % 10) /\ c % 10 \in Int /\ c \div 10 \in Int
    BY By10
  <2>5. D[k] - Zero = c % 10
    BY <1>7, <2>3, <2>4 DEF Zero
  <2>6. QED
    BY <2>2, <2>3, <2>4, <2>5
<1> HIDE DEF g
<1>11. Reading(g, D)
  BY <1>8, <1>9, <1>10 DEF Reading
<1>12. Positional(D) = v
  BY <1>2, <1>8, <1>9, <1>11, PositionalIs
<1>13. ASSUME D[1] = Zero
       PROVE  Len(D) = 1
  <2>1. ASSUME n # 1
        PROVE  FALSE
    <3>1. n - 1 \in Nat /\ (n - 1) + 1 = n /\ 1 \in 1..n
      BY <1>2
    <3>2. PICK c \in Nat : c = f[n - 1] /\ c \div 10 = 0 /\ c >= 1
      BY <1>2, <1>4, <2>1, <3>1
    <3>3. c % 10 = c /\ c % 10 \in Int
      BY <3>2
    <3>4. D[1] = Zero + (c % 10)
      BY <1>7, <3>1, <3>2
    <3>5. QED
      BY <1>13, <3>2, <3>3, <3>4 DEF Zero
  <2>2. QED
    BY <1>8, <2>1
<1>14. D # <<>>
  BY <1>2, <1>8
<1>15. QED
  BY <1>8, <1>12, <1>13, <1>14 DEF D

-----------------------------------------------------------------------------
(* A number on its way into the file and back. *)

Unread == lexer = "scan" /\ fresh /\ ~next_unget /\ token = "none" /\ text = Written(x) \o Rest
Looked ==
  /\ lexer = "space" /\ next_unget /\ token = "none"
  /\ current = Written(x)[1] /\ text = Tail(Written(x)) \o Rest
Partly ==
  /\ lexer = NumberPlace(Written(x)[1]) /\ ~next_unget /\ ~fresh /\ token = "unsigned"
  /\ \E k \in 1..Len(Written(x)) :
       token_buffer = SubSeq(Written(x), 1, k) /\ text = SubSeq(Written(x), k + 1, Len(Written(x))) \o Rest
Behind ==
  /\ lexer = "token" /\ next_unget /\ ~fresh /\ token = "unsigned" /\ value = x
  /\ current = follower /\ text = <<>>
Anew == lexer = "scan" /\ ~fresh /\ next_unget /\ token = "none" /\ current = follower /\ text = <<>>
Followed ==
  lexer = "token" /\ ~next_unget /\ token = (IF follower = EOF THEN "end_of_input" ELSE Structural[follower])

\* The stages of reading it.
Stages == Unread \/ Looked \/ Partly \/ Behind \/ Anew \/ Followed

NumberLock ==
  x # -1 =>
    /\ writer \in {"dumping", "ended"} /\ sent = <<>>
    /\ writer = "dumping" => lexer = "scan" /\ fresh /\ ~next_unget /\ text = <<>> /\ token = "none"
    /\ writer = "ended" => Stages

\* Before the number is sent, nothing is read.
LEMMA NumberStarts == TextInit \/ TextIdle => NumberLock
BY DEF TextInit, TextIdle, LexerInit, StringInit, NumberLock

\* What was sent is returned, and what follows it after it.
LEMMA NumberFollows ==
  ASSUME NumberLock
  PROVE  SavedIsLoaded
<1> SUFFICES ASSUME x # -1, writer = "ended", lexer = "token"
             PROVE  IF next_unget THEN token = "unsigned" /\ value = x
                    ELSE token = (IF follower = EOF THEN "end_of_input" ELSE Structural[follower])
  BY DEF SavedIsLoaded
<1>1. Stages
  BY DEF NumberLock
<1>2. \A c : NumberPlace(c) # "token"
  BY DEF NumberPlace
<1>3. Behind \/ Followed
  BY <1>1, <1>2 DEF Stages, Unread, Looked, Partly, Anew
<1>4. QED
  BY <1>3 DEF Behind, Followed

\* The characters of a number are none of the others.
LEMMA DigitIs ==
  ASSUME NEW c \in Decimals
  PROVE  /\ c \in Nat /\ c # 239 /\ c # EOF /\ c # 0 /\ c # Quote /\ c # Minus
         /\ c \notin White /\ c \notin DOMAIN Structural /\ c \notin DOMAIN Literals
<1>1. /\ DOMAIN Structural = {91, 93, 123, 125, 58, 44}
      /\ DOMAIN Literals = {116, 102, 110}
  BY DEF Structural, Literals
<1>2. QED
  BY <1>1, SMT DEF Decimals, EOF, Quote, Minus, White

\* The first of two sequences comes first.
LEMMA FrontIs ==
  ASSUME NEW S, NEW d \in Seq(S), d # <<>>, NEW r \in Seq(S)
  PROVE  d \o r # <<>> /\ Head(d \o r) = d[1] /\ Tail(d \o r) = Tail(d) \o r /\ d[1] \in S
<1>1. d \o r \in Seq(S) /\ Len(d \o r) = Len(d) + Len(r) /\ Len(d) \in Nat /\ Len(r) \in Nat /\ Len(d) >= 1
  OBVIOUS
<1>2. d \o r # <<>> /\ Head(d \o r) = d[1] /\ d[1] \in S
  BY <1>1
<1>3. Tail(d) \in Seq(S) /\ Len(Tail(d)) = Len(d) - 1
  BY <1>1
<1>4. Tail(d \o r) \in Seq(S) /\ Tail(d) \o r \in Seq(S)
  BY <1>1, <1>2, <1>3
<1>5. Len(Tail(d \o r)) = Len(Tail(d) \o r)
  BY <1>1, <1>2, <1>3
<1>6. ASSUME NEW w \in 1..Len(Tail(d \o r))
      PROVE  Tail(d \o r)[w] = (Tail(d) \o r)[w]
  <2>1. Tail(d \o r)[w] = (d \o r)[w + 1]
    BY <1>1, <1>2
  <2>2. CASE w <= Len(Tail(d))
    BY <1>1, <1>3, <2>1, <2>2
  <2>3. CASE ~(w <= Len(Tail(d)))
    BY <1>1, <1>3, <2>1, <2>3
  <2>4. QED
    BY <2>2, <2>3
<1>7. Tail(d \o r) = Tail(d) \o r
  BY <1>4, <1>5, <1>6, SeqEqual
<1>8. QED
  BY <1>2, <1>7

\* The rest behind the k-th character.
LEMMA NextOf ==
  ASSUME NEW S, NEW d \in Seq(S), NEW k \in Nat, 1 <= k, k < Len(d)
  PROVE  /\ SubSeq(d, k + 1, Len(d)) \in Seq(S) /\ SubSeq(d, k + 1, Len(d)) # <<>>
         /\ SubSeq(d, k + 1, Len(d))[1] = d[k + 1]
         /\ Tail(SubSeq(d, k + 1, Len(d))) = SubSeq(d, k + 2, Len(d))
         /\ Append(SubSeq(d, 1, k), d[k + 1]) = SubSeq(d, 1, k + 1)
<1>1. Len(d) \in Nat /\ k + 1 \in 1..Len(d) /\ Len(d) \in 1..Len(d) /\ 1 \in 1..Len(d)
  OBVIOUS
<1>2. /\ SubSeq(d, k + 1, Len(d)) \in Seq(S) /\ SubSeq(d, k + 1, Len(d)) # <<>>
      /\ SubSeq(d, k + 1, Len(d))[1] = d[k + 1]
  <2>1. \A w \in k + 1..Len(d) : d[w] \in S
    BY <1>1
  <2>2. k + 1 \in Int /\ Len(d) \in Int /\ k + 1 <= Len(d)
    BY <1>1
  <2>3. /\ SubSeq(d, k + 1, Len(d)) \in Seq(S)
        /\ Len(SubSeq(d, k + 1, Len(d))) = (Len(d) - (k + 1)) + 1
        /\ \A w \in 1..(Len(d) - (k + 1)) + 1 : SubSeq(d, k + 1, Len(d))[w] = d[((k + 1) + w) - 1]
    BY <2>1, <2>2, SubSeqProperties
  <2>4. 1 \in 1..(Len(d) - (k + 1)) + 1 /\ ((k + 1) + 1) - 1 = k + 1 /\ (Len(d) - (k + 1)) + 1 # 0
    BY <1>1
  <2>5. Len(SubSeq(d, k + 1, Len(d))) # 0
    BY <2>3, <2>4
  <2>6. PICK q : q = SubSeq(d, k + 1, Len(d))
    OBVIOUS
  <2>7. q # <<>>
    <3>1. Len(q) # 0
      BY <2>5, <2>6
    <3>2. Len(<<>>) = 0
      OBVIOUS
    <3>3. QED
      BY <3>1, <3>2, Zenon
  <2>8. SubSeq(d, k + 1, Len(d))[1] = d[k + 1]
    BY <2>3, <2>4
  <2>9. QED
    BY <2>3, <2>6, <2>7, <2>8, Zenon
<1>3. Tail(SubSeq(d, k + 1, Len(d))) = SubSeq(d, k + 2, Len(d))
  <2>1. Tail(SubSeq(d, k + 1, Len(d))) = SubSeq(d, (k + 1) + 1, Len(d))
    BY <1>1, HeadTailOfSubSeq
  <2>2. QED
    BY <2>1
<1>4. Append(SubSeq(d, 1, k), d[k + 1]) = SubSeq(d, 1, k + 1)
  <2>1. SubSeq(d, 1, k + 1) = Append(SubSeq(d, 1, (k + 1) - 1), d[k + 1])
    BY <1>1, SubSeqRecursiveSecond
  <2>2. (k + 1) - 1 = k
    OBVIOUS
  <2>3. QED
    BY <2>1, <2>2
<1>5. QED
  BY <1>2, <1>3, <1>4

\* A number is written with a digit or more.
LEMMA WrittenType == x \in Nat => Written(x) \in Seq(Int) /\ Written(x) # <<>> /\ Written(x)[1] \in Decimals
<1> SUFFICES ASSUME x \in Nat
             PROVE  Written(x) \in Seq(Int) /\ Written(x) # <<>> /\ Written(x)[1] \in Decimals
  OBVIOUS
<1>1. Written(x) \in Seq(Decimals) /\ Written(x) # <<>>
  BY WrittenIs
<1>2. PICK d : d = Written(x)
  OBVIOUS
<1>3. d \in Seq(Decimals) /\ d # <<>>
  BY <1>1, <1>2
<1>4. \A c \in Decimals : c \in Int
  BY DEF Decimals
<1>5. d \in Seq(Int) /\ d[1] \in Decimals
  BY <1>3, <1>4
<1>6. QED
  BY <1>1, <1>2, <1>5

\* What follows a number.
LEMMA RestIs ==
  ASSUME follower \in {Comma, Brace, EOF}
  PROVE  Rest \in Seq(Int) /\ (follower = EOF => Rest = <<>>) /\ (follower # EOF => Rest = <<follower>>)
BY DEF Rest, Comma, Brace, EOF

\* The first character of the file is looked at for a byte order mark.
LEMMA UnreadRead ==
  ASSUME x # -1, x' = x, follower' = follower, x \in Nat, follower \in {Comma, Brace, EOF}, Unread, Read
  PROVE  Looked'
<1>1. SkipBom
  <2>1. lexer = "scan" /\ fresh /\ lexer \notin StringPlaces /\ lexer \notin Label
    BY DEF Unread, StringPlaces, Label
  <2>2. ~Choose /\ ~ScanLiteral /\ ~ScanAgain
    BY <2>1 DEF Choose, GetAt, ScanLiteral, ScanAgain
  <2>3. ~ReadString
    BY <2>1, OnlyAt
  <2>4. ~ReadNumber
    BY <2>1, NumberPlaces DEF ReadNumber
  <2>5. QED
    BY <2>2, <2>3, <2>4 DEF Read, LexerNext
<1>2. PICK d \in Seq(Int), r \in Seq(Int) : d = Written(x) /\ r = Rest /\ d # <<>> /\ d[1] \in Decimals
  BY WrittenType, RestIs
<1>3. text = d \o r /\ lexer = "scan" /\ ~next_unget /\ token = "none"
  BY <1>2 DEF Unread
<1>4. d \o r # <<>> /\ Head(d \o r) = d[1] /\ Tail(d \o r) = Tail(d) \o r
  BY <1>2, FrontIs
<1>5. Get
  BY <1>1 DEF SkipBom, GetAt
<1>6. current' = d[1] /\ text' = Tail(d) \o r
  BY <1>3, <1>4, <1>5, TakesChar
<1>7. current' # 239
  BY <1>2, <1>6, DigitIs
<1>8. lexer' = "space" /\ next_unget' = TRUE /\ token' = token
  BY <1>1, <1>3, <1>7 DEF SkipBom, GetAt, Unget
<1>9. Written(x)' = d /\ Rest' = r
  BY <1>2 DEF Rest, Written
<1>10. QED
  BY <1>3, <1>6, <1>8, <1>9 DEF Looked

\* A digit begins a number.
LEMMA DigitChosen ==
  ASSUME Choose, current' \in Decimals
  PROVE  /\ Get /\ next_unget' = FALSE /\ fresh' = FALSE
         /\ lexer' = NumberPlace(current') /\ token' = "unsigned" /\ token_buffer' = <<current'>>
<1>1. PICK c : c = current'
  OBVIOUS
<1>2. /\ c \in Decimals /\ c # EOF /\ c # 0 /\ c # Quote /\ c # Minus
      /\ c \notin White /\ c \notin DOMAIN Structural /\ c \notin DOMAIN Literals
  BY <1>1, DigitIs
<1>3. Get /\ token_buffer' = <<c>>
  BY <1>1, <1>2 DEF Choose, GetAt
<1>4. NotUngot(NumberPlace(c)) /\ token' = "unsigned"
  BY <1>1, <1>2, Zenon DEF Choose
<1>5. QED
  BY <1>1, <1>3, <1>4 DEF NotUngot

\* Where only the choice of a scanner is possible.
LEMMA OnlyChoose ==
  ASSUME Read, lexer = "space" \/ (lexer = "scan" /\ ~fresh)
  PROVE  Choose /\ UNCHANGED value
<1>1. lexer \notin StringPlaces /\ lexer \notin Label /\ lexer \notin {"mark", "literal", "token"}
  BY DEF StringPlaces, Label
<1>2. ~SkipBom
  BY <1>1 DEF SkipBom, GetAt
<1>3. ~ScanLiteral /\ ~ScanAgain
  BY <1>1 DEF GetAt, ScanLiteral, ScanAgain
<1>4. ~ReadString
  BY <1>1, OnlyAt
<1>5. ~ReadNumber
  BY <1>1, NumberPlaces DEF ReadNumber
<1>6. QED
  BY <1>2, <1>3, <1>4, <1>5 DEF Read, LexerNext

\* The first digit.
LEMMA LookedRead ==
  ASSUME x # -1, x' = x, follower' = follower, x \in Nat, follower \in {Comma, Brace, EOF}, Looked, Read
  PROVE  Partly'
<1>1. Choose
  BY OnlyChoose DEF Looked
<1>2. PICK d \in Seq(Int), r \in Seq(Int) : d = Written(x) /\ r = Rest /\ d # <<>> /\ d[1] \in Decimals
  BY WrittenType, RestIs
<1>3. current = d[1] /\ next_unget /\ text = Tail(d) \o r
  BY <1>2 DEF Looked
<1>4. current' = d[1] /\ text' = Tail(d) \o r
  BY <1>1, <1>3 DEF Choose, GetAt, Get
<1>5. /\ next_unget' = FALSE /\ fresh' = FALSE
      /\ lexer' = NumberPlace(d[1]) /\ token' = "unsigned" /\ token_buffer' = <<d[1]>>
  BY <1>1, <1>2, <1>4, DigitChosen
<1>6. 1 \in 1..Len(d) /\ SubSeq(d, 1, 1) = <<d[1]>>
  <2>1. 1 \in 1..Len(d) /\ 1 \in 1..1
    BY <1>2
  <2>2. SubSeq(d, 1, 1) = SubSeq(d, 1, 1 - 1) \o <<d[1]>>
    BY <2>1, SubSeqRecursiveSecond
  <2>3. SubSeq(d, 1, 1 - 1) = <<>>
    BY SubSeqEmpty
  <2>4. <<d[1]>> \in Seq(Int)
    BY <2>1
  <2>5. <<>> \o <<d[1]>> = <<d[1]>>
    BY <2>4, ConcatEmptySeq
  <2>6. QED
    BY <2>1, <2>2, <2>3, <2>5
<1>7. Tail(d) = SubSeq(d, 1 + 1, Len(d))
  BY <1>2, TailIsSubSeq
<1>8. Written(x)' = d /\ Rest' = r
  BY <1>2 DEF Rest, Written
<1>9. \E k \in 1..Len(d) : token_buffer' = SubSeq(d, 1, k) /\ text' = SubSeq(d, k + 1, Len(d)) \o r
  BY <1>4, <1>5, <1>6, <1>7
<1>10. QED
  BY <1>5, <1>8, <1>9 DEF Partly

\* Within a number scan_number goes on.
LEMMA OnlyScanNumber ==
  ASSUME Read, lexer \in Label
  PROVE  ScanOn \/ ScanError \/ ScanDone
<1>1. lexer \notin StringPlaces /\ lexer \notin {"scan", "space", "mark", "literal", "token"}
  BY DEF StringPlaces, Label
<1>2. ~LexerNext
  BY <1>1, LexerPlaces DEF LexerNext
<1>3. ~ReadString
  BY <1>1, OnlyAt
<1>4. QED
  BY <1>2, <1>3 DEF Read, ReadNumber

\* Every number but zero goes on behind its first digit.
LEMMA BehindPlace ==
  ASSUME NEW c \in Decimals, NEW place, place = NumberPlace(c), NEW e
  PROVE  /\ place \in Label /\ place \in MayEnd /\ place \in {"zero", "any1"}
         /\ place = "zero" => c = Zero
         /\ e \in Decimals /\ c # Zero => NextLabel(place, e) = "any1" /\ place = "any1"
         /\ e \in {Comma, Brace, EOF} => NextLabel(place, e) = "none"
<1>1. place = (IF c = Zero THEN "zero" ELSE "any1")
  BY DEF NumberPlace, Decimals, Minus, Zero
<1>2. e \in {Comma, Brace, EOF} => e # Zero /\ e \notin Decimals /\ e # Point /\ e \notin Exponents
  BY SMT DEF Comma, Brace, EOF, Zero, Decimals, Point, Exponents
<1>3. place \in {"zero", "any1"} /\ (place = "zero" => c = Zero)
  BY <1>1
<1>4. e \in {Comma, Brace, EOF} => NextLabel(place, e) = "none"
  BY <1>2, <1>3, SMT DEF NextLabel, IntegerLabel
<1>5. e \in Decimals /\ c # Zero => NextLabel(place, e) = "any1" /\ place = "any1"
  <2>1. e \in Decimals => e # Point /\ e \notin Exponents
    BY SMT DEF Decimals, Point, Exponents
  <2>2. QED
    BY <1>1, <2>1, SMT DEF NextLabel, IntegerLabel
<1>6. QED
  BY <1>3, <1>4, <1>5 DEF Label, MayEnd

\* One more digit, or the character behind the last.
LEMMA PartlyRead ==
  ASSUME x # -1, x' = x, follower' = follower, x \in Nat, x <= MAX_UNSIGNED, follower \in {Comma, Brace, EOF},
         writer = "ended", Partly, Read
  PROVE  Partly' \/ Behind'
<1>1. PICK d \in Seq(Int), r \in Seq(Int) : d = Written(x) /\ r = Rest /\ d # <<>> /\ d[1] \in Decimals
  BY WrittenType, RestIs
<1>2. PICK k \in 1..Len(d) : token_buffer = SubSeq(d, 1, k) /\ text = SubSeq(d, k + 1, Len(d)) \o r
  BY <1>1 DEF Partly
<1>3. lexer = NumberPlace(d[1]) /\ ~next_unget /\ ~fresh /\ token = "unsigned"
  BY <1>1 DEF Partly
<1>4. lexer \in Label /\ lexer \in MayEnd
  BY <1>1, <1>3, BehindPlace
<1>5. (ScanOn \/ ScanDone) /\ Get
  BY <1>4, OnlyScanNumber DEF ScanOn, ScanError, ScanDone
<1>6. Written(x)' = d /\ Rest' = r
  BY <1>1 DEF Rest, Written
<1>7. k \in Nat /\ 1 <= k /\ k <= Len(d) /\ Len(d) \in Nat
  OBVIOUS
<1>8. CASE k < Len(d)
  <2>1. /\ SubSeq(d, k + 1, Len(d)) \in Seq(Int) /\ SubSeq(d, k + 1, Len(d)) # <<>>
        /\ SubSeq(d, k + 1, Len(d))[1] = d[k + 1]
        /\ Tail(SubSeq(d, k + 1, Len(d))) = SubSeq(d, k + 2, Len(d))
        /\ Append(SubSeq(d, 1, k), d[k + 1]) = SubSeq(d, 1, k + 1)
    BY <1>7, <1>8, NextOf
  <2>2. text # <<>> /\ Head(text) = d[k + 1] /\ Tail(text) = SubSeq(d, k + 2, Len(d)) \o r
    <3>1. PICK q : q = SubSeq(d, k + 1, Len(d))
      OBVIOUS
    <3>2. q \in Seq(Int) /\ q # <<>> /\ text = q \o r
      BY <1>2, <2>1, <3>1
    <3>3. q \o r # <<>> /\ Head(q \o r) = q[1] /\ Tail(q \o r) = Tail(q) \o r
      BY <3>2, FrontIs
    <3>4. QED
      BY <2>1, <3>1, <3>2, <3>3
  <2>3. current' = d[k + 1] /\ text' = SubSeq(d, k + 2, Len(d)) \o r
    BY <1>3, <1>5, <2>2, TakesChar
  <2>4. d[k + 1] \in Decimals /\ d[1] # Zero
    <3>1. d \in Seq(Decimals) /\ (d[1] = Zero => Len(d) = 1)
      BY <1>1, WrittenIs
    <3>2. k + 1 \in 1..Len(d) /\ Len(d) # 1
      <4>1. PICK n \in Nat : n = Len(d)
        BY <1>7
      <4>2. k + 1 \in 1..n /\ n # 1
        BY <1>7, <1>8, <4>1
      <4>3. QED
        BY <4>1, <4>2
    <3>3. \A w \in 1..Len(d) : d[w] \in Decimals
      BY <3>1
    <3>4. QED
      BY <3>1, <3>2, <3>3
  <2>5. NextLabel(lexer, current') = "any1" /\ lexer = "any1"
    BY <1>1, <1>3, <2>3, <2>4, BehindPlace
  <2>6. ScanOn
    BY <1>5, <2>5 DEF ScanDone
  <2>7. lexer' = "any1" /\ next_unget' = FALSE /\ fresh' = FALSE /\ token' = token
        /\ token_buffer' = Append(token_buffer, current')
    BY <2>5, <2>6 DEF ScanOn, NotUngot
  <2>8. token_buffer' = SubSeq(d, 1, k + 1) /\ k + 1 \in 1..Len(d) /\ (k + 1) + 1 = k + 2
    BY <1>2, <1>7, <1>8, <2>1, <2>3, <2>7
  <2>9. \E j \in 1..Len(d) : token_buffer' = SubSeq(d, 1, j) /\ text' = SubSeq(d, j + 1, Len(d)) \o r
    BY <2>3, <2>8
  <2>10. Partly'
    BY <1>3, <1>6, <2>5, <2>7, <2>9 DEF Partly
  <2>11. QED
    BY <2>10
<1>9. CASE k = Len(d)
  <2>1. token_buffer = d /\ text = r
    <3>1. SubSeq(d, 1, k) = d
      BY <1>9, SubSeqFull
    <3>2. SubSeq(d, k + 1, Len(d)) = <<>>
      BY <1>7, <1>9, SubSeqEmpty
    <3>3. <<>> \o r = r
      BY ConcatEmptySeq
    <3>4. QED
      BY <1>2, <3>1, <3>2, <3>3
  <2>2. current' = follower /\ text' = <<>>
    <3>1. CASE follower = EOF
      <4>1. text = <<>>
        BY <1>1, <2>1, <3>1, RestIs
      <4>2. QED
        BY <1>3, <1>5, <3>1, <4>1, TakesChar DEF EOF
    <3>2. CASE follower # EOF
      <4>1. text = <<follower>>
        BY <1>1, <2>1, <3>2, RestIs
      <4>2. QED
        BY <1>3, <1>5, <4>1, TakesChar, Splits
    <3>3. QED
      BY <3>1, <3>2
  <2>3. NextLabel(lexer, current') = "none"
    BY <1>1, <1>3, <2>2, BehindPlace
  <2>4. ScanDone
    BY <1>5, <2>3 DEF ScanOn
  <2>5. StrToInt(d) = x
    <3>1. d[1] # Minus
      BY <1>1, DigitIs
    <3>2. Positional(d) = x
      BY <1>1, WrittenIs
    <3>3. QED
      BY <3>1, <3>2 DEF StrToInt
  <2>6. x \in RangeOf(token)
    <3>1. x \in 0..MAX_UNSIGNED
      BY NumberAssumption
    <3>2. QED
      BY <1>3, <3>1 DEF RangeOf
  <2>7. x % (MAX_UNSIGNED + 1) = x
    <3>1. MAX_UNSIGNED \in Nat
      BY NumberAssumption
    <3>2. QED
      BY <3>1, SMT
  <2>8. /\ lexer' = "token" /\ next_unget' = TRUE /\ value' = x /\ token' = token /\ fresh' = fresh
    BY <1>3, <2>1, <2>4, <2>5, <2>6, <2>7 DEF ScanDone, Unget
  <2>9. QED
    BY <1>3, <2>2, <2>8 DEF Behind
<1>10. QED
  BY <1>7, <1>8, <1>9

\* Where only the parser's question for the next token is possible.
LEMMA OnlyScanAgain ==
  ASSUME Read, lexer = "token"
  PROVE  ScanAgain /\ UNCHANGED value
<1>1. lexer \notin StringPlaces /\ lexer \notin Label
  BY DEF StringPlaces, Label
<1>2. ~SkipBom /\ ~Choose /\ ~ScanLiteral
  BY DEF SkipBom, Choose, ScanLiteral, GetAt
<1>3. ~ReadString
  BY <1>1, OnlyAt
<1>4. ~ReadNumber
  BY <1>1, NumberPlaces DEF ReadNumber
<1>5. QED
  BY <1>2, <1>3, <1>4 DEF Read, LexerNext

\* The token behind the number is asked for.
LEMMA BehindRead ==
  ASSUME x' = x, follower' = follower, Behind, Read
  PROVE  Anew'
<1>1. ScanAgain
  BY OnlyScanAgain DEF Behind
<1>2. QED
  BY <1>1 DEF ScanAgain, Behind, Anew

\* Behind that nothing is read.
LEMMA FollowedRead ==
  ASSUME Followed, Read
  PROVE  FALSE
BY OnlyScanAgain DEF Followed, ScanAgain

\* The character behind the number is a token.
LEMMA FollowerChosen ==
  ASSUME Choose, current' \in {Comma, Brace, EOF}
  PROVE  lexer' = "token" /\ next_unget' = FALSE /\ token' = (IF current' = EOF THEN "end_of_input" ELSE Structural[current'])
<1>1. /\ DOMAIN Structural = {91, 93, 123, 125, 58, 44}
      /\ DOMAIN Literals = {116, 102, 110}
  BY DEF Structural, Literals
<1>2. PICK c : c = current'
  OBVIOUS
<1>3. /\ c \notin White /\ c \notin DOMAIN Literals /\ c # Quote /\ c \notin Decimals \cup {Minus}
      /\ c \in DOMAIN Structural \cup {0, EOF} /\ (c \in DOMAIN Structural <=> c # EOF) /\ (c = EOF \/ c # 0)
  BY <1>1, <1>2, SMT DEF White, Quote, Decimals, Minus, Comma, Brace, EOF
<1>4. \/ c \in DOMAIN Structural /\ Returns(Structural[c])
      \/ c \in {0, EOF} /\ Returns("end_of_input")
  BY <1>2, <1>3, Zenon DEF Choose
<1>5. QED
  BY <1>2, <1>3, <1>4 DEF Returns, NotUngot

\* It is read again.
LEMMA AnewRead ==
  ASSUME x' = x, follower' = follower, follower \in {Comma, Brace, EOF}, Anew, Read
  PROVE  Followed'
<1>1. Choose /\ Get
  BY OnlyChoose DEF Anew, Choose, GetAt
<1>2. current' = follower
  BY <1>1 DEF Get, Anew
<1>3. QED
  BY <1>1, <1>2, FollowerChosen DEF Followed

\* There is nothing to read until the number is sent.
LEMMA DumpingRead ==
  ASSUME lexer = "scan", ~next_unget, text = <<>>, writer = "dumping", Read
  PROVE  FALSE
<1>1. ~Get
  BY DEF Get
<1>2. lexer \notin StringPlaces /\ lexer \notin Label
  BY DEF StringPlaces, Label
<1>3. ~LexerNext
  BY <1>1 DEF LexerNext, SkipBom, Choose, ScanLiteral, ScanAgain, GetAt
<1>4. ~ReadString
  BY <1>2, OnlyAt
<1>5. ~ReadNumber
  BY <1>2, NumberPlaces DEF ReadNumber
<1>6. QED
  BY <1>3, <1>4, <1>5 DEF Read

\* The stages are about what stays.
LEMMA NumberKept ==
  ASSUME NumberLock, UNCHANGED textVars
  PROVE  NumberLock'
<1>1. UNCHANGED <<writer, text, lexer, token, fresh, current, next_unget, token_buffer, sent, x, follower, value>>
  BY DEF textVars, scanVars, dumpVars, integerVars
<1>2. Written(x)' = Written(x) /\ Rest' = Rest
  BY <1>1 DEF Written, Rest
<1>3. Stages => Stages'
  BY <1>1, <1>2 DEF Stages, Unread, Looked, Partly, Behind, Anew, Followed
<1>4. QED
  BY <1>1, <1>3 DEF NumberLock

\* The writer's steps.
LEMMA NumberDump ==
  ASSUME IntegerInv, NumberLock, x # -1, DumpNumber, UNCHANGED dumpVars
  PROVE  NumberLock'
<1>1. writer = "dumping" /\ UNCHANGED scanVars /\ UNCHANGED follower
  BY DEF DumpNumber, DumpZero, StartFilling, FillPair, FillLast, integerVars
<1>2. UNCHANGED <<lexer, token, fresh, next_unget, sent, follower>>
  BY <1>1 DEF scanVars, dumpVars
<1>3. lexer = "scan" /\ fresh /\ ~next_unget /\ text = <<>> /\ token = "none" /\ sent = <<>>
  BY <1>1 DEF NumberLock
<1>4. CASE DumpZero \/ FillLast
  <2>1. writer' = "ended" /\ text' = Written(x) \o Rest /\ x' = x
    BY <1>4, DumpsZero, FillsLast
  <2>2. Written(x)' = Written(x) /\ Rest' = Rest
    BY <1>2, <2>1 DEF Written, Rest
  <2>3. Unread'
    BY <1>2, <1>3, <2>1, <2>2 DEF Unread
  <2>4. QED
    BY <1>2, <1>3, <2>1, <2>3 DEF NumberLock, Stages
<1>5. CASE StartFilling \/ FillPair
  <2>1. writer' = writer /\ text' = text
    BY <1>5 DEF StartFilling, FillPair
  <2>2. QED
    BY <1>1, <1>2, <1>3, <2>1 DEF NumberLock
<1>6. QED
  BY <1>4, <1>5 DEF DumpNumber

\* Every step keeps the stages.
LEMMA NumberNext == IntegerInv /\ NumberLock /\ [TextNext]_textVars => NumberLock'
<1> SUFFICES ASSUME IntegerInv, NumberLock, [TextNext]_textVars
             PROVE  NumberLock'
  OBVIOUS
<1>1. CASE x # -1 /\ DumpNumber /\ UNCHANGED dumpVars
  BY <1>1, NumberDump
<1>2. CASE x # -1 /\ Read
  <2>1. writer' = writer /\ x' = x /\ follower' = follower
    BY <1>2, ReadKeeps DEF integerVars
  <2>2. x \in Nat /\ x <= MAX_UNSIGNED /\ follower \in {Comma, Brace, EOF}
    BY <1>2 DEF IntegerInv
  <2>3. sent' = sent
    BY <1>2 DEF Read, ReadString, ReadNumber, dumpVars
  <2>4. writer = "ended" /\ Stages
    BY <1>2, DumpingRead DEF NumberLock
  <2>5. Stages'
    BY <1>2, <2>1, <2>2, <2>4, UnreadRead, LookedRead, PartlyRead, BehindRead, AnewRead, FollowedRead DEF Stages
  <2>6. QED
    BY <1>2, <2>1, <2>3, <2>4, <2>5 DEF NumberLock
<1>3. CASE x = -1 /\ x' = x
  BY <1>3 DEF NumberLock
<1>4. CASE UNCHANGED textVars
  BY <1>4, NumberKept
<1>5. x # -1 => ~Kill /\ ~EditedChar
  BY DEF NumberLock, Kill, EditedChar
<1>6. x = -1 => x' = x
  <2>1. Read => x' = x
    BY ReadKeeps DEF integerVars
  <2>2. QED
    BY <2>1 DEF TextNext, Dump, Kill, EditedChar, textVars, integerVars
<1>7. QED
  BY <1>1, <1>2, <1>3, <1>4, <1>5, <1>6 DEF TextNext, Dump

-----------------------------------------------------------------------------
(* The characters of a file are bytes. *)

\* Bytes behind bytes.
LEMMA BytesCat ==
  ASSUME NEW s, NEW t, s \in Seq(0..255), t \in Seq(0..255)
  PROVE  s \o t \in Seq(0..255)
BY ConcatProperties

\* What is written for a code point is bytes.
LEMMA EscapedBytes ==
  ASSUME NEW cp \in Nat, NEW b \in 0..255
  PROVE  Escaped(cp, b) \in Seq(0..255)
<1> DEFINE S == 0..255
<1>1. /\ 92 \in S /\ 117 \in S /\ 48 \in S /\ b \in S
  OBVIOUS
<1>2. ASSUME cp < 32
      PROVE  HexChar(cp \div 16) \in S /\ HexChar(cp % 16) \in S
  BY <1>2, SMT DEF HexChar
<1>3. cp \in DOMAIN Short => Short[cp] \in S
  <2>1. DOMAIN Short = {8, 9, 10, 12, 13, 34, 92}
    BY ShortIs
  <2>2. {98, 116, 110, 102, 114, 34, 92} \in SUBSET S
    OBVIOUS
  <2>3. cp \in DOMAIN Short => Short[cp] \in {98, 116, 110, 102, 114, 34, 92}
    BY <2>1, ShortIs
  <2>4. QED
    BY <2>2, <2>3
<1> HIDE DEF S
<1>4. CASE Plain(cp)
  <2>1. Escaped(cp, b) = <<b>>
    BY <1>4, EscapedIs
  <2>2. QED
    BY <1>1, <2>1 DEF S
<1>5. CASE cp \in DOMAIN Short
  <2>1. Escaped(cp, b) = <<92, Short[cp]>>
    BY <1>5, EscapedIs
  <2>2. PICK d \in S : d = Short[cp]
    BY <1>3, <1>5
  <2>3. <<92, d>> \in Seq(S)
    BY <1>1
  <2>4. QED
    BY <2>1, <2>2, <2>3 DEF S
<1>6. CASE cp < 32 /\ cp \notin DOMAIN Short
  <2>1. Escaped(cp, b) = <<92, 117, 48, 48, HexChar(cp \div 16), HexChar(cp % 16)>>
    BY <1>6, EscapedIs
  <2>2. PICK d \in S, e \in S : d = HexChar(cp \div 16) /\ e = HexChar(cp % 16)
    BY <1>2, <1>6
  <2>3. <<92, 117, 48, 48, d, e>> \in Seq(S)
    BY <1>1
  <2>4. QED
    BY <2>1, <2>2, <2>3 DEF S
<1>7. Plain(cp) \/ cp \in DOMAIN Short \/ (cp < 32 /\ cp \notin DOMAIN Short)
  <2>1. DOMAIN Short = {8, 9, 10, 12, 13, 34, 92}
    BY ShortIs
  <2>2. QED
    BY <2>1 DEF Plain
<1>8. QED
  BY <1>4, <1>5, <1>6, <1>7

\* A byte is dumped.
LEMMA CharsDumpByte ==
  ASSUME CharsInv, DecodeInv, NEW b \in Bytes, DumpByte(b)
  PROVE  CharsInv'
<1>1. /\ UNCHANGED scanVars /\ codepoint' = NextCodepoint(b)
      /\ text' \in {text, <<b>>, Escaped(NextCodepoint(b), b)}
  BY DEF DumpByte
<1>2. b \in 0..255
  BY StringAssumption
<1>3. NextCodepoint(b) \in Nat
  BY <1>1, DecodeByte DEF DecodeInv
<1>4. Escaped(NextCodepoint(b), b) \in Seq(0..255)
  BY <1>2, <1>3, EscapedBytes
<1>5. <<b>> \in Seq(0..255)
  BY <1>2
<1>6. text' \in Seq(0..255)
  BY <1>1, <1>4, <1>5 DEF CharsInv
<1>7. QED
  BY <1>1, <1>6 DEF CharsInv, scanVars

\* The string ends.
LEMMA CharsDumpEnd ==
  ASSUME CharsInv, DumpEnd
  PROVE  CharsInv'
<1>1. UNCHANGED scanVars /\ text' \in {text, <<Quote>>}
  BY DEF DumpEnd
<1>2. <<Quote>> \in Seq(0..255)
  BY DEF Quote
<1>3. QED
  BY <1>1, <1>2 DEF CharsInv, scanVars

\* A number is dumped.
LEMMA CharsDumpNumber ==
  ASSUME CharsInv, IntegerInv, x # -1, DumpNumber
  PROVE  CharsInv'
<1>1. UNCHANGED scanVars
  BY DEF DumpNumber, DumpZero, StartFilling, FillPair, FillLast
<1>2. text' \in Seq(0..255)
  <2>1. CASE DumpZero \/ FillLast
    <3>1. text' = Written(x) \o Rest
      BY <2>1, DumpsZero, FillsLast
    <3>2. PICK d : d = Written(x)
      OBVIOUS
    <3>3. d \in Seq(Decimals)
      BY <3>2, WrittenIs DEF IntegerInv
    <3>4. Decimals \in SUBSET (0..255)
      BY DEF Decimals
    <3>5. d \in Seq(0..255)
      BY <3>3, <3>4, SeqMonotonic, ZenonT(30)
    <3>6. Rest \in Seq(0..255)
      <4>1. Rest \in {<<>>, <<Comma>>, <<Brace>>}
        BY DEF Rest, IntegerInv
      <4>2. <<>> \in Seq(0..255) /\ <<Comma>> \in Seq(0..255) /\ <<Brace>> \in Seq(0..255)
        BY DEF Comma, Brace
      <4>3. QED
        BY <4>1, <4>2
    <3>7. QED
      BY <3>1, <3>2, <3>5, <3>6, BytesCat
  <2>2. CASE StartFilling \/ FillPair
    BY <2>2 DEF StartFilling, FillPair, CharsInv
  <2>3. QED
    BY <2>1, <2>2 DEF DumpNumber
<1>3. QED
  BY <1>1, <1>2 DEF CharsInv, scanVars

\* The file is cut.
LEMMA CharsKill ==
  ASSUME CharsInv, Kill
  PROVE  CharsInv'
<1>1. PICK n \in 0..Len(text) : text' = SubSeq(text, 1, n)
  BY DEF Kill
<1>2. text \in Seq(0..255) /\ n \in Int /\ n <= Len(text)
  BY DEF CharsInv
<1>3. \A w \in 1..n : text[w] \in 0..255
  <2>1. \A w \in 1..n : w \in 1..Len(text)
    BY <1>2
  <2>2. \A w \in 1..Len(text) : text[w] \in 0..255
    <3> DEFINE S == 0..255
    <3>1. text \in Seq(S)
      BY <1>2
    <3> HIDE DEF S
    <3>2. \A w \in 1..Len(text) : text[w] \in S
      BY <3>1
    <3>3. QED
      BY <3>2 DEF S
  <2>3. QED
    BY <2>1, <2>2
<1>4. text' \in Seq(0..255)
  BY <1>1, <1>2, <1>3, SubSeqProperties
<1>5. QED
  BY <1>4 DEF CharsInv, Kill, scanVars

\* A character is edited in.
LEMMA CharsEdited ==
  ASSUME CharsInv, EditedChar
  PROVE  CharsInv'
<1>1. PICK c \in Possible : text' = <<c>>
  BY DEF EditedChar
<1>2. c \in Bytes \cup Chars \cup Beginnings
  BY DEF Possible
<1>3. c \in 0..255
  BY <1>2, StringAssumption, NumberAssumption, TextAssumption
<1>4. text' \in Seq(0..255)
  BY <1>1, <1>3
<1>5. QED
  BY <1>4 DEF CharsInv, EditedChar, scanVars

\* Every action of the lexer but ScanAgain is one get().
LEMMA ReadGets ==
  ASSUME Read
  PROVE  (Get /\ next_unget' \in BOOLEAN) \/ (ScanAgain /\ UNCHANGED <<text, current, next_unget>>)
<1>1. CASE ReadString
  BY <1>1, StringIsGot, PlacesNamed
<1>2. CASE SkipBom
  BY <1>2 DEF SkipBom, GetAt, NotUngot, Unget, Returns
<1>3. CASE Choose
  BY <1>3 DEF Choose, GetAt, NotUngot, Returns
<1>4. CASE ScanLiteral
  BY <1>4 DEF ScanLiteral, GetAt, NotUngot, Returns
<1>5. CASE ScanAgain
  BY <1>5 DEF ScanAgain
<1>6. CASE ReadNumber
  BY <1>6 DEF ReadNumber, ScanOn, ScanError, ScanDone, NotUngot, Returns, Unget
<1>7. QED
  BY <1>1, <1>2, <1>3, <1>4, <1>5, <1>6 DEF Read, LexerNext

\* Every step leaves bytes in the file.
LEMMA CharsNext == CharsInv /\ DecodeInv /\ IntegerInv /\ [TextNext]_textVars => CharsInv'
<1> SUFFICES ASSUME CharsInv, DecodeInv, IntegerInv, [TextNext]_textVars
             PROVE  CharsInv'
  OBVIOUS
<1>1. CASE Read
  BY <1>1, ReadGets, GetsByte DEF CharsInv
<1>2. CASE Dump
  BY <1>2, CharsDumpByte, CharsDumpEnd, CharsDumpNumber DEF Dump, DumpString
<1>3. CASE UNCHANGED textVars
  BY <1>3 DEF textVars, scanVars, CharsInv
<1>4. QED
  BY <1>1, <1>2, <1>3, CharsKill, CharsEdited DEF TextNext

\* At first there are none, or a quote.
LEMMA CharsStart == TextInit \/ TextIdle => CharsInv
<1> SUFFICES ASSUME TextInit \/ TextIdle
             PROVE  CharsInv
  OBVIOUS
<1>1. text \in {<<>>, <<Quote>>} /\ current = -1 /\ next_unget = FALSE
  BY DEF TextInit, TextIdle, LexerInit, EOF
<1>2. <<>> \in Seq(0..255) /\ <<Quote>> \in Seq(0..255)
  BY DEF Quote
<1>3. text \in Seq(0..255)
  BY <1>1, <1>2
<1>4. current \in Int /\ -1 <= current /\ current < 256
  <2>1. current = -1
    BY <1>1
  <2>2. QED
    BY <2>1
<1>5. next_unget \in BOOLEAN
  BY <1>1, Zenon
<1>6. QED
  BY <1>3, <1>4, <1>5 DEF CharsInv

Writers == {"dumping", "ended", "threw", "killed", "edited", "edited end"}

\* The writer's states.
LEMMA WriterNext == writer \in Writers /\ [TextNext]_textVars => writer' \in Writers
<1>1. Read => writer' = writer
  BY ReadKeeps
<1>2. Dump => writer' \in {writer, "ended", "threw"}
  BY DEF Dump, DumpString, DumpByte, DumpEnd, DumpNumber, DumpZero, StartFilling, FillPair, FillLast, Send
<1>3. QED
  BY <1>1, <1>2 DEF TextNext, Kill, EditedChar, textVars, Writers

-----------------------------------------------------------------------------
(* Both kinds of token together. *)

\* What is sent is got: the string by the lockstep, the number by its stages.
LEMMA SentFollows ==
  ASSUME Lockstep, NumberLock, IntegerInv, writer \in Writers
  PROVE  SentIsGot
<1>1. CASE x = -1
  <2>1. writer \in {"dumping", "ended"} => token # "parse_error"
    BY <1>1, LockIs DEF WhileDumping, AfterEnd
  <2>2. token = "string" => writer \in {"ended", "edited", "edited end"}
    BY <1>1, LockIs DEF WhileDumping, AfterCut, Writers
  <2>3. ASSUME writer = "dumping", text = <<>>, sent # <<>>
        PROVE  got = sent
    <3>1. Following
      BY <1>1, <2>3, LockIs DEF WhileDumping
    <3>2. QED
      BY <2>3, <3>1, FollowingAt DEF Between, Inside
  <2>4. QED
    BY <2>1, <2>2, <2>3 DEF SentIsGot
<1>2. CASE x # -1
  <2>1. follower \in {Comma, Brace, EOF}
    BY <1>2 DEF IntegerInv
  <2>2. Structural[Comma] = "," /\ Structural[Brace] = "}"
    BY SMT DEF Structural, Comma, Brace
  <2>3. Stages => token \in {"none", "unsigned", "end_of_input", ",", "}"}
    BY <2>1, <2>2 DEF Stages, Unread, Looked, Partly, Behind, Anew, Followed
  <2>4. token \in {"none", "unsigned", "end_of_input", ",", "}"} /\ sent = <<>>
    BY <1>2, <2>3 DEF NumberLock
  <2>5. QED
    BY <2>4 DEF SentIsGot
<1>3. QED
  BY <1>1, <1>2

-----------------------------------------------------------------------------
(* Where scan_number is after each character of a number without its sign. *)

Run(u) ==
  LET run[k \in Nat] == IF k = 0 THEN "minus" ELSE NextLabel(run[k - 1], u[k])
  IN run

Labels == Label \cup {"none"}

\* A character leads to a label or nowhere.
LEMMA LabelType ==
  ASSUME NEW label, NEW c
  PROVE  NextLabel(label, c) \in Labels
BY SMT DEF NextLabel, IntegerLabel, FractionLabel, Label, Labels

\* The labels, one after the other.
LEMMA RunIs ==
  ASSUME NEW u
  PROVE  Run(u)[0] = "minus" /\ \A k \in Nat : Run(u)[k] \in Labels /\ Run(u)[k + 1] = NextLabel(Run(u)[k], u[k + 1])
<1> DEFINE step == [p \in Nat \X Labels |-> NextLabel(p[2], u[p[1]])]
           S == Labels
           a == "minus"
<1>1. \A k \in Nat : \A l \in S : step[<<k, l>>] = NextLabel(l, u[k]) /\ step[<<k, l>>] \in S
  BY LabelType
<1>2. a \in S
  BY DEF Labels, Label
<1> HIDE DEF step
<1>3. PICK f : Stepping(f, S, a, step)
  <2> HIDE DEF a, S
  <2>1. QED
    BY <1>1, <1>2, Iterates
<1>4. f \in [Nat -> S] /\ f[0] = a /\ \A k \in Nat \ {0} : f[k] = step[<<k, f[k - 1]>>]
  BY <1>3 DEF Stepping
<1> HIDE DEF a, S
<1>5. \A k \in Nat \ {0} : f[k] = NextLabel(f[k - 1], u[k])
  <2>1. \A k \in Nat \ {0} : k \in Nat /\ k - 1 \in Nat
    OBVIOUS
  <2>2. QED
    BY <1>1, <1>4, <2>1
<1>6. f = [k \in Nat |-> IF k = 0 THEN "minus" ELSE NextLabel(f[k - 1], u[k])]
  BY <1>4, <1>5 DEF a
<1> DEFINE r == Run(u)
<1>7. r = [k \in Nat |-> IF k = 0 THEN "minus" ELSE NextLabel(r[k - 1], u[k])]
  BY <1>6 DEF Run
<1> HIDE DEF r
<1>8. r[0] = "minus" /\ \A k \in Nat : r[k + 1] = NextLabel(r[k], u[k + 1])
  <2>1. \A k \in Nat : k + 1 \in Nat /\ k + 1 # 0 /\ (k + 1) - 1 = k
    OBVIOUS
  <2>2. QED
    BY <1>7, <2>1
<1>9. \A k \in Nat : r[k] \in Labels
  <2>1. ASSUME NEW k \in Nat
        PROVE  r[k] \in Labels
    <3>1. CASE k = 0
      BY <1>2, <1>8, <3>1 DEF S, a
    <3>2. CASE k # 0
      BY <1>7, <3>2, LabelType
    <3>3. QED
      BY <3>1, <3>2
  <2>2. QED
    BY <2>1
<1>10. QED
  BY <1>8, <1>9 DEF r

\* A character more is a label more.
LEMMA RunMore ==
  ASSUME NEW u \in Seq(Int), NEW c \in Int
  PROVE  /\ \A k \in 0..Len(u) : Run(Append(u, c))[k] = Run(u)[k]
         /\ Run(Append(u, c))[Len(u) + 1] = NextLabel(Run(u)[Len(u)], c)
<1> DEFINE v == Append(u, c)
           n == Len(u)
           S == {k \in Nat : k <= n => Run(v)[k] = Run(u)[k]}
<1>1. n \in Nat /\ v[n + 1] = c /\ \A k \in 1..n : v[k] = u[k]
  OBVIOUS
<1> HIDE DEF v, n
<1>2. 0 \in S
  BY RunIs
<1>3. ASSUME NEW k \in S
      PROVE  k + 1 \in S
  <2>1. CASE k + 1 <= n
    <3>1. k \in Nat /\ k + 1 \in 1..n /\ Run(v)[k] = Run(u)[k] /\ k + 1 \in Nat
      BY <1>1, <2>1
    <3>2. Run(v)[k + 1] = NextLabel(Run(v)[k], v[k + 1]) /\ Run(u)[k + 1] = NextLabel(Run(u)[k], u[k + 1])
      BY <3>1, RunIs
    <3>3. QED
      BY <1>1, <3>1, <3>2
  <2>2. QED
    BY <2>1
<1> HIDE DEF S
<1>4. S = Nat
  <2>1. S \in SUBSET Nat
    BY DEF S
  <2>2. QED
    BY <1>2, <1>3, <2>1, NatSetInduction
<1>5. \A k \in 0..n : Run(v)[k] = Run(u)[k]
  <2>1. \A k \in 0..n : k \in Nat /\ k <= n
    BY <1>1
  <2>2. QED
    BY <1>4, <2>1 DEF S
<1>6. Run(v)[n + 1] = NextLabel(Run(u)[n], c)
  <2>1. n \in 0..n
    BY <1>1
  <2>2. Run(v)[n + 1] = NextLabel(Run(v)[n], v[n + 1])
    BY <1>1, RunIs
  <2>3. QED
    BY <1>1, <1>5, <2>1, <2>2
<1>7. QED
  BY <1>5, <1>6 DEF v, n

-----------------------------------------------------------------------------
(* The parts of a number by their places. *)

DigitsAt(u, a, b) == \A k \in a..b : u[k] \in Decimals
IntAt(u, p) == p >= 1 /\ DigitsAt(u, 1, p) /\ (p = 1 \/ u[1] # Zero)
FracAt(u, p, q) == q = p \/ (q > p + 1 /\ u[p + 1] = Point /\ DigitsAt(u, p + 2, q))
ExpAt(u, q, n) ==
  \/ q = n
  \/ /\ q + 1 < n /\ u[q + 1] \in Exponents
     /\ IF u[q + 2] \in Signs THEN q + 2 < n /\ DigitsAt(u, q + 3, n) ELSE DigitsAt(u, q + 2, n)

NumberAt(u, n) == \E p \in Nat, q \in Nat : p <= q /\ q <= n /\ IntAt(u, p) /\ FracAt(u, p, q) /\ ExpAt(u, q, n)

\* What a label says of the first k characters.
Shape(u, k, label) ==
  /\ label = "minus" => k = 0
  /\ label = "zero" => k = 1 /\ u[1] = Zero
  /\ label = "any1" => k >= 1 /\ DigitsAt(u, 1, k) /\ u[1] # Zero
  /\ label = "decimal1" => k >= 2 /\ IntAt(u, k - 1) /\ u[k] = Point
  /\ label = "decimal2" => \E p \in Nat : p + 1 < k /\ IntAt(u, p) /\ u[p + 1] = Point /\ DigitsAt(u, p + 2, k)
  /\ label = "exponent" => k >= 1 /\ u[k] \in Exponents /\ \E p \in Nat : p <= k - 1 /\ IntAt(u, p) /\ FracAt(u, p, k - 1)
  /\ label = "sign" => /\ k >= 2 /\ u[k - 1] \in Exponents /\ u[k] \in Signs
                       /\ \E p \in Nat : p <= k - 2 /\ IntAt(u, p) /\ FracAt(u, p, k - 2)
  /\ label = "any2" => \E p \in Nat, q \in Nat : p <= q /\ q < k /\ IntAt(u, p) /\ FracAt(u, p, q) /\ ExpAt(u, q, k)

\* One more digit.
LEMMA DigitsMoreAt ==
  ASSUME NEW u, NEW a \in Nat, NEW k \in Nat, DigitsAt(u, a, k), u[k + 1] \in Decimals
  PROVE  DigitsAt(u, a, k + 1)
<1>1. \A j \in a..k + 1 : j \in a..k \/ j = k + 1
  OBVIOUS
<1>2. QED
  BY <1>1 DEF DigitsAt

\* Which labels lead to a label.
LEMMA LeadTo ==
  ASSUME NEW label, NEW c
  PROVE  LET next == NextLabel(label, c) IN
         /\ next # "minus"
         /\ next = "zero" => label = "minus" /\ c = Zero
         /\ next = "any1" => /\ c \in Decimals
                             /\ (label = "minus" /\ c # Zero) \/ label = "any1"
         /\ next = "decimal1" => label \in {"zero", "any1"} /\ c = Point
         /\ next = "decimal2" => label \in {"decimal1", "decimal2"} /\ c \in Decimals
         /\ next = "exponent" => label \in {"zero", "any1", "decimal2"} /\ c \in Exponents
         /\ next = "sign" => label = "exponent" /\ c \in Signs
         /\ next = "any2" => label \in {"exponent", "sign", "any2"} /\ c \in Decimals
BY SMT DEF NextLabel, IntegerLabel, FractionLabel

\* The characters of a number are apart.
LEMMA ZeroDigit == Zero \in Decimals /\ Point \notin Decimals /\ \A c \in Decimals : c \notin Signs /\ c \notin Exponents
BY SMT DEF Zero, Point, Decimals, Signs, Exponents

\* One more digit before the point.
LEMMA ShapeAny1 ==
  ASSUME NEW u, NEW k \in Nat, NEW label, Shape(u, k, label), NextLabel(label, u[k + 1]) = "any1"
  PROVE  k + 1 >= 1 /\ DigitsAt(u, 1, k + 1) /\ u[1] # Zero
<1>1. u[k + 1] \in Decimals /\ ((label = "minus" /\ u[k + 1] # Zero) \/ label = "any1")
  BY LeadTo
<1>2. CASE label = "minus"
  <2>1. k = 0 /\ label # "any1"
    BY <1>2 DEF Shape
  <2>2. u[1] \in Decimals /\ u[1] # Zero
    BY <1>1, <2>1
  <2>3. \A j \in 1..k + 1 : j = 1
    BY <2>1
  <2>4. QED
    BY <2>1, <2>2, <2>3 DEF DigitsAt
<1>3. CASE label = "any1"
  <2>1. k >= 1 /\ DigitsAt(u, 1, k) /\ u[1] # Zero
    BY <1>3 DEF Shape
  <2>2. DigitsAt(u, 1, k + 1)
    BY <1>1, <2>1, DigitsMoreAt
  <2>3. QED
    BY <2>1, <2>2
<1>4. QED
  BY <1>1, <1>2, <1>3

\* A whole part before the decimal point or the exponent.
LEMMA ShapeInt ==
  ASSUME NEW u, NEW k \in Nat, NEW label, Shape(u, k, label), label \in {"zero", "any1"}
  PROVE  k >= 1 /\ IntAt(u, k)
<1>1. CASE label = "zero"
  <2>1. k = 1 /\ u[1] = Zero
    BY <1>1 DEF Shape
  <2>2. \A j \in 1..k : j = 1
    BY <2>1
  <2>3. QED
    BY <2>1, <2>2, ZeroDigit DEF IntAt, DigitsAt
<1>2. CASE label = "any1"
  BY <1>2 DEF Shape, IntAt
<1>3. QED
  BY <1>1, <1>2

\* One more behind it.
LEMMA ShapeDecimal2 ==
  ASSUME NEW u, NEW k \in Nat, NEW label, Shape(u, k, label), NextLabel(label, u[k + 1]) = "decimal2"
  PROVE  \E p \in Nat : p + 1 < k + 1 /\ IntAt(u, p) /\ u[p + 1] = Point /\ DigitsAt(u, p + 2, k + 1)
<1>1. u[k + 1] \in Decimals /\ label \in {"decimal1", "decimal2"}
  BY LeadTo
<1>2. CASE label = "decimal1"
  <2>1. k >= 2 /\ IntAt(u, k - 1) /\ u[k] = Point
    BY <1>2 DEF Shape
  <2>2. PICK p \in Nat : p = k - 1
    BY <2>1
  <2>3. p + 1 = k /\ p + 1 < k + 1
    BY <2>2
  <2>4. \A j \in p + 2..k + 1 : j = k + 1
    BY <2>3
  <2>5. IntAt(u, p) /\ u[p + 1] = Point
    BY <2>1, <2>2, <2>3
  <2>6. DigitsAt(u, p + 2, k + 1)
    BY <1>1, <2>4 DEF DigitsAt
  <2>7. QED
    BY <2>3, <2>5, <2>6
<1>3. CASE label = "decimal2"
  <2>1. PICK p \in Nat : p + 1 < k /\ IntAt(u, p) /\ u[p + 1] = Point /\ DigitsAt(u, p + 2, k)
    BY <1>3 DEF Shape
  <2>2. p + 2 \in Nat /\ p + 1 < k + 1
    BY <2>1
  <2>3. DigitsAt(u, p + 2, k + 1)
    BY <1>1, <2>1, <2>2, DigitsMoreAt
  <2>4. QED
    BY <2>1, <2>2, <2>3
<1>4. QED
  BY <1>1, <1>2, <1>3

\* The part before an exponent.
LEMMA ShapeMantissa ==
  ASSUME NEW u, NEW k \in Nat, NEW label, Shape(u, k, label), label \in {"zero", "any1", "decimal2"}
  PROVE  \E p \in Nat : p <= k /\ IntAt(u, p) /\ FracAt(u, p, k)
<1>1. CASE label \in {"zero", "any1"}
  <2>1. IntAt(u, k)
    BY <1>1, ShapeInt
  <2>2. k <= k /\ FracAt(u, k, k)
    BY DEF FracAt
  <2>3. QED
    BY <2>1, <2>2
<1>2. CASE label = "decimal2"
  <2>1. PICK p \in Nat : p + 1 < k /\ IntAt(u, p) /\ u[p + 1] = Point /\ DigitsAt(u, p + 2, k)
    BY <1>2 DEF Shape
  <2>2. p <= k /\ FracAt(u, p, k)
    BY <2>1 DEF FracAt
  <2>3. QED
    BY <2>1, <2>2
<1>3. QED
  BY <1>1, <1>2

\* One more of the exponent.
LEMMA ShapeAny2 ==
  ASSUME NEW u, NEW k \in Nat, NEW label, Shape(u, k, label), NextLabel(label, u[k + 1]) = "any2"
  PROVE  \E p \in Nat, q \in Nat : p <= q /\ q < k + 1 /\ IntAt(u, p) /\ FracAt(u, p, q) /\ ExpAt(u, q, k + 1)
<1>1. u[k + 1] \in Decimals /\ label \in {"exponent", "sign", "any2"}
  BY LeadTo
<1>2. CASE label = "exponent"
  <2>1. k >= 1 /\ u[k] \in Exponents
    BY <1>2 DEF Shape
  <2>2. PICK p \in Nat : p <= k - 1 /\ IntAt(u, p) /\ FracAt(u, p, k - 1)
    BY <1>2 DEF Shape
  <2>3. PICK q \in Nat : q = k - 1
    BY <2>1
  <2>4. q + 1 = k /\ q + 2 = k + 1 /\ q + 1 < k + 1 /\ q < k + 1
    BY <2>3
  <2>5. \A j \in q + 2..k + 1 : j = k + 1
    BY <2>4
  <2>6. DigitsAt(u, q + 2, k + 1)
    BY <1>1, <2>5 DEF DigitsAt
  <2>7. u[q + 2] \notin Signs
    BY <1>1, <2>4, ZeroDigit
  <2>8. ExpAt(u, q, k + 1)
    BY <2>1, <2>4, <2>6, <2>7 DEF ExpAt
  <2>9. p <= q /\ FracAt(u, p, q)
    BY <2>2, <2>3
  <2>10. QED
    BY <2>2, <2>4, <2>8, <2>9
<1>3. CASE label = "sign"
  <2>1. k >= 2 /\ u[k - 1] \in Exponents /\ u[k] \in Signs
    BY <1>3 DEF Shape
  <2>2. PICK p \in Nat : p <= k - 2 /\ IntAt(u, p) /\ FracAt(u, p, k - 2)
    BY <1>3 DEF Shape
  <2>3. PICK q \in Nat : q = k - 2
    BY <2>1
  <2>4. q + 1 = k - 1 /\ q + 2 = k /\ q + 3 = k + 1 /\ q + 1 < k + 1 /\ q + 2 < k + 1 /\ q < k + 1
    BY <2>3
  <2>5. \A j \in q + 3..k + 1 : j = k + 1
    BY <2>4
  <2>6. DigitsAt(u, q + 3, k + 1)
    BY <1>1, <2>5 DEF DigitsAt
  <2>7. ExpAt(u, q, k + 1)
    BY <2>1, <2>4, <2>6 DEF ExpAt
  <2>8. p <= q /\ FracAt(u, p, q)
    BY <2>2, <2>3
  <2>9. QED
    BY <2>2, <2>4, <2>7, <2>8
<1>4. CASE label = "any2"
  <2>1. PICK p \in Nat, q \in Nat : p <= q /\ q < k /\ IntAt(u, p) /\ FracAt(u, p, q) /\ ExpAt(u, q, k)
    BY <1>4 DEF Shape
  <2>2. /\ q # k /\ q < k + 1 /\ q + 2 \in Nat /\ q + 3 \in Nat
        /\ q + 1 < k => q + 1 < k + 1
        /\ q + 2 < k => q + 2 < k + 1
    BY <2>1
  <2>3. /\ q + 1 < k /\ u[q + 1] \in Exponents
        /\ IF u[q + 2] \in Signs THEN q + 2 < k /\ DigitsAt(u, q + 3, k) ELSE DigitsAt(u, q + 2, k)
    BY <2>1, <2>2 DEF ExpAt
  <2>4. IF u[q + 2] \in Signs THEN q + 2 < k + 1 /\ DigitsAt(u, q + 3, k + 1) ELSE DigitsAt(u, q + 2, k + 1)
    BY <1>1, <2>2, <2>3, DigitsMoreAt
  <2>5. ExpAt(u, q, k + 1)
    BY <2>2, <2>3, <2>4 DEF ExpAt
  <2>6. QED
    BY <2>1, <2>2, <2>5
<1>5. QED
  BY <1>1, <1>2, <1>3, <1>4

\* One more character.
LEMMA ShapeNext ==
  ASSUME NEW u, NEW k \in Nat, NEW label, Shape(u, k, label), NEW next, next = NextLabel(label, u[k + 1])
  PROVE  Shape(u, k + 1, next)
<1>1. next # "minus"
  BY LeadTo
<1>2. next = "zero" => k + 1 = 1 /\ u[1] = Zero
  <2>1. next = "zero" => label = "minus" /\ u[k + 1] = Zero
    BY LeadTo
  <2>2. label = "minus" => k = 0
    BY DEF Shape
  <2>3. k = 0 => k + 1 = 1
    OBVIOUS
  <2>4. QED
    BY <2>1, <2>2, <2>3
<1>3. next = "any1" => k + 1 >= 1 /\ DigitsAt(u, 1, k + 1) /\ u[1] # Zero
  BY ShapeAny1
<1>4. next = "decimal1" => k + 1 >= 2 /\ IntAt(u, (k + 1) - 1) /\ u[k + 1] = Point
  <2>1. next = "decimal1" => label \in {"zero", "any1"} /\ u[k + 1] = Point
    BY LeadTo
  <2>2. (k + 1) - 1 = k /\ (k >= 1 => k + 1 >= 2)
    OBVIOUS
  <2>3. QED
    BY <2>1, <2>2, ShapeInt
<1>5. next = "decimal2" => \E p \in Nat : p + 1 < k + 1 /\ IntAt(u, p) /\ u[p + 1] = Point /\ DigitsAt(u, p + 2, k + 1)
  BY ShapeDecimal2
<1>6. next = "exponent" => /\ k + 1 >= 1 /\ u[k + 1] \in Exponents
                           /\ \E p \in Nat : p <= (k + 1) - 1 /\ IntAt(u, p) /\ FracAt(u, p, (k + 1) - 1)
  <2>1. next = "exponent" => label \in {"zero", "any1", "decimal2"} /\ u[k + 1] \in Exponents
    BY LeadTo
  <2>2. (k + 1) - 1 = k /\ k + 1 >= 1
    OBVIOUS
  <2>3. QED
    BY <2>1, <2>2, ShapeMantissa
<1>7. next = "sign" => /\ k + 1 >= 2 /\ u[(k + 1) - 1] \in Exponents /\ u[k + 1] \in Signs
                       /\ \E p \in Nat : p <= (k + 1) - 2 /\ IntAt(u, p) /\ FracAt(u, p, (k + 1) - 2)
  <2>1. next = "sign" => label = "exponent" /\ u[k + 1] \in Signs
    BY LeadTo
  <2>2. (k + 1) - 1 = k /\ (k + 1) - 2 = k - 1 /\ (k >= 1 => k + 1 >= 2)
    OBVIOUS
  <2>3. QED
    BY <2>1, <2>2 DEF Shape
<1>8. next = "any2" => \E p \in Nat, q \in Nat : p <= q /\ q < k + 1 /\ IntAt(u, p) /\ FracAt(u, p, q) /\ ExpAt(u, q, k + 1)
  BY ShapeAny2
<1>9. QED
  BY <1>1, <1>2, <1>3, <1>4, <1>5, <1>6, <1>7, <1>8, Zenon DEF Shape

\* A label says what the characters are.
LEMMA ShapeIs ==
  ASSUME NEW u, NEW n \in Nat
  PROVE  Shape(u, n, Run(u)[n])
<1> DEFINE S == {k \in Nat : Shape(u, k, Run(u)[k])}
<1>1. 0 \in S
  <2>1. Run(u)[0] = "minus"
    BY RunIs
  <2>2. Shape(u, 0, "minus")
    BY DEF Shape
  <2>3. QED
    BY <2>1, <2>2
<1>2. ASSUME NEW k \in S
      PROVE  k + 1 \in S
  <2>1. k \in Nat /\ k + 1 \in Nat /\ Shape(u, k, Run(u)[k])
    OBVIOUS
  <2>2. Run(u)[k + 1] = NextLabel(Run(u)[k], u[k + 1])
    BY <2>1, RunIs
  <2>3. QED
    BY <2>1, <2>2, ShapeNext
<1> HIDE DEF S
<1>3. S = Nat
  <2>1. S \in SUBSET Nat
    BY DEF S
  <2>2. QED
    BY <1>1, <1>2, <2>1, NatSetInduction
<1>4. QED
  BY <1>3 DEF S

\* A number may end where its parts are whole.
LEMMA RunEnds ==
  ASSUME NEW u, NEW n \in Nat, Run(u)[n] \in MayEnd
  PROVE  NumberAt(u, n)
<1> DEFINE label == Run(u)[n]
<1>1. Shape(u, n, label) /\ label \in MayEnd
  BY ShapeIs
<1> HIDE DEF label
<1>2. CASE label \in {"zero", "any1", "decimal2"}
  <2>1. PICK p \in Nat : p <= n /\ IntAt(u, p) /\ FracAt(u, p, n)
    BY <1>1, <1>2, ShapeMantissa
  <2>2. n <= n /\ ExpAt(u, n, n)
    BY DEF ExpAt
  <2>3. QED
    BY <2>1, <2>2 DEF NumberAt
<1>3. CASE label = "any2"
  <2>1. PICK p \in Nat, q \in Nat : p <= q /\ q < n /\ IntAt(u, p) /\ FracAt(u, p, q) /\ ExpAt(u, q, n)
    BY <1>1, <1>3 DEF Shape
  <2>2. q <= n
    BY <2>1
  <2>3. QED
    BY <2>1, <2>2 DEF NumberAt
<1>4. QED
  BY <1>1, <1>2, <1>3 DEF MayEnd

\* Where the characters of a number lead.
LEMMA LeadFrom ==
  ASSUME NEW c
  PROVE  /\ c = Zero => NextLabel("minus", c) = "zero"
         /\ c \in Decimals /\ c # Zero => NextLabel("minus", c) = "any1"
         /\ c \in Decimals => /\ NextLabel("any1", c) = "any1"
                              /\ NextLabel("decimal1", c) = "decimal2" /\ NextLabel("decimal2", c) = "decimal2"
                              /\ NextLabel("exponent", c) = "any2" /\ NextLabel("sign", c) = "any2"
                              /\ NextLabel("any2", c) = "any2"
         /\ c = Point => NextLabel("zero", c) = "decimal1" /\ NextLabel("any1", c) = "decimal1"
         /\ c \in Exponents => /\ NextLabel("zero", c) = "exponent" /\ NextLabel("any1", c) = "exponent"
                               /\ NextLabel("decimal2", c) = "exponent"
         /\ c \in Signs => NextLabel("exponent", c) = "sign"
<1>1. /\ Zero # Point /\ Zero \in Decimals /\ Zero \notin Exponents /\ Zero \notin Signs
      /\ Point \notin Decimals /\ Point \notin Exponents /\ Point \notin Signs
      /\ \A d \in Exponents : d \notin Decimals /\ d \notin Signs
      /\ \A d \in Signs : d \notin Decimals
  BY SMT DEF Zero, Point, Decimals, Exponents, Signs
<1>2. c = Zero => NextLabel("minus", c) = "zero"
  BY <1>1, SMT DEF NextLabel, IntegerLabel
<1>3. c \in Decimals /\ c # Zero => NextLabel("minus", c) = "any1"
  BY <1>1, SMT DEF NextLabel, IntegerLabel
<1>4. c \in Decimals => NextLabel("any1", c) = "any1"
  BY <1>1, SMT DEF NextLabel, IntegerLabel
<1>5. c \in Decimals => /\ NextLabel("decimal1", c) = "decimal2" /\ NextLabel("decimal2", c) = "decimal2"
                        /\ NextLabel("exponent", c) = "any2" /\ NextLabel("sign", c) = "any2"
                        /\ NextLabel("any2", c) = "any2"
  BY <1>1, SMT DEF NextLabel, FractionLabel
<1>6. c = Point => NextLabel("zero", c) = "decimal1" /\ NextLabel("any1", c) = "decimal1"
  BY <1>1, SMT DEF NextLabel, IntegerLabel
<1>7. c \in Exponents => NextLabel("zero", c) = "exponent" /\ NextLabel("any1", c) = "exponent"
  BY <1>1, SMT DEF NextLabel, IntegerLabel
<1>8. c \in Exponents => NextLabel("decimal2", c) = "exponent"
  BY <1>1, SMT DEF NextLabel, FractionLabel
<1>9. c \in Signs => NextLabel("exponent", c) = "sign"
  BY <1>1, SMT DEF NextLabel, FractionLabel
<1>10. QED
  BY <1>2, <1>3, <1>4, <1>5, <1>6, <1>7, <1>8, <1>9

\* A label that digits do not leave.
LEMMA RunStays ==
  ASSUME NEW u, NEW a \in Nat, NEW b \in Nat, a <= b, NEW label \in {"any1", "decimal2", "any2"},
         Run(u)[a] = label, DigitsAt(u, a + 1, b)
  PROVE  Run(u)[b] = label
<1> DEFINE S == {j \in Nat : a + j <= b => Run(u)[a + j] = label}
<1>1. 0 \in S
  <2>1. a + 0 = a
    OBVIOUS
  <2>2. QED
    BY <2>1
<1>2. ASSUME NEW j \in S
      PROVE  j + 1 \in S
  <2>1. CASE a + (j + 1) <= b
    <3>1. j \in Nat /\ a + j \in Nat /\ a + j <= b /\ a + (j + 1) = (a + j) + 1 /\ (a + j) + 1 \in a + 1..b /\ j + 1 \in Nat
      BY <2>1
    <3>2. Run(u)[a + j] = label
      BY <3>1
    <3>3. u[(a + j) + 1] \in Decimals
      BY <3>1 DEF DigitsAt
    <3>4. Run(u)[(a + j) + 1] = NextLabel(label, u[(a + j) + 1])
      BY <3>1, <3>2, RunIs
    <3>5. NextLabel(label, u[(a + j) + 1]) = label
      BY <3>3, LeadFrom
    <3>6. QED
      BY <3>1, <3>4, <3>5
  <2>2. QED
    BY <2>1
<1> HIDE DEF S
<1>3. S = Nat
  <2>1. S \in SUBSET Nat
    BY DEF S
  <2>2. QED
    BY <1>1, <1>2, <2>1, NatSetInduction
<1>4. b - a \in S /\ a + (b - a) = b /\ b <= b
  BY <1>3
<1>5. QED
  BY <1>4 DEF S

\* The digits before the point lead to a place where a number may end.
LEMMA RunInt ==
  ASSUME NEW u, NEW p \in Nat, IntAt(u, p)
  PROVE  Run(u)[p] \in {"zero", "any1"}
<1>1. p >= 1 /\ DigitsAt(u, 1, p) /\ (p = 1 \/ u[1] # Zero)
  BY DEF IntAt
<1>2. u[1] \in Decimals
  <2>1. 1 \in 1..p
    BY <1>1
  <2>2. QED
    BY <1>1, <2>1 DEF DigitsAt
<1>3. Run(u)[1] = NextLabel("minus", u[1])
  <2>1. Run(u)[0] = "minus" /\ Run(u)[0 + 1] = NextLabel(Run(u)[0], u[0 + 1])
    BY RunIs
  <2>2. 0 + 1 = 1
    OBVIOUS
  <2>3. QED
    BY <2>1, <2>2
<1>4. CASE u[1] = Zero
  BY <1>1, <1>3, <1>4, LeadFrom
<1>5. CASE u[1] # Zero
  <2>1. Run(u)[1] = "any1"
    BY <1>2, <1>3, <1>5, LeadFrom
  <2>2. DigitsAt(u, 1 + 1, p)
    <3>1. \A j \in 1 + 1..p : j \in 1..p
      OBVIOUS
    <3>2. QED
      BY <1>1, <3>1 DEF DigitsAt
  <2>3. 1 \in Nat /\ 1 <= p
    BY <1>1
  <2>4. Run(u)[p] = "any1"
    BY <2>1, <2>2, <2>3, RunStays
  <2>5. QED
    BY <2>4
<1>6. QED
  BY <1>4, <1>5

\* So do those behind it.
LEMMA RunFrac ==
  ASSUME NEW u, NEW p \in Nat, NEW q \in Nat, IntAt(u, p), FracAt(u, p, q)
  PROVE  Run(u)[q] \in {"zero", "any1", "decimal2"}
<1>1. Run(u)[p] \in {"zero", "any1"}
  BY RunInt
<1>2. CASE q = p
  BY <1>1, <1>2
<1>3. CASE q > p + 1 /\ u[p + 1] = Point /\ DigitsAt(u, p + 2, q)
  <2>1. p + 1 \in Nat /\ p + 2 \in Nat /\ (p + 1) + 1 = p + 2 /\ (p + 2) + 1 = p + 3 /\ p + 2 <= q /\ p + 2 \in p + 2..q
    BY <1>3
  <2>2. Run(u)[p + 1] = "decimal1"
    <3>1. Run(u)[p + 1] = NextLabel(Run(u)[p], u[p + 1])
      BY RunIs
    <3>2. QED
      BY <1>1, <1>3, <3>1, LeadFrom
  <2>3. Run(u)[p + 2] = "decimal2"
    <3>1. Run(u)[(p + 1) + 1] = NextLabel(Run(u)[p + 1], u[(p + 1) + 1])
      BY <2>1, RunIs
    <3>2. u[p + 2] \in Decimals
      BY <1>3, <2>1 DEF DigitsAt
    <3>3. QED
      BY <2>1, <2>2, <3>1, <3>2, LeadFrom
  <2>4. DigitsAt(u, (p + 2) + 1, q)
    <3>1. \A j \in (p + 2) + 1..q : j \in p + 2..q
      OBVIOUS
    <3>2. QED
      BY <1>3, <3>1 DEF DigitsAt
  <2>5. Run(u)[q] = "decimal2"
    BY <2>1, <2>3, <2>4, RunStays
  <2>6. QED
    BY <2>5
<1>4. QED
  BY <1>2, <1>3 DEF FracAt

\* And the exponent: every number leads to such a place.
LEMMA EndsRun ==
  ASSUME NEW u, NEW n \in Nat, NumberAt(u, n)
  PROVE  Run(u)[n] \in MayEnd
<1>1. PICK p \in Nat, q \in Nat : p <= q /\ q <= n /\ IntAt(u, p) /\ FracAt(u, p, q) /\ ExpAt(u, q, n)
  BY DEF NumberAt
<1>2. Run(u)[q] \in {"zero", "any1", "decimal2"}
  BY <1>1, RunFrac
<1>3. CASE q = n
  BY <1>2, <1>3 DEF MayEnd
<1>4. CASE /\ q + 1 < n /\ u[q + 1] \in Exponents
           /\ IF u[q + 2] \in Signs THEN q + 2 < n /\ DigitsAt(u, q + 3, n) ELSE DigitsAt(u, q + 2, n)
  <2>1. q + 1 \in Nat /\ q + 2 \in Nat /\ q + 3 \in Nat /\ (q + 1) + 1 = q + 2 /\ (q + 2) + 1 = q + 3 /\ q + 2 <= n
    BY <1>4
  <2>2. Run(u)[q + 1] = "exponent"
    <3>1. Run(u)[q + 1] = NextLabel(Run(u)[q], u[q + 1])
      BY RunIs
    <3>2. QED
      BY <1>2, <1>4, <3>1, LeadFrom
  <2>3. Run(u)[q + 2] = NextLabel("exponent", u[q + 2])
    <3>1. Run(u)[(q + 1) + 1] = NextLabel(Run(u)[q + 1], u[(q + 1) + 1])
      BY <2>1, RunIs
    <3>2. QED
      BY <2>1, <2>2, <3>1
  <2>4. CASE u[q + 2] \in Signs
    <3>1. q + 3 <= n /\ DigitsAt(u, q + 3, n) /\ q + 3 \in q + 3..n
      BY <1>4, <2>4
    <3>2. Run(u)[q + 2] = "sign"
      BY <2>3, <2>4, LeadFrom
    <3>3. Run(u)[q + 3] = "any2"
      <4>1. Run(u)[(q + 2) + 1] = NextLabel(Run(u)[q + 2], u[(q + 2) + 1])
        BY <2>1, RunIs
      <4>2. u[q + 3] \in Decimals
        BY <3>1 DEF DigitsAt
      <4>3. QED
        BY <2>1, <3>2, <4>1, <4>2, LeadFrom
    <3>4. DigitsAt(u, (q + 3) + 1, n)
      <4>1. \A j \in (q + 3) + 1..n : j \in q + 3..n
        OBVIOUS
      <4>2. QED
        BY <3>1, <4>1 DEF DigitsAt
    <3>5. Run(u)[n] = "any2"
      BY <2>1, <3>1, <3>3, <3>4, RunStays
    <3>6. QED
      BY <3>5 DEF MayEnd
  <2>5. CASE u[q + 2] \notin Signs
    <3>1. DigitsAt(u, q + 2, n) /\ q + 2 \in q + 2..n
      BY <1>4, <2>1, <2>5
    <3>2. u[q + 2] \in Decimals
      BY <3>1 DEF DigitsAt
    <3>3. Run(u)[q + 2] = "any2"
      BY <2>3, <3>2, LeadFrom
    <3>4. DigitsAt(u, (q + 2) + 1, n)
      <4>1. \A j \in (q + 2) + 1..n : j \in q + 2..n
        OBVIOUS
      <4>2. QED
        BY <3>1, <4>1 DEF DigitsAt
    <3>5. Run(u)[n] = "any2"
      BY <2>1, <3>3, <3>4, RunStays
    <3>6. QED
      BY <3>5 DEF MayEnd
  <2>6. QED
    BY <2>4, <2>5
<1>5. QED
  BY <1>1, <1>3, <1>4 DEF ExpAt

-----------------------------------------------------------------------------
(* IsNumber by the places of the parts. *)

\* t is the part of u behind its first d characters.
Part(t, u, d, m) == t \in Seq(Int) /\ Len(t) = m /\ \A k \in 1..m : t[k] = u[d + k]

\* Digits of a part are digits at their places.
LEMMA PartDigits ==
  ASSUME NEW u, NEW t, NEW d \in Nat, NEW m \in Nat, Part(t, u, d, m)
  PROVE  AreDigits(t) <=> m > 0 /\ DigitsAt(u, d + 1, d + m)
<1>1. t \in Seq(Int) /\ Len(t) = m /\ \A k \in 1..m : t[k] = u[d + k]
  BY DEF Part
<1>2. (\A k \in 1..m : t[k] \in Decimals) <=> DigitsAt(u, d + 1, d + m)
  <2>1. ASSUME \A k \in 1..m : t[k] \in Decimals
        PROVE  DigitsAt(u, d + 1, d + m)
    <3>1. ASSUME NEW j \in d + 1..d + m
          PROVE  u[j] \in Decimals
      <4>1. PICK k \in 1..m : k = j - d
        OBVIOUS
      <4>2. j = d + k
        BY <4>1
      <4>3. QED
        BY <1>1, <2>1, <4>2
    <3>2. QED
      BY <3>1 DEF DigitsAt
  <2>2. ASSUME DigitsAt(u, d + 1, d + m)
        PROVE  \A k \in 1..m : t[k] \in Decimals
    <3>1. \A k \in 1..m : d + k \in d + 1..d + m
      OBVIOUS
    <3>2. QED
      BY <1>1, <2>2, <3>1 DEF DigitsAt
  <2>3. QED
    BY <2>1, <2>2
<1>3. Range(t) = {t[k] : k \in 1..m}
  <2>1. DOMAIN t = 1..m
    BY <1>1
  <2>2. QED
    BY <2>1, Zenon DEF Range
<1>4. t # <<>> <=> m > 0
  BY <1>1
<1>5. AreDigits(t) <=> m > 0 /\ \A k \in 1..m : t[k] \in Decimals
  BY <1>3, <1>4 DEF AreDigits
<1>6. QED
  BY <1>2, <1>5

\* A subsequence is a part.
LEMMA PartIs ==
  ASSUME NEW u \in Seq(Int), NEW w \in Nat, NEW j \in Nat, w <= j, j <= Len(u)
  PROVE  Part(SubSeq(u, w + 1, j), u, w, j - w)
<1>1. SubSeq(u, w + 1, j) \in Seq(Int)
  OBVIOUS
<1>2. Len(SubSeq(u, w + 1, j)) = j - w
  OBVIOUS
<1>3. \A k \in 1..j - w : SubSeq(u, w + 1, j)[k] = u[w + k]
  OBVIOUS
<1>4. QED
  BY <1>1, <1>2, <1>3 DEF Part

\* A part without its first character.
LEMMA PartTail ==
  ASSUME NEW u, NEW t, NEW d \in Nat, NEW m \in Nat, m > 0, Part(t, u, d, m)
  PROVE  Part(Tail(t), u, d + 1, m - 1)
<1>1. t \in Seq(Int) /\ Len(t) = m /\ \A k \in 1..m : t[k] = u[d + k]
  BY DEF Part
<1>2. Tail(t) \in Seq(Int) /\ Len(Tail(t)) = m - 1 /\ \A k \in 1..m - 1 : Tail(t)[k] = t[k + 1]
  BY <1>1
<1>3. \A k \in 1..m - 1 : k + 1 \in 1..m /\ d + (k + 1) = (d + 1) + k
  OBVIOUS
<1>4. QED
  BY <1>1, <1>2, <1>3 DEF Part

\* A part without its first two.
LEMMA PartThird ==
  ASSUME NEW u, NEW t, NEW d \in Nat, NEW m \in Nat, m > 1, Part(t, u, d, m)
  PROVE  Part(SubSeq(t, 3, Len(t)), u, d + 2, m - 2)
<1>1. t \in Seq(Int) /\ Len(t) = m /\ \A k \in 1..m : t[k] = u[d + k]
  BY DEF Part
<1> DEFINE r == SubSeq(t, 3, m)
<1>2. r \in Seq(Int) /\ Len(r) = m - 2 /\ \A k \in 1..m - 2 : r[k] = t[k + 2]
  BY <1>1
<1> HIDE DEF r
<1>3. \A k \in 1..m - 2 : k + 2 \in 1..m /\ d + (k + 2) = (d + 2) + k
  OBVIOUS
<1>4. Part(r, u, d + 2, m - 2)
  BY <1>1, <1>2, <1>3 DEF Part
<1>5. QED
  BY <1>1, <1>4 DEF r

\* The three parts of a number, by their places.
LEMMA IntIs ==
  ASSUME NEW u, NEW t, NEW m \in Nat, Part(t, u, 0, m)
  PROVE  IntPart(t) <=> IntAt(u, m)
<1>1. t \in Seq(Int) /\ Len(t) = m /\ \A k \in 1..m : t[k] = u[k]
  BY DEF Part
<1>2. AreDigits(t) <=> m > 0 /\ DigitsAt(u, 1, m)
  <2>1. 0 \in Nat /\ 0 + 1 = 1 /\ 0 + m = m
    OBVIOUS
  <2>2. AreDigits(t) <=> m > 0 /\ DigitsAt(u, 0 + 1, 0 + m)
    BY <2>1, PartDigits
  <2>3. QED
    BY <2>1, <2>2
<1>3. t = <<Zero>> <=> m = 1 /\ u[1] = Zero
  BY <1>1 DEF Zero
<1>4. m = 1 /\ u[1] = Zero => DigitsAt(u, 1, m)
  BY ZeroDigit DEF DigitsAt
<1>5. m > 0 => t[1] = u[1]
  BY <1>1
<1>6. m > 0 <=> m >= 1
  OBVIOUS
<1>7. QED
  BY <1>2, <1>3, <1>4, <1>5, <1>6 DEF IntPart, IntAt

\* The fraction.
LEMMA FracIs ==
  ASSUME NEW u, NEW p \in Nat, NEW q \in Nat, p <= q, NEW t, Part(t, u, p, q - p)
  PROVE  FracPart(t) <=> FracAt(u, p, q)
<1>1. PICK m \in Nat : m = q - p
  OBVIOUS
<1>2. t \in Seq(Int) /\ Len(t) = m /\ \A k \in 1..m : t[k] = u[p + k]
  BY <1>1 DEF Part
<1>3. CASE m = 0
  <2>1. t = <<>> /\ q = p
    BY <1>1, <1>2, <1>3
  <2>2. QED
    BY <2>1 DEF FracPart, FracAt
<1>4. CASE m > 0
  <2>1. t # <<>> /\ t[1] = u[p + 1] /\ q # p
    BY <1>1, <1>2, <1>4
  <2>2. Part(Tail(t), u, p + 1, m - 1) /\ m - 1 \in Nat
    BY <1>1, <1>4, PartTail
  <2>3. AreDigits(Tail(t)) <=> m - 1 > 0 /\ DigitsAt(u, (p + 1) + 1, (p + 1) + (m - 1))
    BY <2>2, PartDigits
  <2>4. (p + 1) + 1 = p + 2 /\ (p + 1) + (m - 1) = q /\ (m - 1 > 0 <=> q > p + 1)
    BY <1>1
  <2>5. AreDigits(Tail(t)) <=> q > p + 1 /\ DigitsAt(u, p + 2, q)
    BY <2>3, <2>4
  <2>6. QED
    BY <2>1, <2>5 DEF FracPart, FracAt
<1>5. QED
  BY <1>3, <1>4

\* The exponent.
LEMMA ExpIs ==
  ASSUME NEW u, NEW q \in Nat, NEW n \in Nat, q <= n, NEW t, Part(t, u, q, n - q)
  PROVE  ExpPart(t) <=> ExpAt(u, q, n)
<1>1. PICK m \in Nat : m = n - q
  OBVIOUS
<1>2. t \in Seq(Int) /\ Len(t) = m /\ \A k \in 1..m : t[k] = u[q + k]
  BY <1>1 DEF Part
<1>3. CASE m = 0
  <2>1. t = <<>> /\ q = n
    BY <1>1, <1>2, <1>3
  <2>2. QED
    BY <2>1 DEF ExpPart, ExpAt
<1>4. CASE m = 1
  <2>1. t # <<>> /\ ~(Len(t) > 1) /\ ~(q + 1 < n) /\ q # n
    BY <1>1, <1>2, <1>4
  <2>2. QED
    BY <2>1 DEF ExpPart, ExpAt
<1>5. CASE m > 1
  <2>1. t # <<>> /\ t[1] = u[q + 1] /\ t[2] = u[q + 2] /\ Len(t) > 1 /\ q + 1 < n /\ q # n
    BY <1>1, <1>2, <1>5
  <2>2. AreDigits(Tail(t)) <=> DigitsAt(u, q + 2, n)
    <3>1. Part(Tail(t), u, q + 1, m - 1) /\ m - 1 \in Nat
      BY <1>1, <1>5, PartTail
    <3>2. AreDigits(Tail(t)) <=> m - 1 > 0 /\ DigitsAt(u, (q + 1) + 1, (q + 1) + (m - 1))
      BY <3>1, PartDigits
    <3>3. (q + 1) + 1 = q + 2 /\ (q + 1) + (m - 1) = n /\ m - 1 > 0
      BY <1>1, <1>5
    <3>4. QED
      BY <3>2, <3>3
  <2>3. AreDigits(SubSeq(t, 3, Len(t))) <=> q + 2 < n /\ DigitsAt(u, q + 3, n)
    <3>1. Part(SubSeq(t, 3, Len(t)), u, q + 2, m - 2) /\ m - 2 \in Nat
      <4>1. m - 2 \in Nat
        BY <1>5
      <4>2. Part(t, u, q, m)
        BY <1>1
      <4>3. QED
        BY <1>5, <4>1, <4>2, PartThird
    <3>2. AreDigits(SubSeq(t, 3, Len(t))) <=> m - 2 > 0 /\ DigitsAt(u, (q + 2) + 1, (q + 2) + (m - 2))
      BY <3>1, PartDigits
    <3>3. (q + 2) + 1 = q + 3 /\ (q + 2) + (m - 2) = n /\ (m - 2 > 0 <=> q + 2 < n)
      BY <1>1
    <3>4. QED
      BY <3>2, <3>3
  <2>4. ExpPart(t) <=> u[q + 1] \in Exponents /\ AreDigits(IF u[q + 2] \in Signs THEN SubSeq(t, 3, Len(t)) ELSE Tail(t))
    BY <2>1 DEF ExpPart
  <2>5. ExpAt(u, q, n) <=> u[q + 1] \in Exponents /\ IF u[q + 2] \in Signs THEN q + 2 < n /\ DigitsAt(u, q + 3, n) ELSE DigitsAt(u, q + 2, n)
    BY <2>1 DEF ExpAt
  <2>6. QED
    BY <2>2, <2>3, <2>4, <2>5
<1>6. QED
  BY <1>3, <1>4, <1>5

\* A text without its sign.
LEMMA UnsignedType ==
  ASSUME NEW s \in Seq(Int)
  PROVE  Unsigned(s) \in Seq(Int)
<1>1. CASE s # <<>> /\ s[1] = Minus
  BY <1>1 DEF Unsigned
<1>2. CASE ~(s # <<>> /\ s[1] = Minus)
  BY <1>2 DEF Unsigned
<1>3. QED
  BY <1>1, <1>2

\* A text is a number if and only if scan_number may end behind it.
LEMMA NumberIs ==
  ASSUME NEW s \in Seq(Int), NEW n \in Nat, n = Len(Unsigned(s))
  PROVE  IsNumber(s) <=> Run(Unsigned(s))[n] \in MayEnd
<1> DEFINE u == Unsigned(s)
<1>1. u \in Seq(Int) /\ n = Len(u)
  BY UnsignedType
<1>2. IsNumber(s) <=> \E w \in 0..n : \E j \in w..n :
                        IntPart(SubSeq(u, 1, w)) /\ FracPart(SubSeq(u, w + 1, j)) /\ ExpPart(SubSeq(u, j + 1, n))
  BY DEF IsNumber
<1> HIDE DEF u
<1>3. ASSUME NEW w \in Nat, NEW j \in Nat, w <= j, j <= n
      PROVE  /\ IntPart(SubSeq(u, 1, w)) <=> IntAt(u, w)
             /\ FracPart(SubSeq(u, w + 1, j)) <=> FracAt(u, w, j)
             /\ ExpPart(SubSeq(u, j + 1, n)) <=> ExpAt(u, j, n)
  <2>1. IntPart(SubSeq(u, 1, w)) <=> IntAt(u, w)
    <3>1. w <= Len(u) /\ 0 + 1 = 1 /\ w - 0 = w /\ 0 \in Nat /\ 0 <= w
      BY <1>1, <1>3
    <3>2. Part(SubSeq(u, 0 + 1, w), u, 0, w - 0)
      BY <1>1, <3>1, PartIs
    <3>3. Part(SubSeq(u, 1, w), u, 0, w)
      BY <3>1, <3>2
    <3>4. QED
      BY <3>3, IntIs
  <2>2. FracPart(SubSeq(u, w + 1, j)) <=> FracAt(u, w, j)
    <3>1. Part(SubSeq(u, w + 1, j), u, w, j - w)
      BY <1>1, <1>3, PartIs
    <3>2. QED
      BY <1>3, <3>1, FracIs
  <2>3. ExpPart(SubSeq(u, j + 1, n)) <=> ExpAt(u, j, n)
    <3>1. Part(SubSeq(u, j + 1, n), u, j, n - j)
      <4>1. n <= Len(u)
        BY <1>1
      <4>2. QED
        BY <1>1, <1>3, <4>1, PartIs
    <3>2. QED
      BY <1>3, <3>1, ExpIs
  <2>4. QED
    BY <2>1, <2>2, <2>3
<1>4. IsNumber(s) <=> NumberAt(u, n)
  <2>1. ASSUME IsNumber(s)
        PROVE  NumberAt(u, n)
    <3>1. PICK w \in 0..n : \E j \in w..n :
                 IntPart(SubSeq(u, 1, w)) /\ FracPart(SubSeq(u, w + 1, j)) /\ ExpPart(SubSeq(u, j + 1, n))
      BY <1>2, <2>1
    <3>2. PICK j \in w..n : IntPart(SubSeq(u, 1, w)) /\ FracPart(SubSeq(u, w + 1, j)) /\ ExpPart(SubSeq(u, j + 1, n))
      BY <3>1
    <3>3. w \in Nat /\ j \in Nat /\ w <= j /\ j <= n
      OBVIOUS
    <3>4. QED
      BY <1>3, <3>2, <3>3 DEF NumberAt
  <2>2. ASSUME NumberAt(u, n)
        PROVE  IsNumber(s)
    <3>1. PICK p \in Nat, q \in Nat : p <= q /\ q <= n /\ IntAt(u, p) /\ FracAt(u, p, q) /\ ExpAt(u, q, n)
      BY <2>2 DEF NumberAt
    <3>2. p \in 0..n /\ q \in p..n
      BY <3>1
    <3>3. IntPart(SubSeq(u, 1, p)) /\ FracPart(SubSeq(u, p + 1, q)) /\ ExpPart(SubSeq(u, q + 1, n))
      BY <1>3, <3>1
    <3>4. QED
      BY <1>2, <3>2, <3>3
  <2>3. QED
    BY <2>1, <2>2
<1>5. NumberAt(u, n) <=> Run(u)[n] \in MayEnd
  BY RunEnds, EndsRun
<1>6. QED
  BY <1>4, <1>5 DEF u

-----------------------------------------------------------------------------
(* StartsNumber by the labels. *)

\* What is appended is not the sign.
LEMMA UnsignedMore ==
  ASSUME NEW s \in Seq(Int), s # <<>>, NEW c \in Int
  PROVE  Unsigned(Append(s, c)) = Append(Unsigned(s), c)
<1> DEFINE v == Append(s, c)
<1>1. v \in Seq(Int) /\ v # <<>> /\ v[1] = s[1]
  OBVIOUS
<1>2. CASE s[1] = Minus
  <2>1. Unsigned(s) = Tail(s)
    BY <1>2 DEF Unsigned
  <2>2. Unsigned(v) = Tail(v)
    BY <1>1, <1>2 DEF Unsigned
  <2>3. Tail(Append(s, c)) = Append(Tail(s), c)
    <3> DEFINE a == Tail(Append(s, c))
               b == Append(Tail(s), c)
    <3>1. a \in Seq(Int) /\ b \in Seq(Int)
      OBVIOUS
    <3>2. Len(a) = Len(s) /\ Len(b) = Len(s)
      OBVIOUS
    <3>3. \A k \in 1..Len(s) : a[k] = b[k]
      OBVIOUS
    <3> HIDE DEF a, b
    <3>4. a = b
      BY <3>1, <3>2, <3>3, SeqEqual
    <3>5. QED
      BY <3>4 DEF a, b
  <2>4. QED
    BY <2>1, <2>2, <2>3
<1>3. CASE s[1] # Minus
  BY <1>1, <1>3 DEF Unsigned
<1>4. QED
  BY <1>2, <1>3

\* A digit completes what a number begins with.
LEMMA OneLeads ==
  ASSUME NEW label \in Label \ MayEnd
  PROVE  NextLabel(label, Zero + 1) \in MayEnd
<1>1. Zero + 1 \in Decimals /\ Zero + 1 # Zero
  BY SMT DEF Zero, Decimals
<1>2. label \in {"minus", "decimal1", "exponent", "sign"}
  BY DEF Label, MayEnd
<1>3. QED
  BY <1>1, <1>2, LeadFrom, Zenon DEF MayEnd

\* Nothing leads on from nowhere.
LEMMA NoneLeads ==
  ASSUME NEW c
  PROVE  NextLabel("none", c) = "none"
BY SMT DEF NextLabel, FractionLabel

\* A length is a number.
LEMMA LengthOf ==
  ASSUME NEW u \in Seq(Int)
  PROVE  Len(u) \in Nat
OBVIOUS

\* A text begins a number if and only if scan_number is within one behind it.
LEMMA StartsIs ==
  ASSUME NEW s \in Seq(Int), s # <<>>, NEW n \in Nat, n = Len(Unsigned(s))
  PROVE  StartsNumber(s) <=> Run(Unsigned(s))[n] \in Label
<1> DEFINE u == Unsigned(s)
           v == Append(s, Zero + 1)
           label == Run(u)[n]
<1>1. u \in Seq(Int) /\ Zero + 1 \in Int /\ v \in Seq(Int)
  BY UnsignedType DEF Zero
<1>2. Unsigned(v) = Append(u, Zero + 1)
  BY <1>1, UnsignedMore
<1>3. n + 1 \in Nat /\ n + 1 = Len(Unsigned(v))
  BY <1>1, <1>2
<1>4. IsNumber(s) <=> label \in MayEnd
  BY NumberIs
<1>5. IsNumber(v) <=> Run(Unsigned(v))[n + 1] \in MayEnd
  <2> HIDE DEF v
  <2>1. QED
    BY <1>1, <1>3, NumberIs
<1>6. Run(Unsigned(v))[n + 1] = NextLabel(label, Zero + 1)
  <2>1. Run(Append(u, Zero + 1))[Len(u) + 1] = NextLabel(Run(u)[Len(u)], Zero + 1)
    <3> HIDE DEF u
    <3>1. QED
      BY <1>1, RunMore
  <2>2. QED
    BY <1>2, <2>1
<1>7. label \in Labels
  BY RunIs
<1>8. StartsNumber(s) <=> IsNumber(s) \/ IsNumber(v)
  BY DEF StartsNumber
<1> HIDE DEF label, v, u
<1>9. CASE label = "none"
  <2>1. "none" \notin MayEnd /\ "none" \notin Label
    BY DEF MayEnd, Label
  <2>2. QED
    BY <1>4, <1>5, <1>6, <1>8, <1>9, <2>1, NoneLeads DEF label, u
<1>10. CASE label \in Label
  <2>1. CASE label \in MayEnd
    BY <1>4, <1>8, <1>10, <2>1 DEF label, u
  <2>2. CASE label \notin MayEnd
    BY <1>5, <1>6, <1>8, <1>10, <2>2, OneLeads DEF label, u
  <2>3. QED
    BY <2>1, <2>2
<1>11. QED
  BY <1>7, <1>9, <1>10 DEF Labels

-----------------------------------------------------------------------------
(* scan_number and the grammar of a number. *)

\* The type of token after the characters s, by the place they lead to.
TokenType(s, label) ==
  IF label \in {"minus", "zero", "any1"} THEN IF s[1] = Minus THEN "integer" ELSE "unsigned" ELSE "float"

\* The third and the fourth part of AgreesWithGrammar.
GotNumber ==
  /\ IsNumber(token_buffer)
  /\ ~StartsNumber(Append(token_buffer, current))
  /\ (token # "float") <=>
       /\ AreDigits(Unsigned(token_buffer))
       /\ StrToInt(token_buffer) <= MAX_UNSIGNED
       /\ 2 * StrToInt(token_buffer) >= -(MAX_UNSIGNED + 1)
       /\ token_buffer[1] = Minus \/ token = "unsigned"
  /\ (token # "float") => value = StrToInt(token_buffer)

NoNumber == ~IsNumber(token_buffer) /\ ~StartsNumber(Append(token_buffer, current))

Numeric == {"unsigned", "integer", "float"}

\* s has led scan_number from its sign to label.
LedTo(s, label) == s # <<>> /\ Run(Unsigned(s))[Len(Unsigned(s))] = label

GrammarInv ==
  /\ token_buffer \in Seq(Int)
  /\ lexer \in Label => LedTo(token_buffer, lexer) /\ token = TokenType(token_buffer, lexer)
  /\ lexer \notin Label \cup {"token", "scan"} => token_buffer = <<>>
  /\ fresh => token_buffer = <<>>
  /\ lexer \notin Label \cup {"token"} => token \notin Numeric
  /\ lexer = "scan" => token # "parse_error"
  /\ lexer = "token" /\ token \in Numeric => GotNumber
  /\ token = "parse_error" /\ token_buffer # <<>> => NoNumber

\* The places outside of scan_number.
LEMMA PlacesOther == "token" \notin Label /\ "scan" \notin Label /\ "mark" \notin Label /\ "space" \notin Label
                     /\ "literal" \notin Label /\ "plain" \notin Label
BY DEF Label

\* The tokens that are no numbers.
LEMMA TokensOther == {"none", "true", "false", "null", "string", "end_of_input"} \cap (Numeric \cup {"parse_error"}) = {}
BY DEF Numeric

\* The types of numbers.
LEMMA TypesOther ==
  ASSUME NEW s, NEW label
  PROVE  TokenType(s, label) \in Numeric /\ "parse_error" \notin Numeric
BY DEF TokenType, Numeric

\* Nothing is scanned at first.
LEMMA GrammarStarts == TextInit \/ TextIdle => GrammarInv
<1> SUFFICES ASSUME TextInit \/ TextIdle
             PROVE  GrammarInv
  OBVIOUS
<1>1. lexer \in {"scan", "token"} /\ token = "none" /\ token_buffer = <<>>
  BY DEF TextInit, TextIdle, LexerInit
<1>2. token_buffer \in Seq(Int)
  BY <1>1
<1>3. lexer \notin Label /\ token \notin Numeric \cup {"parse_error"}
  BY <1>1, PlacesOther, TokensOther
<1>4. QED
  BY <1>1, <1>2, <1>3 DEF GrammarInv

\* The invariant is about these variables.
LEMMA GrammarKept ==
  ASSUME GrammarInv, UNCHANGED <<lexer, token, fresh, current, token_buffer, value>>
  PROVE  GrammarInv'
BY DEF GrammarInv, GotNumber, NoNumber

\* Where no number is.
LEMMA GrammarBeside ==
  ASSUME token_buffer' = <<>>, lexer' \notin Label, lexer' # "scan", token' \notin Numeric
  PROVE  GrammarInv'
<1>1. token_buffer' \in Seq(Int)
  OBVIOUS
<1>2. QED
  BY <1>1 DEF GrammarInv

\* A string has no characters of a number.
LEMMA GrammarString ==
  ASSUME GrammarInv, ReadString
  PROVE  GrammarInv'
<1>1. lexer \notin Label \cup {"token", "scan"} /\ lexer' \notin Label \cup {"scan"}
  BY PlacesNamed, PlacesApart DEF StringPlaces, Label
<1>2. token' = token \/ token' = "parse_error" \/ token' = "string"
  BY PlacesNamed
<1>3. token_buffer' = token_buffer
  BY DEF ReadString
<1>4. token_buffer = <<>> /\ token \notin Numeric
  BY <1>1 DEF GrammarInv
<1>5. QED
  BY <1>1, <1>2, <1>3, <1>4, TokensOther, GrammarBeside, TypesOther

\* Nor has the byte order mark.
LEMMA GrammarBom ==
  ASSUME GrammarInv, SkipBom
  PROVE  GrammarInv'
<1>1. lexer' \in {"mark", "space", "token"} /\ token' \in {token, "parse_error"} /\ token_buffer' = token_buffer
  BY DEF SkipBom, GetAt, NotUngot, Returns
<1>2. (lexer = "scan" /\ fresh) \/ lexer = "mark"
  BY DEF SkipBom, GetAt
<1>3. token_buffer = <<>> /\ token \notin Numeric
  BY <1>2, PlacesOther DEF GrammarInv
<1>4. lexer' \notin Label /\ lexer' # "scan"
  BY <1>1, PlacesOther
<1>5. QED
  BY <1>1, <1>3, <1>4, GrammarBeside, TypesOther

\* Nor has a literal.
LEMMA GrammarLiteral ==
  ASSUME GrammarInv, ScanLiteral
  PROVE  GrammarInv'
<1>1. lexer = "literal" /\ lexer' \in {"literal", "token"} /\ token' \in {token, "parse_error"} /\ token_buffer' = token_buffer
  BY DEF ScanLiteral, GetAt, NotUngot, Returns
<1>2. token_buffer = <<>> /\ token \notin Numeric
  BY <1>1, PlacesOther DEF GrammarInv
<1>3. lexer' \notin Label /\ lexer' # "scan"
  BY <1>1, PlacesOther
<1>4. QED
  BY <1>1, <1>2, <1>3, GrammarBeside, TypesOther

\* The characters stay until the next token is chosen.
LEMMA GrammarAgain ==
  ASSUME GrammarInv, ScanAgain
  PROVE  GrammarInv'
<1>1. lexer' = "scan" /\ token' = "none" /\ token_buffer' = token_buffer /\ fresh' = fresh
  BY DEF ScanAgain
<1>2. lexer' \notin Label /\ token' \notin Numeric /\ token' # "parse_error"
  BY <1>1, PlacesOther, TokensOther
<1>3. token_buffer' \in Seq(Int) /\ (fresh' => token_buffer' = <<>>)
  BY <1>1 DEF GrammarInv
<1>4. QED
  BY <1>1, <1>2, <1>3 DEF GrammarInv

\* A structural character is no number.
LEMMA StructuralOther ==
  ASSUME NEW c \in DOMAIN Structural
  PROVE  Structural[c] \notin Numeric
<1>1. c \in {91, 93, 123, 125, 58, 44}
  BY DEF Structural
<1>2. /\ Structural[91] = "[" /\ Structural[93] = "]" /\ Structural[123] = "{"
      /\ Structural[125] = "}" /\ Structural[58] = ":" /\ Structural[44] = ","
  BY SMT DEF Structural
<1>3. QED
  BY <1>1, <1>2 DEF Numeric

\* Nor is a literal.
LEMMA LiteralsOther ==
  ASSUME NEW c \in DOMAIN Literals
  PROVE  LiteralType[c] \notin Numeric /\ c \notin Decimals \cup {Minus}
BY SMT DEF Literals, LiteralType, Numeric, Decimals, Minus

\* What begins a number begins nothing else.
LEMMA CharactersApart ==
  ASSUME NEW c \in Decimals \cup {Minus}
  PROVE  /\ c \notin White /\ c \notin DOMAIN Structural /\ c \notin DOMAIN Literals
         /\ c # Quote /\ c \notin {0, EOF}
BY SMT DEF Decimals, Minus, White, Structural, Literals, Quote, EOF

\* The first character of a number.
LEMMA FirstScanned ==
  ASSUME NEW c \in Decimals \cup {Minus}
  PROVE  /\ <<c>> \in Seq(Int)
         /\ LedTo(<<c>>, NumberPlace(c))
         /\ TokenType(<<c>>, NumberPlace(c)) = (IF c = Minus THEN "integer" ELSE "unsigned")
         /\ NumberPlace(c) \in Label
<1>1. c \in Int /\ <<c>> \in Seq(Int) /\ <<c>> # <<>> /\ <<c>>[1] = c
  BY DEF Decimals, Minus
<1>2. NumberPlace(c) \in {"minus", "zero", "any1"}
  BY DEF NumberPlace
<1>3. CASE c = Minus
  <2>1. Unsigned(<<c>>) = <<>>
    BY <1>1, <1>3 DEF Unsigned
  <2>2. Run(<<>>)[0] = "minus" /\ Len(<<>>) = 0
    BY RunIs
  <2>3. NumberPlace(c) = "minus"
    BY <1>3 DEF NumberPlace
  <2>4. QED
    BY <1>1, <1>2, <1>3, <2>1, <2>2, <2>3 DEF LedTo, TokenType, Label
<1>4. CASE c # Minus
  <2>1. Unsigned(<<c>>) = <<c>> /\ Len(<<c>>) = 1
    BY <1>1, <1>4 DEF Unsigned
  <2>2. Run(<<c>>)[1] = NextLabel("minus", c)
    <3>1. Run(<<c>>)[0] = "minus" /\ Run(<<c>>)[0 + 1] = NextLabel(Run(<<c>>)[0], <<c>>[0 + 1])
      BY RunIs
    <3>2. 0 + 1 = 1
      OBVIOUS
    <3>3. QED
      BY <1>1, <3>1, <3>2
  <2>3. c \in Decimals
    BY <1>4
  <2>4. NumberPlace(c) = NextLabel("minus", c)
    BY <1>4, <2>3, LeadFrom DEF NumberPlace, Zero
  <2>5. QED
    BY <1>1, <1>2, <1>4, <2>1, <2>2, <2>4 DEF LedTo, TokenType, Label
<1>5. QED
  BY <1>3, <1>4

\* A number begins, or something else.
LEMMA GrammarChoose ==
  ASSUME GrammarInv, Choose
  PROVE  GrammarInv'
<1>1. PICK c : c = current'
  OBVIOUS
<1>2. lexer \in {"space", "scan"}
  BY DEF Choose, GetAt
<1>3. token \notin Numeric
  BY <1>2, PlacesOther DEF GrammarInv
<1>4. token_buffer' = IF c \in Decimals \cup {Minus} THEN <<c>> ELSE <<>>
  BY <1>1 DEF Choose
<1>5. CASE c \in Decimals \cup {Minus}
  <2>1. lexer' = NumberPlace(c) /\ token' = (IF c = Minus THEN "integer" ELSE "unsigned") /\ fresh' = FALSE
    BY <1>1, <1>5, CharactersApart DEF Choose, NotUngot
  <2>2. token_buffer' = <<c>>
    BY <1>4, <1>5
  <2>3. lexer' \in Label /\ LedTo(token_buffer', lexer') /\ token' = TokenType(token_buffer', lexer') /\ token_buffer' \in Seq(Int)
    BY <1>5, <2>1, <2>2, FirstScanned
  <2>4. lexer' # "token" /\ lexer' # "scan" /\ token' # "parse_error"
    BY <2>1, <2>3, PlacesOther
  <2>5. QED
    BY <2>1, <2>3, <2>4 DEF GrammarInv
<1>6. CASE c \notin Decimals \cup {Minus}
  <2>1. token_buffer' = <<>>
    BY <1>4, <1>6
  <2>2. \/ lexer' = "space" /\ token' = token
        \/ c \in DOMAIN Structural /\ lexer' = "token" /\ token' = Structural[c]
        \/ c \in DOMAIN Literals /\ lexer' = "literal" /\ token' = LiteralType[c]
        \/ lexer' = "plain" /\ token' = token
        \/ lexer' = "token" /\ token' \in {"end_of_input", "parse_error"}
    BY <1>1, <1>6 DEF Choose, NotUngot, Returns
  <2>3. lexer' \in {"space", "token", "literal", "plain"}
    BY <2>2
  <2>4. token' \notin Numeric
    BY <1>3, <2>2, StructuralOther, LiteralsOther, TokensOther, TypesOther
  <2>5. lexer' \notin Label /\ lexer' # "scan"
    BY <2>3, PlacesOther
  <2>6. QED
    BY <2>1, <2>4, <2>5, GrammarBeside
<1>7. QED
  BY <1>5, <1>6

\* One more character.
LEMMA ScannedMore ==
  ASSUME NEW s \in Seq(Int), NEW label, LedTo(s, label), NEW c \in Int
  PROVE  LedTo(Append(s, c), NextLabel(label, c)) /\ Append(s, c) \in Seq(Int)
<1> DEFINE u == Unsigned(s)
           v == Append(s, c)
<1>1. s # <<>> /\ Run(u)[Len(u)] = label
  BY DEF LedTo
<1>2. Unsigned(v) = Append(u, c) /\ u \in Seq(Int)
  BY <1>1, UnsignedMore, UnsignedType
<1>3. v # <<>> /\ v \in Seq(Int)
  <2>1. v \in Seq(Int) /\ Len(v) = Len(s) + 1 /\ Len(s) \in Nat
    OBVIOUS
  <2>2. Len(v) # 0
    BY <2>1
  <2>3. QED
    BY <2>1, <2>2
<1> HIDE DEF u, v
<1>4. Len(Append(u, c)) = Len(u) + 1
  BY <1>2
<1>5. Run(Append(u, c))[Len(u) + 1] = NextLabel(Run(u)[Len(u)], c)
  BY <1>2, RunMore
<1>6. QED
  BY <1>1, <1>2, <1>3, <1>4, <1>5 DEF LedTo, u, v

\* Where no character leads on, the text is the longest that begins a number.
LEMMA ScannedIs ==
  ASSUME NEW s \in Seq(Int), NEW label \in Label, LedTo(s, label), NEW c \in Int, NextLabel(label, c) = "none"
  PROVE  /\ IsNumber(s) <=> label \in MayEnd
         /\ StartsNumber(s)
         /\ ~StartsNumber(Append(s, c))
<1> DEFINE v == Append(s, c)
<1>1. s # <<>> /\ Run(Unsigned(s))[Len(Unsigned(s))] = label
  BY DEF LedTo
<1>2. LedTo(v, "none") /\ v \in Seq(Int)
  BY ScannedMore
<1> HIDE DEF v
<1>3. v # <<>> /\ Run(Unsigned(v))[Len(Unsigned(v))] = "none"
  BY <1>2 DEF LedTo
<1>4. Len(Unsigned(s)) \in Nat /\ Len(Unsigned(v)) \in Nat
  BY <1>2, UnsignedType, LengthOf
<1>5. ~StartsNumber(v)
  BY <1>2, <1>3, <1>4, StartsIs DEF Label
<1>6. IsNumber(s) <=> label \in MayEnd
  BY <1>1, <1>4, NumberIs
<1>7. StartsNumber(s)
  BY <1>1, <1>4, StartsIs
<1>8. QED
  BY <1>5, <1>6, <1>7 DEF v

\* The type after one more character.
LEMMA TypeNext ==
  ASSUME NEW s \in Seq(Int), s # <<>>, NEW c \in Int, NEW label, NEW next, next = NextLabel(label, c), next # "none"
  PROVE  TokenType(Append(s, c), next) = IF next \in {"decimal1", "exponent"} THEN "float" ELSE TokenType(s, label)
<1>1. Append(s, c)[1] = s[1]
  OBVIOUS
<1>2. next \in Label
  BY LabelType DEF Labels
<1>3. next # "minus"
  BY LeadTo
<1>4. next \in {"zero", "any1"} => label \in {"minus", "any1"}
  BY LeadTo
<1>5. next = "decimal2" => label \in {"decimal1", "decimal2"}
  BY LeadTo
<1>6. next \in {"sign", "any2"} => label \in {"exponent", "sign", "any2"}
  BY LeadTo
<1>7. QED
  BY <1>1, <1>2, <1>3, <1>4, <1>5, <1>6 DEF TokenType, Label

\* What get() returns.
LEMMA GotInt ==
  ASSUME CharsInv, Get
  PROVE  current' \in Int
BY GetsByte

\* scan_number goes on.
LEMMA GrammarOn ==
  ASSUME CharsInv, GrammarInv, ScanOn
  PROVE  GrammarInv'
<1>1. PICK s \in Seq(Int) : s = token_buffer
  BY DEF GrammarInv
<1>2. PICK c \in Int : c = current'
  BY GotInt DEF ScanOn
<1>3. PICK label \in Label : label = lexer
  BY DEF ScanOn
<1>4. PICK next : next = NextLabel(label, c)
  OBVIOUS
<1>5. next # "none" /\ lexer' = next /\ token_buffer' = Append(s, c) /\ fresh' = FALSE
      /\ token' = IF next \in {"decimal1", "exponent"} THEN "float" ELSE token
  BY <1>1, <1>2, <1>3, <1>4 DEF ScanOn, NotUngot
<1>6. LedTo(s, label) /\ token = TokenType(s, label)
  BY <1>1, <1>3 DEF GrammarInv
<1>7. LedTo(token_buffer', lexer') /\ token_buffer' \in Seq(Int)
  BY <1>4, <1>5, <1>6, ScannedMore
<1>8. s # <<>>
  BY <1>6 DEF LedTo
<1>9. token' = TokenType(token_buffer', lexer')
  BY <1>4, <1>5, <1>6, <1>8, TypeNext
<1>10. lexer' \in Label
  BY <1>4, <1>5, LabelType DEF Labels
<1>11. token' # "parse_error" /\ lexer' # "token" /\ lexer' # "scan"
  BY <1>9, <1>10, TypesOther, PlacesOther
<1>12. QED
  BY <1>5, <1>7, <1>9, <1>10, <1>11 DEF GrammarInv

\* It fails: no character could have made a number.
LEMMA GrammarError ==
  ASSUME CharsInv, GrammarInv, ScanError
  PROVE  GrammarInv'
<1>1. PICK s \in Seq(Int) : s = token_buffer
  BY DEF GrammarInv
<1>2. PICK c \in Int : c = current'
  BY GotInt DEF ScanError
<1>3. PICK label \in Label \ MayEnd : label = lexer
  BY DEF ScanError
<1>4. NextLabel(label, c) = "none" /\ lexer' = "token" /\ token' = "parse_error" /\ token_buffer' = s /\ fresh' = FALSE
  BY <1>1, <1>2, <1>3 DEF ScanError, Returns, NotUngot
<1>5. LedTo(s, label)
  BY <1>1, <1>3 DEF GrammarInv
<1>6. ~IsNumber(s) /\ ~StartsNumber(Append(s, c))
  BY <1>4, <1>5, ScannedIs
<1>7. NoNumber'
  BY <1>2, <1>4, <1>6 DEF NoNumber
<1>8. QED
  BY <1>4, <1>7, PlacesOther, TypesOther DEF GrammarInv

\* Whether all characters are digits, by the place they lead to.
LEMMA DigitsLabel ==
  ASSUME NEW s \in Seq(Int), NEW label \in MayEnd, LedTo(s, label)
  PROVE  AreDigits(Unsigned(s)) <=> label \in {"zero", "any1"}
<1>1. PICK u \in Seq(Int) : u = Unsigned(s)
  BY UnsignedType
<1>2. PICK n \in Nat : n = Len(u)
  BY LengthOf
<1>3. Shape(u, n, label)
  BY <1>1, <1>2, ShapeIs DEF LedTo
<1>4. Part(u, u, 0, n)
  BY <1>2 DEF Part
<1>5. AreDigits(u) <=> n > 0 /\ DigitsAt(u, 1, n)
  <2>1. AreDigits(u) <=> n > 0 /\ DigitsAt(u, 0 + 1, 0 + n)
    BY <1>4, PartDigits
  <2>2. 0 + 1 = 1 /\ 0 + n = n
    OBVIOUS
  <2>3. QED
    BY <2>1, <2>2
<1>6. CASE label \in {"zero", "any1"}
  <2>1. n >= 1 /\ IntAt(u, n)
    BY <1>3, <1>6, ShapeInt
  <2>2. n > 0 /\ DigitsAt(u, 1, n)
    BY <2>1 DEF IntAt
  <2>3. QED
    BY <1>1, <1>5, <1>6, <2>2
<1>7. CASE label \notin {"zero", "any1"}
  <2>1. \E k \in 1..n : u[k] \notin Decimals
    <3>1. CASE label = "decimal2"
      <4>1. PICK p \in Nat : p + 1 < n /\ u[p + 1] = Point
        BY <1>3, <3>1 DEF Shape
      <4>2. p + 1 \in 1..n
        BY <4>1
      <4>3. QED
        BY <4>1, <4>2, ZeroDigit
    <3>2. CASE label = "any2"
      <4>1. PICK q \in Nat : q < n /\ ExpAt(u, q, n)
        BY <1>3, <3>2 DEF Shape
      <4>2. q + 1 < n /\ u[q + 1] \in Exponents
        BY <4>1 DEF ExpAt
      <4>3. q + 1 \in 1..n
        BY <4>2
      <4>4. QED
        BY <4>2, <4>3, ZeroDigit
    <3>3. QED
      BY <1>7, <3>1, <3>2 DEF MayEnd
  <2>2. ~AreDigits(u)
    BY <1>5, <2>1 DEF DigitsAt
  <2>3. QED
    BY <1>1, <1>7, <2>2
<1>8. QED
  BY <1>6, <1>7

\* A text of digits, as a sequence.
LEMMA DigitsSeq ==
  ASSUME NEW u \in Seq(Int), AreDigits(u)
  PROVE  u \in Seq(Decimals)
<1>1. Range(u) = {u[k] : k \in DOMAIN u}
  BY Zenon DEF Range
<1>2. \A k \in DOMAIN u : u[k] \in Decimals
  BY <1>1 DEF AreDigits
<1>3. u \in [1..Len(u) -> Decimals] /\ Len(u) \in Nat
  BY <1>2
<1>4. QED
  BY <1>3

\* What strtoull and strtoll return for digits.
LEMMA ConvertedIs ==
  ASSUME NEW s \in Seq(Int), s # <<>>, AreDigits(Unsigned(s))
  PROVE  \E m \in Nat : StrToInt(s) = IF s[1] = Minus THEN -m ELSE m
<1>1. Unsigned(s) \in Seq(Decimals)
  BY DigitsSeq, UnsignedType
<1>2. PICK m \in Nat : m = Positional(Unsigned(s))
  BY <1>1, PositionalType
<1>3. StrToInt(s) = IF s[1] = Minus THEN -m ELSE m
  BY <1>2 DEF StrToInt, Unsigned
<1>4. QED
  BY <1>3

\* The ranges of the two types, doubled as AgreesWithGrammar has them.
LEMMA IntegerRange ==
  ASSUME NEW M \in Nat \ {0}, NEW m \in Nat, NEW P \in Int, P = -m
  PROVE  /\ P <= M
         /\ P \in (-(M + 1) \div 2)..((M - 1) \div 2) <=> 2 * P >= -(M + 1)
OBVIOUS

\* The same for the unsigned type.
LEMMA UnsignedRange ==
  ASSUME NEW M \in Nat \ {0}, NEW P \in Nat
  PROVE  /\ P \in 0..M <=> P <= M
         /\ 2 * P >= -(M + 1)
         /\ P <= M => P % (M + 1) = P
OBVIOUS

\* It returns: an integer that fits its type is exact, another is a float.
LEMMA GrammarDone ==
  ASSUME NumberAssumption, CharsInv, GrammarInv, ScanDone
  PROVE  GrammarInv'
<1>1. PICK s \in Seq(Int) : s = token_buffer
  BY DEF GrammarInv
<1>2. PICK c \in Int : c = current'
  BY GotInt DEF ScanDone
<1>3. PICK label \in MayEnd : label = lexer
  BY DEF ScanDone
<1>4. label \in Label
  BY DEF MayEnd, Label
<1>5. PICK M \in Nat \ {0} : M = MAX_UNSIGNED
  BY DEF NumberAssumption
<1>7. LedTo(s, label) /\ token = TokenType(s, label)
  BY <1>1, <1>3, <1>4 DEF GrammarInv
<1>8. NextLabel(label, c) = "none" /\ lexer' = "token" /\ token_buffer' = s /\ fresh' = fresh
  BY <1>1, <1>2, <1>3 DEF ScanDone
<1>9. s # <<>> /\ ~fresh
  BY <1>1, <1>7 DEF LedTo, GrammarInv
<1>10. IsNumber(s) /\ ~StartsNumber(Append(s, c))
  BY <1>4, <1>7, <1>8, ScannedIs
<1>11. AreDigits(Unsigned(s)) <=> label \in {"zero", "any1"}
  BY <1>7, DigitsLabel
<1> DEFINE P == StrToInt(s)
           InRange == P <= M /\ 2 * P >= -(M + 1)
<1>12. IF token # "float" /\ P \in RangeOf(token)
       THEN value' = (IF token = "unsigned" THEN P % (M + 1) ELSE P) /\ token' = token
       ELSE token' = "float" /\ value' = 0
  BY <1>1, <1>5 DEF ScanDone
<1>13. CASE label \in {"zero", "any1"}
  <2>1. PICK m \in Nat : P = IF s[1] = Minus THEN -m ELSE m
    BY <1>9, <1>11, <1>13, ConvertedIs
  <2>2. token = IF s[1] = Minus THEN "integer" ELSE "unsigned"
    BY <1>7, <1>13 DEF TokenType
  <2>3. /\ P \in RangeOf(token) <=> InRange
        /\ token = "unsigned" /\ InRange => P % (M + 1) = P
    <3>1. CASE s[1] = Minus
      <4>1. PICK Q \in Int : Q = P /\ Q = -m
        BY <2>1, <3>1
      <4>2. /\ Q <= M
            /\ Q \in (-(M + 1) \div 2)..((M - 1) \div 2) <=> 2 * Q >= -(M + 1)
        BY <4>1, IntegerRange
      <4>3. RangeOf(token) = (-(M + 1) \div 2)..((M - 1) \div 2) /\ token # "unsigned"
        BY <1>5, <2>2, <3>1, SMT DEF RangeOf
      <4>4. QED
        BY <4>1, <4>2, <4>3
    <3>2. CASE s[1] # Minus
      <4>1. PICK Q \in Nat : Q = P
        BY <2>1, <3>2
      <4>2. /\ Q \in 0..M <=> Q <= M
            /\ 2 * Q >= -(M + 1)
            /\ Q <= M => Q % (M + 1) = Q
        BY UnsignedRange
      <4>3. RangeOf(token) = 0..M
        BY <1>5, <2>2, <3>2, SMT DEF RangeOf
      <4>4. QED
        BY <4>1, <4>2, <4>3
    <3>3. QED
      BY <3>1, <3>2
  <2> HIDE DEF P, InRange
  <2>4. CASE InRange
    <3>1. token' = token /\ value' = P
      BY <1>12, <2>2, <2>3, <2>4
    <3>2. token' \in {"integer", "unsigned"} /\ (s[1] = Minus \/ token' = "unsigned")
      BY <2>2, <3>1
    <3>3. GotNumber'
      BY <1>1, <1>2, <1>5, <1>8, <1>10, <1>11, <1>13, <2>4, <3>1, <3>2 DEF GotNumber, InRange, P
    <3>4. QED
      BY <1>8, <1>9, <3>2, <3>3, PlacesOther DEF GrammarInv
  <2>5. CASE ~InRange
    <3>1. token' = "float"
      BY <1>12, <2>3, <2>5
    <3>2. GotNumber'
      BY <1>1, <1>2, <1>5, <1>8, <1>10, <2>5, <3>1 DEF GotNumber, InRange, P
    <3>3. QED
      BY <1>8, <1>9, <3>1, <3>2, PlacesOther DEF GrammarInv
  <2>6. QED
    BY <2>4, <2>5
<1>14. CASE label \notin {"zero", "any1"}
  <2>1. token = "float"
    BY <1>7, <1>14 DEF TokenType, MayEnd
  <2>2. token' = "float"
    BY <1>12, <2>1
  <2>3. GotNumber'
    BY <1>1, <1>2, <1>8, <1>10, <1>11, <1>14, <2>2 DEF GotNumber
  <2>4. QED
    BY <1>8, <1>9, <2>2, <2>3, PlacesOther DEF GrammarInv
<1>15. QED
  BY <1>13, <1>14

\* Every step keeps the invariant.
LEMMA GrammarNext == NumberAssumption /\ CharsInv /\ GrammarInv /\ [TextNext]_textVars => GrammarInv'
<1> SUFFICES ASSUME NumberAssumption, CharsInv, GrammarInv, [TextNext]_textVars
             PROVE  GrammarInv'
  OBVIOUS
<1>1. CASE Read
  <2>1. ReadNumber => ScanOn \/ ScanError \/ ScanDone
    BY DEF ReadNumber
  <2>2. QED
    BY <1>1, <2>1, GrammarString, GrammarBom, GrammarChoose, GrammarLiteral, GrammarAgain,
       GrammarOn, GrammarError, GrammarDone DEF Read, LexerNext
<1>2. CASE Dump
  <2>1. UNCHANGED <<scanVars, value>>
    BY <1>2 DEF Dump, DumpString, DumpByte, DumpEnd, DumpNumber, DumpZero, StartFilling, FillPair, FillLast
  <2>2. QED
    BY <2>1, GrammarKept DEF scanVars
<1>3. CASE Kill \/ EditedChar \/ UNCHANGED textVars
  <2>1. UNCHANGED <<scanVars, value>>
    BY <1>3 DEF Kill, EditedChar, textVars
  <2>2. QED
    BY <2>1, GrammarKept DEF scanVars
<1>4. QED
  BY <1>1, <1>2, <1>3 DEF TextNext

\* The invariant is what the grammar says.
LEMMA GrammarFollows == GrammarInv => AgreesWithGrammar
<1> SUFFICES ASSUME GrammarInv
             PROVE  AgreesWithGrammar
  OBVIOUS
<1>1. ASSUME lexer \in Label
      PROVE  StartsNumber(token_buffer) /\ (lexer \in MayEnd => IsNumber(token_buffer))
  <2>1. PICK s \in Seq(Int) : s = token_buffer
    BY DEF GrammarInv
  <2>2. s # <<>> /\ Run(Unsigned(s))[Len(Unsigned(s))] = lexer
    BY <1>1, <2>1 DEF GrammarInv, LedTo
  <2>3. Len(Unsigned(s)) \in Nat
    BY UnsignedType, LengthOf
  <2>4. QED
    BY <1>1, <2>1, <2>2, <2>3, StartsIs, NumberIs
<1>2. MayEnd \subseteq Label
  BY DEF MayEnd, Label
<1>3. NumberReturned => GotNumber
  BY DEF NumberReturned, Numeric, GrammarInv
<1>4. token = "parse_error" /\ token_buffer # <<>> => NoNumber
  BY DEF GrammarInv
<1>5. QED
  BY <1>1, <1>2, <1>3, <1>4, Zenon DEF AgreesWithGrammar, GotNumber, NoNumber

-----------------------------------------------------------------------------
(* All of it. *)

\* The inductive invariant: what the writer has sent, what the reader has got,
\* and how far the one is behind the other.
TextInv ==
  /\ writer \in Writers
  /\ CharsInv /\ DecodeInv /\ RoomInv /\ ReadInv /\ Lockstep
  /\ IntegerInv /\ NumberLock /\ GrammarInv

\* The whole invariant holds at first.
LEMMA TextStarts == TextInit \/ TextIdle => TextInv
<1>1. TextInit \/ TextIdle => writer \in Writers
  BY DEF TextInit, TextIdle, Writers
<1>2. QED
  BY <1>1, CharsStart, DumpStarts, ReadStarts, LockStarts, IntegerStarts, NumberStarts, GrammarStarts DEF TextInv

\* Every step keeps it.
LEMMA TextKept == TextInv /\ [TextNext]_textVars => TextInv'
<1> SUFFICES ASSUME TextInv, [TextNext]_textVars
             PROVE  TextInv'
  OBVIOUS
<1> USE DEF TextInv
<1>1. writer' \in Writers
  BY WriterNext
<1>2. CharsInv'
  BY CharsNext
<1>3. DecodeInv' /\ RoomInv'
  BY DumpNext
<1>4. ReadInv'
  BY ReadNext
<1>5. Lockstep'
  BY LockNext
<1>6. IntegerInv'
  BY IntegerNext
<1>7. NumberLock'
  BY NumberNext
<1>8. GrammarInv'
  BY GrammarNext, NumberAssumption
<1>9. QED
  BY <1>1, <1>2, <1>3, <1>4, <1>5, <1>6, <1>7, <1>8

\* It implies all that is claimed of the texts.
LEMMA TextFollows == TextInv => TextReadBack
<1>1. TextInv => SentIsGot
  BY SentFollows DEF TextInv
<1>2. TextInv => StrictExactly /\ ReadsWellFormed
  BY StrictFollows, ReadFollows DEF TextInv
<1>3. TextInv => ExactlyFilled /\ SavedIsLoaded
  BY IntegerFollows, NumberFollows DEF TextInv
<1>4. TextInv => AgreesWithGrammar
  BY GrammarFollows DEF TextInv
<1>5. QED
  BY <1>1, <1>2, <1>3, <1>4 DEF TextReadBack

\* What dump writes of a string or a number of the status is what scan returns
\* for it, whatever stands behind it and wherever the file ends; dump_escaped
\* throws at malformed UTF-8 alone, scan_string returns nothing but UTF-8,
\* dump_integer fills exactly the characters it has counted, and scan_number
\* returns a token for the numbers of the grammar and an error for the rest.
THEOREM StatusReadBack == TextSpec => []TextReadBack
<1>1. TextInit \/ TextIdle => TextInv
  BY TextStarts
<1>2. TextInv /\ [TextNext]_textVars => TextInv'
  BY TextKept
<1>3. TextInv => TextReadBack
  BY TextFollows
<1>4. QED
  BY <1>1, <1>2, <1>3, PTL DEF TextSpec
=============================================================================
