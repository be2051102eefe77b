# transfer-tool in TLA+

`transfer-tool` copies one regular file into a directory. It cuts the file into one segment per
hardware thread, copies the segments in parallel with `copy_file_range`, and shows a progress bar per
segment and one for the file. Beside the destination it leaves a JSON file with the transfer's status,
which a later run of the same source finds by its checksum and reuses. The JSON library is vendored as
one header, `json.hpp`, and is by far the largest part of the source.

This directory models the parts of the program where interleavings, crashes, faults and boundary cases
decide whether it is correct, checks them with TLC on small instances, and proves the central results
with TLAPS for every value of the constants.

## Inventory

| Part (source) | State | Operations | What is hard | What makes it correct |
|---|---|---|---|---|
| `parse_args` (`src/core/parser.cpp`) | `visited`, the config | one pass over `argv` | values in the next argument, a last option without one, names that come twice | a command line is read as it is written, or refused |
| terminal (`include/renderer.h`, `src/core/renderer.cpp`) | the tty's mode, the buffer, the rows | ask for the cursor, read the answer, place the bars | characters typed before the answer, a hang-up, no terminal at all | the mode comes back, no bar starts on a row that is in use |
| `thread_pool` (`include/pool.hpp`) | queue, `running_`, threads, `mtx`, `cv` | `submit`, `stop`, worker loop | `stop` writes the flag without `mtx`; lost wakeups | no task lost, repeated or stranded; `stop` returns, and only with everything done |
| segment layout (`get_segment_size` in `src/core/file.cpp`, `get_status` in `src/main.cpp`) | the loop's `start_byte`, the segments | one pass | remainder, small files, no threads | each byte in exactly one segment |
| buffer size (`get_optimal_buffer_size`, `compute_transfer_speed` in `src/core/file.cpp`) | the current size, the last throughput | one step per call | quotients in floating point, calls that take no time | every request is within its bounds and asks for something |
| `console_renderer` (`include/renderer.h`) | frame queue, `running_`, rows, cursor, `m_`, `cv_` | `start`, `allocate_space`, `enqueue`, `stop`, `worker_loop` | tasks post while the thread sleeps, wakes, is stopped | every frame drawn once, in order, before `stop` returns; `stop` returns |
| `direct_write`, `write_segments` (`src/core/file.cpp`) | file offsets, `remaining`, `bytes_threshold` per task | the copy loop and its reports | short copies, failing calls, a source that changes, reports overtaking each other | bytes land where they belong; the status never leads the disk; a segment's bar is one byte ahead of what was added, the file's never; every task ends |
| `file_transfer_status` (`include/file.h`) | offset per segment, total, `lock_` | `add_copied_byte`, `get_total_copied`, `to_json`, `from_json` | concurrent updates; saved once | the total is the sum; what is saved can be gone by |
| checksum (`compute_checksum` in `include/file.h`) | none | pure | which bytes it is about; empty files | a status is reused for the transfer it is about |
| `main` and the saved status (`src/main.cpp`, `include/file.h`) | the files on disk | one run | kills at any step, a full disk, reuse of an old status | a run that returns 0 has copied what it was to copy |
| `json.hpp`: writing and parsing a status | the text, the parser's stack, the value and the builder's pointers into it | `operator<<`, `operator>>`, `value()`, the value's destructor | a file cut anywhere, a file that was edited, raw pointers into a growing value | a status comes back as it was saved or is refused |
| `json.hpp`: strings and numbers | the lexer's look-behind, two fixed buffers | `dump_escaped`, `dump_integer`, `scan` | two UTF-8 tables, escapes, overflow, one character of look-behind | what is written is read back |
| `json.hpp`: binary formats | the byte stream | `to_cbor` .. `to_bson`, `from_cbor` .. `from_bson` | a ladder of widths in every format, written and read by different code | a value comes back; a damaged file is refused or read as a value that can be written |
| `json.hpp`: pointer, patch | a document | `diff`, `patch`, `merge_patch`, `flatten`, the walks along a pointer | indexes that move, escapes, `-` | a patch arrives at its target |
| `json.hpp`: parsing with a callback | the value and four stacks | `parse` with a callback | what is rejected only later, a container without a place | what was kept, and nothing else, is in the value |
| logger, utils, `buffer_write`, `set_config`, the rest of `json.hpp` | | | | not modelled, see below |

How they interact: `main` parses the arguments, obtains a status, new (`get_status`, `prepare_target_file`,
save) or loaded, and calls `write_segments`. That creates the pool and the renderer (whose constructor talks
to the terminal), gives the root and each segment a row, submits one `direct_write` per segment, and stops
first the pool, then the renderer. The tasks share the two file descriptors, the status (under `lock_`) and the
renderer's queue (under `m_`). Saving and loading a status go through `operator<<` and `operator>>` of
`json.hpp`; the binary formats, patches and the callback are parts of the vendored library that the program
ships without calling them.

## Modules

| Module | Models | State and actions against the code |
|---|---|---|
| `ArgParser` | `parse_args` | `argv`, `i`, `visited`, `config` are the loop's variables; an argument is a sequence of words, blanks, line ends and `=` |
| `Terminal` | the renderer's constructor and `allocate_space` | `ctor` is its place; `input` is what can be read of the terminal, `buf` what was. `Outside` is the terminal that answers or hangs up and the user who types |
| `Startup` | `main`'s beginning: `ArgParser` then `Terminal` | `CreateRenderer` goes from one to the other |
| `TaskExecutor` | what the pool's owner may rely on (abstract) | tasks are started in order, each once; stop returns when all are finished |
| `ThreadPool` | `pool.hpp` | `pc[w]` is the worker's place in its loop: `acquire` before `cv.wait`, `blocking` between a false predicate and the sleep (it holds `mtx`), `waiting` in the wait set, `running` in `task()`. `Submit` / `NotifyOne` are the two halves of `submit`, `Stop` / `Join` those of `stop` |
| `Layout` | `get_segment_size` and the loop of `get_status` | `AddSegment` is one iteration; `i` is `Len(segments)` |
| `BufferSize` | `get_optimal_buffer_size` and `compute_transfer_speed` in the loop over one segment of `Layout` | a throughput is a quotient; where two are equal, floating point decides and both branches are taken |
| `Display` | what the renderer's users may rely on (abstract) | frames of a task are shown in its order; stop returns when all are shown |
| `Renderer` | `renderer.h` under `write_segments` | `main` walks through `write_segments`, `pc` through `worker_loop` and `wait_dequeue`, `task[p]` through the reports of `direct_write`. A frame is its row id, its task and its number; `unknown` collects "Unknown segment" |
| `FileCopy` | what the caller of `write_segments` may rely on (abstract) | each byte goes to its own place; what is missing at the end was given up |
| `Transfer` | `write_segments`, `direct_write`, the locked status | `dest` maps an offset to the source offset written there. `AddCopied`, `PostSegment`, `ReadTotal`, `PostRoot` are the four steps of a report, each with its own lock; `main` waits for the pool, then for the renderer |
| `Session` | `main` over many runs, with `compute_checksum` and `get_checksum_chunk_size` | a checksum is the bytes it digests; that of an empty file prints memory nobody wrote. `json[c]` is the status file of checksum `c`: absent, torn or whole. `Start` checks the arguments. `Crash` is possible at every step; a run may meet a source that changes or goes, files it cannot open, a full disk, a failing copy or no terminal |
| `SavedStatus` | what `main` may rely on when it saves and loads (abstract) | the status comes back, or an exception if the file is not whole |
| `JsonParser` | `parser::sax_parse_internal` with `json_sax_dom_parser` | tokens have the names of `token_type`; `states` is the parser's stack, `ref_stack` and `object_element` are the builder's pointers, as paths into `tree`: sequences of keys and indexes. `Is` is the grammar, apart from the parser |
| `JsonValue` | the destructor of a value | `stack` is its stack on the heap |
| `StatusFile` | `to_json`, `operator<<`, `get_json`, `from_json` around the parser | `WriteToken` is one token of `dump`; `Close` ends the file after or inside any |
| `JsonLexer`, `JsonString`, `JsonNumber`, `JsonText` | `lexer::scan`, `scan_string` with `dump_escaped`, `scan_number` with `dump_integer`, and the three together | the reader follows the writer character by character; `Unget` is its one character of look-behind |
| `BinaryValue`, `Cbor`, `MsgPack`, `Ubjson`, `Bson`, `BinaryFormats` | `binary_writer` and `binary_reader` | numbers are sequences of bytes, so that 64 bits are 64 bits; writer and reader are functions; `BinaryFormats` writes, damages and reads a file |
| `JsonPointer`, `JsonPatch` | `json_pointer`, `diff`, `patch_inplace`, `merge_patch`, `flatten` | one action per operation of a patch; one that throws leaves what the earlier ones did |
| `CallbackParser` | `json_sax_dom_callback_parser` | one action per event; the callback answers any question as it likes |
| `JsonLibrary` | the parts of `json.hpp` that share no state, in one specification | a behaviour is about one of them |
| `ThreadPool_proofs`, `Layout_proofs` (with `BufferSize`), `Transfer_proofs`, `Renderer_proofs`, `Session_proofs`, `Texts_proofs` (`Startup` with `ArgParser` and `Terminal`; `JsonText` with the modules it extends), `StatusFile_proofs` (with `JsonParser` and `JsonValue`) | | the theorems |
| `Induction` | | what they need of sums and of induction |
| `MC*` | | constants for TLC |

How the modules compose:

* `ThreadPool` implements `TaskExecutor`, and `Renderer` and `Transfer` use the pool only as that executor
  (their guard for the join is that all tasks are finished). `Renderer` implements `Display`; `Transfer` records
  what it posts there.
* `BufferSize` extends `Layout`: it copies one of the segments that were cut. It shows that a request is a positive part
  of what remains, which is what `Transfer` lets a call copy. `Transfer` assumes of its segments what
  `Layout` proves.
* `Transfer` implements `FileCopy`: `given_up` are the bytes of failed tasks behind the point of failure. `Session`
  copies in the same way, one byte at a time in any order, and leaves out any if calls fail.
* `StatusFile` extends `JsonValue` and `JsonParser` and implements `SavedStatus`. `Session` uses a status file as
  `SavedStatus` has it: gone, torn (loading throws) or whole. `JsonText` is the level below: its tokens are those of
  `StatusFile`.
* `Startup` composes the parser of arguments with the terminal.

Definitions marked `slip` are plausible mistakes (a missing lock, an off-by-one, a swapped order) that no
specification uses; each property is violated when its slip replaces the definition it is named with in
`PROJECT.json`.

### Grain of the steps

A section under a mutex is one step unless another thread can act inside it. That happens in one place in both
the pool and the renderer: the waiter still holds the mutex when its predicate was false and it is about
to sleep, while `stop` clears the flag, and the renderer's `stop` notifies, without the mutex. Hence the separate
`blocking`. Condition variables may wake spuriously (`MaxSpurious` bounds how often).

What one thread does with data nobody shares is as coarse as the properties allow: a token in `StatusFile`, a
character in `JsonText`, a whole file in `BinaryFormats`, one operation in `JsonPatch`, one event in
`CallbackParser`, one argument in `ArgParser`, one `read` in `Terminal`.

## Runs

| Run | Checks | Bounds and why they are enough |
|---|---|---|
| `pool` | no task lost, repeated or reordered; implements `TaskExecutor`; every task runs; `stop` returns if nobody sleeps | 3 workers, so that a notified, a busy and a sleeping one coexist; 4 tasks; 2 spurious wakeups |
| `pool_hang` | **violated**: `stop` returns | 2 workers, 2 tasks |
| `layout` | each byte in one segment, only uncut files overrun; requests bounded, and following the speed of the calls | all sizes around the threshold (3 for 4 KB) and every multiple of up to 5 threads, 0 threads too; a file of 70 bytes against sizes of 20 to 34, so that the buffer grows and shrinks to its bounds; calls that take no time, less, as much and more than the latency bound |
| `renderer` | frames reach the screen once, in order and with a row; implements `Display`; every frame drawn; `stop` returns unless the thread is falling asleep | 2 tasks with 2 rounds of frames each |
| `renderer_hang` | **violated**: `stop` returns | 1 round, no spurious wakeup to rescue it |
| `transfer` | placement, status, bars and total; implements `FileCopy`; every submitted task finishes | 3 segments; a file of 10 bytes cut in three, as it is or truncated to 6 or 2 meanwhile, and one of 3 bytes that is not cut, as it is or grown to 5; chunks of 1 or 2 against a threshold of 2, so that reports come before, at and after it; 2 failing calls |
| `transfer_failure` | **violated**: failures are handled | one failing call |
| `session` | exactness of fresh runs, what a resumed one achieves, which transfer a status is about, what makes a run throw | unbounded runs, kills, edits and deletions; every fault, one kind in a run; 2 paths, one not UTF-8, and a third that is no regular file; an output directory or none; 3 versions: an empty one, whose checksum is whatever memory holds (two values, interchangeable), and two with the same checksum and different lengths, one at the bound of 2 bytes up to which a file is not cut, so that the second of 2 threads gets a segment behind its end |
| `session_stale` | **violated**: a reused status fits the transfer | 1 path, 2 versions with distinct checksums |
| `startup` | arguments are read as written; bars begin at the cursor on rows of their own; the terminal gets its mode back | all command lines of up to 3 of 16 kinds of arguments; an answer of 6 characters and 2 typed ones against a buffer of 8, so that it fills; bars that fit below the cursor or make the screen scroll |
| `status_file` | what is accepted is a value, what is refused cannot become one; the builder's pointers are valid; nothing is released twice; implements `SavedStatus` | statuses with 0 to 2 segments, cut after or inside each token; edited texts of up to 10 tokens, enough for a key that comes twice with containers as its values; what is refused is tried with every ending that completes a member and closes up to two containers |
| `json_library` | texts are read back; values survive each format; patches arrive; pointers agree; callbacks are obeyed | both ends of every range of the UTF-8 tables; a string buffer just large enough for two code points; numbers of 16 bits, so that overflow is near; values on both sides of every width of every format; each byte of a file of up to 12 replaced, and the file cut; every answer to every question of the callback on texts with nested containers and repeated keys |

The bounds of the models are `MaxTasks`, `MaxSpurious`, `MaxRounds`, `MaxFailures`, `MaxChunk`, `MAX_TYPED`, `MAX_TOKENS`,
`MAX_TEXT`, `MAX_DAMAGED` and `MAX_OPERATIONS`; other constants are the program's own, scaled down.

Deadlock is checked where the system runs on (`session`) and not where it ends or, as the violated
runs show, hangs.

### Fairness

* Threads that can run do run: weak fairness per worker, for the renderer's thread and for the main thread; a call
  that has begun goes on. No spurious wakeup has to happen, the pool's owner need not submit or stop, a
  task need not post another frame or end (`Renderer`: a copy may take for ever).
* `Transfer`: a copy call returns, and none has to fail except at the end of the source (weak fairness of
  each task's `Proceed`, none of the failing calls). Of `main` nothing is assumed: as `pool_hang` and `renderer_hang` show,
  neither of its joins need return, so that the property is that tasks finish and not that `write_segments` returns.
* `Startup`: the program goes on, and a terminal that was asked and has not hung up answers. Nobody has to type or
  to hang up. Without the answer the program would wait in `read` with echo switched off: nothing
  in the code limits that wait.
* `StatusFile`: a run that has opened the file goes on until it has a status or an exception. No writer has to get to
  the end of its file, and nobody has to load it.

### What the violated runs show

* `pool_hang`: `stop()` clears `running_` but never notifies `cv` (`pool.hpp:42-45`). A worker that sleeps then,
  because another worker took the task it was started for, is joined for ever. `StopReturnsOnceAwake`
  shows that this is the only way `stop()` hangs.
* `renderer_hang`: `stop()` notifies without `m_` (`renderer.h:126-127`); if the thread is between its predicate and
  its sleep, the notification is lost and the join hangs, with the cursor hidden. `StopReturnsUnlessDozing` shows
  that this window is the only one.
* `transfer_failure`: `file.cpp:99` says "Handle EAGAIN/EINTR/EOF/errors"; the code breaks, and the
  program returns 0 with the rest of the segment zeros. That `Transfer` implements `FileCopy` bounds the damage: no
  other segment is touched, and nothing before the failure.
* `session_stale`: a run that reuses a status skips `prepare_target_file`. After A, a longer B and A again the
  destination is A with B's tail. `StatusCarriedOut` says what such a run does guarantee.

### Observations

These are how the code behaves and what the properties had to be stated around; no text of the repository says
otherwise.

* A file name that is not UTF-8 can be copied but not saved: `operator<<` throws in the middle of the status file, the run
  ends before it copies, and every later run with that checksum throws when it loads the torn file (`ThrowsOnlyWhen`,
  `SavedSpec`).
* A segment's bar is one byte ahead: `end_byte` lies behind the segment, but `total_size` of `direct_write` counts it
  (`file.cpp:91`), and what is posted is `total_size - remaining` (`file.cpp:113`), the copied bytes and one. Its total is
  one too many as well, so that a bar is full exactly when its segment is copied. `BarsFollow` states the byte.
* The file's bar is never ahead, but may go back, and stay behind when all is copied: a task reads the total under `lock_` and posts
  it afterwards (`file.cpp:116`), and two reports may overtake each other. Bytes below the threshold are
  reported to neither bar.
* After a callback has rejected members of an object, one of them may stay in the value as a discarded one:
  `end_object` erases only the first it finds, and only in the parent of the object that has ended. `CallbackObeyed` says
  that everything else is as the callback answered.
* `get_cursor_position` reads whatever is in the terminal's input, typed characters included, up to the first `R` or a full
  buffer. If that is not the answer, the cursor counts as unknown and the bars begin in the first row;
  `BeginsAtCursor` says that they never begin in another wrong one.

## Proofs

`ThreadPool_proofs`, from `PoolAssumption` (a pool without workers gets no tasks), for every set of workers and
every number of tasks:

* `TypeCorrect`: `Spec => []TypeOK`.
* `TaskSafety`, `StopDrains`: `TasksConserved`, `NoStrandedTask` and `DrainedWhenStopped`. None of them is
  inductive. `IInv` adds `LockProtocol`: a worker that is about to sleep or has left did so over an empty
  queue (it holds the mutex, so nothing can be pushed); a worker leaves only after the flag was cleared; the
  flag is cleared exactly from the call of `stop` on. The middle part is what rules out a worker that
  leaves while tasks are still to come.
* `Refinement`: `Spec => ExecutorSpec`. `TakeTask` is `Start` since the head of the queue is the
  next task in order; `FinishTask` is `Finish` since a task in hand is not finished; `Join` is `StopReturns` since all
  threads have left, so that nothing is queued or in hand; the other steps stutter.

`Layout_proofs`, from `LayoutAssumption` (the constants are numbers), for every size, thread count and threshold:

* `EveryByteInOneSegment`, `SegmentsDisjoint`, `OnlySmallFilesOverrun`, `EvenlyCut`, `TypeCorrect`. The invariant says
  where the loop stands after `n` segments: `n * segment_size + Least(n, remainder)`, and that the segments tile what
  lies before it. At `n = thread_count` division with remainder makes that the size of the file. A small
  file is not divided: its first segment is the file, and the rest lie behind it.

`Layout_proofs` also proves about `BufferSize`, from `BufferAssumption` (the sizes are numbers in their order, the least at
least 20, the latency bound positive):

* `RequestsInBounds`: whatever the calls return and however long they take, every request is for at least one byte, at most
  the largest size, and none of another segment. The invariant joins `Layout`'s, which is preserved since the copy
  loop leaves the segments alone, with `SizeInBounds`: the only arithmetic is that of rounding down after scaling.
* `SizeAdapts`: `BufferSpec => AdaptsToSpeed`, the action property about how each call steers the next one. It needs the same
  invariant, with a throughput that is a quotient by a positive number, and that sizes of at least 20 grow by a twentieth rounded down
  (`QuickCallsGrow`), so that the size is never stuck.

`Transfer_proofs`, from `TransferAssumption` (the segments lie apart and cover the file, as `Layout_proofs` shows of the loop
that cuts them; chunks and threshold are positive), for any segments and sizes and any number of failing calls:

* `TypeCorrect`, `Placement`, `StatusSafe`: `Spec => []TypeOK`, `[]DestFaithful`, `[]StatusBehindDisk`.
* `BarsSafe`: `Spec => []BarsFollow`, of the bars of the segments, with the byte they are ahead, of the totals posted for the file
  and of the total the tasks share.
* `Refinement`: `Spec => Implements`, that is, of `FileCopy`.

`IInv` adds to these: a task's two offsets are equal, and the status, the bytes it holds back and what remains add up to the
end of its segment (`OffsetsAgree`); of each segment exactly the bytes before the offset are in the destination
(`CopiedUpToOffset`, where the segments' lying apart is needed: no other task writes there); a task ends with nothing left
or by failing (`EndsAgree`). A second invariant, `TotalAgrees`, is about what the tasks share: the total is the sum of what each
added, no total that was read is more than it, and it was posted or some task is on its way to post it. One addition to the
status changes one summand (`SumChange`). The refinement follows: a call puts bytes that were not there in their places, and what is
missing of a finished segment was given up by its failed task.

`Renderer_proofs`, from `RendererAssumption`, for any segments and any number of frames:

* `TypeCorrect`, `ScreenSafe`: `Spec => []TypeOK`, `[]ScreenInOrder`. `Refinement`: `Spec => DisplaySpec`.

`IInv` adds: the flag, the rows and the thread are where the main thread's progress has brought them, and a thread that has
exited left an empty queue and the cursor below every row (`PhasesAgree`); a task runs only when its rows are allocated
(`TasksPlaced`); the frames in the queue and in hand are, of each task, the ones
behind the last shown, in their order (`PendingInOrder`). The last is why a `Draw` shows the *next* frame; that
there are enough rows is counting the ids that have one.

`Session_proofs`, from `SessionAssumption` (versions hold bytes that are not zero, there are a path and a thread), for any sources, contents
and constants of the checksum, any number of runs, kills, edits and deletions and every fault:

* `TypeCorrect`, `FreshRuns`, `EveryRun`, `StatusFits`, `Failures`: all five invariants of the run `session`.

What a run is given (`Unhandled` paths, no output directory) and what it meets (files that cannot be opened, a source that went)
end it by an exception wherever the code throws; `Failures` lists these causes and a destination the user deleted, and shows that there is one more: a torn status file.

`IInv` adds: a run's size is its source's unless that changed (`RunAgrees`); its status is its own or was saved under its
checksum (`StatusAgrees`, `SavedAgree`); the status file is torn from its creation to its closing; where there is a status
file there was a destination that only the user can have taken (`DestinationThere`, which is why opening it fails only
then); a freshly prepared destination is no longer than the source, and what `todo` does not hold is copied
(`CopyAgrees`). An exact copy needs both parts of the last: the bytes, and that there are no others.

`Texts_proofs` is about the texts the program reads. Of `Startup`, from `LineAssumption` (a command line is a sequence) and `TerminalAssumption` (the cursor is on the screen, its report
fits the buffer, a bar has at least the two lines that are drawn; nobody types an escape character, with which a typed text could pass for
the answer), for command lines of any length, any cursor, any number of segments and any number of typed characters:

* `StartupTypes`, `CommandLineRead`, `BarsBegin`: all three invariants of the run `startup`.

`parse_args` is compared with `SayingSoFar`, which says what the arguments read so far say without a loop. That the loop stands at an
option (`LoopAgrees`) is where arguments that are values and arguments that look like options are told apart: where options begin
is a recursive function over the line, which is shown to exist and to be right one argument at a time. Of the terminal, what was
read and what is still to be read is either the answer or begins with something typed (`StreamAgrees`), and no such text scans as
an answer; the answer does, since a number's digits are read back (`DecimalRead`). The rows of the bars follow
each other (`RowsAgree`).

Of `JsonText`, from `StringAssumption` (the characters are bytes, `string_buffer` has room for 13), `NumberAssumption` (the values that are
dumped are no larger than the largest unsigned one, which has at least two digits less than `number_buffer` has characters;
the code asserts it of every number, with 2^64 - 1 and 64) and `TextAssumption`, for strings of any length, every value of any width, and edited
texts of any length:

* `StatusReadBack`: `TextSpec => []TextReadBack`, all six parts of it.
* `BufferSafe`: `TextSpec => []BufferNeverOverrun`, which the run checks as a part of `TypeOK`.

The inductive invariant `TextInv` has a part for each side and parts for what is between them.

* `DecodeInv` says which sequences of bytes lead to each state of `decode()`, and `RoomInv` that 13 bytes are free whenever a
  code point begins. The table of `decode()` is shown to be the definition of UTF-8 (`LeadsIs`, `ReachedNext`, `ReachedStrict`): a
  state is the error exactly when no bytes complete what was sent.
* `ReadInv` says of `scan_string`, whose table is another one, what it still asks for: by `RangesAre` and `RangesNext` the two tables walk
  through the same code points. Escapes are encoded to bytes that are a character again (`EncodedFormed`).
* `Lockstep` joins the two: as long as the writer goes on, what the reader has got and what is on its way
  to it is what was sent. That the writer waits for the reader to take a character is the model's grain; that the reader has no error
  and no closing quote before the writer has ended is the result.
* `IntegerInv` is the loop of `dump_integer`: `buffer` holds, behind `buffer_ptr`, the last digits of the number, and in front of it there is
  room for exactly the digits that are left. `Cut` takes digits off a number, and `count_digits` counts how often that can be done. `NumberLock` follows the
  characters through `scan_number`, label by label, to the conversion, which reads the value back: what `strtoull` makes of the
  first digits is the value without the last ones, digit by digit (`Reading`).
* `GrammarInv` compares `scan_number` with the grammar of RFC 8259 on edited texts. `Run` is the label after each
  character, and `NumberAt` the grammar by the places where the parts of a number begin; that the one leads to an end exactly when the other
  holds is an induction over the characters (`Shape`). So a number ends where no longer one begins, and an error is where
  no character makes one.

`TextSpec` is `JsonLibrary`'s `Spec` without the parts that share no variable with it: a step of one of these leaves `textVars` as
they are, so that what holds of `TextSpec` holds in the run. It is stated of `TextSpec` because the other parts declare recursive
operators.

`StatusFile_proofs`, from `ParserAssumption` (tokens are tokens) and `StatusAssumption` (a status is made of strings and flags, with
segments under any of the ids, which are different from each other and from the names `to_json` uses; they are UUIDs), for any
set of statuses and for files of any length, with values of any depth:

* `AcceptsValuesOnly`: `FileSpec => []ValuesOnly`. The grammar is recursive over texts; that there is such a function, and that it
  is the one `Is` names, is proved first (`Grammar`), from which its rules follow for every text. The invariant `ReadInv` gives what was
  read at each place of the parser a form: it ends where a value is expected inside the containers the parser remembers
  (`Hole`, which cuts the text at the beginning of each open container), or in a value at such a place, and so on. `Shallower` and `Deeper`
  take a container off and put one on; `Completion` closes all of them, which is the witness that what was read
  can still become a value. What is accepted is a value inside no container. That nothing is refused too early is the converse:
  `Expected` says of every text that begins with what was read and is a value that what is left of it is what the place of the parser
  lets follow (`MayFollow`); behind a value that is the tails of the open containers, the innermost first (`Beyond`, the smallest relation
  of stacks and rests that has them). Each token of such a rest is one the parser takes, so an error means that there is no
  such text, or that the token is a number that overflows, which is a value by the grammar and refused by the code.
* `PointersSafe`: `FileSpec => []PointersValid`. `PtrInv`: the value is a tree of paths without gaps in its arrays (`IsTree`); each
  pointer on the stack is to a child of the one before, the last element if that is an array (`StackIn`); their types are the
  containers the parser remembers; and `object_element` is a member of the innermost object when a value goes there. Putting a
  value at its slot preserves all of it, also where it replaces another (`PutIsTree`, `StackPut`). It rests on `ReadInv` for the
  parser's stack.
* `ValuesFreedOnce`: `FileSpec => []FreedOnce`. `ValueInv`: of the values freed so far each came after what it was in, and the stack
  holds, once each, the children of what is free that are not free themselves (`Emptying`). So every value that is left is below
  exactly one on the stack (`InOneItem`), and an empty stack leaves nothing.
* `SavedOrRefused`: `FileSpec => Saved!Safety`, the step-by-step refinement of `SavedStatus`: a file that was written to its end is
  loaded as the very status that was saved, and one that ends behind any earlier token, or inside one, is refused. It goes in four
  parts. What `Dump` writes is known for every value `to_json` builds: its tokens are the value's, member after member
  in the order of the keys (`DumpFunction`, `WrittenStatus`), and each value is the tokens from one place to another
  (`Arranged`). `Along` says where the parser is in such a text: what is
  left, the value built so far (`Built`, `Before`), the pointers, and for a container that is open the member or
  element that comes next; each action of the parser keeps it (`AlongStep`), and at the end of the
  text it has the value. `from_json` of what `to_json` built is the status (`ReadBack`). The inductive invariant
  `BuilderInv /\ FileIs` says that the parser is along the text of the status while the file is written, and afterwards too if
  the file is whole; if it was cut, it is along the text up to the token that was cut, or has read a number for a longer
  one and misses what comes behind it, or has refused. So `Close` is `Saved!Save`, also where the last edit ends the file,
  `Load` is `Saved!Load`, and every other step stutters (`StepSaved`).

`Induction` proves what these use of the recursive definitions of the library: that a set of numbers with 0 and every successor
holds all numbers, the same for finite sets by inclusion, and of `SumFunction` that it is a sum. The induction is over a set and not over
a predicate: the theorems of the library that take a predicate cannot be applied with the provers at hand. A recursive function is handled by
showing, by such an induction, that a function with its equation exists (`BeginsExist`, `OverExists`, `DumpExists`, `SumExists`, `Iterates`).

`NoStrandedTask`, `DrainedWhenStopped`, `Disjoint` and `Balanced` are proved and not in the list of a run, where the properties
that are listed cover them on the instance.

Model-checked only:

* liveness (`EveryTaskRuns`, `EveryFrameShown`, `TasksFinish`, `TerminalGivenBack`, `StopReturnsOnceAwake`,
  `StopReturnsUnlessDozing` and the liveness of `SavedStatus`), which the prover cannot treat;
* the rest of `json.hpp` (`RoundTrip`, `PatchReachesTarget`, `PointersAgree`, `CallbackObeyed` and the types of
  `JsonLibrary`): the binary readers and writers, the patches and the callback's tree are recursive operators, of which the prover
  cannot reason in the modules that declare them.

## Not modelled

* Of `json.hpp`: the text of floats and what `strtod` makes of it (a float's value is left open when it is read, and none is
  written), indentation and arrays on output, comments, positions in error messages, user-defined SAX handlers,
  iterators, `operator<`, construction from C++ containers, type traits, macros and literals. Iterators and conversions keep no
  state a property could be about; the text of floats is an algorithm on 64-bit significands that TLC's 32-bit integers
  do not reach.
* Within the modelled parts of `json.hpp`: documents that are patched have no floats, and reference tokens at most
  nine characters; of UBJSON's high-precision numbers only the decimal digits of unsigned ones; the names in BJData's
  annotated arrays are markers; parse errors under a callback, after which the value is thrown away.
* `buffer_write` and `set_config` are never called. The logger's output is commented out. `show_progress` and the renderer's
  `t_row_size` and `t_col_size` (whose two values the constructor swaps) are never read. UUIDs are taken as distinct.
  The `completed` flags of segments are never set by the copy; `StatusFile` carries them as data.
* The escape sequences of the drawing and what a bar looks like: a frame is its number.
* `write_segments` leaving by an exception (a file that cannot be opened, no terminal): nothing catches it, so the
  program is terminated; `Session` models the exit (`outcome = "threw"`).
* In `Session`: what changes a source while it is copied (`Transfer` has a source that shrank or grew by then); what a run
  finds where its files should be but cannot be one (a directory named like the status file); failures of the
  operating system that no code asks about: no memory, no thread.
* No threads (`hardware_concurrency() = 0`): `Layout` has the division by zero as a step, and nothing correct is left to state.
* Machine crashes that lose or reorder what a dead process wrote; two instances on one destination; a
  destination that is the source itself.
* MD5: a checksum is the bytes it is about, as if no two texts collided.

## Plan

Done: every component the program calls, and of `json.hpp` every part with control of its own; proofs of every safety property of the
pool, the layout, the buffer size, the transfer, the renderer, the runs, the start and the status file, from its characters to the
status that is loaded. What is left to TLC is liveness and the parts of `json.hpp` the program does not call; proving these would begin
with writing their readers and writers as recursive functions over the values of bounded depth.
