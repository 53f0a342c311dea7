# MeeCore in TLA+

A verification development for MeeCore, a small C library for embedded
programs: streams, events, device abstractions, and a text console that reaches
the devices through a tree of "systems". It models the code under
`src/src/core`, checks the models with TLC on small instances, and proves some
of what they say for every instance with TLAPS. References such as
`stream.c:141` are to files of the repository.

## The system

| Part | State | Operations | Talks to |
|---|---|---|---|
| list (`list.c`) | head, tail, count per list; next, prev per node | init, append, prepend, remove, pops, queries | - |
| event (`event.c`) | a list of callbacks per event | init, register, unregister, trigger | calls user code inside its loop |
| stream (`communication/stream.c`) | rx buffer, index, mode, status bits, an event | init, update, write/printf, get_status, register, set_mode | polls a driver; triggers its event |
| resource manager (`resource.c`) | key and busy flag per slot | acquire, get, release, release_key | clients share keys |
| devices (`device/*.c`) | value and error in the driver's context, read-only bit in the config | init, set, get, toggle, set_read_only | interrupts and the application write the same memory |
| leaf systems (`system/modules/*.c`) | the target of the last write | init, invoke, write_input, read_input, read_output, counts, aliases | one device each, which may be shared |
| core and composite (`system/core.c`, `composite.c`) | none | the same calls, routed by id through a tree | count what the children offer at the time of the call |
| console (`system/console.c`) | its callback | one handler per line, dump | called by the stream's event; writes answers on the stream |
| debug log (`debug.c`) | the stream it prints on, the level | init, set_level, log | prints on a stream, which a console may share |
| assertions (`utils.c`) | two function pointers | the handler, which logs and never returns | called by every other part; reports through the log |
| Arduino port (`ports/arduino`) | none | get_status, write, read | the driver of a stream |
| time, status, legacy PC port | little or none | forwarding | - |

There is one thread. What makes the library hard is what happens inside a call:
a trigger runs user code that changes the list being walked; characters arrive
and the hardware fails while an update runs; an interrupt moves a pin between
two reads of it; any of the writes that make up an answer may fail; and ids
depend on read-only bits that change between commands. Nothing is persisted and
no messages travel between processes, so there is no crash recovery or message
loss to model, apart from characters the stream drops and writes that fail.

What makes each part correct:

* list: the links in both directions, the ends and the count are those of the
  sequence the callers built;
* event: a pass serves every listener once and in order, visits none that has
  left, and ends;
* stream: messages are the lines received, cut ones are flagged, drops are
  reported, the flag goes away with its cause, input gets read;
* resource manager: it is a table of leases;
* devices: the read-only bit holds against every way of writing, and a status
  says what happened;
* systems: a tree of systems is a flat table; counts, dispatch and aliases
  agree; an OK means that the device has the target;
* console: an answer is taken for whole only if it is, a refused line did
  nothing, help is true, every line is finished with;
* the program they make up: the above survives sharing one stream; a line that
  lost characters is never answered and its successors are; a message or a
  crash report comes out whole; nothing works before it is initialized; input
  keeps being served.

## Modules

| Module | Stands for | Uses |
|---|---|---|
| `ListSpec` | what list.h promises: sequences and what pops return (abstract) | |
| `ListOps` | list.c: the memory and each call's whole effect on it | |
| `List` | programs that use list.c as list.h asks | `ListOps`, refines `ListSpec` |
| `Event` | event.c with its callbacks and nested triggers | `ListOps`, refines `List` |
| `Stream` | stream.c, its driver, its callbacks | |
| `LeaseSpec` | a table of leases (abstract) | |
| `Resource` | resource.c and its clients | refines `LeaseSpec` |
| `Devices` | digital.c, analog.c, their data-object drivers | |
| `Vectors` | analog_vector3.c | `Devices` |
| `LeafSystems` | digital_system.c, analog_system.c | `Devices` |
| `FlatSystem` | one system with a flat table of members (abstract) | `LeafSystems` |
| `Composite` | core.c, composite.c over a tree of systems | `LeafSystems`, refines `FlatSystem` |
| `Console` | console.c, a user, a peer that collects frames | `Composite` |
| `Firmware` | a program: setup, main loop, debug.c, utils.c, the Arduino driver | extends `Console`, with an instance of `Stream` |
| `ListLemmas`, `ListProofs`, `EventProofs`, `StreamProofs`, `ResourceProofs`, `VectorProofs` | theorems | the modules they name |
| `SystemProofs` | theorems on `LeafSystems`, `Composite` (its refinement included) and `Console` | `Console` |
| `FirmwareProofs` | theorems on the whole program | `Firmware`, `SystemProofs`, an instance of `StreamProofs` |
| `MC*` | the constants of the runs | |

Definitions keep the names of the C functions; `PROJECT.json` maps each to the
lines it stands for. The definitions marked "Mutant:" are wrong versions of the
one that follows them; nothing uses them, and putting one in the place of the
right one breaks the property `PROJECT.json` names beside it.

**List.** The memory is five functions; a C call is an operator that gives the
primed memory, so `mc_list_remove` has both early returns before its first
write and the one after it. `order` is a history variable: the sequences the
callers asked for. `List` makes the calls list.h allows: a node is pushed only
when it is in no list, and a node is removed from a list that holds it or in the
cases list.h says are checked. Everything may be re-initialised; its nodes then
keep their old links.

**Event.** `stack` is the C call stack: a frame per trigger in progress with the
two variables of `MC_LIST_FOR_EACH_SAFE`. The actions `Invoke`, `SkipSilent`,
`Return`, `Finish` are the loop; `Register`, `Unregister`, `Trigger` are made by
the main program or by the running callback. `silent` holds the callbacks
without a function; `CallbackInit` (of those in `Late`) gives one or takes it
away at any time, also from a callback that is registered or being passed over.
The loop needs three things of the
callbacks that it does not check: nobody is unregistered while a pass has saved
it as its next listener (`~SavedAsNext`), nobody is registered again while a
pass in progress has called it (`~CalledInPass`), and no event is initialized
while a pass is in progress (`ReInit`). They are written as guards, in
sight, because the properties hold only with them; the run `event_nested`
shows what happens without the first. Passes have history fields from which the
properties are stated: `called`, the listeners when the pass `began`, and those
of them that it still `owed` a call (a callback that leaves, or loses its
function, before its turn is owed none).

**Stream.** `mc_stream_update` runs one character per step (`ReadDelimiter`,
`SkipDelimiter`, `StoreChar`, `DropChar`), then `PollDone`, then callbacks
(`at = "dispatch"`), then `Finish`. Between any two steps characters arrive and
the driver's status changes; while callbacks run they may write, ask for the
status, register and set the mode. Every character but the newline is the number
of its arrival, so that losing or swapping any shows. `input`, `inbox` and `cut`
are history. `mc_stream_write` stands for the three writing functions: what they
do to the stream is refresh the status. The exception is to print an empty text,
which returns `MC_OK` and does not even do that (stream.c:76-83): nothing of the
stream changes, so it is a stutter, and `ret` is what the last update or write
returned, not that. `mc_stream_init` is called between updates. `NoMore` lets a driver return nothing
while it is unwell, as the Arduino port does when it is not connected.

**Resource.** Scans are "the first slot such that". Clients hold what they were
given; a client releases only what no other client uses (`GiveBack`), a client
that shares just stops (`Leave`): resource.c leaves that to its callers. `call`
is history: which call answered last, without which a request turned down and a
look at a key that has no resource would be the same step of `LeaseSpec`.

**Devices, Vectors.** A device call is a function from a state of the devices to
a state and a status. `Context(d)` is what holds the read-only bit and the error
of a device: `MC_DEFINE_ANALOG_VECTOR3` gives the three axes of a vector one
config and one driver context, so that locking one axis locks three. `Vectors`
makes a vector call in three steps with interrupts between.

**LeafSystems, Composite, FlatSystem.** `Count`, `Dispatch` and
`mc_composite_get_alias` are functions of the read-only bits, written by
recursion over the tree as the C functions recurse. `Route` is the scan that
takes each child's count off the id, by way of the sums of the counts. Ids and
counts are numbers modulo 256, as a `uint8_t` is. A system is not inside itself
(`CompositeAssumption`), or the recursion of the C functions would not end.
A toggle is two steps because
`digital_sys_invoke` reads the pin twice. `reply.by` records which leaf
answered. The vector system of the repository is a composite of three analog
systems, so it is an instance of the tree.

**Console.** A line says whether it begins with the five characters `clear`,
which are not compared as a token (console.c:326), and is a sequence of tokens,
each with its text, the letter it starts with, its number, and whether junk
follows the number (`1a`), which only the arguments of a function notice:
`strtol` is called again where it stopped; `process_command` decides and runs
the command; its answer is a list `todo` of writes (and, in a dump, of reads)
done one by one, each of which may fail and end the answer. The peer takes what
comes between STX and ETX for an answer (`frame`, `got`). `PiecesAssumption`
says what this rests on: lines, names and values hold no control character (the
source does not filter a line that it echoes, console.c:173), and no driver
fails with `INVALID_ARGS` (those of the repository do not). In `HelpIsTrue` the
member beside a name is a token whose text is no name at all (the empty one): an
alias called `x0` would come before the member `x0`.

**Firmware.** The module extends `Console` and has an instance of `Stream`, on
variables of its own, and their actions are joined: the message that an update delivers is the line that
the handler parses (`Parse`), and every write of an answer is
`mc_stream_write`, whose status decides whether the answer goes on. The debug
log prints on the same stream in three writes (`log` is what is left of a
message, `printed` what came out); a failed assertion (`Asserts`) turns the
program to `reporting`, which logs a critical message wherever it happened,
and then to `halted`. `up` says what has been initialized: the setup calls come
in any order, and a call on something that is not up fails its assertion. The
main loop may also start the stream again when it finds an error in its status,
which resets the buffer index and drops the listeners, and then start the
console again. The hardware is the Arduino driver: while it is not connected it
reads and writes nothing, and a write fails. `well` and `before` are history:
whether the hardware was there for every write of the call in hand, and whether
the message before had lost characters. `FirmwareAssumption` says that every
text the buffer can hold parses to some line of `Console`, that the characters
are numbered as `Stream` wants them, and that no system is called as one of the
program's own parts.

## Runs

| Run | Instance | Shows |
|---|---|---|
| `list` | 2 lists, 4 nodes | `WellLinked`, and that list.c implements `ListSpec` |
| `event` | 2 events, 3 callbacks (one that gets and loses its function), triggers 2 deep, 2 calls per callback | `ServedInOrder`, `NextIsListener`, `PassEnds`; events use lists as `List` allows |
| `stream` | buffer of 3, both modes, 5 arrivals, connected or not | `MessagesAreLines`, `CutIsFlagged`, `DropIsReported`, `TextIsTerminated`, `RecoversFromOverflow`, `InputIsRead` |
| `resource` | 3 slots, 4 keys, 3 clients | `OneSlotPerKey`, `HoldersKeepTheirs`, implements `LeaseSpec` |
| `vectors` | a digital device, a vector, its middle axis also alone, one fault | `LockedIsKept`, `VectorStatusIsTrue` |
| `composite` | a board of a lamp and a pair (an analog system and a second lamp on the same pin) | `InputsAreWritable`, `AliasesAgree`, `OkMeansApplied`, `IdsShiftOnlyBehind`, implements `FlatSystem` |
| `console` | a board of two systems on one pin, 14 lines | `FramesAreWhole`, `HelpIsTrue`, `InvalidMeansUntouched`, `EveryLineIsServed` |
| `firmware` | a lamp, a buffer of 2, four lines of which one is cut, 9 characters, 2 log levels | `FramesStayWhole`, `CutLinesGetNoAnswer`, `NextLinesAreAnswered`, `LogIsWhole`, `OnlyReadyPartsWork`, `InputIsServed` |
| `list_foreign_end`, `event_nested`, `stream_cut`, `stream_asked` | smaller or the same | four places where the code does not do what a comment says, below |

Why the bounds are enough to be of interest. With four nodes a node can be
alone, first, last and between two others while another list has neighbours of
its own; nodes and lists are interchangeable, hence the symmetry. Two levels of
triggers are an outer pass and one that changes what the outer has saved (three
levels hold as well, but take ten times as long); two calls let a callback
unregister and trigger in one visit. A buffer
of three holds two characters, so five arrivals make a line that fits, one that
is cut, the line after it, and lines split over updates. Three slots and four
keys fill the pool and move a key to another slot. In the composite run ids go
from 0 to 3, one past the end of the largest table, and the read-only bits, the
values and the one fault change at any time. The console lines are the kinds of
line the parser tells apart, with a wrong token at each place and numbers that
do not fit a byte. The lines of the firmware run are a toggle, a write whose
value is cut, a dump and a preset; the dump reads a system that may not be
initialized after it has opened a frame. The lowest and the highest level are
those that a filter can tell apart for an ordinary message and a crash report;
two characters ahead (`MaxAhead`) are enough for a line to arrive over one
update or several, and the stream is started again only when it needs it, or
the run would only add restarts of a stream in order. Counters are bounded only where the table says so
(`MaxDepth`, `MaxActs`, `MaxArrivals`, `MaxAhead`, `MaxSent`).

Fairness. `Event`: the program counter moves on (`WF(Pass)`): a pass in progress
runs, and a callback returns; `PassEnds` needs no more. `Stream`: the main loop
calls `mc_stream_update` for ever (`WF(Update)`); nothing is assumed of the
hardware, and `InputIsRead` speaks of executions in which it is well from some
time on. `Console`: a handler that has begun goes on (`WF(Serve)`). `Firmware`: what has
begun goes on (`WF(Run)`), and the main loop calls `mc_stream_update` again and
again, whatever else it calls between (`SF(BeginUpdate)`: it is not enabled
inside the other calls). The other
specifications have no fairness and no liveness property. No run turns the
deadlock check off.

### Where the code and its comments differ

* `list_foreign_end`: list.c:90 says that a removal from the wrong list aborts;
  for the last node of another list it aborts after it has cut that list
  (list.c:82, 91).
* `event_nested`: event.c:38-40 says that a callback may unregister itself;
  when triggers nest, that alone makes the outer pass lose listeners.
* `stream_cut`: stream.c:163-164 says that the overflow bit is reset only by a
  message that is whole; a cut line that ends in a later update resets it.
* `stream_asked`: stream.h:123-126 says that reading the status clears the
  overflow bit; it does not.

Met while reading, without a run: console.c:244 shows help as `s0?`, which the
parser takes for `s0` and answers with a dump; only `?s0` is help. console.c:162 gives the answer's
form as `[E:]VAL`; the code prints `E` and the number with no colon.
stream.h:65-66 promises a null-terminated string, which binary mode does not
write. A buffer of one byte is legal and receives no lines: the NUL takes it, the
index stays 0 and a newline finds nothing to deliver (stream.c:122, 134), so a
line that lost all of its characters leaves no message. console.c:47 tests `||` and `&&` the wrong way round; the `switch` after
it makes up for that.

## Theorems

Each component's theorems hold for every value of its constants that its
assumptions allow: any number of lists, callbacks, slots, devices or systems,
any depth of triggers, any buffer length, any finite tree.

* `ListProofs!ListCorrect`: `Spec => [](TypeOK /\ WellLinked)` for any lists
  and nodes. The invariant is inductive as it stands. The proof does not
  reason call by call about whole memories: `ListLemmas!OneListChanges` says
  that a step which turns one list from a chain for `s` into a chain for `t`,
  and touches no link of a node of another list, keeps the memory sound; each
  of the calls (`AppendSound`, `PrependSound`, `RemoveSound`,
  `StrangerIgnored`) is then shown to be such a step.
* `ListProofs!ListImplements`: `Spec => ImplementsSequences` for any lists and
  any finite set of nodes. The mapping takes a list to what a reader finds by
  walking from its head (`Walk`, `Forward`). In sound memory the walk is the
  sequence that the callers built and then NULL, by induction along it
  (`WalkIs`), so what a call does to the links is what `ListSpec` does to the
  sequence.
* `EventProofs!EventServes`, `EventListens`: `ServedInOrder` and
  `NextIsListener` for any callbacks and any nesting. The invariant (`Passes`)
  is about what a pass has still to do. Say that a pass has *pending* the node
  it will look at next: the one in hand if its callback has not run, else the
  saved one. The pending node is a listener; a callback that is owed a call and
  has not had it is a listener too, at or after the pending node, and these are
  in the order in which they registered; those that were called are not at or
  after it. All passes but the innermost are running a callback. What a callback
  does to a list is shown to keep this for every pass
  over that list: a registration adds at the end, and an unregistration takes
  out a node that no pass has saved.
* `EventProofs!EventImplements`: `Spec => ImplementsList`: with the links
  sound, each call of an event is a call that `List` allows.
* `StreamProofs!StreamSafe`: type correctness, `CutIsFlagged`,
  `DropIsReported` and `TextIsTerminated` for any buffer length, modes and
  hardware. Three facts make it inductive: an update that has dropped a
  character has the overflow bit set until it ends, whatever callbacks do to the
  status (`DropIsFlagged`); `ready` is set while reading only in binary mode;
  and there is an input to look back at when callbacks run.
* `StreamProofs!StreamRecovers`: `RecoversFromOverflow`, assuming that the
  hardware does not itself report an overflow. The invariant says that the bit
  has a cause: this update dropped something, or it was set when it began.
* `StreamProofs!StreamDelivers`: `RoomForText => (Spec => []MessagesAreLines)`,
  for any buffer of two bytes or more, both modes, any hardware and any splitting
  of the input over updates. The invariant (`LineInv`) follows the text that is
  still open: it begins at some place `b` after the last break (`OpensAt`), and
  the buffer holds it as far as there is room (`Holds`). A message is counted by
  the texts that began before it (`Rank`), so it is enough that a break adds one
  text, behind all the others, or none, and that a character adds none.
  `RoomForText` is needed: with one byte a line of lost characters is never
  delivered. The buffer of the run has the room (`MCStream!BufferHoldsText`).
* `ResourceProofs!ResourceSafe`: `OneSlotPerKey` and `HoldersKeepTheirs` for
  any pool (with one entry per object) and any clients; the two together with
  `TypeOK` are inductive as they stand.
* `ResourceProofs!ResourceImplements`: `Spec => ImplementsLeases`, by mapping
  each call to a step of `LeaseSpec` under that invariant.
* `VectorProofs!VectorLockHolds`, `VectorReports`: `LockedIsKept` and
  `VectorStatusIsTrue` for any devices and vectors. The invariant
  (`WriteSoFar`) says what a vector write in progress has done: the axes before
  the one at hand have their new value and the others the one they had, but for
  those that moved by themselves. Refusing all or nothing follows from the
  three axes having one read-only bit, which no step changes during a call.
* `SystemProofs!SystemWrites`, `SystemApplies`: `InputsAreWritable` and
  `OkMeansApplied` for any finite tree of systems, any wiring and any sharing of
  devices. What makes them inductive (`SystemInv`) is about a toggle between its
  two reads: its leaf is a digital system whose device is not locked, and its
  target is the opposite of what it saw. That a command reaches a
  leaf which offers it is proved by induction on the depth of the tree, from
  `Route`: the scan of the children ends at the child whose members the id falls
  among.
* `SystemProofs!SystemAliases`: `TreeFits => (Spec => []AliasesAgree)`, for any
  finite tree, at every level and under any read-only bits. `TreeFits` says that
  what the children of a composite offer is fewer than 256 of each type. It is
  needed: with 256 read-only lamps and a writable one behind them, the count
  of outputs wraps to 1 and the last alias names an output past it. The tree of
  the run has it (`MCComposite!BoardFits`). The argument is that the sums, the
  route and the offset are one thing there: an id that is moved past the
  earlier children is routed back to the child it came from.
* `SystemProofs!SystemIsFlat`: `TreeFits => (Spec => ImplementsFlat)`. A system's
  rows are its leaves' members, leaf after leaf; by induction on the tree,
  what `Count` and `Dispatch` compute is the length and the entries of those rows
  (the section "The flat table of a system"): the rows of a composite are those
  of its children put end to end, an entry of which `FlattenPlaces` finds by the
  sums of the lengths. Each command of `Composite` is then a command of
  `FlatSystem`, one by one.
* `SystemProofs!SystemShifts`:
  `TreeFits /\ LeavesAreDistinct => (Spec => IdsShiftOnlyBehind)`. The ids of a
  leaf are an interval of its system's, which begins where the counts of the
  leaves before it end, so a lock behind it moves nothing. Both hypotheses are
  needed: where sums wrap, a member behind can push an id out; and a leaf that
  is in the tree twice has a second group of ids behind the first. The tree of
  the run has both (`MCComposite!BoardFits`).
* `SystemProofs!ConsoleHelps`: `NamesDiffer => (ConsoleSpec => []HelpIsTrue)` for
  any tree and registry, under any read-only bits. Two ids of a system that are
  told apart reach two members (`DispatchDiffers`, by induction on the tree, for
  trees with no leaf twice, which differing names imply), so the names of a
  system differ and the first alias with a name is the only one (`NamesTell`).
  The code does not check the names; where two are equal the first is found, and
  the help of the second is not true. The names of the run differ
  (`MCConsole!BoardNames`).
* `SystemProofs!ConsoleFrames`, `ConsoleRefuses`: `FramesAreWhole` and
  `InvalidMeansUntouched` for any tree, registry and lines, with any write
  failing. The invariant (`ConsoleInv`) says that the console is in one of three
  situations: between lines; with a line begun and nothing of its answer
  written, the peer apart from any frame or left with one that was cut; or in
  the middle of an answer of which the peer holds exactly what was said. What is
  left to write is pieces and reads and then one ETX, so the frame that the peer
  completes can only be the whole of what was said.
* `FirmwareProofs!FirmwareSafe`: the invariant of a whole program (`ProgramInv`).
  Every step is a step of `Stream` or leaves it alone (`StreamMoves`), so the
  invariant of `StreamProofs` holds of the stream inside the program, and
  that of `Console` until an assertion fails (`ConsoleKept`: after that the report
  may run on in a frame that was begun, so only what the peer takes for whole is
  kept). What joins them is `CallsNest`: a message of the log is printed while
  nothing else is under way, unless it is a crash report; a dump ends before an
  update begins, and a line before its update does. `LogInOrder` says that what
  came out of a message and what is left of it are the message.
* `FirmwareProofs!FirmwareFrames`, `FirmwareLogs`, `FirmwareCuts`,
  `FirmwareReady`: `FramesStayWhole`, `LogIsWhole`, `CutLinesGetNoAnswer` and
  `OnlyReadyPartsWork`, for any buffer, hardware, input, tree, registry and order
  of the setup calls. For a cut line: it is flagged until its callbacks
  return (`CutIsFlagged`), and while it is flagged every write returns an error,
  so the first write of its answer is the last.
* `FirmwareProofs!FirmwareRecovers`: `NextLinesAreAnswered`, for hardware that does
  not itself report an overflow. An overflow then has a cause (`OverflowHasCause`):
  the line in hand lost characters, or the one before did. The hypothesis is
  needed, since an overflow that a driver reports stays in the status, which
  keeps it (stream.c:38), and makes writes fail that lost nothing.
* `FirmwareProofs!FirmwareDelivers`, `FirmwareHelps`: what `MessagesAreLines` and
  `HelpIsTrue` say holds in a whole program as well, under the same hypotheses;
  help until a failed assertion ends the program.

Type correctness is a theorem of each of these modules (`ListTyped`,
`EventTyped`, `StreamTyped`, `ResourceTyped`, `VectorTyped`, `SystemTyped`,
`ConsoleTyped`, `FirmwareTyped`).

The assumptions are those of the modules (`NullAssumption`, `NodesAssumption`,
`EventAssumption`, `StreamAssumption`, `ResourceAssumption`,
`DevicesAssumption`, `VectorsAssumption`, `LeavesAssumption`, `CompositeAssumption`,
`ConsoleAssumption`, `PiecesAssumption`, `FirmwareAssumption`), which TLC
evaluates in the runs. The library's induction theorems cannot be applied by the provers installed, since
they take an operator; the walks, the trees and the sums are reasoned about all
the same, by the induction over sets of numbers that `ListProofs!ListInduction`
and `SystemProofs!Induction` get from the least element of a set, and the
recursive functions of `List` and `Composite` are shown to exist before their
equations are used.

Every safety property and every refinement that a passing run checks is thus a
theorem. Only model-checked is liveness: `PassEnds`, `InputIsRead`,
`EveryLineIsServed` and `InputIsServed`, since fairness and ENABLED are out of
the prover's reach. Where a theorem has a hypothesis beyond its modules'
assumptions (`TreeFits`, `LeavesAreDistinct`, `NamesDiffer`, `RoomForText`, a
hardware that reports no overflow), the code does not check it either, and the
property can fail without it.

## Not modelled, and assumed

* Assertions: `Firmware` has those on initialization; the other models keep to
  calls whose assertions hold. The callback of `mc_assert_set_callback` belongs
  to the application and is left out, and so is the override: the one in the
  repository, of the tests, throws an exception (mc_test.cpp:7-13), which is no
  way a program on a board goes on. A call that ran on after a failed assertion
  would mostly be undefined behaviour.
* In `Firmware`: the connection does not change in the middle of one write, and
  a connected one takes every character (stream.h:80 calls the write blocking);
  other callbacks on the same stream; `mc_sys_console_init` twice without a
  restart of the stream, which appends a node that is in the list already (the
  rule list.c leaves to its callers); calls of the application on its devices
  and interrupts, which `Console` has; read-only systems.
* What the callers are trusted with, because the code neither checks it nor
  works without it; where it is broken no property here says anything, but for
  the run `event_nested`. A node is
  pushed only when it is in no list (list.c:16). Nobody unregisters a listener
  that a pass has saved, or registers again one that a pass has called, and no
  callback initializes an event (event.c:5-9). No callback initializes the
  stream or calls `mc_stream_update` (stream.c:42-54, 160). A client of the
  resource manager releases only what nobody else uses (resource.c:49). The
  commands of the registered systems have different names (`HelpIsTrue`).
* Of a driver: one whose write failed says so in its status (stream.c:97), and
  none fails with `MC_ERROR_WRITE_PROTECTED` or `MC_ERROR_INVALID_ARGS` of its
  own (`DevicesAssumption`, `PiecesAssumption`). Those of the repository do not;
  a driver of an application could, and its answer would be taken for a lock's,
  or for a refusal of the line.
* A device that moves between the read and the write of `mc_digital_toggle`
  (digital.c:52-53), or while `mc_composite_init` goes from one child to the next
  (composite.c:20-35): each is one step. What `mc_digital_toggle` writes would be
  what the device already is, and a target would start from a value of a moment
  earlier or later; no property speaks of either. The two reads of a system's
  toggle are two steps.
* A registered system that is `NULL` (console.c:372): its lines would be answered
  like those of an unknown system, and a dump of all systems would fail an
  assertion.
* Drivers with missing functions (`NOT_SUPPORTED`); the drivers in the
  repository lack only `invoke` in the analog system, which is modelled.
* The characters of lines, numbers and answers; `args_buffer`, which no system
  of the repository reads; what `vsnprintf` cuts.
* In `Console`, the stream: a write succeeds or returns an error, and an error
  means that the driver says so in its status. `Firmware` has the rest.
* No run has a tree with 256 members of a type or more; the sums wrap in the
  model too, and `TreeFits` names the trees in which none does.
* Time, which only forwards to a driver, and the names of statuses; the wording
  of messages; the PC port and `src/hal`, which nothing builds.

## Plan

Done: the list, event, stream, resource, device, system and console modules,
the program that joins stream, console, log and assertions, their runs, and the
theorems above. What would come next:

1. A vector system in the composite run, whose axes share their read-only bit;
   its three more values and targets need a smaller board beside it.
2. A callback that calls `mc_stream_update` again, as two frames of locals, and
   several callbacks on the stream of the program.
