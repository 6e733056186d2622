# A TLA+ model of the CSE312 teaching kernel

The repository is a small 32-bit operating system for VirtualBox: a monolithic
kernel in C++ whose programs are linked into it and run in ring 0. There is no
test suite. This directory holds TLA+ modules translated from the source, TLC
runs that check them on small instances, and TLAPS proofs of what holds for
every instance. Paths below are relative to the root of the repository's copy
in `src/` (so the task manager is `src/src/multitasking.cpp`).

## 1. Inventory

| Component | Source | State | Operations | Model |
|---|---|---|---|---|
| TaskManager | `src/src/multitasking.cpp`, `src/include/multitasking.h` | `tasks[256]` (state, pid, ppid, blocking_pid, priority, saved frame, 4 KiB stack), `numTasks`, `currentTask`, `taskWithDynamicPriority`, `timerInterruptCounter`, `pidCounter`; key buffer, mouse flag | AddTask, Schedule (three schedulers), ForkTask, ExitTask, WaitTask, ExecveTask, setTaskWithDynamicPriority, handleKeyPress, readKeyPresses, handleMouseClick, isMouseClicked | `TaskManager`; the input buffers in `InputPrograms` |
| SyscallHandler | `src/src/syscalls.cpp`, `src/include/syscallwrapper.h` | none | `int 0x80`: 4 to 16 | `TaskManager` (5 to 12, 14), `InputPrograms` (15, 16); 4 and 13 print |
| InterruptManager | `src/src/hardwarecommunication/interrupts.cpp`, `interruptstubs.s` | IDT, `handlers[256]`, `ActiveInterruptManager` | Activate, Deactivate, HandleInterrupt, DoHandleInterrupt | `InterruptManager`; the timer's `Schedule` in `TaskManager` |
| kernelMain, console | `src/src/kernel.cpp` | static cursor of `printf`, seed of `rand` | boot, printf, printDec32, mouse cursor | `KernelMain`, `Console`, `PrintNumber`; mouse cursor in `MouseDriver`; first task in `TaskManager` |
| Init programs | `src/src/microkernel.cpp` | locals on init's stack | seven `initProcess...`, one per build flag | `InitPrograms` (five builds), `InputPrograms` (the two input-driven ones) |
| Programs, shell | `src/src/program.cpp` | locals, an array of init's | collatz, long_running_task, binary_search, linear_search, shell | `InitPrograms` (when they run), `SharedArray` (the searches), `InputPrograms` (the shell) |
| MemoryManager | `src/src/memorymanagement.cpp` | list of chunks | malloc, free, new, delete | `MemoryManager`, a call at a time |
| Keyboard driver | `src/src/drivers/keyboard.cpp` | none | interrupt handler, Activate | `InputPrograms`; Activate in `KernelMain` |
| Mouse driver | `src/src/drivers/mouse.cpp` | three-byte buffer, offset, buttons | interrupt handler, Activate | `MouseDriver` |
| PCI controller | `src/src/hardwarecommunication/pci.cpp` | the driver manager's list | SelectDrivers, GetDriver | `PciController` |
| Network card | `src/src/drivers/amd_am79c973.cpp` | two rings of eight descriptors, two arrays of buffers | Activate, Send (nothing calls it yet), Receive, interrupt handler | `NetworkCard` |
| ATA | `src/src/drivers/ata.cpp` | none; the drive's registers | Read28, Write28, Flush, Identify (no object of the class is made yet) | `AdvancedTechnologyAttachment` (without Identify) |
| GUI | `src/src/gui/*.cpp` | tree of widgets, mouse position, dragging | routing of the mouse, drawing | `Desktop`, one level deep |
| VGA | `src/src/drivers/vga.cpp` | none | SetMode, PutPixel, FillRectangle | bounds and loops in `Desktop` |
| GDT | `src/src/gdt.cpp` | segment descriptors | encode, Base, Limit | `GlobalDescriptorTable` |
| Ports | `src/src/hardwarecommunication/port.cpp` | none | `in` and `out` | part of the drivers' actions |

**How they interact.** Programs enter the kernel only through `int 0x80`; the
stub pushes the registers on the caller's stack and calls
`InterruptManager::HandleInterrupt`, which finds the `SyscallHandler`; that calls
the `TaskManager` and, for fork, exit and wait, `TaskManager::Schedule`, whose
result is the stack the stub returns on. The timer interrupt takes the same road
straight to `Schedule`. Keyboard and mouse interrupts fill buffers in the
`TaskManager` that programs poll. Every entry of the IDT is an interrupt gate
(`interrupts.cpp:70`), so a handler is never interrupted: handlers are the atomic
steps and programs are preempted between any two instructions. `new` and `printf`
are ordinary functions that programs call with interrupts on. So would `Send` of the
network card be, and the functions of the disk, but nothing in the repository calls
`Send` or makes an `AdvancedTechnologyAttachment`; what is said of them here is what a
caller would get.

Drivers register with the `InterruptManager` as they are constructed, those of cards
by way of the `PciController`, and are activated before interrupts are let through;
devices run beside the kernel and do not wait for it.

**What is hard.** *In the table:* the order of waits, exits and forks; what the
schedulers do when nobody is READY; priorities, starvation and the boost of the
dynamic-priority task; the wrap of the interrupt counter; fork's two returns, which
share a stack frame. *Under preemption:* `printf`, whose cursor all tasks share; the
array that init hands to several programs, two of which may sort it; `malloc`; `Send`.
*At the devices:* keys and clicks between any two steps of the shell; interrupts that
come before their driver, on a shared line, or are spurious, and the acknowledgements
that let the next ones through; a mouse whose first answer is late; two rings of
descriptors that card and driver go round at their own speeds, whose buffers overlap; a
disk that is busy when the next command or the words to write come. *At boundaries:* the
chunk list after many allocations, the unsigned arithmetic of the search, the limit of a
segment, the zeros in front of a number, the edges of the screen. The list with lines is
in `PROJECT.json`.

**What makes each component correct.** *TaskManager*: no lost wakeup, the CPU is only
ever in a task that can run, exit is final, wait ends with what it waits for, pids are
unique and never a reserved value, frames stay on their own stacks, stated fairness of
each scheduler. *Init programs*: each child runs its program, init passes its wait after
all of them, all finish. *Programs*: an answer is right, and the search ends, whoever
else uses the array. *InterruptManager and boot*: after an interrupt nothing is held up;
every driver is there before its first interrupt, and a device that has something is
served. *PCI*: each card that can be reached gets one driver, with its own ports.
*MemoryManager*: chunks partition the heap, an allocated chunk has one owner, neighbours
that are free are merged. *Input path*: keys reach the shell's line once and in order,
the lines' programs run in order and one at a time, a click is seen. *Mouse*: reports
are handled once, in order, as a whole. *Network card*: frames are taken and sent once
and in order, and it is known when they are whole. *Disk*: what is read is what was
written. *Console*: the cursor comes back to the screen. *GDT*: the decoded base is the
encoded one and the limit never larger. *GUI*: a dragged window follows the mouse, and a
click goes to what is seen.

## 2. Modules

| Module | What it is |
|---|---|
| `TaskManager` | the process table, its system calls and the timer, driven by the most general program |
| `ProcessTree` | abstract: a tree of processes, who waits for whom, who owns the CPU; no table, no wakeups |
| `InitPrograms` | `TaskManager` driven by an init program and its children instead |
| `InputPrograms` | extends `InitPrograms` with the keyboard's and the mouse's interrupts, the queue, the shell and the two builds that react to input |
| `LineShell` | abstract: what a user at the shell's prompt sees |
| `InterruptManager` | the gates, the handlers, and the way of an interrupt through two controllers and back |
| `PciController` | the scan of the bus and the drivers it makes |
| `KernelMain` | extends both: boot up to the first interrupts, with devices that do not wait for it |
| `MouseDriver` | the mouse's interrupt handler byte by byte, and the cursor |
| `PointingDevice` | abstract: whole reports |
| `NetworkCard` | driver and card on their two rings, with several programs in `Send` |
| `Fifo` | abstract: a bounded queue whose entries may be damaged by the next one |
| `AdvancedTechnologyAttachment` | the disk's driver word by word, against a drive that needs time |
| `Desktop` | windows, dragging, and what is drawn |
| `MemoryManager` | the heap's chunk list |
| `Allocator` | abstract: disjoint blocks |
| `SharedArray` | binary and linear searches on one array |
| `Console` | printf's cursor, one access at a time |
| `PrintNumber` | `printDec32` |
| `GlobalDescriptorTable` | the encoding of a segment |
| `MC...` | TLC instances; `MCTimerHistory` adds a count of timer interrupts; `MCDevices` and `MCKernelParts` put together parts that share no variable, `MCDevices` also the card's two directions, one at a time |
| `...Proofs` | the theorems about a module; `KernelMainProofs` also has those about `InterruptManager` and `PciController`, `DeviceProofs` those about `MouseDriver`, `Desktop` and `AdvancedTechnologyAttachment`, `KernelPartsProofs` those about `Console`, `GlobalDescriptorTable`, `SharedArray` and `PrintNumber` |

How they are composed: `InitPrograms` extends `TaskManager`, and `InputPrograms`
extends `InitPrograms`, so that these three run the same handlers under different
programs. `KernelMain` extends `InterruptManager` and `PciController`. The rest are
parts of the kernel that share no state with each other.

**TaskManager.** One variable per field of `TaskManager` and one function per field
of `Task`; slot `i` of `tasks[]` is index `i`. `regs[i]` is the frame on task i's
stack, cut down to `eip` and `ecx` (the register results are returned in);
`cpustate[i]` and `esp` are pointers to a frame, modelled by the index of the stack
they point into, so that fork's pointer arithmetic (`multitasking.cpp:294`) and the
switch of stacks are really computed. `active` is whether interrupts are on. An
action is a whole handler, with the `Schedule` at its end: `Fork`, `Exit`, `Wait`,
`Exec`, `Report` (getpid, getppid, interrupt count), `UseDynamicPriority`,
`TimerInterrupt`, and `AddInit` (AddTask and SetSchedulerType, under a build flag)
and `Activate` of the boot. `schedulerType` is a variable, set once at boot to one
of the constant `Schedulers`. `Schedule(n, st, pr, cs)` takes the table as the
handler has left it and is one operator per scheduler. The scans are modelled by
what they select: round robin the first READY task after the current one; the other
two the READY task with the smallest priority number, the first of the scan among
equals, and the interrupted task itself (whatever its state has become) if there is
none. A full table, an unknown pid, a stranger's pid, a finished child and the
caller's last child all take the branches of the code. In `Spec` the task on the
CPU may make any call with any argument at any time. One thing is ruled out unless
`InitExits`: the first task calling exit(), see 4.

**ProcessTree.** A wait is over exactly when the last awaited child has finished,
whoever observes it: there is no wakeup to lose. `TaskManager` maps to it by taking
`finished` for the ZOMBIE tasks and, for `awaiting[i]`, the unfinished children that
match a BLOCKED task's `blocking_pid`. A step of `ProcessTree` must hand the CPU to
a process that can run, so the refinement includes that the parent becomes READY in
the very handler in which its last child exits.

**InitPrograms.** A script is a sequence of children (priority asked for, variable
that receives the pid, where the child's branch starts, program, whether init waits
five interrupts first). `eip` is a label in the program's text; parent and child
return from fork at the same label. `frame` holds init's locals. ForkTask copies
`ebp` unchanged and the makefile compiles without optimisation, so that a child
reads and writes *init's* locals until it execs: the store of fork's result and the
test of it (`pid = fork(); if(pid == 0)`) are two steps on a shared variable. The
scripts are those of five build flags; the rounds, the children and the programs
`rand()` picks are parameters of the first three.

**InputPrograms.** `KeyPress` is the keyboard's handler with `handleKeyPress`,
`MouseClick` is `OnMouseDown` with `handleMouseClick`; both return to the
interrupted task and may strike whenever interrupts are on. `ReadKeyPresses` and
`IsMouseClicked` are system calls 15 and 16. The shell is a text of its own
(`shell`, `edit`, `launch`, ... `launch_wait`): it reads what is queued, takes one
key at a time from it, and on Enter looks its line up, forks, and waits for the
child. Its locals are shared with the child until that execs, for the same reason
as init's. The scan code table is left out (a key is a model value), as are the
prompt and the echo. `typed`, `clicks` and `started` are histories. `LineShell` has
no queue, no forks and no polls: the lines typed, edited by a fold, name programs
that start one after the other. The table can fill up; then nothing more is
started (`full`).

**InterruptManager, PciController, KernelMain.** `Gate` is the table of gates: what
number a stub passes on and how many words it pushes; the end of every stub drops
one, and `Leave` returns to the program only if that was the one there was. `Accept`
is the processor taking the most urgent line that is not held up; `CallHandler`,
`AcknowledgeMaster` and `AcknowledgeSlave` are the steps of `DoHandleInterrupt`, and
the controllers are not touched in between by anything but new requests. The
controllers are external and are modelled as the driver of them must understand
them: two sets, what is requested and what is in service; the slave hangs on the
master's line 2; a request that has gone away is taken for line 7 or 15.
`PciController` looks at one function per step. `portBase` is the field of the
descriptor that nobody initialises: without a port it keeps what the stack held. A
driver for which `malloc` finds no memory is not made. `KernelMain` is the order of
`kernelMain`, one stage per constructor, and the devices: one that has something
requests an interrupt once and is `waiting` until a handler of its own has run.

**MouseDriver.** `HandleInterrupt` reads one byte; every third one completes a
report, whose parts go to `OnMouseMove` and `OnMouseDown`. `Int8` and `Down` are
the conversions of the code. `Activate` reads the mouse's answer without waiting for
it; when it is `late`, the driver takes it for the first byte of a report. The module
is not composed with `InputPrograms`, in which a click is one step; what it shows is
that a report's presses set the flag once, whatever comes in between. The controller
is external: it keeps bytes in order and loses none.

**NetworkCard.** A descriptor is its owner and the frame given with it; what the buffers
really hold is in `sendBuffers` and `recvBuffers`, cell by cell (16 bytes, the unit the
addresses are rounded to). Both arrays have the layout the declaration gives them:
buffers 8 bytes apart, each rounded up to a multiple of 16 (`FirstCell`), so that
neighbours share an address two by two, which two depends on where the array begins
(`SendBase`, `RecvBase`). `Send` has no lock, and any number of programs (`Senders`) may be
in it: it takes the next descriptor *without looking whose it is* (`BeginSend`), advances the
index by a load (`LoadCurrent`) and a store (`StoreCurrent`), copies from the last cell to
the first (`BeginCopy`, `Copy`) and gives the descriptor to the card (`HandOver`). The
interrupt handler is `ReadCauses`, `Receive` once per frame and `Acknowledge`. The card
stores a frame (`Arrive`), announces it (`Announce`) and transmits what it owns
(`Transmit`), between any two of these steps. `order`, `overrun` and `latest` are histories
of `Send`. The card is external. The implementation relation to `Fifo` is the list of frames
from the driver's place on, each with whether its buffer still holds it: a frame that
waits while the next one is being stored may be overwritten, and `Fifo` says so.

**AdvancedTechnologyAttachment.** A step is a command, a poll of the status, or one
word. A sector's number is its four bytes, of which the driver writes one twice and
one never (`Registers`, `Key`); numbers of more than 28 bits are refused (`Reachable`), and
so is writing more than a sector, but not reading it: `Counts` may be any integers.
`FirstI`, `NextI` and `GoesOn` are the two loops over `i` with C's remainder. The drive is
external: after every command it is busy for as long as it likes, also before it takes
the words to write. What it is told while it is not ready for it, it ignores, be it a
command of `Read28`, `Write28` or `Flush` or a word, and `ignored` notes that; what it is
asked for when it has nothing to give is `Noise`. It may fail whenever it is busy.

**Desktop.** The tree is one level deep, as `kernelMain` builds it. `FirstAt` is the
routing to the first child under a point, `MoveTo` the two calls of
`CompositeWidget::OnMouseMove`, the second of which sees what the first has moved.
`Screen` is what drawing the windows leaves in video memory, without the mouse's cross.

**MemoryManager.** `heap` maps the address of each header in use to its fields.
`Malloc` and `Free` are whole calls, addresses are real numbers and the header's
size is a constant, so that a link or a size that is wrong shows as a gap or an
overlap. `held` is what the callers know. The implementation relation to
`Allocator` is the identity on `held`: each block handed out lies in the heap and
overlaps no other. As a whole call is how system calls use the heap; the programs
that call `new` with interrupts on are outside the model (see 6). The repository
never calls `delete`, so that `Free` models a function without a caller yet.

**SharedArray.** `BinarySearch` is the bubble sort with the two reads of its comparison and
the three statements of its swap, then the two reads of each probe; `LinearSearch` one read
per step. `Move` (`arr[i] = arr[i + 1]`) is the one step with a read and a write. `low`,
`high` and `mid` are words that wrap. An index outside the array reads any value. The
children of the first and the second strategy fill the array with init's values once more
before they search it (`microkernel.cpp:82, 91, 137, 142`), which is not modelled: then
several of them sort, and of several sorters the module claims only that all values are
init's, which these writes keep.

**Console, PrintNumber, GlobalDescriptorTable.** `Console` has a step per access to
the two static bytes, with the load and the store of a `++` apart. `PrintNumber` is
the conversion in place, with its terminator. In `GlobalDescriptorTable` all widths
follow from the number of values of four bits, so that the encoding can be checked
with few and proved with 16.

## 3. Runs

| Run | Instance | Shows |
|---|---|---|
| `table` | any program, 4 slots, round robin and priorities | no order of calls and interrupts breaks the table: `TypeOK`, `NoLostWakeup`, `CpuOwnerCanRun`, `CpuOwnership`, `PidsAreSound`, `ExitIsFinal`, `WaitEndsWithTheChildren`; implements `ProcessTree` |
| `schedulers` | any program, 3 slots, all three schedulers, a fair timer | who is passed over (`OutrankedByAtMostOne`) and who is promised the CPU (`ReadyTaskRuns`, `MostUrgentTaskRuns`, `DynamicTaskRuns`) |
| `frames` | any program with exec and the calls that report a value, 3 slots | `FramesArePrivate` |
| `strategies` | the five builds that read no input | each child runs its program (`ChildrenRunTheirPrograms`); init passes its wait after all its children, none of which runs again (`ChildrenFinishFirst`), and does pass it (`StrategyFinishes`), also with polling of a counter that wraps and with the boost |
| `input` | the two input-driven builds, any moment for keys and clicks | no key is lost on its way to the line; the prompt means that the last program has finished; implements `LineShell`; input is answered |
| `kernel_parts` | heap, console, shared array, segment, number, disk | chunks stay linked, owned and merged (`HeapIsSound`), implements `Allocator`; `CursorSettles`; `SearchIsRight`, `PartSearchEnds`; `SegmentIsExact`; `NumbersAreRight`; `SectorsAreKept` for any calls, any count and a drive that needs time and may fail |
| `devices` | boot and interrupts, mouse, network card, desktop | `InterruptsEnd`, `DriversFitTheirCards`, `DriversAreHeard`, `DevicesAreServed`; `CursorOnScreen`, implements `PointingDevice`; `SendIsFaithful` with two programs in `Send`, `ReceiveIsFifo` (the refinement of `Fifo`), `FramesGetOn`; `FirstWindowFollows`, `ClickGoesWhereSeen` |
| `blocked_task_boosted`, `dynamic_strategy_ends`, `fork_race`, `five_interrupts`, `returns_to_idle` | | violations, see 5 |

`kernel_parts` and `devices` check parts that have no variable in common. The variable
`part` says which one moves; the others stay where they start, so that the states of
the parts add up instead of being multiplied, and each part has every behaviour that
it has in its own specification, up to what is said under *Bounds*.

Some properties are conjunctions, of parts defined next to them: `HeapIsSound` is
`Linked`, `AllocatedIsHeld` and `FreeIsMerged`; `InterruptsEnd` says that nothing stays
in service and that an interrupt returns to the program; `SearchIsRight` that values
survive, the search stays inside the array and its answers are right;
`SendIsFaithful` that frames leave in order and the one copied last is whole; `FramesGetOn`
that frames are taken and sent in the end; `SectorsAreKept` that transfers are whole
and what is read is what was written; `ChildrenFinishFirst` that init's wait comes
after all exits and exited children do not run.

Where the code keeps a promise only sometimes, the property says when. `DevicesAreServed`
excepts lines that several devices share (only the last driver is told) and a program
that has run into an exception without an error code. `FramesAreTaken` excepts a frame
that arrives after `Receive` has looked for the last time and before the causes are
cleared: it waits for the next frame. `ReceiveIsFifo` is about the frames that are announced
and their order; that the bytes in the buffer are still that frame's, only until the next
one begins to be stored, because the buffers overlap. `SendIsFaithful` and `FramesAreSent`
hold until a call of `Send` takes a descriptor that is still the card's or another call's,
which two programs in `Send` can do with all descriptors free; and only the frame copied
last is whole, if no other was being copied. `SectorsAreKept` says nothing once the drive was
told something while it was not ready, for which neither `Write28` nor `Flush` waits; nor
of the contents of a sector whose last write has failed, which nobody polls for, or whose
address was last written under another number, with a different lowest byte.
`InputIsAnswered` promises the children of `initProcessRandomProcessSpawn` one reaction each,
since that is all they have (see `returns_to_idle`). `SearchIsRight`
needs a key that is not below all elements and one sorter, for all but the first half of
`ValuesSurvive`. `FirstWindowFollows` is about the window in front only; one behind it can
miss its release. `ImplementsPointingDevice` is about a mouse whose answer was in time.

**Bounds.** `MaxTasks` is 3 or 4 (256 in the code) where any program runs, so that
the table fills up and fork's failure is exercised; with three tasks there is a
grandparent, a parent and a child or two siblings, with four both. The init
programs get the slots they need: `strategies` runs two of PartA's three rounds,
three of the first strategy's ten children and one round of the second; the third and
the dynamic-priority strategy are complete. `WAIT_ALL_CHILDREN` and `NOT_BLOCKED` follow the
largest pid at once, closer than in the code. Two priorities are enough to tell
"smaller", "equal" and "larger"; `table` has one to ask for besides the first
task's 0. `CounterModulus` stands for 2^32: since 2^32 = 1 (mod 5), the values 6 and
11, also 1 (mod 5), have the boost's `% 5` behave at the wrap as the real counter
does. In `frames` it only has to tell values apart (3), and where nothing reads the
counter it is 1.

`input` types prefixes of two texts (`MCTyping`): two lines that name two programs,
and a line that is corrected, once at its start. Five slots are enough for init, its
two children and both programs, so that the second command has to be started; a
fork that fails is left to `table`. Two clicks may come at any moment, so that the second
finds the first not yet read, or read, or nobody polling any more; `returns_to_idle` needs
one.

*In `kernel_parts`:* heaps too small for a header, nothing but a header, and with room
for several blocks (1, 2, 9 and 15 bytes); requests of 0 to 5 bytes and headers of 2
(16 in the code), so that every remainder of a split occurs: less than a header,
exactly a header, one byte more. A screen of 2 by 2 with bytes of four values, so that
three printers can push the cursor over the edge by as much as a byte counts. Arrays of
one to three elements among 1 to 3, the last of which is 1 and has the longest way to go,
words of eight values, keys 0 to 2 (one below all,
one that may be missing), and a sorter beside a reader or another sorter. Nibbles of
two values, with all 256 limits and five bases. Numbers up to 120, which have one to
three digits with zeros everywhere, and three of ten digits, among them the largest
integer TLC has. On the disk, sectors of three words, with numbers that differ in the lowest
byte or in another one, and one that is too large; reads of less than nothing, nothing, an
odd and an even part and a word more than the sector; writes of nothing, an odd part, all,
and a byte too many. Once something was ignored the disk is asked nothing more, since nothing
is claimed from then on; a drive that fails goes on being used.

*In `devices`:* lines 0, 1, 9, 11 and 12, which are the timer, the keyboard, two of
cards and the mouse, on both controllers; an exception with an error code (13) and one
without (0). The machines are: no card; one; a card behind a second function; two
cards on one line with a third that has no ports. Reports with moves that are short,
of 48 and 49 columns (the longest that `int8_t` can count at the right edge, and one
more) and of 128, three bytes at most in the controller. A screen of 4 by 2 with two
windows of different sizes, one move of which is rounded and the others of which reach
every edge.

The card has rings of three descriptors (eight in the code), which both sides can fill,
overrun and go round, and frames of one cell and of more than the longest, which is two.
The arrays begin at both of the remainders that make a difference (0 and 8), so that of
one the first two buffers, of the other the last two share an address. Two programs are
in `Send`, one of which sends short frames only. Once there is an overrun all calls stop,
since nothing is claimed of `Send` from then on; the card goes on. While frames are received
one short one is sent, at any moment; while frames are sent none are received, and the
handler, which touches nothing of `Send`'s, does not run: the rings share nothing but the
causes of the interrupt.

**What the runs assume.** `TimerInWindow = FALSE` (`strategies`, `input`): the timer is assumed not to strike in the few instructions between the
store of fork's result and its last use. `fork_race` drops the assumption.
`Junk = {<<>>}` (`input`): `readKeyPresses` does not terminate its copy; the shell
finds the end because memory that nobody has used is zero, and as nothing is ever
deleted the heap never hands out used memory. `KeysAssumption`: fewer than 1024
keys, the size of two buffers that are not checked. `ProgramAssumption`: `findProgram` finds
one of the four programs that end.

Deadlock is allowed in `kernel_parts` and `devices`, which may stop: a heap too small for a
header serves nobody; searches, the segment and the number come to an end, and the disk
once something was ignored; a program that has lost its way after an exception goes no
further; and after an overrun the calls of `Send` stop as said above. In all other passing runs it is checked.

**Fairness.** `FairSpec` has weak fairness of the timer interrupt and of the boot: the
interval timer runs by itself and interrupts are always on in a program. No fairness is
asked of programs, which may loop for ever; that is why a task's run can be promised at
all only for round robin, for priority 0 and for the boosted task. `InitSpec` and
`InputSpec` add strong fairness of a task's own steps, because a program must get
instructions executed to finish: a task that is given the CPU again and again is
interrupted only every few milliseconds, so it does execute one. Weak fairness would not
do, the step being disabled whenever another task has the CPU. Users owe nothing: no
fairness of keys and clicks. `MouseSpec` has weak fairness of the mouse's handler, since
the controller's interrupt stays up until the byte is read. `KernelSpec` has it of
`Processor`, the instructions of a handler and the taking of an interrupt, which
hardware does by itself between any two instructions of a program; that the more urgent
lines fall silent is a hypothesis of `DevicesAreServed`. `CardSpec` has it of the card's
interrupt, which stays requested while a cause is set, of `Transmit`, for which the card
polls its ring, and of the steps of a program that is in `Send`, which can always go on
and does so where its task is promised the CPU (`ReadyTaskRuns`, under round robin); not
of calls of `Send`, which programs make if they like, nor of arrivals and announcements.
`ArraySpec` has weak fairness of each sorter: a search that is not over can always go
on, and is promised to end where its task is promised the CPU (`ReadyTaskRuns`, under
round robin). Nothing is asked of the disk, and nothing promised: the driver polls with
no limit.

`StrategyFinishes` says that from the boot on init gets past its wait (`InitGoesOn`).
For the third strategy, which polls the interrupt count before its second fork, it
starts from the last fork: init may be given the CPU only when the counter has gone
all the way round, and whether it sees five interrupts then depends on the modulus.

## 4. Proofs

Eight modules hold theorems; each is about every value of its module's constants, from
the named assumptions there and what is said here.

| Module | Proved |
|---|---|
| `TaskManagerProofs` | type correctness, `NoLostWakeup`, `CpuOwnerCanRun`, `CpuOwnership`, `PidsAreSound`, `ExitIsFinal`, `FramesArePrivate`, `OutrankedByAtMostOne`, and that nothing but the boost cuts a wait short; without the boost also that `wait` blocks and ends with the children, and that the table implements `ProcessTree` |
| `InitProgramsProofs` | `ChildrenRunTheirPrograms` and `ChildrenFinishFirst`, for every script and number of rounds and children |
| `InputProgramsProofs` | `PromptMeansFinished` and `KeysReachTheLine`, for every user, line and program; that the shell implements `LineShell` without its fairness |
| `KernelMainProofs` | `InterruptsEnd`, `DriversAreHeard` and `DriversFitTheirCards`, for every machine and every set of lines |
| `MemoryManagerProofs` | `HeapIsSound`, and that the heap implements `Allocator`, for every size of heap, header and request |
| `NetworkCardProofs` | that the receive ring implements `Fifo`, and `SendIsFaithful`, for any number of descriptors and of programs in `Send`, frames of any length and wherever the arrays begin |
| `DeviceProofs` | `CursorOnScreen` for all bytes, and that the driver implements `PointingDevice` without its fairness; `FirstWindowFollows` and `ClickGoesWhereSeen`, for every screen, windows and moves; `SectorsAreKept`, for every size of a sector, every count to read and a drive that takes any time and may fail |
| `KernelPartsProofs` | `CursorSettles`, for any number of printers, any screen and any width of a byte; `SegmentIsExact`, for all bases and limits of the real widths (`Nibble = 16`); `SearchIsRight`, for every array and any number of programs; `NumbersAreRight`, for every number of ten digits |

### The process table

`TaskManagerProofs` assumes `~InitExits`. `TypeCorrect`, `NoWakeupIsLost`,
`CpuOwnerAlwaysCanRun`, `CpuIsOwned`, `PidsAreAlwaysSound`, `ExitedTasksStayExited`,
`FramesStayPrivate`, `OutrankedByOneAtMost` and `OnlyTheBoostCutsWaitsShort` hold of
every scheduler; `WaitAlwaysBlocks`, `WaitsEndWithTheChildren` and `TableIsProcessTree` of kernels
without the boost (`"PREEMPTIVE_DYNAMIC_PRIORITY" \notin Schedulers`).

*The inductive invariant.* No one of these is inductive. That the schedulers always
find somebody to switch to (`CpuOwnerCanRun`) needs that the blocked tasks do not all
wait for each other; that needs that every BLOCKED task has an unfinished child it
waits for (`WaitsAreSound`) and that children sit in later slots than their parents
(`ppid[i] \in 0 .. i`); then the last task that is not a ZOMBIE is not BLOCKED, and
there is one because the first task is none. That `ppid` names an earlier slot needs
that slot i holds pid i + 1 (`Numbered`), and that fork reads the parent from the
task whose stack it is on needs `OwnStack`. `OneIsBehind` is `OutrankedByAtMostOne`
without cardinalities: the tasks that wait behind a lower priority are all one and
the same, the one that was interrupted last. `IndInv` is the conjunction.

*The argument.* A handler has two halves. `Sound` describes the table without
reference to the current task; each `...Keeps` lemma shows that the handler leaves a
sound table when it calls `Schedule`; `ScheduleKeepsSound` shows once, for all three
schedulers, that `Schedule` keeps it sound and picks a task that can run. The lemmas
on the schedulers rest on a minimum existing in a set of naturals and a maximum in an
index set, which are proved first. The action properties follow from `IndInv` and
one look at each action.

*The refinement.* A step of the table is one step of the tree. `Schedule` takes nobody
into or out of ZOMBIE and, without the boost, BLOCKED (`ScheduleKeepsWhoWaits`), so
that each handler's step is that of what it made of the table before, and
`CpuOwnerCanRun` afterwards is the `HandOver`. What is left is what each does to
`Awaited`: a fork adds a child that its parent, which runs, does not wait for; an
exit takes the caller out of everybody's set, and where it was the last the parent is
woken in the same step. That nobody but the first task lacks a parent
(`OnlyFirstIsOrphan`) is the one fact that `IndInv` does not have.

*The assumptions.* All init programs but one end in an endless loop ("Prevent the
init process from exiting", `microkernel.cpp:45`) or return, hence `~InitExits`;
without it the theorems fail, and `dynamic_strategy_ends` shows how. With the boost
the last three fail, and `blocked_task_boosted` shows how for one;
`OnlyTheBoostCutsWaitsShort` is what is left of it, for every task but the one with
`taskWithDynamicPriority`.

### The init programs

`EveryChildRunsItsProgram` and `InitFinishesLast` assume `~TimerInWindow`, without which
`fork_race` refutes the first, and builds that are `Ordinary`: every branch of the script
execs one of the programs that end, perhaps after asking for the dynamic priority.
`BuildsAreOrdinary` proves that the five builds of `microkernel.cpp` are, for any rounds,
children and choice of programs.

*The inductive invariant.* `ProgramsInv` is `TableInv` of the kernel and what the label of
each task means. The i-th slot holds the child of the i-th entry of the script
(`ChildText`), since only init forks and it is at entry k with k tasks in the table
(`InitText`). What fork returned to a task is in `ecx` until it is stored, and in `frame`
until it is tested (`Result`): 0 for the child, not 0 for init. `frame` is shared, but only
the current task is ever about to test it (`OneTests`), which is what the hypothesis on the
timer is for. Init past its wait is BLOCKED or all others have exited (`InitWaits`); the
boost does not get it out of that, because it never asks for the dynamic priority. After
init's own `exit()` in the last build the kernel's invariant is gone, and `Ended` says what
remains true for ever.

*The argument.* The steps of programs are the handlers of `TaskManager`, so that the
`...Keeps` lemmas of `TaskManagerProofs` do for the table; what is added for each label is
where it leads.

### The builds that react to input

`PromptFollowsTheProgram`, `EveryKeyReachesTheLine` and `ShellFollowsTheUser` assume
`~TimerInWindow`, as above, and that the builds are the two of `microkernel.cpp` that read
input (`InputBuilds`). The last two also assume that fresh memory is zero
(`Junk \subseteq {<<>>}`): the copy of the keys has no terminator, and what follows it would
be typed as well. `Keyboard`, the
characters that are typed or lie in memory, may be any set.

*The inductive invariant.* `InputInv` is `TableInv`, a `TaskText` for each task, and three
facts about the shell. The texts are those of init, of its two children and of the shell's;
what fork returned to a child of the shell is in `ecx` until it is stored, then in the
shell's `pid` until it is tested (`ShellsResult`), with its own window (`Windows`).
`OneAtATime`: of the shell's children only one has not exited (`LastChild`), the one
whose pid fork has just returned, that is in `pid`, or that the shell is BLOCKED for. This
is why `wait` ends in time also when the child exits before it: then nothing is left to
wait for, and otherwise round robin takes nobody out of BLOCKED
(`RoundRobinKeepsWhoWaits`) but the exit of that very child. It holds as well when the
table is full and fork returns -1. `NothingLeft`: when the shell asks for keys, it has
used up those it had. `KeysInOrder`: the keys in `input` and in `pressedKeys` are the last
ones typed, and the line is what the others make of it.

*The argument.* Every step falls into one of three kinds, each with a lemma that does what its
steps have in common: those that return to their caller (`QuietKeepsInput`), those that end
in the scheduler (`ScheduledKeepsInput`) and forks (`ForkKeepsInput`). `LeftAlone` says
that a task which does not move keeps its place in its text, whatever the others do.
`EditedNext` is the step of the recursion over the keys, for `KeysMoveOn`.

*The refinement.* `ShellFollowsTheUser` is the safety of `LineShell`: it starts as
`LineShell` does, and every step is one of its steps or none. `InputInv` says where the
keys and the tasks are; `RunsInv` adds what the programs are to the lines. The commands in
the keys that the shell has handled are the programs started, and one more while the shell
is about to fork (`launch`) or its child about to exec (`Pending`): that is what has been
promised (`Promised`). There are as many children as programs started, and one more while
one has yet to exec. If fork is refused the promise is broken; then the table is full with
nobody on the way to an exec (`OutOfRoom`, the `full` of `LineShell`), and since slots are
never given back it stays so. The exec is `Start`: all other children have exited
(`OnlyChildRuns`), and the program is the next command of what has been typed, because more
keys only add commands (`CommandsAreKept`). The exit of a program is `Finish`, a key is
`Type`, and a fork of init's that takes the last slot is `RunOut`. All other steps are
seen by nobody (`UserSeesNothing`), the shell's own fork and its refusal among them.

### The other modules

*Interrupts.* `KernelInv` follows an interrupt on its way. What is in service is
determined by where the processor is (`ServiceInv`): the line of the interrupt that
is being handled, its controller's line 2 if it is the slave's, and less after each
acknowledgement; it is this that makes each acknowledgement, which names no line,
end the right one, also when the interrupt was spurious. `StackInv` says that there is one
word for `Leave` to drop, unless an exception had none. For `DriversAreHeard`,
interrupts are off until the last stage (`EarlyInv`), and a line whose driver has been
made has the handler of one of its owners (`HeardInv`), which a later constructor can
only replace by another owner.

*The bus.* `ScanInv` says that the cards before the place the scan is at (`Passed`) are
those that have a driver and those there was no memory for. It goes on because what
follows a place is the next that a scan can get to (`NextPlaceIsNext`), which needs
that a place behind a device's first function is only looked at if that device has
several (`Scanned`).

*The heap.* `HeapInv` says that the chunks lie one behind the other up to the end of
the heap, linked both ways (`List`), that no two free ones are neighbours
(`MergedBut`), and that what is allocated is what callers hold (`Holds`). `free`
merges up to twice, so that all of this is said of any list of chunks; `MergedBut`
names the chunks between whose neighbours the merging is still to come. That a block
overlaps no other follows from the order.

*The mouse.* `Assembled` relates the bytes in the buffer and on the wire to the
reports they are of, by their numbers. Handling a byte then is handling a report or
nothing at all, which is the refinement. Its hypothesis is `~late`.

*The network card.* `Holds` says that the buffers of one side are those from its place
on, as many as there are. `GiveAppends` and `TakeTails` are about any ring: giving a
side the next buffer appends to its queue, taking its first one takes the head. The receive
ring is an instance: the card's place is as many buffers ahead of the driver's as frames
wait (`ReceiveInv`), and the buffer there holds what is being stored. That the buffers
overlap is no matter, since the theorem asks nothing of a frame once the next one is being
stored. The send ring is another, with the two sides exchanged and taken as it will be when
all calls have come to their end (`Claimed`): a descriptor is claimed when it is chosen,
whoever hands over first. Until an overrun, whoever has read the index keeps the others from
choosing until he has stored the next (`OneAdvances`): they would choose the same. So the
index, or the one about to be stored (`Upcoming`), is as many ahead of the card's place as
are claimed (`RingsAgree`). For the last frame, `LastCopy` says that what has been copied is
there from some cell on, and that nobody else copies.

*The desktop.* `Follows` needs no strengthening but types, yet the mouse's move needs
that a window that is dragged and contains the mouse is first under it, and still
contains it when both have moved by the same. For `ClickGoesWhereSeen`, windows keep their
sizes, and `Screen` is solved for: a pixel shows the first
window that fills it (`Picture`).

*The disk.* `DiskInv` follows a transfer as long as nothing was ignored. For each
step of the driver, `InStep` says which mode the drive is in, that the driver's counter is
twice the words that have passed beyond where it began, and what has been read or taken so
far; the loops go on as long as the drive has words (`OneWordFurther`), and past that when
the count is more than a sector. So the drive is idle or writing when the next command
comes, also after a failure. `SectorsHold` says that every sector holds what was last
written to its `Key`, unless that has failed, or that the drive is about to write that. The
assumptions are that data are sequences of bytes and counts integers, with the exception of
the largest `int`, at which `i` would wrap.

*The console.* `CursorIsMinded`: whoever stores a byte that is off the screen still has the
test of it before him. That the printers are many, and that a load may be old when it
is stored, is then no matter.

*The segment.* The arithmetic of bytes and pages, from quotients and remainders.

*The shared array.* `ArrayInv` says where a sorter may be in the array and that its `temp` is
one of init's values, whoever else sorts. What a single sorter relies on (`SorterKnows`) is
that the array, with the element in hand put where it belongs, has every value as often
as the original (`SameValues`, counted by bijections), that it is sorted up to where a pass
without a swap has come, and that all left of `low` is smaller and all right of `high`
larger than the key (`Narrowed`). Tasks are finitely many, as slots are.

*Numbers.* `PrintInv` says for each of the three loops which digits are where in the buffer,
and that there are only zeros in front of the first that is kept (`Leading`). A number has ten
digits at most, as a `uint32_t` has.

*Recursion.* `Screen`, `NumberIn` and `Edited` are recursive functions. What they compute is proved
from an explicit solution of their equation, and the equation's solution is unique because
a least index at which two solutions differ would be a contradiction (`NatSetHasMin`).

### Only model-checked

Liveness and ENABLED are beyond this prover: `ReadyTaskRuns`, `MostUrgentTaskRuns`,
`DynamicTaskRuns`, `StrategyFinishes`, `InputIsAnswered`, `DevicesAreServed`,
`FramesGetOn`, `PartSearchEnds`, and the fairness of `PointingDevice` and `LineShell`.
Every other property of a passing run is a theorem.

## 5. Disagreements between code and comments

* `blocked_task_boosted`: the boost (`multitasking.cpp:194`) resumes a BLOCKED task,
  so `wait()` returns before what it waits for has finished.
* `dynamic_strategy_ends`: init's `exit()` (`microkernel.cpp:273`) returns. Nobody is
  READY, the scheduler falls back on the task that has just become a ZOMBIE, sets it
  RUNNING and then READY.
* `fork_race`: with the timer in the window described above, a child takes init's
  path (or the other way round). The shell's fork has the same window.
* `five_interrupts`: `timerInterruptCounter` counts calls of `Schedule`, fork, exit
  and wait included, so the Collatz program is raised after fewer than five timer
  interrupts: two of the first five calls are timer interrupts in any case, the one that
  leaves the boot and the one that preempts the Collatz program; the others may be system
  calls.
* `returns_to_idle`: the comment on `initProcessRandomProcessSpawn`
  (`microkernel.cpp:276-280`) has processes that loop for ever and return to their idle state
  after each event. The code's two children leave their loops at the first key and at the
  first click and exec a program that ends with `exit()`. `InputIsAnswered` says what is left:
  each reacts once, and init goes on.

## 6. Not modelled

*Where nothing is left to claim.* `MemoryManager` is not modelled under preemption:
PartA's children call `new` with interrupts on, and two that are in `malloc` at the
same time can be given the same chunk; no property of the heap survives that, so
`kernel_parts` is about callers that do not interrupt each other. Neither are the
buffers of keys and of the shell's line, which have no bound: the models stay below
it (`KeysAssumption`). A heap that is used up makes `readKeyPresses` copy to address
0; the heap's runs end where `malloc` returns 0. The third strategy returns from its
entry point (`microkernel.cpp:222`) to an address nobody pushed; the model stops the
task there.

*Where there is no state or no property.* The ports are wrappers of `in` and `out`,
and every use of one is part of the action of a driver. `SetMode` of the VGA driver
writes tables of numbers to registers; what the hardware makes of them is not in this
code. `Identify` of the disk prints what the drive says. The scan code table, the
formats of what is printed and the access bytes of segments are data. The command
bytes that keyboard and mouse read from the controller and write back
(`keyboard.cpp:43`) are constants to the kernel. `rand()` is a number the init
programs may not rely on, so that their runs allow every choice of programs. The heap's
size is computed once from what the loader reports (`kernel.cpp:212`), with no test
that there is more than 10 MiB of it. `printTasks` and the print system calls only
print; the characters are not modelled, the cursor is.

*Where the code goes no further.* Windows with children and the keyboard focus are
in the toolkit, but `kernelMain` nests nothing and no window asks for the focus; its
graphics block does not compile against the constructors as they are. `Reset` of the
network card, `Write` of the PCI controller, `Deactivate` and the destructors are
never called.

*External.* Interrupt controllers, mouse and keyboard controller, PCI machine,
network card and drive are modelled from how the drivers use them; those definitions
are marked in `PROJECT.json`. A drive that never answers (`ata.cpp:87`) holds up its
driver for ever, so that no liveness is claimed of the disk.
