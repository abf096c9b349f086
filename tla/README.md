# Verification of the bare-metal Lua kernel

TLA+ models of the kernel in `src` (a 32-bit x86 kernel that boots, starts
a Lua 5.3.4 interpreter and runs one Lua program over the serial line), checked
with TLC on small instances and, where it says so, proved with TLAPS for every
value of the constants. The interpreter is part of the program and of the
models: it is built into the kernel with changes of its own, on the kernel's own
allocator, console, clock and C library.

Paths below are relative to the root of the repository, which `PROJECT.json`
calls `src/`; `arch/` is `src/arch/i386/`, `lua/`
is `src/lua-5.3.4/src/`.

## 1. Inventory

One processor, no scheduler, no paging, no user mode. Concurrency is what the
interrupts make: the boot sequence and then the Lua program run with interrupts
on; the timer (IRQ 0), the keyboard (IRQ 1) and the UART (IRQ 4) interrupt them
anywhere, and devices change their registers at any time.
`process_irq` acknowledges the interrupt first and then calls the handler, so
only the interrupt flag keeps a handler from being interrupted, and `sti` in
`serial_write` gives that up in the middle of the keyboard's handler. Above
that, the Lua interpreter interleaves two things itself: the program and the
steps of the incremental collector, and coroutines with one another.

### The kernel

| component | source | state | operations | what makes it correct | model |
|---|---|---|---|---|---|
| block allocator | `arch/memory.c` | `memmap`, `memory_sz`, the heap | `memory_init`, `malloc`, `calloc`, `realloc`, `free`, `memory_used` | no two holders share a block, no leak, data kept, refusals harmless, table and heap disjoint | `Heap`, `HeapAbstract`, `MallocScan`, `HeapLayout` |
| serial console | `arch/serial.c` | two rings with two indices each, `transmit` | `serial_write`, `serial_read`, `serial_isr` | nothing lost, repeated or reordered; no lost wakeup; calls return | `Serial` |
| keyboard | `arch/keyboard.c` | a ring nobody reads | `kb_byte` | must not disturb what it interrupts | `Serial` (its handler) |
| interrupt dispatch | `arch/irq.c`, `arch/gdt_asm.S` | interrupt flag, PIC | `process_irq` | every unmasked interrupt reaches its handler | `Serial` (IRQ 1, 4), `FloppyMotor` (IRQ 0) |
| timer | `arch/timer.c` | `counter` | `timer_isr`, `timer_ticks` | ticks read whole | `FloppyMotor` (as its clock) |
| floppy driver | `arch/floppy.c` | `reg_dor`, `drives`, `motoff_timer`, status, `irq_signaled` | init, seek, calibrate, transfer with retries, `floppy_timer` | motor on while it is used and off afterwards; a result belongs to its command; what is reported is what happened | `FloppyMotor`, `FloppyTransfer` |
| ISA DMA | `arch/isa_dma.c` | `used_dma_buffers`, `mask` | allocate, free, program | a buffer has one holder; a transfer stays in it | `IsaDma` |
| CMOS clock | `arch/peripheral.c` | device registers | `cmos_get_time` | never a mixture of two times | `CmosClock` |
| calendar | `src/time.c` | none | `mktime`, `gmtime`, `strftime` | inverse of each other, right calendar | `Calendar` |
| text screen | `src/tty.c`, `arch/vga.c` | cursor, cells | `tty_putchar`, scroll | shows the last lines | `Screen` |
| setjmp and longjmp | `arch/setjmp.S` | `jmp_buf` | both | every register restored | `Setjmp` |
| C strings, formatted output | `src/string.c`, `src/printf.c` | none | | their C definitions | `CString`, `Printf` |
| PIC, GDT/IDT, boot, stdio shims, other C library | see section 6 | set once, or none | | | not modelled |

### The interpreter

| component | source | state | what makes it correct | model |
|---|---|---|---|---|
| collector | `lua/lgc.c` | colours, lists, phase | nothing reachable is freed, garbage is found, finalizers run once, weak entries go exactly when they should | `LuaGc` |
| compiler | `lua/lparser.c`, `lcode.c` | registers, jump lists, blocks, upvalues | the code does what the language says and keeps to its registers | `LuaParser`, `LuaCode` |
| virtual machine | `lua/lvm.c` | stack, frames | the same | `LuaVM` |
| calls, coroutines, upvalues | `lua/ldo.c`, `lfunc.c`, `lcorolib.c` | frames, open upvalues, statuses | sharing of variables survives every way of leaving a block; one coroutine runs | `LuaDo` |
| tables | `lua/ltable.c` | array part, nodes with collision links | a map; a traversal meets every key once, dead keys included | `LuaTable` |
| strings | `lua/lstring.c` | hash table, cache | equal text, same object, while collected between calls and during them | `LuaString` |
| patterns, string library, UTF-8 | `lua/lstrlib.c`, `lutf8lib.c` | captures | what the manual's pattern means; bytes read back are bytes written | `LuaPattern`, `LuaPack`, `LuaText` |
| lexer | `lua/llex.c`, `lctype.c` | buffer, lookahead, line | the tokens of a text and their lines | `LuaLex` |
| table library | `lua/ltablib.c` | none | sorted permutations; moves that overlap | `LuaTabLib` |
| precompiled chunks | `lua/ldump.c`, `lundump.c`, `lzio.c` | stream | what is read back is what was written | `LuaDump` |
| numbers | `lua/lobject.c`, `lvm.c` | none | exact at both ends of the integers | `LuaNumber` |
| C interface | `lua/lapi.c`, `lauxlib.c` | stack, string buffers | a buffer leaks nothing and stays balanced when any allocation fails | `LuaStack`, `LuaBuffer`, `LuaAux` |
| base and os libraries | `lua/lbaselib.c`, `loslib.c` | none | | `LuaAux` (what computes) |
| metamethods, debug information, state, memory | `lua/ltm.c`, `ldebug.c`, `lstate.c`, `lmem.c` | | | section 6 |

How they interact: Lua allocates through `l_alloc` (`realloc` and `free`),
prints through `fwrite` and so `serial_write`, and takes the time from
`cmos_get_time` and the calendar. `printf` formats into a buffer and calls
`serial_write`; every driver prints with it, the keyboard's from inside its
interrupt. The timer's interrupt calls `floppy_timer`. The floppy driver takes a
DMA buffer and polls the clock. Neither the allocator nor Lua is ever called
from an interrupt. Inside Lua the compiler gives the machine its code, the
machine and the libraries create objects, and every creation may run the
collector, which is why strings, tables and buffers are modelled with a
collector at work beside them. An error unwinds with `longjmp`.

Which behaviours are hard: the serial interrupt against the writer and the
reader; the keyboard's nested prints; the allocator's `realloc`, whose five
outcomes share one table; the motor timer against the commands; a controller
that answers late; the clock changing while it is read; the program changing
the heap between two steps of the collector, and finalizers that change its
lists while they are swept; gotos and closures against the compiler's order of
emission; coroutines that yield inside `pcall`; any allocation failing.
`PROJECT.json` lists each at its line.

## 2. The modules

Each module's header says what an action stands for; here is how they fit.

### Memory

**`Heap`** is `memory.c` with one action per way a call can go. A pointer
`memory_min + i * block_size` is written as the block number `i`, and `memmap`
maps blocks to such pointers. Clients are a set `Owner`, each holding at most
one allocation; `ptr` and `len` are what the client believes, `data` what the
blocks contain, so that "the client's data survives" can be said. `realloc`
has five outcomes: `Same`, `Extend`, `Move` (the tame ones), `Shrink` (the
loop of lines 131-136, which clears one wrong entry) and `Fail` (lines 153-156
with `np == NULL`). `TameSpec` leaves the last two out: a single one of them
destroys every promise the allocator makes, and what they do is what the
violation runs show; `Spec` has all of them. One call is one step because
nothing but the program calls the allocator. `clobbered` records a write
outside the table and the heap.

**`HeapAbstract`** knows only what owners hold. A grant is a hole; a refusal
names a length for which there is no hole. `Heap!Implements` is the refinement
(the identity on `ptr`, `len`, `outcome`; the table and the data are hidden).

**`MallocScan`** is the loop of `malloc`, one iteration per step, and justifies
`Heap`'s `FirstFit`, which takes the search in one step.

**`HeapLayout`** is `memory_init` with the real numbers, in KiB, wrap-around
included.

### Devices

**`Serial`** is `serial.c` with the part of `irq.c` and `keyboard.c` that meets
it. `stack` holds the calls in progress, so a key's handler that prints is a
frame on top of the interrupted write and a second key's may nest in it;
`ser` is the serial handler, which never enables interrupts and is therefore
alone on top. What lies between `cli` and `sti` is one step (`Fill`, `Take`);
what the handler does between two reads of the identification register is one
step. The UART (`Load`, `ShiftOut`, `Arrive`) is external: a 16450, because
`serial_init` never enables the FIFO, with a holding and a shift register, one
received character, and an identification register that reports received
data before an empty holding register and withdraws the latter when it is
read. The kernel is compiled with `-O0` (`Makefile:13`), so the polling loops
reread `transmit` although it is not volatile.

**`CmosClock`** is `cmos_get_time` against a running clock. Times are seconds
and a register's content is the second it was last updated for; `Show(r, t)` is
what `cmos_get_time_raw` makes of it (BCD and the 12-hour flag are
`Calendar`'s). The clock (external) updates its registers one by one in any
order, and an update may begin between any two steps of the driver, as one may
while an interrupt handler delays it; so waiting for 'Update in progress' to
clear does not by itself give a consistent reading: the comparison of two
readings does, each begun while no update was in progress. The one assumption
about time is that a round takes less than a minute.

**`FloppyMotor`** is the motor's part of `floppy.c`. `todo` is the sequence of
calls that the operation in progress still has to make; `Body` is what each
function calls, with every pattern of seeks (a seek to the current track does
nothing), failed tries, and the reset after the second. `motor_on`,
`motor_off`, `fdc_reset` and `floppy_select` are split at every access to
`reg_dor`, the port, `motstate` and `motoff_timer`, and `Tick` and `Expire`
(`floppy_timer`, with interrupts off) come anywhere between. Only drive 0 is
ever selected, so the three sets of motor bits are one bit each. `late` and
`spun` are history: whether the motor-off timer expired in the middle of an
operation, and how long the motor has been powered.

**`FloppyTransfer`** is the commands' part, byte by byte. `ops` is the list of
operations still to make; a compound one (`reset`, `version`, `select`,
`calibrate`, `seek`, `try`, `wait`, `sense`, one per function) is replaced by
its parts, as its C function would call them, and the loop over the sectors is
an operation `next` that puts a try and itself back. The controller (external) takes a byte per step into a command as long as
its first byte says, executes it and offers result bytes. `env` is what there
is at the other end: a controller that answers at once, one that may answer
after `sendbyte` and `getbyte` have given up, none at all, and a disk that may
be write-protected. The interrupt never reaches the driver (IRQ 6 is neither
unmasked nor dispatched), so `irq_signaled` stays false, and what `fdc_waitint`
does then, and would do otherwise, is modelled as written. **`IsaDma`** is the
pool with its shifted test, the masks of both controllers and the ports to
which a channel's address and count go.

**`MCFloppy`** puts motor, commands and pool side by side. They share no state
that any of them tests, so each runs with the others at rest.

### Functions without state

**`LibraryCall`** has three variables: the function, its arguments and, once it
has returned, its result. A function is an operator translated from the code;
an action `Call...` returns its value, and a property compares it with a
definition of what the function should do that is written without it.
`MCLibrary` and `MCLuaLibrary` choose the function and a small input in the
initial state.

| module | code | against what |
|---|---|---|
| `Calendar` | `gmtime`, `mktime`, `strftime`'s computed fields, the CMOS hour register | counting days; each other; and exactly where they differ |
| `CString` | comparison, search and spans in `string.c`, `itoa` | the C standard's words, and exactly where the code differs |
| `Printf` | a conversion of `vsnprintf`, `vprintf`'s two passes | the field that the flags ask for |
| `Setjmp` | the slots of `jmp_buf`, in half registers | what was saved |
| `Screen` | `tty_init`, `tty_putchar`, `tty_nextline`, `vga_scroll` | the last lines of the list of lines printed |
| `LuaPattern` | `match` and all below it, `find` (plain or not), `match`, `gmatch`, `gsub` with replacement strings, tables and functions | the meaning of a pattern: the walk through the subject that is first in order of preference; a replacement as the parts it is written from |
| `LuaPack` | `pack`, `packsize`, `unpack` | bytes computed from positions; unpacking gives back the values; lengths told beyond a `size_t` and beyond the heap |
| `LuaText` | UTF-8, and `sub`, `byte`, `rep`, ... | places of code points; slices |
| `LuaLex` | `llex` and its readers, numerals, the lookahead | a text put together from known tokens gives these, with their lines |
| `LuaTabLib` | `insert`, `remove`, `move`, `concat`, `unpack`, `sort` | sequences; a sorted permutation under a valid order, no bound overrun under an invalid one |
| `LuaDump` | `luaU_dump`, `luaU_undump`, `luaZ_read` | a chunk read back equals the one written, in pieces of any size |
| `LuaNumber` | integer division, shifts, comparison with floats, `forlimit`, `tostring` of integers, `luaO_int2fb` | unbounded integers and exact fractions |
| `LuaAux` (with `LuaStack`) | rotation and its relatives, traceback levels, `tonumber` with a base, `select`, `os.date`'s options | lists; each conversion's outcome, the ones that stop the kernel included |

### Machines of the library run

**`LuaTable`** is a table with both its parts: `luaH_set`, `luaH_get`, rehash,
collisions with a main position that is moved, `luaH_next` in the middle of
changes, and a collector that makes keys of cleared entries dead. `content` is
the map it should be and `walk` the traversal in progress.
**`LuaString`** is `internshrstr` with its table, growth and shrinking, the
cache of C strings, and a collector that kills and sweeps between calls and,
as an emergency, in the middle of the one that is creating a string.
**`LuaBuffer`** is `luaL_Buffer`: in the C frame first, in a box on the Lua stack
when it outgrows that. The user datum, the metatable and the block are three
allocations and each may fail; the collector frees boxes that nobody holds.
Sizes wrap at `SIZEBITS`.

### The interpreter

**`LuaGc`**: the collector's state is one record `g`, as `global_State` is one
struct, and its functions are operators from `g` to `g` that compose as the C
functions call each other. Between any two steps the program allocates, stores
through the barrier the code uses at that place, erases, gives finalizers, and
leaves blocks; finalizers that are called may resurrect. What may hold what is a
*shape*: references on the stack and in objects, weak tables of the three
modes, strings, closures with an upvalue that is open in a coroutine.
How much work one `luaC_step` does is left open up to `MaxWork` single steps, so
the arithmetic of debt and pause cannot hide an interleaving.

**`LuaValue`** has the values and their arithmetic. **`LuaCode`** is `lcode.c`:
expression descriptors, registers, constants, jump lists threaded through the
code, constant folding. **`LuaParser`** is `lparser.c` over programs given as
trees: blocks, variables, upvalues, gotos and labels, loops, calls, table
constructors, methods. **`LuaDo`** has frames, returns, errors, `pcall`,
coroutines and upvalues; **`LuaVM`** executes one instruction per step. The
environment's function `ext` answers calls with truth values chosen in advance.
**`LuaMeaning`** is the reference: it interprets the tree directly, with
environments and continuations, knowing nothing of registers, jumps or frames.
`Meaning` says that the compiled program calls `ext` with the same arguments in
the same order and ends the same way. **`LuaPrograms`** generates the programs,
in eight families that each cross the constructs whose interplay is delicate.

Operators described in a comment as a *slip* (`FitsPastEnd`, `FillDeaf`, ...)
are not used by any specification. Each is a plausible mistake in the code
above which it stands; putting it in place of the real definition breaks the
property that `PROJECT.json` pairs it with, which shows that the property
says something about the code.

The proofs of `Heap` and `Serial` are in `HeapProofs` and `SerialProofs`, those of
`FloppyMotor`, `IsaDma`, `FloppyTransfer` and their composition `MCFloppy` in
`FloppyProofs`, those of `Screen`, `Calendar` and `LuaString` in `LibraryProofs`; the shorter
ones of `MallocScan`, `HeapLayout`, `CmosClock` and `Setjmp` end the module they
are about.

The compiler's and collector's operators reach TLC as `CONSTANT` operators
(`Compiled`, `StepOf`, `Tokens`, ...) that the `.cfg` sets to the operators of
the same modules, each under a `LET`. This changes nothing that is evaluated; it
keeps TLC's statistics of costs from expanding the call graph of a recursive
descent once per path.

## 3. The runs

| run | configuration | question and bounds |
|---|---|---|
| `heap_tame` | `MCHeapTame.cfg` | Three owners (symmetric), five blocks, requests up to six blocks (one more than exist): exactness, disjointness, data, and refinement of `HeapAbstract`. Five blocks are the least in which two owners can leave a hole on either side of a third, so that extend, move and refusal all compete. |
| `heap_shrink`, `heap_refuse` | `MCHeapShrink.cfg`, `MCHeapRefuse.cfg` | The two defects, against the contract of the Lua manual and `lmem.c`, with all calls (`Spec`). |
| `serial` | `MCSerial.cfg` | Three workloads, chosen in the initial state. *Quiet*: five writes of 1 to 4 characters, `OBUF_SZ` 8 (so a write is at most one half and the ring wraps twice), two characters arriving at any time. *Typing*: three writes of up to 4, two keys whose handlers print 2 characters each, nested or not, one character arriving. *Reading*: four reads of 1 to 3 characters against eight arrivals, `IBUF_SZ` 5 (the ring wraps), never a full ring ahead. |
| `serial_wrap` | `MCSerialWrap.cfg` | The reads that go wrong after the wrap. |
| `serial_long` | `MCSerialLong.cfg` | One write of six characters with `OBUF_SZ` 8. |
| `floppy` | `MCFloppy.cfg` | *Motor*: `floppy_init` and two reads or writes, a delay of 6 ticks and a spin-up of 3, so the timer may expire in any step, several times in an operation. *Commands*: `floppy_init` and one call of up to two sectors, on two tracks (sectors 0 and 36), with every kind of controller and disk; two sectors are the least in which the first may fail and the second succeed. *DMA*: a pool of four buffers, every sequence of calls. |
| `library` | `MCLibrary.cfg` | Each function without state with every small input that meets its special cases; `malloc`'s loop over all tables of seven entries; `memory_init` on 515 machines from 15 MiB to 4 GiB with the real constants; the clock with three registers that count to 3 (so the second carries into the third) while ten seconds pass; a Lua table with keys in both parts and two that collide; four strings, two of which share a list, in a table that starts with 2 or 16 lists; a buffer of two characters that grows to five, with two blocks and two boxes; `pack` and `unpack` with bytes of two bits, integers of six bytes, a `size_t` of three, a heap of 31 bytes (`HeapBytes`) and `packsize` up to 31 (`MAXSIZE`), so that lengths come round within reach; two captures (`LUA_MAXCAPTURES`). About 1.2 million states. |
| `lua_gc` | `MCLuaGc.cfg` | Seven shapes of up to four objects, sweeps of two objects, up to two single steps at a time: every interleaving of the program with a whole cycle and the next. |
| `lua_gc_many` | `MCLuaGcMany.cfg` | Four objects with finalizers and a sweep of one object: the one interleaving in which a finalizer takes away the object the sweep stands at. |
| `lua_code` | `MCLuaCode.cfg` | About 30,000 programs: conditions in every position, nested loops with breaks, gotos forward, backward and out of blocks with captured variables, multiple assignment with conflicts, variable arguments, tail calls, methods, constructors longer than a flush, coroutines that yield in `pcall`, in iterators and in each other, and arguments that `pcall` and the coroutine library refuse. `MaxIndexRK` 255 as in the code, `FieldsPerFlush` 2 (so a constructor of three flushes), `StackSize` 20. |
| `lua_goto` | `MCLuaGoto.cfg` | The goto that lands on the wrong instruction. |

Bounds named in the modules: `MaxRequest` (bytes of a request) and `Count`
(`calloc`'s number), `Workloads` (calls, keys, characters that arrive and how
far the far end may run ahead of what was read), `MaxCalls` and `MaxXfers`
(floppy calls), `MaxNum` (sectors), `MaxTime` (seconds the CMOS clock
advances), `MaxArray` and `MaxInt` (a Lua table's and a string table's size),
`MaxLength` and `MaxBoxes` (string buffers), `HeapBytes` and `MAXSIZE` (strings that
are packed), `LUA_MAXCAPTURES`, `MaxWork` (single steps in one
`luaC_step`).

Where deadlock is not checked, the system or the bounded environment really may
stop: calls without state return, the scan and `memory_init` return, the
allocator's owners may be refused everything, the clock, the UART and the
floppy calls stop when the bounds are used up, or, truly, when a key's handler
waits with interrupts off; a collector that has nothing to do in a program that
has nothing left may stop as well. In `lua_code` deadlock is checked: a running
program can always take a step, and one that has stopped stutters (`Stopped`),
so a missing instruction or a jump out of the code is found.

Fairness. `Serial`: the processor executes the next instruction of whatever
runs (`WF` on `Program` and on `Handler`), an interrupt that is requested and
stays allowed is taken (`WF` on `SerialIrq`; a key's handler returns or
disables interrupts for ever, so it is never merely starved), and the UART
keeps shifting (`WF` on `Uart`); nothing forces keys to be pressed or
characters to arrive. `MCFloppy`: the driver executes and the timer ticks (`WF`
on the motor's `Driver` and on `Tick \/ Expire`; its handler is never kept out
for ever, because nothing there disables interrupts; `WF` on `XferDriver`); a
controller must act only if it is a prompt one. `MCLibrary`: the caller
executes, and a clock update that has begun is completed, register by register,
but none need begin. `LuaGc` and `LuaVM` state none: their properties are
safety, `FullCollects` included, which speaks of one call.

What the runs show beyond "it holds":

* An honest write of at most 512 characters with no key pressed is safe and
  always returns; a key pressed in the middle costs at most one character and
  never reorders any, but may leave the kernel waiting for ever with interrupts
  off, and that is the only way a call hangs.
* A floppy command may well find its motor off: seeks inside a transfer arm the
  motor-off timer, which nothing cancels. `AtSpeed` says that this is the only
  cause, and `Accounted` that the driver's error is always on the safe side, a
  motor believed on that is off and never the reverse, so that motors do stop.
* A controller that answers late never makes the driver take a parameter for a
  command (`InStep`). A read reports success whatever happened; with a prompt
  controller a write's result says just whether the disk was protected, and no
  other error is reported (`OnlyWritesFail`).
* No transfer reaches its DMA channel: the address and count of channel 2 go to
  channel 1's registers. `DmaSound` says that the unprogrammed channel never
  moves data, and states what the pool's shifted test still guarantees.
* The collector keeps its invariant under every barrier as the code places
  them; `lua_gc_many` is the one hole, and needs more objects with finalizers
  than a sweep step visits.

Some properties state the contract with the difference the code has from it, so
that nothing else can differ: `CalendarRight` (`gmtime` at the ends of months,
`mktime` for months outside 0..11, which read past `days_in_month`, as
`os.time` with a month outside 1..13 does; `%c` and its like, which print what
the buffer held before); `TextRight` (`strncmp` looks at one character too
many, `strcmp` puts a string before its prefixes, `strcpy` leaves out the
terminator, `itoa` writes past a buffer of one character, a field of
`vsnprintf` prints what its buffer held, `vprintf` sends bytes it did not
format); `LongjmpRestores` (half of `esi` comes back from the wrong offset);
`HeapPastRam` (the heap lies beyond the end of memory on small machines);
`LuaTextRight` (positions beyond a `size_t` come round in `posrelat` and
`unpack`; of the length before a string `unpack` sees what a `size_t` holds,
`lstrlib.c:1517`, so that a length of 2^32 or more gives a string as long as its
low 32 bits tell; hexadecimal float numerals are refused, because `lua_strx2number` is
the kernel's `strtod`, though `manual.html:1225` lists `0x0.1E` as valid);
`LuaDataRight` (a numeric `for` with a negative step and a limit that is not a
number runs, `lvm.c:137-141`; `sort` with an invalid order ends or raises;
`os.date` with `%U %W %V %g %G` or any `%O` conversion reaches a `panic` in
`strftime` and stops the kernel). And some suspicions did not come true:
`luaL_newmetatable` registers `LUABOX` before it sets `__gc`, but the table was
created with room for both, so no failure leaks a buffer; `unpack`'s test whether
a string is there comes round for a length just below 2^32 (`lstrlib.c:1518`), but
the string is allocated before a byte is copied, and no heap has room for it
(`luaM_toobig` or `malloc` refuses), so that the call raises another error and
returns nothing from outside the data (`LengthRight`, under the assumption
`PackConstants`: a string and its copy are together shorter than a `size_t` counts.
The allocator's table has at most 2^20 entries of 128 bytes, whatever
`memory_init` is told, which is 128 MiB); a `realloc` that is
refused has already freed the block, so that `resizebox`'s second `free` does
nothing.

## 4. What is proved

`HeapProofs`, for every `MemorySz`, `BlockSize`, `MaxRequest` and set of owners
(`HeapAssumption`: naturals, a positive block size, `NULL` not a number):

* `TypeCorrect`, `TableExact`, `ExtentsDisjoint`, `ContentsKept`: the
  invariants of `heap_tame`. None is inductive alone. `IInv` is their
  conjunction with `Sizes` (an owner holds nothing exactly when its pointer is
  `NULL`): `free` and `realloc` measure a run of equal entries, which is the
  caller's extent only if the table is exact, if extents are disjoint and if
  none is empty (`RunIsExtent`); an extension takes free entries, which are
  nobody's only if the table is exact (`FreeIsUnheld`); the data of the others
  survive only because extents are disjoint. One lemma, `Resized`, carries the
  step for everything that gives an owner an extent; `GrantStep`,
  `InPlaceStep` and `MoveStep` reduce to it.
* `TableImplements`: `TameSpec => Implements`, every step maps to a step of
  `HeapAbstract` or a stutter; the inductive invariant in both states is used.
* `TagsAlwaysPointBack`: an invariant of all calls.

`SerialProofs`, for every size of the rings and every workload
(`SerialAssumption`):

* `TypeCorrect`, `WakeupKept`, `ReadsOrdered`: `TypeOK`, `NoLostWakeup` and
  `ReadsInOrder` are invariants whatever is written and typed. Their inductive
  invariant, `AnyInv`, follows the stack of calls: only the call on top runs,
  every call under it has been interrupted in its polling loop, and a call that
  has filled the ring has started the transmission if the handler will not
  (`Sending`). A lost wakeup would need the handler to find the ring empty
  after the writer found `transmit` set, and the two tests are in one section
  with interrupts off.
* `CharactersInOrder` and `Flushes`: `InOrder` and `FlushedOnReturn`, for
  workloads that are `Honest`: a write is at most half the ring, and so is, all keys
  taken together, what a key prints without one character. The
  hypothesis is what the code needs, not the proof: the test of `serial_write`
  compares the distance of the indices with half the ring, which is wrong once the
  ring has wrapped and holds more, and `serial_long` shows what it then does. In the
  kernel the ring has 1024 places and a key sends nine characters,
  because the count `vsnprintf` returns includes the NUL, so that the bound is
  reached by 64 keys pressed inside one write. `HonestInv` states
  the pipeline: the characters sent, those in the ring from the first index to the
  second, and those still in the frames of the stack are, one after the other, what
  was asked for.

`CmosClock` proves `NeverTorn` for every number of registers and every
`Show` without a return inside a minute (`ClockAssumption`). The invariant orders
what was read: the first reading lies between the round's begin and `middle`,
the second after it and before now, and a round is younger than a minute; equal
contents at both ends then pin the content at `middle`.

`FloppyProofs` proves first `MotorAccounted`, `MotorOffArmed` and `MotorAtSpeed`
for every delay and number of calls. The first two need each other: `motor_off`
arms the timer only if `motstate` is set, which is enough because of `Accounted`;
and the last call of every operation is `motor_off` (`EndsOff`). `Places` says
where `pc` may be and that a reset or select on its way to the port carries a
cleared bit. For `AtSpeed`, `Speed` says that a motor whose `motstate` is set has
had its delay, unless the timer expired during the operation, and that the calls
the operation still has to make find it so: a call that needs the motor and can be
reached before any that starts it (`Demand`) finds it at speed already.

It then proves, for every size of the pool, every set of sectors and any
number of calls of `MCSpec`:

* `DmaIsSound`: buffers in use are the lowest ones as long as they come back
  last in, first out (`Pool`), so that the shifted test refuses none that is free;
  what was written last went to another channel's registers (`Written`); and the
  floppy's channel stays masked (`Masked`).
* `KeepsInStep`: `InStep`, from `StepInv`: the bytes the controller has taken
  of a command and the bytes that the driver has still to send make a whole
  command, in whatever phase a late answer finds the controller, with the shapes of
  the controller's state that keep it from leaving a phase early.
* `FailuresAreToldOfWrites`: `OnlyWritesFail`, from `StepInv` and `XInv`. The
  first half needs only the shape of the request; for the rest the proof follows
  what the driver has still to do. `Arranged` gives the order in which its operations
  stand: what may come before what, what must follow at once, and that a try goes
  from its seek over its command to its judge. With a prompt controller
  (`PromptInv`) the first operation then says what the controller is doing: its
  phase and whether a seek is under way (`Gates`), that the interrupts sensed after
  a seek or a reset are there to be sensed, with the heads' track (`Sensed`), that
  the driver's memory of the track is right or about to be learnt (`Tracked`), which
  command is half sent (`Messages`), that the heads are, or are being sent, where
  the sector is (`Aim`), that the result being read is the answer to the try in
  progress (`Verdict`) and what the call will return (`Outcome`). The theorem
  assumes that every sector asked for lies below track 256 (`l + MaxNum <= 256 * 36`;
  a floppy has 80 tracks): the track is sent as one byte, and a larger one would
  take the heads elsewhere.
* `ShapesKept`: `TypesOK`, under the same assumption. What is not a plain shape in
  it is that at most five interrupts are ever pending in the controller. `Counted`
  balances them against what the driver has still to do: those not yet sensed
  (`Outstanding`) are at most one more than the senses due (`Due`). A seek or
  recalibration adds one to both sides when its last byte is taken, because it is
  sent with nothing else due (`NothingDue`) and its wait is next (`HalfSent`); a
  reset sets off four and senses four; a sense takes one from both sides, unless the
  controller is at a transfer that the driver has given up and the byte is lost,
  which only happens with at most one outstanding (`Elsewhere`). The motor's part
  comes from the invariant of its own proofs.

`LibraryProofs` proves, first, what TLC can only try out on small inputs: that a
fold over a sequence and a function defined from the value before exist, and
what they are at every step (`FoldExists`, `RecursionExists`; existence is
proved by going up to the bound, `Induct`). On this rest three theorems:

* `ScreenShowsLastLines`: `ShowsLastLines`, for every width and height and every
  text (`PrintSpec`: the specification with `CallPrint` as its only step). After
  every character the screen and the list of lines agree (`Shows`): the cursor is
  in the last line, every row is the line it should be, and what is below the
  last line is blank. The case that needs it is the character that fills the last
  row: it wraps and scrolls in one step, `NextLineShows`.
* `CalendarIsRight`: `CalendarRight`, for every call of `CalendarSpec`. `gmtime` and
  `strftime` are asked for every second of the years 1970 to 2105 (`time_t` ends
  in February 2106), `mktime` of 1970 to 2069 (its days, multiplied by 86400,
  leave an `int` after that), or of a month up to 24, before January or long after
  December, with any bytes behind the table. The argument: the reference's count
  of leap years has a closed form (`Leaps`) and so has `mktime`'s sum of months
  (`MonthsBeforeIs`); `gmtime`'s spans of 400, 100 and 4 years and of one come out
  as the year and the day in it, but for the last day of a leap year (`Spans`),
  and before 2001, where C divides towards zero, as a year after the right one
  except on the first of every fourth (`GmtimeBefore`); the month loop stops in
  the month in which the days run out or, since it tests with `<=`, a day too
  late (`LoopStops`), so that the date shown is a name, if not the name, of a
  known day (`GmtimeShows`), from which the round trip follows. A month behind
  the table's end is the sum of what is read there (`SumsGoOn`, `MonthRight`).

`MallocScan` proves `ScanFindsFirstFit` from the loop invariant `LoopInv`, for
every table and length. `HeapLayout` proves `TableStaysBelowHeap` and
`HeapEndsPastRam` for every `mem_upper` of 32 bits: what the size of the table
wraps to (`Sized`, `WrappedSize`) decides where the heap ends, past the end of
memory or before it. `Setjmp` proves `LongjmpKeepsAllButEsi`.

Only model-checked: liveness (`CallsReturn` in three runs), which is out of the
prover's reach, as is `ENABLED`; the interpreter, most of whose modules
use `RECURSIVE` operators, which the prover does not take; and `CString`, `Printf`,
`LuaTable`, `LuaBuffer` and the other Lua libraries of the `library` run. Of the floppy driver only
`CallsReturn` is left.

## 5. Disagreements found

Six runs are expected to end in a counterexample; `PROJECT.json` quotes the
line each contradicts.

* `heap_shrink`: a `realloc` that shrinks clears one wrong entry of the table.
* `heap_refuse`: a `realloc` that finds no room frees the block it was to keep.
* `serial_long`: a write of more than half the ring overwrites a character.
* `serial_wrap`: after the ring has wrapped, `serial_read` returns characters
  that have not arrived. Its one caller, `fread`, is there for `liolib`, which
  the kernel's `Makefile` leaves out, so nothing in the build reads yet.
* `lua_gc_many`: Lua 5.3.4 calls finalizers in the middle of sweeping their list.
  `assert`s being off, the objects left behind, which `markbeingfnz` has marked, stay
  black, and the next cycle takes them for objects it has visited already.
* `lua_goto`: Lua 5.3.4 records a label at the place where the jump of an
  enclosing `if` is emitted afterwards, so that a later `goto` lands on that jump.

The differences that section 3 lists as parts of properties are in the same
sense disagreements, stated exactly and therefore in runs that pass.

## 6. Not modelled

* Interrupt controller, segment and interrupt tables, boot (`arch/pic.c`,
  `arch/gdt.c`, `arch/boot.S`, `src/main.c`): straight-line writes at start-up;
  what they leave behind (IRQ 0 to 4 unmasked) is a constant of the models.
* Stdio shims and the rest of the C library (`src/stdio.c`, `src/math.c`,
  `src/ctype.c`, locale, errno): one call each of a modelled function, or
  floating point. TLA+ has no floats; where Lua's integers meet them
  (`LuaNumber`), exact fractions stand for them.
* `lua/ltm.c`, `ldebug.c`, `ldblib.c`: lookup of a metamethod by name, and the
  wording of messages. Metamethods themselves are left out of `LuaVM`: each is
  a call from an instruction that `LuaVM` has.
* `lua/lstate.c`, `lmem.c`: the one state is never closed
  (so `luaC_freeallobjects` does not run either). `luaM_realloc_`'s second try
  after an emergency collection is a client of `Heap`'s `Fail`, with the
  consequence that `heap_refuse` shows, and is `LuaGc`'s full collection.
* `lmathlib`, `liolib`, `loadlib`, `lbitlib`: not in the kernel
  (`lua/Makefile:35-38`; `LUA_COMPAT_5_2` is not defined, so `lbitlib` is
  empty). `lua.c` and `luac.c` are programs for a host.
* Inside modelled parts: debug hooks, growth of the Lua stack, the C stack's
  limit, long strings and user data (plain objects for the collector), floats,
  `string.format`, line information, the code for more than 2^18 constants.
  The compiler's limits (200 variables, 255 registers) are checked from the
  other side: `CodeFits` says that what is compiled keeps to the registers it
  asks for.

## 7. What could follow

Proofs: the balance of `LuaBuffer`, then `CString`, whose recursion is of the kind
that `LibraryProofs` handles. Models: metamethods in `LuaVM` with the reference
in `LuaMeaning`; stack growth, which moves open upvalues; `luaM_realloc_`
between `Heap` and `LuaGc` as one composition.
