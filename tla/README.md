# NovaPulseOS: models, checks and proofs

This directory holds TLA+ models of the NovaPulseOS kernel (`src/`), the TLC
configurations that check them on small instances, and TLAPS proofs of the
properties that matter most. The models are written from the C and assembly
sources; paths below are relative to `src/src/`.

## 1. The system

NovaPulseOS is a single-threaded x86-64 kernel booted by Limine. `KeStart`
(`kernel/main.c`) initialises each part in order and then loops forever over
`TermUpdate` and `FbUpdate`. The only concurrency is between that thread and
the interrupt handlers, which run on the same processor with interrupts off.
Dynamic memory is served by a bitmap page allocator filled from Limine's memory
map. Input comes from the PS/2 keyboard through IRQ 1, output goes to a back
buffer copied to the framebuffer, and to the serial port.

| Part | Source | State | Operations | What makes it hard |
|------|--------|-------|------------|--------------------|
| Page frame allocator | `arch/x86_64/mm/pfa.c` | `pBitmap`, `bitmapSize`, `lastIdx`, `freePages`, `freeMemory` | `PmInit`, `PmRequest`, `PmFree`, getters | the search may not end; a bit index is compared with a byte count; the free count is never updated |
| Boot memory | `FbInit`, `PmInit` | Limine's memory map, edited in place | carve the back buffer, then the bitmap, then clear the bits of usable pages | alignment and rounding of sizes; an entry that is too small; an uninitialised maximum |
| Heap | `utils/heap.c` | a `Chunk` header in each allocation | `HpAlloc`, `HpFree` | header and payload share pages; sizes near a page; a refused request |
| Interrupt dispatch | `arch/x86_64/tables/idt/idt.c`, `idt.asm`, `cpu/pic.c` | `g_handlers`, the two PICs, IF | `IdtInit`, `PicRemap`, `IrqRegister`, `IrqHandler`, `IsrHandler` | interrupts are on before the handlers are registered; acknowledgement of master and slave |
| Keyboard | `drivers/ps2/kb.c`, `kbMap.h` | `pressed`, `currentCh`, `caps`, `shift` | `KbHandler` (interrupt), `KbGetChar` (main loop) | the two share a one-character slot without masking interrupts |
| Terminal | `utils/term.c` | `buffer[512]`, `bufferIdx`, `c` | `TermInit`, `TermUpdate`, `TermCmdHandler`, `CmdFetch` | line buffer and screen must agree; the buffer's bound |
| Framebuffer | `drivers/fb/framebuffer.c` | `cx`, `cy`, the back buffer | `FbWriteChar`, `FbDrawFillRect`, `FbUpdate`, `FbClear` | the text cursor is not bounded by the screen |
| Boot sequence, log, panic | `kernel/main.c`, `utils/log.c`, `utils/panic.c` | boot position, `fg`, `bg` | `KeStart`, `LogWrite`, `Panic` | the order of the initialisers; a fault between any two characters |
| printf | `libc/printf.c` | none between calls; in a call the output gadget and `buf[32]` | `vprintf`, `vsnprintf`, `vfctprintf` and their variadic forms | flags, width, precision and prefix interact; ends of formats, strings and buffers |
| Serial port | `arch/x86_64/cpu/serial.c` | the UART | `SeInit`, `SeWriteChar`, `SeFSend` | a busy wait; a self-test that does not wait |
| Terminal emulator library | `flanterm/` (compiled in, not called) | parser state, grid, queue, cursor; the static pool | `flanterm_fb_init`, `deinit`, `flanterm_write`, the backend callbacks | escape parser; a map and a queue that must agree; seven allocations that may fail |
| GDT, VMM, string, UBSan stubs, `limine.h` | | constants, or stateless | | |

The parts interact by calls and by shared memory only. `KeStart` calls each
initialiser once; from then on `TermUpdate` takes characters from `KbGetChar`,
draws them with `printf` -> `putchar_` -> `FbWriteChar`, and `FbUpdate` copies
the back buffer out. `LogWrite` and `Panic` print the same way, `SeFSend` gives
the characters of the same formatter to the serial port. `HpAlloc` calls `PmRequest`, `HpFree` calls `PmFree`.
Interrupts enter through the stubs of `idt.asm`, `IrqHandler` and, for line 1,
`KbHandler`, which shares `pressed` and `currentCh` with the main loop. `FbInit`
and `PmInit` edit the same memory map. `flanterm.c` calls the framebuffer
backend through function pointers.

What makes each part correct:

- page frames: no frame has two owners, none is lost, the search misses nothing
  and stays inside the bitmap, and requests are refused or served as they should be;
- boot memory: exactly the usable pages that are not taken become free, and the
  back buffer and the bitmap are not among them;
- heap: each header describes its run until somebody overwrites it, and what is
  freed is what was allocated;
- interrupts: nothing stays in service, handlers are not nested, every latched
  request is served;
- keyboard: characters arrive, in order, looked up as they were typed;
- terminal: buffer, cursor and picture agree, and the command that runs is the
  one typed;
- printf: the text is what the C standard says, and no string is read or
  written behind its end;
- log, panic, serial port: what is printed arrives, whole, in order and in its
  colours, and printing ends;
- flanterm: blocks have one owner and are given back, also when one of them could
  not be had; the first picture is that of the layout; the queued screen shows what a direct one would; the parser always
  returns to its ground state; editing, scrolling and colours do what the
  sequences say.

## 2. The models

A module of one component has its state, one action per operation (or per
instruction where an interrupt may come in between), and its properties at the
end. Operators named as mutants ("Mutant: ...") are variants of the definition
below them with a plausible bug; they are not part of the specification and only
show that a property notices the bug.

### Page frames: PagePool, PageFrames, MCPageFrames, PageFrames_proofs

`PageFrames` models `pfa.c` after `PmInit`. `pBitmap` is the set of set bits;
`lastIdx` and `freePages` are the C variables; `i`, `num`, `asker` are the running
call's locals and its caller. `PmRequest` begins a call, and each iteration of
the loop in `PmFindFree` is a step: `ExtendRun` (clear bit), `NextStart` (set
bit), `WrapAround` (the tail call with `lastIdx = 0`), `GiveUp` (-1), `TakeRun`
(found; `PmRequest` sets the bits). `PmFree` clears bits. The quirks of the code
are kept: `lastIdx`, a bit index, is compared with `bitmapSize`, a byte count,
and nothing updates `freePages`.

`PagePool` says what callers may expect: a request is granted a run nobody holds
or refused, and only a request larger than memory is refused. `PageFrames`
implements it with `pool <- ClearBits` and the starts `0 .. BitmapSize`.

Assumed of the constants: callers free exactly what they were granted, ask for
one page at least (`HpAlloc` does), and a bit at or above `bitmapSize` is set when
`PmInit` is done. `Boot_proofs` proves the last one for any memory map, unless the
pages fill the bitmap.

### Boot memory: BootMemory, MCBootMemory, Boot_proofs

`FbInit`'s cut of the back buffer, then `PmInit` in three phases (size, place,
one entry per step of the marking loop), then the first `LogWrite`, over any
memory map handed in. Addresses are bytes, with small pages and bytes of few
bits. `higherAddr` starts with arbitrary junk, as it is not initialised. A write
through the null `pBackAddr` or `pBitmap` leads to `"faulted"`.

### Heap: Heap, MCHeap, Allocation_proofs

`HpAlloc` and `HpFree` on top of `PagePool` (not of `PageFrames`: that it
implements the pool is what makes this enough). Of memory the model keeps the
`Chunk.pages` word of each live chunk. `FillPayload` lets a caller use all the
bytes it asked for, which for the sizes of the gap (4081 .. 4095 bytes) reaches
into the page behind. Nothing in this commit calls the heap, so callers are
arbitrary, but free what they own and once.

### Interrupts and keyboard: Interrupts, Keyboard, their proofs

`Interrupts` has the two 8259 controllers (external; request and in-service
registers, priorities, cascade, spurious interrupts, non-specific EOI), the gates
of `idt.c`, the path stub -> `IrqHandler` -> handler -> `PicEoi` -> `iretq`, faults
(`IsrHandler` halts), and the order of `KeStart`: `IdtInit`, `PicRemap`, `sti`, `KbInit`.
Whether an interrupt enters is decided as on the processor, by IF and the
controllers alone; what it interrupts, main loop or handler, is put on the stack
`below`, from which `iretq` takes it. That only the main loop is ever there
(`HandlersAreNotNested`) is therefore up to the gates, which clear IF or do not: with trap
gates (the mutant) the model nests, as the kernel would.
`Keyboard` extends it with the keyboard and its controller (external),
`KbHandler`, and `KbGetChar` with a step per memory access, in both orders in
which a build may store `pressed` and load `currentCh` (they are not volatile,
and nothing orders the two). `KbNext` composes the two modules; that the
composition is a behaviour of `Interrupts` is proved. The tables of `kbMap.h`
are abstracted to which of the three is used and whether the entry is '\0'. They
have 90 entries, and make codes go on to 0x7f: for those beyond, the driver reads
what lies behind the table, and the model takes any character or '\0'.

The keyboard puts fake shifts (`e0 2a`, `e0 aa`) around the codes of extended
keys, by the state of its shift keys and num lock when the key goes down or up
(`FakesBefore`, `FakesAfter`). The driver takes them for its shift key. Keys may overlap
in any way: shift may go down while an arrow is held, so that a fake is never taken
back, and `shift` is wrong until the next real one. Num lock is the keyboard's and never
changes, as the driver sends it nothing; right shift reaches the driver as a key
whose entry is '\0'. Each code carries the table that left shift and caps lock call for (`want`) and
whether a fake stands (`spoilt`), so that `LookedUpAsTyped` says exactly when the table is
right: if and only if no fake of left shift is in force. For the second half, a
fake always makes it wrong; the user's caps lock and left shift never do.

### Terminal: Terminal, MCTerminal, Terminal_proofs

`term.c` on top of `FbWriteChar`, `FbDrawFillRect`, `FbSetPix`: the back buffer is a
function of the pixel index, and drawing computes `y * width + x` for any x and y
as the code does, so text that runs off the screen goes where it goes in the
code. Characters are model values, the fixed texts are shortened with their line
breaks kept, colours are reduced to the cursor bar. The model ends when `buffer`
is left (`LeaveBuffer`).

### Console: Printf, PrintfStandard, Console, MCConsole, Boot_proofs

`Printf` models the formatting engine of `printf.c` as it is configured: `Iterate`
is one iteration of `format_string_loop`, `Parse...` its parts in order, the
operators behind them the conversions; numbers are built backwards in a buffer
of `BufferSize` characters as the code does, wrap at their width, and lose what
does not fit. `PrintfStandard` says the same independently, from the C standard
instead of the code: a directive is a record, its text is defined by what must
be in the field. It also says where the two differ (`Deviates`, section 5), and
each of its three cases is needed for the run to pass.

`Console` executes calls of `printf.c` one iteration and one character at a time,
into a buffer (`vsnprintf`), onto the screen (`putchar_` with the colours `fg` and
`bg`), or to the serial port (`SeWriteChar`, whose busy wait is a disabled action).
Its `Programs` are `KeStart`'s messages, other uses of `LogWrite` (`OtherLogs`), and
single calls of `vsnprintf`; the texts are constants. `SeInit` is four steps, as the UART (external: a holding and a shift
register, loopback, the first byte received) moves between them. `IsrHandler` may
come at any step after `IdtInit` and replaces what is left by `Panic`; a fault
inside `Panic` is left out. What `FbWriteChar` draws is `Terminal`'s matter; here the
screen is the sequence of characters given to it.

### Terminal emulator: TextCursor, TextCallbacks, TextScreen, FlantermFb, Flanterm, FlantermInit, their proofs

`TextCursor` has what both views of a screen share: cursor, colours, saved state.
`TextCallbacks` says what each backend callback does to an array of characters;
`TextScreen` is the state machine of those callbacks and of the flush.
`FlantermFb` models `backends/fb.c` with `grid`, `queue`, `map`, the old cursor and
the two ways to draw, and is checked to implement `TextScreen`. `Flanterm` models
`flanterm.c`, every byte of `flanterm_write`, over `TextCallbacks`. So the parser is
checked against what the backend promises, and the backend against the promise.

`FlantermInit` models how terminals are made and unmade: the seven allocations of
`flanterm_fb_init` one by one, from the pool or from the caller's `malloc`, which
may fail, the clean-up at `fail`, `deinit`, the layout (margins, scales, spacing)
and the first picture pixel by pixel (`full_refresh`, `plot_char`), where a pixel
shows a word of the canvas or a bit of a glyph over it. Several terminals share
the pool. Assumed of callers: margins inside the screen, lines of the framebuffer
at least as long as the screen is wide, positive scales, and fonts at least a byte
wide and a pixel high; the code divides and subtracts without a check. Its
specification is called `LifeSpec`, as its proofs are in one module with the heap's.

Bytes and colours are names; `Rgb` stands for all colours that are not of the
two palettes of eight. The values of a sequence are cleared when it ends (the
code leaves them, and never reads them again). No client registers a callback in
this commit, so sequences that only report are ignored. Cursor positions are
integers: the code's truncation to `int` is right for positions below 2^31.

## 3. The runs

`N` is the number of distinct states of the whole state space.

| Run | Instance | N | What it shows |
|-----|----------|---|---------------|
| `pageframes` | 3 bytes of 3 bits, two holes, 3 holders, requests of 1, 2, 3, 5, 7, 8 | 11108 | the allocator is safe, complete and implements the pool; every request for which a run begins at a reachable start is served |
| `pageframes_exhausted` | 2 holders | | finding 1 |
| `bootmemory` | every map of 3 adjacent entries of 3 types and 3 lengths, 3 screen sizes, 2 junk values | 47438 | what becomes free, and when the ends of the buffers are given out again |
| `heap` | 9 frames, 2 holders, sizes 1, 4, 5, 6 with a page of 5 and a header of 4 | 351626 | headers hold until a payload of the gap reaches one |
| `keyboard_race` | 4 key events of 7 kinds, line 1 only, both builds, num lock on and off | 2821425 | races of the handler with `KbGetChar` |
| `irq_keyboard` | lines 1, 8, 12, one edge of each foreign line, 2 key events | 51942 | service, nesting, and the liveness of interrupts and keys |
| `keyboard_deaf` | lines 0, 1 | | finding 2 |
| `terminal` | 6.5 columns, 8.5 lines, a buffer of 4 | 63186 | line, buffer and picture agree |
| `flanterm_fb` | 3 lines of 2 columns, 4 callbacks, flushes anywhere | 263836 | the backend implements `TextScreen` |
| `flanterm` | 3 lines of 4 columns, 3 writes of about 120 kinds, 5 values | 64345 | the parser's flags, cursor, regions, editing, colours |
| `flanterm_init` | 2 terminals, 4 shapes, 3 kinds of allocators, a pool of 307 bytes | 35109 | who owns which block, that blocks fit, and the first picture |
| `console` | 3408 programs; numbers of 2, 4, 6 and 8 bits, a buffer of 5 digits | 58239 | formatting, log and panic, the serial line |

Why these bounds suffice:

- `pageframes`: starts 0 .. 3, one hole below and one above the last start, and
  requests that fit in neither, either and both parts, so that the search wraps,
  gives up, meets both holes and runs to the bitmap's end; 3 holders fragment
  memory. `Nums` includes 8, one more than all usable frames.
- `bootmemory`: lengths 1, 2 and 5 pages give bitmaps that fill their pages and
  that do not; screens of 2, 3 and 5 bytes with pages of 2 are and are not whole
  pages; a bitmap page covers six pages, so that truncation by the division and
  rounding up are both met. The junk value 60 is above every address.
- `heap`: sizes below, in and above the gap, of a page exactly and too large;
  with two chunks, one can be behind the other and be overrun.
- `keyboard_race`: a race has at most one interrupt per instruction, and two key
  events are enough to return one twice; four also give caps and shift around
  them, and let a shift key and an extended key overlap with a character behind
  them: press, press, release, character. `irq_keyboard`: two lines of the slave beside the keyboard, so that
  priorities, cascade and spurious interrupts meet.
- `terminal`: full lines reach the right edge with the cursor bar, and the text
  leaves the screen at the bottom; `MaxHeight` stops one line further.
- `flanterm_fb`: cells that all differ, so that it matters which one is moved;
  two cursor positions a flush must tell apart need two callbacks between two
  flushes, and four callbacks allow change, move, scroll and change again.
- `flanterm`: three writes are a state, a sequence and what follows, and the
  properties about operations are evaluated in each state for every count. The
  screen is wider than high, as screens are: only there can wrapping below the
  scroll region take the cursor's line off the screen.
- `flanterm_init`: shapes with and without a font, with a font wider than a byte,
  scaled with a margin and odd rests, and too small for a character; a pool that
  a second terminal exhausts at the font, the grid, the queue or the canvas,
  depending on the shapes. Two terminals are enough for one to hurt the other.
- `console`: one directive at a time with every set of flags that means something
  to it, widths and precisions below and above the number's length, all lengths
  with values that wrap, and all of `*`; then several directives into buffers of
  0 to 16 characters, and two long formats cut at each of their characters. The
  buffer of 5 holds decimal, octal and hexadecimal numbers of 8 bits with prefix
  or sign, as 32 characters hold those of 64 bits, and as there not all binary
  ones. Messages are shortened, with their conversions kept.

Deadlock is not checked where the program may stop: a halted kernel (`irq_keyboard`,
`keyboard_race`, `keyboard_deaf`), a faulted one and the end of `PmInit`
(`bootmemory`), a search that does not end and a crash (`heap`), the end of the
terminal model, the bound on the writes (`flanterm`), the end of a program
(`console`), and terminals all gone (`flanterm_init`).

### Fairness

- `PageFrames!FairSpec`: weak fairness of the allocator's own steps. The processor
  executes the loop; there is one thread. Nothing makes a caller call or free.
- `Keyboard!KbFairSpec`: weak fairness of boot, of the stubs and of the handler
  (the processor executes instructions with interrupts off), strong fairness of
  `KbGetChar`'s steps (the main loop runs whenever no interrupt is handled, which
  is again and again) and of taking each request (a request that is the most
  urgent again and again is taken; a spurious interrupt may come first). Keys,
  foreign edges and faults are not fair: they need not happen.
- `Console!FairSpec`: weak fairness of the kernel's steps (`KernelRuns`, the
  definition of WF with `ENABLED Kernel` written out as `KernelCanMove`, because TLC
  takes very long to evaluate ENABLED of a formatting step) and of `UartShift`: a
  UART with a byte to send sends it, or the wait in `SeWriteChar` cannot end.

## 4. What is proved

By TLAPS, for all values of the constants under the named assumptions, and with
no bound on the number of steps. The assumptions are those of sizes
(`SizesAssumption`, `LinesAssumption`, `KeyboardAssumption`, `LayoutAssumption` of
`Heap`, `UnitsAssumption`, `ScreenAssumption`, `FlantermAssumption`, the numbers in
`FramesAssumption`, the sizes and types in `InitAssumption`), and these, which say something of the callers, of the tables
or of the boot loader: `UsableAssumption` and
`CallersAssumption` (see `PageFrames`), `MapsAssumption` and `LayoutAssumption` of
`BootMemory` (usable entries begin and end with a page, and usable and reclaimable
entries do not overlap; the boot protocol promises both), `CallbacksAssumption`
(what flanterm.c passes to the backend has the right types), `BytesAssumption`
(writes are sequences of bytes, every code point that a leading byte begins has a
glyph or a width, and the screen shows something at the start),
`InitAssumption` (the shapes that `FlantermInit` is called with, see there; and
"none" is no terminal), and
`TextsAssumption` (the terminal's fixed texts have no backspace, those that a prompt
follows end with a line break, as in `term.c:79`, `120` and, for an unknown command, `47`;
the command's name can be typed, no key is the character '\0', and the value that
stands for a pixel of the bar is no character), and `MessagesAssumption` (of `Console`:
formatting a message that has directives only adds text to what is there, and comes in
the end to the text that `PrintfStandard` says; the byte 0xAE that `SeInit` tests the
port with is no character of a message. `Formatting` is the set of states that
`printf`'s loop goes through over these messages, each with the whole text. The run
computes it from `Iterate`, and so checks this for its texts. It is the one thing the
theorems about `Console` take from `PrintsWhatTheStandardSays`; of messages without
directives, all of `KeStart`'s on the screen but for the status, it is proved).

`PageFrames_proofs`. The inductive invariant `IInv` joins the types, exclusive
ownership, `BitmapAccountsForFrames`, `RunSoFarIsClear` (the `i` bits from `lastIdx`
on are clear, `i` does not pass `num`), that `freePages` is still the boot count, and
that the asker has no run yet. Exclusive ownership alone is not inductive: that
`TakeRun` takes clear bits only is what `RunSoFarIsClear` says, and that clear bits
belong to nobody is what `BitmapAccountsForFrames` says.
`ScanStaysInside` uses the assumption about the hole: a run of clear bits that
begins at or below `bitmapSize` ends below it, so the next bit read exists
(`RunStaysInside`). `RefusalsAreDue` follows from `freePages` being the boot count.
`SearchIsComplete` needs its own induction: a start is passed over when a set bit
is found within the run, and bits do not change during a call. `Implements`
maps every step to a step of `PagePool` or a stutter.

`Keyboard_proofs`. Of the interrupts alone: `ServiceMatches`, `HandlersAreNotNested` and the types are
inductive only together, with `OneContext`: as long as the main loop runs nothing is
suspended, and as long as a handler runs exactly the main loop is and IF is off, since the
gate cleared it and only `iretq` brings it back, with the main loop. `Enter` looks at IF,
not at what runs, so that this is where nesting is excluded; and a line that enters
finds nothing in service. So in a handler at most its own line is, on the
slave and as the cascade on the master, and the two ends of interrupt clear
exactly that (`EndedLeavesNothing`), also when it was spurious. This holds for
any set of lines and any number of edges.

Every step of the composed keyboard system is a step of
`Interrupts` or leaves its variables alone, so both theorems hold with the
keyboard running (`KeyboardIsServed`). Three more are about the race of the handler
with `KbGetChar`, for any number of keys and either build. `HandlerAlwaysFindsCode`:
from `sti` on, an edge of line 1 that is latched or being served stands for a code
that waits, and no second one is latched before the first is read (`EdgeMeansCode`). `KeysAreDeliveredInOrder`: `OrderInv` says where the
last characters are, typed, in the slot, loaded, or returned (`CharsWaitInOrder`), and
what a return in progress may still repeat, which differs between the two builds
(`ReturnedStoringFirst`, `ReturnedLoadingFirst`). `CharactersAreLookedUpAsTyped`: the
codes that wait lead from the driver's `shift` and `caps` to the state of the
user's keys, with the fakes in force taken for left shift (`TablesInv`; `Runs` and
`Along` say what a sequence of codes leads to). Both directions follow, for any
keys in any overlap: a fake in force is one `shift` has the wrong value for.

`Allocation_proofs`, of `Heap`. An invariant of the heap as such would be false: payloads reach
headers. `IInv` therefore speaks about the time before the first overrun: every live
chunk's magic and `Chunk.pages` are what `HpAlloc` wrote, its pages are owned by
nobody else, and a request waiting for the pool is the one for its size. Exclusive
ownership is what keeps one chunk's header from being another's
payload; it comes back from `HpFree` only because the header still has the right
number of pages, so the two are inductive only together. `PoolIsUsedProperly` adds
that each step of the heap takes and returns exactly what was granted.
`FramesAssumption` says that the pool's frames and starts are numbers.

`Allocation_proofs`, of `FlantermInit`: its three invariants, for any number of
terminals and shapes and any pool. None is inductive: that blocks lie apart does
not say where the next one goes. `LifeIInv` says it, in five parts. `LifeTypeOK`;
`OneIsMade`: at most one call runs, for `now`; `RecordFits`: a terminal's blocks are
the fields' in their order, each of the size its shape asks for (what `Free` computes
again, from a context that must still be there), and a live terminal's picture is
the one `full_refresh` draws; `PoolIsTiled`: each byte of the pool below
`bump_alloc_ptr`, and none above, belongs to one block of a terminal that has not
failed, and without the terminal that is being made the same holds up to `orig`,
which is what makes it right to reset the pool to `orig` when the call fails;
`HeapIsOwned`: each block of the caller is one terminal's, in one place, or lost,
with addresses below the counter from which the next is taken. The clean-up is a
fold over the fields, `FreeIs` its result in either order. `LifeBlocksFit` follows
with the arithmetic of the layout (`LayoutFacts`, `SizeFacts`).
`LifeMemoryIsAccountedFor` needs that a sum over a set of blocks that lie apart is
the number of their bytes (`FoldSumsUp`), since `bump_alloc_ptr` is that number.
`LifeFirstPictureIsExact` follows the drawing of the grid from cell to cell
(`PlotCharIs`, `RefreshRun`): the cells drawn so far show their glyphs, the rest the
canvas; that no cell draws into another or past the right end of a line is
`CellsTileTheText`, where margins and scales matter.

`Boot_proofs`, of `BootMemory`. The bits cleared are those of pages below `higherAddr`,
because usable entries end at or below it (`IsSized`, kept when `FbInit` and `PmInit`
cut the front off an entry: `CutFacts`) and end with a page (`MapsAssumption`; the
boot protocol promises it, and `PageBelow` needs it). What remains is arithmetic of
the two divisions and the rounding for arbitrary page sizes, in `DivBelow` and
`AlignUpFacts`. `HoleIsLeft` establishes, for every memory map, what
`UsableAssumption` takes for granted in `PageFrames`; the exception is a machine
whose pages fill the bitmap to its last bit (`Fills`).

`BuffersStayKept` and `FreePagesAreExact` are about the bits themselves. What is left
of an entry of the memory map is that entry without the buffers that were cut from
its front, and its end is unchanged (`MemoryIsKept`). So what the marking loop sees
is the map without the two buffers, and as entries do not overlap, the bits it has
cleared so far are the pages of the entries seen so far, each counted once
(`MarkedSoFar`; `LoopClearsPages` and `PagesAreInterval` are the arithmetic of one
entry).

`Boot_proofs`, of `Console`'s serial port. `LineCarriesTheText` is not inductive: it says
nothing of what is in the UART while `SeInit` runs, and a byte that leaves in
the wrong mode would break it. `SerialIInv` adds what keeps that from happening.
`UartIsAt`: the UART holds at most two bytes, is in loopback in the last two stages of
`SeInit` and after a failed test only, and the test byte is in it as the last byte
of the test only, at most one message byte before it. So the test byte
is read back only when the UART is empty, that is, a test that succeeds leaves
nothing behind that the line would carry afterwards; this is where messages must not
contain it. `InSeInitAlone`: nothing is sent meanwhile, except that a fault may stop
`SeInit` at any stage, and `SendsMessages`: after a fault nothing is sent at all.
`LineHolds` is the property with the stages told apart: programming the port may drop what the
UART holds, two bytes at most, and loopback swallows what is left (`SetupKeepsSerial`,
`LoopbackKeepsSerial`). `ShiftKeepsSerial` moves a byte from the UART to the line
between any two steps, which changes neither side of `line \o uart.fifo`.

The second half of `Boot_proofs` is about the screen. `ShowsLogAndPanic` says nothing of
what a program still has to do, nor of the colours it will do it in; `ShowIInv` does. A
program leads through a sequence of views (colours, back and front buffer), one behind
each of its steps (`Run`, `Leads`), and the kernel is at one of them, or part of the way
through a message that leads to the next (`IsAt`, `Saying`). So the back buffer is at
any time a beginning of the program's last view (`OnTheWay`), whatever step is next. That
`KeStart` and the other logs lead from a blank screen to what they are meant to show
is `KeStartLeads` and `OtherLogsLead`, put together from `LogLeads`: a line of the log begins
and ends in white, which is where `FtResetFg` in `LogWrite` is needed. A fault
replaces the program by Panic's seven steps, begun on the view it interrupted, in the
middle of a message or in a status colour (`FaultShows`); `PanicLeads` holds from every
view, as `Panic` sets both colours before it prints and copies the screen behind the
message. The texts `LogWrite` and `Panic` add themselves, literals and one `%s`, are
not assumed but computed from `PrintfStandard` (`LiteralIsPrinted`, `StringIsPrinted`).
Nor is what `printf` does with a text that has no directives, of any length: the text
is its own format (`CharsAreSpelled`), the standard prints it as it is
(`CharsArePrinted`), and so does the loop, one character in each round and no more
rounds than characters (`CopyGoesOn`). `RenderingIs` puts this together with what is
assumed of the other messages.

`FoldFacts`. The models fold over sequences and sets, and the library has no facts
about `FoldLeft` and `MapThenFoldSet`. Their definitions are recursive functions,
not RECURSIVE operators, so facts can be derived: a fold has a run, the sequence of
its intermediate values (`FoldRun`), and what each step preserves, its end has.
Induction is done with sets of numbers, as theorems with operator parameters
cannot be used.

`FlantermFb_proofs`. `QueueNeverOverflows` proves `QueueAndMapAgree`: the queue has no
more items than the grid has cells, because an item is appended for a cell only
that the map does not have, and map and queue are inverse to each other. This is
what keeps `push_to_queue` inside its array, for any size of the screen. For
`DrawnIsOnScreen`, `GridShown` says that the screen shows the grid in all cells but
that of the old cursor, which may show it inverted; the two ways to draw in a
flush keep it (`Drawing` is the invariant of the flush's loop over the queue).
`BackendImplementsTextScreen` is the refinement: every callback and every flush
maps to the same one of `TextScreen`, where the abstract cells are those of the grid
with the queue written over it. Scrolling is the hard case, as it pushes cells that
may be queued already.

`Terminal_proofs`. `BufferHoldsTheLine`: `bufferIdx` counts exactly what has been typed and
not erased, with the cleared rest of the buffer behind it (`BufferInv`).
`TheNamedCommandRuns`: `strcmp` over the zero-terminated buffer, read as the code does,
is 0 exactly if the line is the command's name (`CStringIsLine`, `StrcmpTellsApart`), also
when one continues the other. `TextAboveStays`, an action property,
needs that the cursor is never left of the first character after the prompt and
the typed line (`DInv`), since a backspace draws to the left of the cursor; and that
a `printf` draws from its line on downwards, which is an induction over its
characters (`PrintfFacts`). `TheLineIsShown` needs the whole picture (`Pic`): where each
pixel of each character is, that the bar's pixels are exactly those of its cell, and that
nothing is drawn behind the cursor or below its line. This is kept through every
character (`CharPic`, `BreakPic`, `BackPic`), through the bar (`BarPic`) and, by
induction, through every text (`TextIsNeat`), but only on the screen: a drawing that has
run over the right edge shows the end of a line in the next. So `LineInv` has the picture
under the condition that this has not happened, which can be used backwards, because
what has run over never comes back (`FineBefore`). That a prompt stands alone on its line
needs the line break before it (`PromptPic`, `AnswerEnds`). The number of the bar's pixels
is a bijection (`BarSize`).

`Flanterm_proofs`. The types of the terminal, the flags of its parser and its colours are
inductive only together (`Good`): a byte that ends a sequence executes it, executing
it depends on the values collected, and those on the flags. `Good` is `State`, the
types of all fields, and `Sound`: the scroll region has two lines or is the whole screen,
and the cursor is at most one column behind the line (`Region`, `Steady`); the colours
follow the attributes (`ColoursFollow`), and so do the saved ones (`SavedFollow`),
since restoring brings them back; scrolling is on again between bytes; and the
parser's flags fit together, with room for the value that is being read, and
with a code point that has a glyph or a width as long as bytes of it are due (`Reading`).
A write is a fold over its bytes (`WriteRun`), a byte
that ends a sequence runs a callback or several, and those, too, are folds:
over the spaces of an erasure, the characters of an insertion, the values of
graphic renditions. What a callback may change is said once (`Drawn`, `Placed`: picture and
cursor; `Executed`: what a control sequence may; `Tinted`: what graphic renditions
may), so that each of some forty sequences needs a few lines. `TypeCorrect`,
`OneSequence` and `ColoursFollowTheAttributes` are parts of `Good`. `CursorStays` and
`ScrollingStays` hold for each state in `Good`, by the arithmetic of the
clamps and of cells and lines (`LineOf`). `EditingExact` says for every size of
the screen and every count up to the rest of the line (for insertion, every count)
what `control_sequence_parse` leaves in each cell: `SpacesErase` follows the spaces from cell to cell, over the ends of lines
for ED; `InsertStep` and `DeleteStep` are the invariants of the loops that move characters,
the cells moved so far shifted and the others untouched, which is
where the order of the moves matters.

While proving, two weak spots of the checked instance came up and were mended: with
as many lines as columns it hid that wrapping below the scroll region can take the
cursor off the screen (`fb.c:446` limits the line by `cols`), and the model did not tell
colours of the palette that are chosen directly from those chosen by 30 .. 37.

Model-checked only: all liveness (`ServedWhenItFits`, `DevicesAreServed`,
`LastCharArrives`, `EverythingIsPrinted`), as liveness under fairness and ENABLED are
beyond the prover; and two invariants of `Console`, which speak of what `Printf` computes
for every format (`PrintsWhatTheStandardSays`, `ReadsStayInStrings`). What `Iterate` computes over a format is an induction over data whose facts
would be theorems with operator parameters, which none of the provers can use.

## 5. Findings

Each has a run in which TLC finds the violation.

1. `pageframes_exhausted`: `pfa.c:105` means to answer a request that cannot be met
   with -1, but the decision at line 84 uses the count of boot time: with memory
   handed out, `PmFindFree` starts over for ever.
2. `keyboard_deaf`: `main.c:98` logs "Keyboard Initialised.", but when the interrupt
   of a key comes between `sti` (line 89) and `KbInit`, `IrqHandler` finds no handler
   (`idt.c:88`) and acknowledges it without the code being read, and as the line is edge
   triggered no later key arrives. (A key pressed before `PicRemap` has the same effect in
   another way: initialising the controller clears its edge. The property leaves
   that case out, so that the run shows this one.)

The same count misleads elsewhere: `term.c:115` prints it as "Free Physical
Pages: " whatever is allocated, and `heap.c:11` refuses sizes "greater than free
memory" but compares with the highest usable address, so that a size larger than
all free memory passes.

Behaviours the models show and no text of the repository contradicts: a payload
of 4089 .. 4095 bytes overwrites the next chunk's page count; sizes from a page
on take 4096 times the pages; a screen that is not a whole number of pages
shares its last page with an allocation; some memory sizes clear bits behind the
bitmap; a key may be returned twice, or be dropped by a build that loads first; an extended
key held or released together with shift, or with num lock on, leaves `shift` wrong
for the characters typed meanwhile, or until the next real left shift; right shift does
not shift; a key whose code is above 0x59 reads behind the tables; text
past the last line is drawn behind the back buffer. On the console: `SeInit` may
fail on a working port, as it reads the test byte back without waiting; it then
returns 1 with the port in loopback, `KeStart` ignores this, and everything sent
later is lost. `printf` takes a negative precision given by `*` as 0, cuts binary
numbers of more than 32 characters on the left, and prints `%#.<n>b` of 0 with a
prefix; a format that ends in a flag or a digit of an unfinished directive is
read behind its end, and `%.<n>s` looks at one character behind an array of n
characters without a terminator, and `%.0s` and `%.s` at all of them and on to the next zero,
as line 1284 takes a precision of 0 for none. In flanterm: ESC [ 1 K leaves the cursor's
cell alone, where console_codes(4), which `flanterm.c:33` names, erases it, as
ESC [ 1 J does (`EditingIsExact` has this exception, `ErasedBut`, and is the code's
behaviour there, not the manual's); SGR 38 and 48 with a colour above 255 read behind `col256`
(line 371), and the model takes what is there for some colour; when a
caller's `malloc` fails at once and there is a `free`, the clean-up reads through
a null context; without a `free` the blocks are lost; blocks from the pool are
never given back; CAN does
not clear `dec_private`; the byte after 0x9b is taken as the introducer, whatever
it is; EL and ED behind a full line erase on the next line; DCH with a count
above the rest of the line erases to the left, and ECH with one erases on the lines below
(`EditingIsExact` does not cover these); CUD from the line below the scroll
region moves up into it; SGR 38 and 48 ignore reverse video, and SGR 1 and 22 under
reverse video set the background default when no colour was chosen; RIS
resets reverse video without swapping the colours back; restoring a state that
was never saved gives black on black; insert mode moves the line also for bytes
that print nothing; `fb.c:446` limits the line by `cols` instead of `rows`: on a
screen wider than high, wrapping below a scroll region that ends above the last
line takes the cursor below the screen, up to line `cols - 1`, where what is
printed is lost; on a higher one it stops above the last line.

## 6. What is not modelled

- GDT, VMM, UBSan stubs, `limine.h`: constants, a map never filled in, empty handlers.
- Of `printf.c`: the floating point conversions, which lines 82 and 87 switch off.
- `string.c`: `strlen` and `strcmp` are in `Terminal`; the memory functions are not
  modelled yet.
- Of `backends/fb.c`: the bits of fonts (`FlantermInit` says which bit a pixel
  shows, not its value), palettes given by the caller, and `full_refresh` outside
  of the initialisation.
- Of `idt.asm`: the saving of registers. Of `framebuffer.c`: `FbClear`, which
  nothing calls. `SeSend` is not called either.
- The boot loader's own use of reclaimable memory, and framebuffers whose pitch
  is not four times their width.

## 7. How to run

In this directory, with the TLA+ tools and the community modules:

    tlc -config PageFrames.cfg MCPageFrames
    tlc -config BootMemory.cfg MCBootMemory
    tlc -config Heap.cfg MCHeap
    tlc -config Keyboard_race.cfg Keyboard
    tlc -config Keyboard_live.cfg Keyboard
    tlc -config Terminal.cfg MCTerminal
    tlc -config FlantermFb.cfg MCFlantermFb
    tlc -config Flanterm.cfg MCFlanterm
    tlc -config FlantermInit.cfg MCFlantermInit
    tlc -config Console.cfg MCConsole
    tlapm PageFrames_proofs.tla
    tlapm Keyboard_proofs.tla
    tlapm Allocation_proofs.tla
    tlapm Boot_proofs.tla
    tlapm FoldFacts.tla
    tlapm FlantermFb_proofs.tla
    tlapm Terminal_proofs.tla
    tlapm Flanterm_proofs.tla

`PROJECT.json` lists runs, mutants, the map from definitions to source lines,
hazards, findings and theorems.

## 8. Plan

The order is that of importance: memory ownership first, then concurrency,
then what the user sees, then the library. Everything above is done. Next:

1. Model
   - `memcpy`, `memmove`, `memset` and `memcmp` of `string.c`, over all small
     overlapping ranges, inside a module that uses them (`FbUpdate`, the back buffer).
   - a composition of `PageFrames` and `Heap`, which tests the step from the pool
     to the real allocator together with the header words.
   - a client callback of flanterm, once something registers one.
2. Prove
   - `MessagesAssumption` for the directives that the messages have, `%s` first: `Parse` finds
     it in one step, as it has no flags, width or precision.
