------------------------------ MODULE Console -------------------------------
(***************************************************************************)
(* What the kernel says: KeStart's messages through LogWrite and SeFSend,  *)
(* and IsrHandler's through Panic, each a call of printf.c whose           *)
(* characters go to the screen, to the serial port or to a buffer.         *)
(*                                                                         *)
(* A program is what KeStart has left to do, as a sequence of steps; a     *)
(* call of printf runs one iteration of its loop and one character at a    *)
(* time, and the UART (external) moves bytes meanwhile.  A fault may       *)
(* come between any two steps once IdtInit is done.  The screen is the     *)
(* sequence of characters given to FbWriteChar with their colours; what    *)
(* FbWriteChar draws is modelled in Terminal.                              *)
(***************************************************************************)
EXTENDS PrintfStandard

CONSTANTS
  Texts,      \* the messages, by name: [items, args] for printf
  Calls,      \* single calls of vsnprintf, as steps
  BufferRoom, \* the bytes looked at of a buffer given to vsnprintf
  Ascii,      \* the characters of messages
  Formatting  \* [loop, text]: printf's loop on the way to a message's text

Colors == [Good |-> "lightGreen", Info |-> "lightBlue", Bad |-> "lightRed"]
StatusMsg == [Good |-> <<"G", "O", "O", "D">>, Info |-> <<"I", "N", "F", "O">>,
              Bad |-> <<"B", "A", "D", " ">>]
White == "white"
Black == "black"       \* 0x00000000 on the screen
TestByte == "0xAE"

VARIABLES
  todo,       \* steps left
  call,       \* the running call of printf.c, or NoCall
  fg, bg,     \* the colours putchar_ passes on
  screen,     \* the back buffer: <<character, fg, bg>> in order
  front,      \* what FbUpdate copied of it
  idt,        \* IdtInit is done
  uart,       \* [fifo, loop, rx]: bytes to send, loopback, the byte received
  se,         \* where SeInit is, and what it returned
  line,       \* the bytes that left the serial port
  sent,       \* history: the bytes SeWriteChar wrote
  mark,       \* history: their number when SeInit began, or -1
  fault,      \* history: the length of screen when a fault came, or -1
  last,       \* history: the last call of vsnprintf and its result
  shows       \* what the program is meant to show on the screen

screenVars == <<fg, bg, screen, front>>
serialVars == <<uart, se, line, sent, mark>>
consoleVars == <<todo, call, screenVars, idt, serialVars, fault, last, shows>>

NoCall == [to |-> "nowhere"]
NoResult == [max |-> -1]

-----------------------------------------------------------------------------
(* Steps *)

PrintStep(to, max, items, args, cut) ==
  [op |-> "print", to |-> to, max |-> max, items |-> items, args |-> args,
   cut |-> cut]
PrintText(to, t) == PrintStep(to, BufferRoom, t.items, t.args, 0)
Literal(text) == [items |-> Chars(text), args |-> <<>>]
Fg(color) == [op |-> "fg", color |-> color]
Bg(color) == [op |-> "bg", color |-> color]
Do(op) == [op |-> op]

StringDirective == Directive(<<>>, <<>>, <<>>, <<>>, "s")
CString(chars) == [chars |-> chars, terminated |-> TRUE]

\* Mutant: the colour is not reset behind the status.
LogWriteKeepsColor(status, t) ==
  <<PrintText("screen", Literal(<<"[", " ">>)),
    Fg(Colors[status]),
    PrintText("screen", [items |-> <<StringDirective>>,
                         args |-> <<CString(StatusMsg[status])>>]),
    PrintText("screen", Literal(<<" ", "]", " ">>)),
    PrintText("screen", t)>>

LogWrite(status, t) ==
  <<PrintText("screen", Literal(<<"[", " ">>)),
    Fg(Colors[status]),
    PrintText("screen", [items |-> <<StringDirective>>,
                         args |-> <<CString(StatusMsg[status])>>]),
    Fg(White),
    PrintText("screen", Literal(<<" ", "]", " ">>)),
    PrintText("screen", t)>>

PanicPrefix == <<":", "C", " ", "P", "A", "N", "I", "C", ":", " ">>

Panic(t) ==
  <<Fg(Black), Bg("lightRed"), PrintText("screen", Literal(PanicPrefix)),
    PrintText("screen", t), Do("update"), Fg(White), Bg(Black)>>

SeFSend(t) == <<PrintText("com1", t)>>

\* The messages of PmInit, KeStart and TermInit's font size.
KeStart ==
  SeFSend(Texts["memory"])
    \o LogWrite("Good", Texts["gdt"]) \o LogWrite("Good", Texts["pmm"])
    \o <<Do("idt")>> \o LogWrite("Good", Texts["idt"])
    \o LogWrite("Good", Texts["pic"])
    \o <<Do("serial")>> \o LogWrite("Good", Texts["serial"])
    \o LogWrite("Good", Texts["vmm"]) \o LogWrite("Good", Texts["kb"])
    \o SeFSend(Texts["size"]) \o <<Do("update")>>

\* LogWrite's other uses.
OtherLogs ==
  LogWrite("Info", Texts["info"]) \o LogWrite("Bad", Texts["bad"]) \o <<Do("update")>>

\* What the screen shows of a text, of a message and of a log's line.
Cells(text, f, b) == [j \in DOMAIN text |-> <<text[j], f, b>>]
TextOf(t) == Printed(t.items, t.args).text
LogShows(status, t) ==
  Cells(<<"[", " ">>, White, Black)
    \o Cells(StatusMsg[status], Colors[status], Black)
    \o Cells(<<" ", "]", " ">> \o TextOf(t), White, Black)

Programs ==
  {[steps |-> KeStart,
    shows |-> LogShows("Good", Texts["gdt"]) \o LogShows("Good", Texts["pmm"])
                \o LogShows("Good", Texts["idt"]) \o LogShows("Good", Texts["pic"])
                \o LogShows("Good", Texts["serial"])
                \o LogShows("Good", Texts["vmm"]) \o LogShows("Good", Texts["kb"])],
   [steps |-> OtherLogs,
    shows |-> LogShows("Info", Texts["info"]) \o LogShows("Bad", Texts["bad"])]}
  \cup {[steps |-> <<s>>, shows |-> <<>>] : s \in Calls}

\* printf's loop at the start of step s.
Begun(s) ==
  LET format == Spell(s.items)
  IN  NewCall(SubSeq(format, 1, Len(format) - s.cut), s.args)

Messages ==
  {s \in ToSet(KeStart) \cup ToSet(OtherLogs) \cup ToSet(Panic(Texts["panic"])) :
     s.op = "print"}

\* s prints a text that has no directives.
Plain(s) == s.cut = 0 /\ s.items \in Seq({Char(ch) : ch \in Ascii \ {"%"}})

\* Messages with directives are formatted as the standard says, character by
\* character, and the byte SeInit tests the port with is no character.
ASSUME MessagesAssumption ==
  /\ \A s \in Calls : s.op = "print" /\ s.to = "buffer"
  /\ \A s \in Messages :
       Plain(s) \/ [loop |-> Begun(s), text |-> TextOf(s)] \in Formatting
  /\ \A m \in Formatting :
       /\ {m.loop.text, m.text} \subseteq Seq(Ascii) /\ IsPrefix(m.loop.text, m.text)
       /\ IF Finished(m.loop) THEN m.loop.text = m.text
          ELSE /\ [loop |-> Iterate(m.loop), text |-> m.text] \in Formatting
               /\ Len(m.loop.text) <= Len(Iterate(m.loop).text)
  /\ TestByte \notin Ascii

ConsoleInit ==
  /\ \E p \in Programs : todo = p.steps /\ shows = p.shows
  /\ call = NoCall
  /\ fg = White /\ bg = Black
  /\ screen = <<>> /\ front = <<>>
  /\ idt = FALSE
  /\ uart = [fifo |-> <<>>, loop |-> FALSE, rx |-> Nul]
  /\ se = "no" /\ line = <<>> /\ sent = <<>> /\ mark = -1
  /\ fault = -1 /\ last = NoResult

\* The kernel's next step is op.
Step(op) ==
  /\ call = NoCall
  /\ todo # <<>> /\ Head(todo).op = op

Done == todo' = Tail(todo) /\ UNCHANGED <<call, fault, last, shows>>

FtSetFg ==
  /\ Step("fg") /\ Done
  /\ fg' = Head(todo).color
  /\ UNCHANGED <<bg, screen, front, idt, serialVars>>

FtSetBg ==
  /\ Step("bg") /\ Done
  /\ bg' = Head(todo).color
  /\ UNCHANGED <<fg, screen, front, idt, serialVars>>

FbUpdate ==
  /\ Step("update") /\ Done
  /\ front' = screen
  /\ UNCHANGED <<fg, bg, screen, idt, serialVars>>

IdtInit ==
  /\ Step("idt") /\ Done
  /\ idt' = TRUE
  /\ UNCHANGED <<screenVars, serialVars>>

-----------------------------------------------------------------------------
(* A call of vprintf, vfctprintf or vsnprintf *)

\* The output gadget: max is max_chars of a buffer.
Call ==
  /\ Step("print")
  /\ LET s == Head(todo)
     IN  call' = [to |-> s.to, max |-> s.max, loop |-> Begun(s), put |-> 0, step |-> s,
                  buffer |-> [j \in 0 .. BufferRoom |-> "untouched"]]
  /\ todo' = Tail(todo)
  /\ UNCHANGED <<screenVars, idt, serialVars, fault, last, shows>>

Calling == call # NoCall
AllPut == call.put = Len(call.loop.text)

FormatStringLoop ==
  /\ Calling /\ AllPut /\ ~Finished(call.loop)
  /\ call' = [call EXCEPT !.loop = Iterate(@)]
  /\ UNCHANGED <<todo, screenVars, idt, serialVars, fault, last, shows>>

\* putchar_via_gadget counts every character of the text.
PutNext(to) ==
  /\ Calling /\ ~AllPut /\ call.to = to
  /\ UNCHANGED <<todo, fg, bg, front, idt, fault, last, shows>>
NextChar == call.loop.text[call.put + 1]

PutScreen ==
  /\ PutNext("screen")
  /\ screen' = Append(screen, <<NextChar, fg, bg>>)
  /\ call' = [call EXCEPT !.put = @ + 1]
  /\ UNCHANGED serialVars

PutBuffer ==
  /\ PutNext("buffer")
  /\ call' = [call EXCEPT !.put = @ + 1,
                !.buffer = IF call.put < call.max
                           THEN [@ EXCEPT ![call.put] = NextChar] ELSE @]
  /\ UNCHANGED <<screen, serialVars>>

\* A byte written while the holding register is full replaces the one in it.
Outb(fifo, b) == IF Len(fifo) < 2 THEN Append(fifo, b) ELSE <<fifo[1], b>>

\* Mutant: the bit is tested the other way round.
SeIsBusFull == Len(uart.fifo) = 2

\* Bit 5 of the line status: the holding register is empty, whatever the
\* shift register still sends.
SeIsBusEmpty == Len(uart.fifo) < 2

\* Mutant: SeWriteChar does not wait.
SeWriteCharAtOnce ==
  /\ PutNext("com1")
  /\ uart' = [uart EXCEPT !.fifo = Outb(@, NextChar)]
  /\ sent' = Append(sent, NextChar)
  /\ call' = [call EXCEPT !.put = @ + 1]
  /\ UNCHANGED <<screen, se, line, mark>>

\* One round of the busy wait finds it empty.
SeWriteChar ==
  /\ PutNext("com1")
  /\ SeIsBusEmpty
  /\ uart' = [uart EXCEPT !.fifo = Outb(@, NextChar)]
  /\ sent' = Append(sent, NextChar)
  /\ call' = [call EXCEPT !.put = @ + 1]
  /\ UNCHANGED <<screen, se, line, mark>>

\* append_termination_with_gadget
Terminate(c) ==
  IF c.to # "buffer" \/ c.max = 0 THEN c.buffer
  ELSE [c.buffer EXCEPT ![Smaller(Len(c.loop.text), c.max - 1)] = Nul]

Return ==
  /\ Calling /\ AllPut /\ Finished(call.loop)
  /\ call' = NoCall
  /\ last' = IF call.to = "buffer"
             THEN [max |-> call.max, step |-> call.step, loop |-> call.loop,
                   buffer |-> Terminate(call), returned |-> call.put]
             ELSE last
  /\ UNCHANGED <<todo, screenVars, idt, serialVars, fault, shows>>

Printf == Call \/ FormatStringLoop \/ PutScreen \/ PutBuffer \/ SeWriteChar \/ Return

-----------------------------------------------------------------------------
(* SeInit *)

InSeInit(at, then) ==
  /\ Step("serial") /\ se = at /\ se' = then
  /\ UNCHANGED <<call, screenVars, idt, line, sent, fault, last, shows>>

\* The port is programmed: its queues are emptied, and a byte being shifted
\* out may be spoilt by the new speed.
SeSetup ==
  /\ InSeInit("no", "set")
  /\ \E kept \in {<<>>, SubSeq(uart.fifo, 1, Smaller(1, Len(uart.fifo)))} :
       uart' = [fifo |-> kept, loop |-> FALSE, rx |-> Nul]
  /\ mark' = Len(sent)
  /\ UNCHANGED todo

SeLoopback ==
  /\ InSeInit("set", "loop")
  /\ uart' = [uart EXCEPT !.loop = TRUE]
  /\ UNCHANGED <<todo, mark>>

SeTest ==
  /\ InSeInit("loop", "test")
  /\ uart' = [uart EXCEPT !.fifo = Outb(@, TestByte)]
  /\ UNCHANGED <<todo, mark>>

\* The byte received so far is looked at once.  A port that fails the test is
\* left in loopback; KeStart does not look at the result.
SeCheck ==
  /\ InSeInit("test", IF uart.rx = TestByte THEN "good" ELSE "bad")
  /\ uart' = [uart EXCEPT !.rx = Nul, !.loop = uart.rx # TestByte]
  /\ todo' = Tail(todo)
  /\ UNCHANGED mark

SeInit == SeSetup \/ SeLoopback \/ SeTest \/ SeCheck

\* External: a byte leaves the port, or comes back to it in loopback.  Only
\* the first one received is kept: nobody else reads them.
UartShift ==
  /\ uart.fifo # <<>>
  /\ line' = IF uart.loop THEN line ELSE Append(line, Head(uart.fifo))
  /\ uart' = [uart EXCEPT
                !.fifo = Tail(@),
                !.rx = IF uart.loop /\ @ = Nul THEN Head(uart.fifo) ELSE @]
  /\ UNCHANGED <<todo, call, screenVars, idt, se, sent, mark, fault, last, shows>>

-----------------------------------------------------------------------------
(* IsrHandler: Panic, then a halt with interrupts off *)

\* A fault (external) in any step of the kernel.
IsrHandler ==
  /\ idt /\ fault = -1 /\ todo # <<>>
  /\ fault' = Len(screen)
  /\ todo' = Panic(Texts["panic"])
  /\ call' = NoCall
  /\ UNCHANGED <<screenVars, idt, serialVars, last, shows>>

Kernel == FtSetFg \/ FtSetBg \/ FbUpdate \/ IdtInit \/ Printf \/ SeInit

ConsoleNext == Kernel \/ UartShift \/ IsrHandler

ConsoleSpec == ConsoleInit /\ [][ConsoleNext]_consoleVars

\* The kernel has something to do and is not waiting for the port.
KernelCanMove ==
  IF Calling /\ ~AllPut /\ call.to = "com1" THEN SeIsBusEmpty
  ELSE Calling \/ todo # <<>>

\* The processor executes the kernel (weak fairness of Kernel: KernelCanMove is
\* ENABLED Kernel, which TLC takes long to find out), and a UART that has a
\* byte to send sends it.
KernelMoves == <<todo, call, se>>' # <<todo, call, se>>
KernelRuns == []<>~KernelCanMove \/ []<><<KernelMoves>>_consoleVars
FairSpec == ConsoleSpec /\ KernelRuns /\ WF_consoleVars(UartShift)

-----------------------------------------------------------------------------
(* Properties *)

\* vsnprintf: the text is what the C standard says, the buffer gets as much of
\* it as fits before the terminator and nothing behind its end is touched, the
\* result is the length of the whole text, and %n stores that of the text so far.
PrintsWhatTheStandardSays ==
  last # NoResult /\ last.step.cut = 0 =>
    LET p == Printed(last.step.items, last.step.args)
        n == Smaller(Len(p.text), last.max - 1)
    IN  p.deviates \/
        /\ last.returned = Len(p.text)
        /\ last.loop.stored = p.stored
        /\ \A j \in 0 .. BufferRoom :
             last.buffer[j] = CASE j < n -> p.text[j + 1]
                                [] j = n -> Nul
                                [] OTHER -> "untouched"

\* The format is read behind its end exactly if it ends in a flag or a digit of
\* an unfinished directive.  An array without a terminator that has at least the
\* characters its precision asks for is read behind its end exactly if it has no
\* more, because lines 406 and 1295 look at a character before they look at the
\* limit, or if the precision is 0, which line 1284 takes for no limit.
ReadsStayInStrings ==
  last # NoResult =>
    LET s == last.step
        format == Spell(s.items)
        end == format[Len(format) - s.cut]
        Overread(d) ==
          LET r == Resolve(d, s.args)
              array == Head(r.args)
          IN  array # NullString /\ ~array.terminated
                /\ r.precision \in {0, Len(array.chars)}
    IN  /\ last.loop.past <=> s.cut > 0 /\ end \in FlagChars \cup ToSet(Numerals)
        /\ last.loop.over <=> \E j \in DOMAIN s.items : s.items[j].conv = "s" /\ Overread(s.items[j])

\* The screen shows the log up to where the kernel is, the status of each
\* message in its colour and the rest in white; a panic that interrupts it
\* follows in black on red, is shown whole and is the last thing shown.
ShowsLogAndPanic ==
  LET shown == IF fault = -1 THEN screen ELSE SubSeq(screen, 1, fault)
      panic == Cells(PanicPrefix \o TextOf(Texts["panic"]), Black, "lightRed")
      rest == SubSeq(screen, fault + 1, Len(screen))
      ended == todo = <<>> /\ call = NoCall
  IN  /\ IsPrefix(shown, shows)
      /\ IF fault = -1 THEN ended => screen = shows
         ELSE IsPrefix(rest, panic) /\ (ended => rest = panic)
      /\ ended => front = screen

\* The serial line carries the bytes in order; of those sent before SeInit the
\* last two may be missing, and none follow a failed test.  The test byte
\* never leaves the machine.
LineCarriesTheText ==
  \/ mark = -1 /\ line \o uart.fifo = sent
  \/ /\ mark # -1
     /\ \E k \in 0 .. mark :
          /\ k >= mark - 2
          /\ CASE se = "good" -> line \o uart.fifo = SubSeq(sent, 1, k) \o SubSeq(sent, mark + 1, Len(sent))
               [] se = "set" -> line \o uart.fifo = SubSeq(sent, 1, k)
               [] OTHER -> line = SubSeq(sent, 1, k)

\* Everything is printed and sent in the end: neither the loops of printf.c nor
\* the wait for the port go on for ever.
EverythingIsPrinted == <>[](todo = <<>> /\ call = NoCall /\ uart.fifo = <<>>)

=============================================================================
