------------------------------ MODULE Terminal ------------------------------
(***************************************************************************)
(* The terminal: term.c keeps the line being typed in buffer[512] and      *)
(* draws it with FbWriteChar and FbDrawFillRect into the back buffer, one  *)
(* array of pixels in which nothing bounds the text cursor; FbUpdate       *)
(* copies it to the screen.  KeStart's loop calls the two in turn.         *)
(*                                                                         *)
(* A character is a one-cell text such as "a"; the control characters are  *)
(* "nl" and "bs".  Fixed texts are shortened to what fits the small        *)
(* screen, with their line breaks kept.  Colours are left out, but for     *)
(* the cursor bar; a glyph's pixels stay apart.                            *)
(***************************************************************************)
EXTENDS Integers, Sequences, FiniteSets, SequencesExt

CONSTANTS
  Width, Height,   \* of the framebuffer, in pixels
  W, H, Bar,       \* fntWidth, fntHeight, the height of the cursor bar, 4
  Size,            \* of buffer, 512
  Keys,            \* the characters KbGetChar may return, "nl" and "bs" too
  FetchName,       \* the command's name, a sequence of characters
  LogText, Banner, FetchText,  \* what LogWrite, TermInit and CmdFetch print
  MaxHeight        \* bounds the rows of pixels the text runs to

ASSUME TerminalAssumption ==
  /\ {Width, Height, W, H, Bar, Size, MaxHeight} \subseteq Nat \ {0}
  /\ Bar <= H /\ W <= Width
  /\ {"nl", "bs"} \subseteq Keys

\* KbGetChar's '\0' is Idle, not a key, and the bar is no character.  The
\* command's name can be typed, none of the texts has a backspace, and those
\* that a prompt follows end with a line break.
ASSUME TextsAssumption ==
  /\ "nul" \notin Keys /\ "bar" \notin Keys
  /\ FetchName \in Seq(Keys) /\ FetchName # <<>>
  /\ \A t \in {LogText, Banner, FetchText} : t \in Seq({t[j] : j \in DOMAIN t} \ {"bs", "bar"})
  /\ \A t \in {Banner, FetchText} : t # <<>> /\ t[Len(t)] = "nl"

VARIABLES
  back, front,     \* pBackAddr and pFbAddr, as functions of the index
  cx, cy,          \* the text cursor, in pixels
  buffer, bufferIdx,
  pc,              \* "init", or the call KeStart's loop makes next
  overrun,         \* buffer was accessed behind its end
  outside,         \* history: a pixel was written behind the back buffer
  wrapped,         \* history: something was drawn across the right edge
  line,            \* history: the line as the user typed and corrected it
  answers          \* history: the last line and whether it ran CmdFetch

fbVars == <<back, front, cx, cy, outside, wrapped>>
vars == <<fbVars, buffer, bufferIdx, pc, overrun, line, answers>>

Nul == "nul"
Blank == <<" ", 0, 0>>
White == <<"bar", 0, 0>>
Pixels == 0 .. (Width * Height - 1)
Prompt == <<">", " ">>

-----------------------------------------------------------------------------
(* Drawing: d is the state of framebuffer.c while a text is printed. *)

Drawing == [back |-> back, cx |-> cx, cy |-> cy,
            outside |-> outside, wrapped |-> wrapped]

\* FbSetPix for some pixels <<x, y>> of the cell at the cursor: shape gives
\* them their values.  The index is y * fbWidth + x, whatever x and y are.
Paint(d, shape) ==
  LET Index(q) == (d.cy + q[2]) * Width + d.cx + q[1]
      set == {Index(q) : q \in DOMAIN shape}
  IN  [d EXCEPT
        !.back = [p \in Pixels |->
                    IF p \in set
                    THEN shape[CHOOSE q \in DOMAIN shape : Index(q) = p]
                    ELSE @[p]],
        !.outside = @ \/ ~(set \subseteq Pixels),
        !.wrapped = @ \/ d.cx + W > Width]

Columns == 0 .. (W - 1)
Rows == 0 .. (H - 1)
Glyph(ch) == [q \in Columns \X Rows |->
                IF ch = " " THEN Blank ELSE <<ch, q[1], q[2]>>]

\* The background is filled and the glyph's pixels are set.
WriteChar(d, ch) ==
  CASE ch = "nl" -> [d EXCEPT !.cx = 0, !.cy = @ + H]
    [] ch = "bs" -> [d EXCEPT !.cx = @ - W]
    [] OTHER -> [Paint(d, Glyph(ch)) EXCEPT !.cx = @ + W]

Printf(d, text) == FoldLeft(WriteChar, d, text)

BarShape(color) == [q \in Columns \X ((H - Bar) .. (H - 1)) |-> color]

TermCurErase(d) == Paint(d, BarShape(Blank))

\* Mutant: the bar is drawn above the cell.
TermCurDrawAbove(d) ==
  Paint(d, [q \in Columns \X ((-Bar) .. -1) |-> White])

TermCurDraw(d) == Paint(d, BarShape(White))

Draw(d) ==
  /\ back' = d.back /\ cx' = d.cx /\ cy' = d.cy
  /\ outside' = d.outside /\ wrapped' = d.wrapped
  /\ UNCHANGED front

-----------------------------------------------------------------------------
(* The state after KeStart's messages, before TermInit *)

Init ==
  LET d == Printf([back |-> [p \in Pixels |-> Blank], cx |-> 0, cy |-> 0,
                   outside |-> FALSE, wrapped |-> FALSE], LogText)
  IN  /\ back = d.back /\ cx = d.cx /\ cy = d.cy
      /\ outside = d.outside /\ wrapped = d.wrapped
      /\ front = [p \in Pixels |-> Blank]
      /\ buffer = [j \in 0 .. (Size - 1) |-> Nul] /\ bufferIdx = 0
      /\ pc = "init"
      /\ overrun = FALSE
      /\ line = <<>>
      /\ answers = [line |-> <<>>, fetch |-> FALSE]

TermInit ==
  /\ pc = "init"
  /\ Draw(TermCurDraw(Printf(Drawing, Banner \o Prompt)))
  /\ pc' = "term"
  /\ UNCHANGED <<buffer, bufferIdx, overrun, line, answers>>

-----------------------------------------------------------------------------
(* TermUpdate.  Key(c): KbGetChar returned c. *)

Key(c) ==
  /\ pc = "term" /\ ~overrun
  /\ cy <= MaxHeight
  /\ c \in Keys
  /\ pc' = "fb"

\* '\0': nothing was typed.
Idle ==
  /\ pc = "term" /\ ~overrun
  /\ pc' = "fb"
  /\ UNCHANGED <<fbVars, buffer, bufferIdx, overrun, line, answers>>

\* The C string that starts at buffer.
CString == LET n == CHOOSE n \in 0 .. (Size - 1) :
                      /\ buffer[n] = Nul
                      /\ \A m \in 0 .. (n - 1) : buffer[m] # Nul
           IN  [j \in 1 .. n |-> buffer[j - 1]]

\* Mutant: the lengths are not compared.
strcmpPrefix(x, y) == \E j \in DOMAIN x \cap DOMAIN y : x[j] # y[j]

strcmp(x, y) ==
  \/ Len(x) # Len(y)
  \/ \E j \in DOMAIN x : x[j] # y[j]

NotFound(cmd) == <<"?">> \o cmd \o <<".", "nl">>

\* What TermCmdHandler prints: cmds has one command.
Answer(cmd) == IF ~strcmp(FetchName, cmd) THEN FetchText ELSE NotFound(cmd)

\* TermCmdHandler answers the line, which is then cleared from buffer.
Enter ==
  /\ Key("nl") /\ \E j \in DOMAIN buffer : buffer[j] = Nul
  /\ Draw(TermCurDraw(Printf(TermCurErase(Drawing),
                             <<"nl">> \o Answer(CString) \o Prompt)))
  /\ buffer' = [j \in DOMAIN buffer |-> Nul]
  /\ bufferIdx' = 0
  /\ answers' = [line |-> line, fetch |-> ~strcmp(FetchName, CString)]
  /\ line' = <<>>
  /\ UNCHANGED overrun

\* Mutants: a backspace leaves the character in the buffer; it does
\* not blank it on the screen.
BackspaceKeepsChar ==
  /\ Key("bs")
  /\ IF bufferIdx > 0
     THEN /\ Draw(TermCurDraw(Printf(TermCurErase(Drawing), <<"bs", " ", "bs">>)))
          /\ bufferIdx' = bufferIdx - 1
          /\ UNCHANGED buffer
          /\ line' = SubSeq(line, 1, Len(line) - 1)
     ELSE /\ Draw(TermCurDraw(TermCurErase(Drawing)))
          /\ UNCHANGED <<buffer, bufferIdx, line>>
  /\ UNCHANGED <<overrun, answers>>

BackspaceNoBlank ==
  /\ Key("bs")
  /\ IF bufferIdx > 0
     THEN /\ Draw(TermCurDraw(Printf(TermCurErase(Drawing), <<"bs">>)))
          /\ bufferIdx' = bufferIdx - 1
          /\ buffer' = [buffer EXCEPT ![bufferIdx - 1] = Nul]
          /\ line' = SubSeq(line, 1, Len(line) - 1)
     ELSE /\ Draw(TermCurDraw(TermCurErase(Drawing)))
          /\ UNCHANGED <<buffer, bufferIdx, line>>
  /\ UNCHANGED <<overrun, answers>>

Backspace ==
  /\ Key("bs")
  /\ IF bufferIdx > 0
     THEN /\ Draw(TermCurDraw(Printf(TermCurErase(Drawing), <<"bs", " ", "bs">>)))
          /\ bufferIdx' = bufferIdx - 1
          /\ buffer' = [buffer EXCEPT ![bufferIdx - 1] = Nul]
          /\ line' = SubSeq(line, 1, Len(line) - 1)
     ELSE /\ Draw(TermCurDraw(TermCurErase(Drawing)))
          /\ UNCHANGED <<buffer, bufferIdx, line>>
  /\ UNCHANGED <<overrun, answers>>

TypeChar(c) ==
  /\ Key(c) /\ c \notin {"nl", "bs"}
  /\ bufferIdx < Size
  /\ buffer' = [buffer EXCEPT ![bufferIdx] = c]
  /\ bufferIdx' = bufferIdx + 1
  /\ Draw(TermCurDraw(Printf(TermCurErase(Drawing), <<c>>)))
  /\ line' = Append(line, c)
  /\ UNCHANGED <<overrun, answers>>

\* With Size characters in buffer the next one is stored behind it, and
\* strcmp reads behind it.  What is there depends on the image's layout; the
\* model ends here.
LeaveBuffer(c) ==
  /\ Key(c) /\ c # "bs"
  /\ IF c = "nl" THEN \A j \in DOMAIN buffer : buffer[j] # Nul
                 ELSE bufferIdx = Size
  /\ overrun' = TRUE
  /\ UNCHANGED <<fbVars, buffer, bufferIdx, line, answers>>

TermUpdate ==
  \/ Idle
  \/ Enter
  \/ Backspace
  \/ \E c \in Keys : TypeChar(c) \/ LeaveBuffer(c)

-----------------------------------------------------------------------------
(* FbUpdate *)

\* Every pixel, in the framebuffer's order (its pitch is that of the back
\* buffer).
FbUpdate ==
  /\ pc = "fb"
  /\ front' = back
  /\ pc' = "term"
  /\ UNCHANGED <<back, cx, cy, outside, wrapped, buffer, bufferIdx, overrun,
                 line, answers>>

Next == TermInit \/ TermUpdate \/ FbUpdate

Spec == Init /\ [][Next]_vars

-----------------------------------------------------------------------------
(* Properties. *)

\* buffer is the line as typed and corrected, followed by '\0' up to its
\* end, so that strcmp sees that line and nothing of an older one.
BufferIsTheLine ==
  /\ bufferIdx = Len(line)
  /\ \A j \in DOMAIN buffer :
       buffer[j] = IF j < Len(line) THEN line[j + 1] ELSE Nul

OnScreen == cy + H <= Height

\* The cell at column col of the text line at y of the back buffer shows shape.
Shows(col, y, shape) ==
  \A q \in DOMAIN shape :
    back[(y + q[2]) * Width + col * W + q[1]] = shape[q]

\* An empty cell with the cursor bar.
CursorCell == [q \in Columns \X Rows |-> IF q[2] >= H - Bar THEN White ELSE Blank]

\* The back buffer shows the prompt, the line in buffer, the cursor bar
\* behind it and nothing more in this text line, and no trace of an older bar
\* anywhere, as long as nothing was drawn across the right edge and the line is
\* on the screen.
ScreenShowsLine ==
  pc = "fb" /\ OnScreen /\ ~wrapped /\ ~overrun =>
    LET shown == Prompt \o [j \in 1 .. bufferIdx |-> buffer[j - 1]]
    IN  /\ cx = W * Len(shown)
        /\ \A j \in DOMAIN shown : Shows(j - 1, cy, Glyph(shown[j]))
        /\ Shows(Len(shown), cy, CursorCell)
        /\ \A col \in (Len(shown) + 1) .. (Width \div W - 1) :
             Shows(col, cy, Glyph(" "))
        /\ Cardinality({p \in Pixels : back[p] = White}) = W * Bar

\* Text above the current line never changes, however it is corrected and
\* however long it gets; and nothing is written behind the back buffer before
\* the text has run over the bottom or the right edge of the screen.
WritesStayInLine ==
  [][/\ \A p \in Pixels : p < cy * Width => back'[p] = back[p]
     /\ outside' => outside \/ ~OnScreen' \/ wrapped']_vars

\* The command that runs is the one whose name was typed, exactly.
RunsTheNamedCommand == answers.fetch <=> answers.line = FetchName
=============================================================================
