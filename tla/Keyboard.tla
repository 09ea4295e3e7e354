------------------------------ MODULE Keyboard ------------------------------
(***************************************************************************)
(* The PS/2 keyboard: KbHandler runs as the handler of line 1 and leaves   *)
(* one character for KbGetChar, which the main loop calls again and again  *)
(* with interrupts on.  The two share pressed and currentCh and nothing    *)
(* else.                                                                   *)
(*                                                                         *)
(* The keyboard controller is external: it queues scan codes, shows the    *)
(* first one at port 0x60, and raises line 1 when a code appears there,    *)
(* that is when one arrives at an empty queue and when the read of one     *)
(* brings up the next.                                                     *)
(***************************************************************************)
EXTENDS Interrupts

CONSTANTS
  MaxKeys,    \* key events that happen; bounds the queue and the history
  KeyEvents   \* the kinds of key events that may happen

Kb == 1

ASSUME KeyboardAssumption == Drivers = {Kb}

\* The scan codes KbHandler tells apart: make codes of keys whose table
\* entry is a character or '\0', make codes behind the 90 entries, 0x2a,
\* 0xaa, 0x3a, and the other codes with bit 7 set, among them the prefix 0xe0.
CodeKinds ==
  {"char", "nul", "beyond", "shiftDown", "shiftUp", "caps", "release"}

VARIABLES
  codes,       \* scan codes in the controller, the first one at port 0x60
  pressed, currentCh, caps, shift,  \* the variables of kb.c
  rd,          \* where KbGetChar is
  ret,         \* the value it has already loaded
  storeFirst,  \* whether the build stores pressed before it loads currentCh
  numLock,     \* the keyboard's num lock, which nothing ever changes
  typed,       \* history: number of key events
  shiftKey, rightKey, capsKey, navKeys,  \* history: left and right shift
               \* held, caps lock, and how many extended keys are held
  fake,        \* history: a fake left shift code is in force
  delivered,   \* history: the key events whose characters KbGetChar returned
  missed       \* history: why KbHandler first missed an edge of line 1

kbVars == <<codes, pressed, currentCh, caps, shift, rd, ret, storeFirst,
            numLock, typed, shiftKey, rightKey, capsKey, navKeys, fake,
            delivered, missed>>
vars == <<irqVars, kbVars>>
keysVars == <<numLock, typed, shiftKey, rightKey, capsKey, navKeys, fake>>

\* A character is represented by the key event it came from and by the
\* table it was looked up in; want is the table the user expects, and
\* spoilt says that a fake shift stands in between.
Nul == [kind |-> "nul", id |-> 0, want |-> "keys", spoilt |-> FALSE]
NoChar == [code |-> Nul, table |-> "keys"]

Table(sh, ca) ==
  IF sh THEN "keysShift" ELSE IF ca THEN "keysCaps" ELSE "keys"

KbStart ==
  /\ codes = <<>>
  /\ pressed = FALSE /\ currentCh = NoChar
  /\ caps = FALSE /\ shift = FALSE
  /\ rd = "out" /\ ret = NoChar
  /\ storeFirst \in BOOLEAN
  /\ numLock \in BOOLEAN
  /\ typed = 0
  /\ shiftKey = FALSE /\ rightKey = FALSE /\ capsKey = FALSE
  /\ navKeys = 0 /\ fake = FALSE
  /\ delivered = <<>>
  /\ missed = "no"

KbInitial == Init /\ KbStart

-----------------------------------------------------------------------------
(* The keyboard and its controller *)

\* Codes enter the queue; line 1 is raised when the queue was empty.  After
\* them a fake left shift is in force or not.
Send(kinds, faked) ==
  /\ codes' = codes \o
       [j \in DOMAIN kinds |->
          [kind |-> kinds[j], id |-> typed + 1,
           want |-> Table(shiftKey, capsKey), spoilt |-> faked]]
  /\ fake' = faked
  /\ typed' = typed + 1
  /\ IF codes = <<>> THEN Signal(Kb) ELSE UNCHANGED irqVars
  /\ UNCHANGED <<pressed, currentCh, caps, shift, rd, ret, storeFirst,
                 numLock, delivered, missed>>

ShiftHeld == shiftKey \/ rightKey

\* Around an extended key the keyboard undoes what shift and num lock would
\* make of it, as they are at that moment: e0 2a presses a left shift nobody
\* holds, e0 aa and e0 b6 release the shifts somebody does.
FakesBefore ==
  IF numLock THEN (IF ShiftHeld THEN <<>> ELSE <<"release", "shiftDown">>)
  ELSE (IF shiftKey THEN <<"release", "shiftUp">> ELSE <<>>)
         \o (IF rightKey THEN <<"release", "release">> ELSE <<>>)

\* And back again: e0 aa, or e0 2a and e0 36 (whose table entry is '\0').
FakesAfter ==
  IF numLock THEN (IF ShiftHeld THEN <<>> ELSE <<"release", "shiftUp">>)
  ELSE (IF shiftKey THEN <<"release", "shiftDown">> ELSE <<>>)
         \o (IF rightKey THEN <<"release", "nul">> ELSE <<>>)

\* Whether one of these fakes is a code of left shift.
FakesLeft == IF numLock THEN ~ShiftHeld ELSE shiftKey

KeyEvent(e) ==
  /\ typed < MaxKeys
  /\ e \in KeyEvents
  /\ \/ /\ e \in {"char", "nul", "beyond", "release"}
        /\ Send(<<e>>, fake)
        /\ UNCHANGED <<shiftKey, rightKey, capsKey, navKeys>>
     \/ /\ e = "caps"
        /\ Send(<<"caps">>, fake)
        /\ capsKey' = ~capsKey
        /\ UNCHANGED <<shiftKey, rightKey, navKeys>>
     \/ /\ e = "shift"
        /\ Send(<<IF shiftKey THEN "shiftUp" ELSE "shiftDown">>, FALSE)
        /\ shiftKey' = ~shiftKey
        /\ UNCHANGED <<rightKey, capsKey, navKeys>>
     \* right shift: 0x36, whose table entry is '\0', and 0xb6
     \/ /\ e = "rshift"
        /\ Send(<<IF rightKey THEN "release" ELSE "nul">>, fake)
        /\ rightKey' = ~rightKey
        /\ UNCHANGED <<shiftKey, capsKey, navKeys>>
     \* an arrow key, e0 48
     \/ /\ e = "nav"
        /\ Send(FakesBefore \o <<"release", "nul">>, fake \/ FakesLeft)
        /\ navKeys' = navKeys + 1
        /\ UNCHANGED <<shiftKey, rightKey, capsKey>>
     \* and e0 c8
     \/ /\ e = "navUp" /\ navKeys > 0
        /\ Send(<<"release", "release">> \o FakesAfter, fake /\ ~FakesLeft)
        /\ navKeys' = navKeys - 1
        /\ UNCHANGED <<shiftKey, rightKey, capsKey>>

-----------------------------------------------------------------------------
(* KbHandler *)

\* Mutant: port 0x60 is read twice.
ReadPortTwice ==
  /\ codes' = SubSeq(codes, 3, Len(codes))
  /\ irr' = IF Tail(codes) # <<>> THEN irr \cup {Kb} ELSE irr

\* inb(0x60) takes the first code; the next one raises the line again.
ReadPort ==
  /\ codes' = Tail(codes)
  /\ irr' = IF Tail(codes) # <<>> THEN irr \cup {Kb} ELSE irr

\* What a table holds for a make code: behind its 90 entries, anything.
Entries(kind) == IF kind = "beyond" THEN {"char", "nul"} ELSE {kind}

\* Mutant: caps lock never goes off.
DecodeCapsSets(code) ==
  \/ /\ code.kind = "shiftDown"
     /\ shift' = TRUE
     /\ UNCHANGED <<pressed, currentCh, caps>>
  \/ /\ code.kind = "caps"
     /\ caps' = TRUE
     /\ UNCHANGED <<pressed, currentCh, shift>>
  \/ /\ code.kind \in {"char", "nul", "beyond"}
     /\ pressed' = TRUE
     /\ currentCh' \in {[code |-> [code EXCEPT !.kind = k],
                        table |-> Table(shift, caps)] : k \in Entries(code.kind)}
     /\ UNCHANGED <<caps, shift>>
  \/ /\ code.kind = "shiftUp"
     /\ shift' = FALSE
     /\ UNCHANGED <<pressed, currentCh, caps>>
  \/ /\ code.kind = "release"
     /\ UNCHANGED <<pressed, currentCh, caps, shift>>

\* Every make code but those of left shift and caps lock puts a character
\* into the slot, a '\0' too, whatever is there.
Decode(code) ==
  \/ /\ code.kind = "shiftDown"
     /\ shift' = TRUE
     /\ UNCHANGED <<pressed, currentCh, caps>>
  \/ /\ code.kind = "caps"
     /\ caps' = ~caps
     /\ UNCHANGED <<pressed, currentCh, shift>>
  \/ /\ code.kind \in {"char", "nul", "beyond"}
     /\ pressed' = TRUE
     /\ currentCh' \in {[code |-> [code EXCEPT !.kind = k],
                        table |-> Table(shift, caps)] : k \in Entries(code.kind)}
     /\ UNCHANGED <<caps, shift>>
  \/ /\ code.kind = "shiftUp"
     /\ shift' = FALSE
     /\ UNCHANGED <<pressed, currentCh, caps>>
  \/ /\ code.kind = "release"
     /\ UNCHANGED <<pressed, currentCh, caps, shift>>

KbHandler ==
  /\ codes # <<>>
  /\ HandlerEnds(Kb)
  /\ ReadPort
  /\ Decode(Head(codes))
  /\ UNCHANGED <<rd, ret, storeFirst, delivered, missed, keysVars>>

-----------------------------------------------------------------------------
(* KbGetChar, called from TermUpdate in KeStart's loop.  Each step is an   *)
(* instruction between which line 1 may be served.  Nothing orders the     *)
(* store to pressed and the load of currentCh: the build chooses.          *)

InLoop == boot = "ready" /\ cpu = "main"

Reader(step) ==
  /\ InLoop
  /\ step
  /\ UNCHANGED <<irqVars, codes, currentCh, caps, shift, storeFirst, missed,
                 keysVars>>

\* KbGetChar returns ch; TermUpdate does nothing with a '\0'.
Return(ch) ==
  /\ rd' = "out"
  /\ ret' = NoChar
  /\ delivered' = IF ch.code.kind = "nul" THEN delivered
                  ELSE Append(delivered, ch.code.id)

\* Mutant: the character is loaded with the test, before pressed is reset.
TestPressedLoads ==
  Reader(/\ rd = "out" /\ pressed
         /\ rd' = "late"
         /\ ret' = currentCh
         /\ UNCHANGED <<pressed, delivered>>)

TestPressed ==
  Reader(/\ rd = "out" /\ pressed
         /\ rd' = IF storeFirst THEN "store" ELSE "load"
         /\ UNCHANGED <<pressed, ret, delivered>>)

\* Mutant: pressed = false is missing.
StorePressedNot ==
  Reader(/\ rd = "store"
         /\ rd' = "load"
         /\ UNCHANGED <<pressed, ret, delivered>>)

StorePressed ==
  Reader(/\ rd = "store"
         /\ pressed' = FALSE
         /\ rd' = "load"
         /\ UNCHANGED <<ret, delivered>>)

LoadAndReturn ==
  Reader(/\ rd = "load" /\ storeFirst
         /\ Return(currentCh)
         /\ UNCHANGED pressed)

LoadCurrentCh ==
  Reader(/\ rd = "load" /\ ~storeFirst
         /\ ret' = currentCh
         /\ rd' = "late"
         /\ UNCHANGED <<pressed, delivered>>)

StoreAndReturn ==
  Reader(/\ rd = "late"
         /\ pressed' = FALSE
         /\ Return(ret))

KbGetChar ==
  TestPressed \/ StorePressed \/ LoadAndReturn \/ LoadCurrentCh \/ StoreAndReturn

-----------------------------------------------------------------------------
(* Composition with the interrupt system *)

\* An edge of line 1 is missed when PicRemap clears it or when IrqHandler
\* finds no handler and ignores it: the code stays at port 0x60, and no edge
\* follows.
MissesEdge ==
  IF missed # "no" THEN missed
  ELSE IF PicRemap /\ codes # <<>> THEN "cleared"
  ELSE IF IrqHandler /\ line = Kb /\ Kb \notin handlers THEN "ignored"
  ELSE "no"

SystemStep ==
  /\ \/ BootStep \/ StubStep \/ IsrHandler
     \/ \E n \in Lines \ {Kb} : Raise(n)
     \/ \E n \in Lines : TakeInterrupt(n)
     \/ \E n \in {7, 15} : TakeSpurious(n)
  /\ missed' = MissesEdge
  /\ UNCHANGED <<codes, pressed, currentCh, caps, shift, rd, ret, storeFirst,
                 keysVars, delivered>>

KbNext ==
  \/ SystemStep
  \/ \E e \in KeyEvents : KeyEvent(e)
  \/ KbHandler
  \/ KbGetChar

KbSpec == KbInitial /\ [][KbNext]_vars

\* The processor executes instructions, and takes a request that is the most
\* urgent one again and again: a spurious interrupt may come in between.  The
\* loop runs whenever no interrupt is being handled.
KbFairSpec ==
  /\ KbSpec
  /\ WF_vars((BootStep \/ StubStep) /\ SystemStep)
  /\ WF_vars(KbHandler)
  /\ SF_vars(KbGetChar)
  /\ \A n \in Lines : SF_vars(TakeInterrupt(n) /\ SystemStep)

-----------------------------------------------------------------------------
(* Properties. *)

\* KbHandler never reads port 0x60 without a code there: each edge stands
\* for exactly one code.
HandlerFindsCode == cpu = "handler" /\ line = Kb => codes # <<>>

\* Characters reach the terminal in the order of the keys, whenever the
\* interrupt comes in between.  A key pressed between the store and the load
\* is returned twice, never more often; a build that loads first returns
\* each key at most once.
DeliveredInOrderTwiceAtMost ==
  /\ \A j \in 1 .. (Len(delivered) - 1) : delivered[j] <= delivered[j + 1]
  /\ \A j \in DOMAIN delivered :
       Cardinality({m \in DOMAIN delivered : delivered[m] = delivered[j]})
         <= IF storeFirst THEN 2 ELSE 1

\* However long its code waited, a character is looked up in the table of
\* the left shift and caps lock it was typed with, except exactly while a fake
\* left shift of an extended key is in force: then it never is.  Right shift,
\* which KbHandler does not know, changes nothing.
LookedUpAsTyped ==
  currentCh.table = currentCh.code.want <=> ~currentCh.code.spoilt

\* In a build that stores first, a character in the slot is returned unless
\* a later key replaces it.
LastCharArrives ==
  \A id \in 1 .. MaxKeys :
    (storeFirst /\ pressed /\ currentCh.code.kind = "char" /\ currentCh.code.id = id)
      ~> (\/ \E j \in DOMAIN delivered : delivered[j] = id
          \/ currentCh.code.id # id
          \/ cpu = "halted")

\* Every latched request is served, and every code at port 0x60 is read unless
\* its edge was missed before KbInit: PicEoi lets all lines interrupt again, and
\* reading a code is what brings up the next one.
DevicesAreServed ==
  /\ RequestsAreServed
  /\ (codes # <<>>) ~> (codes = <<>> \/ missed # "no" \/ cpu = "halted")

\* main.c:98 logs "Keyboard Initialised.": from then on codes are read, also
\* those of keys pressed since PicRemap.  (Of a key pressed before it, whose
\* edge PicRemap clears, nothing is said.)
KeyboardIsInitialised ==
  (boot = "ready" /\ codes # <<>> /\ missed # "cleared")
    ~> (codes = <<>> \/ cpu = "halted")
=============================================================================
