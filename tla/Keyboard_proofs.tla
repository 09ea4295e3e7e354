-------------------------- MODULE Keyboard_proofs --------------------------
(***************************************************************************)
(* Proofs about the interrupt system, for every set of lines, of           *)
(* registered handlers and of edges; and about the keyboard and its driver *)
(* in it, for any number of keys.                                          *)
(***************************************************************************)
EXTENDS Keyboard, FiniteSetTheorems, SequenceTheorems, TLAPS

-----------------------------------------------------------------------------
(* The controllers and the processor agree on what is being served.        *)

Main == {[cpu |-> "main", line |-> n] : n \in 0 .. 15}

\* Interrupts are on in the main loop only, so that at most the main loop is
\* suspended, and it is while an interrupt is being handled.
OneContext ==
  /\ intFlag => cpu = "main" /\ boot \in {"sti", "ready"}
  /\ below = <<>> \/ \E ctx \in Main : below = <<ctx>>
  /\ cpu = "main" => below = <<>>
  /\ Interrupted => below # <<>>
  /\ below # <<>> => boot \in {"sti", "ready"}

IInv == TypeOK /\ ServiceMatches /\ OneContext

\* Suspending the main loop, and resuming it.
LEMMA SuspendResume ==
  ASSUME NEW ctx \in Main
  PROVE  /\ Append(<<>>, ctx) = <<ctx>> /\ <<ctx>> # <<>>
         /\ <<ctx>> \in Seq([cpu : Stages, line : 0 .. 15])
         /\ Last(<<ctx>>) = ctx /\ Front(<<ctx>>) = <<>>
         /\ DOMAIN <<ctx>> = {1} /\ <<ctx>>[1] = ctx
         /\ ctx.cpu = "main" /\ ctx.line \in 0 .. 15
<1>1. ctx \in [cpu : Stages, line : 0 .. 15] /\ ctx.cpu = "main" /\ ctx.line \in 0 .. 15
  BY DEF Main, Stages
<1>2. Last(<<ctx>>) = ctx
  BY DEF Last
<1>3. Front(<<ctx>>) = <<>>
  BY DEF Front
<1> QED BY <1>1, <1>2, <1>3

\* PicEoi on a controller that serves at most one interrupt leaves nothing
\* in service, and does no harm when there is nothing.
LEMMA EndedLeavesNothing ==
  ASSUME NEW x \in Int, NEW S \in SUBSET {x}
  PROVE  Ended(S) = {}
<1>1. CASE S = {}
  BY <1>1 DEF Ended
<1>2. CASE S = {x}
  <2>1. Min({x}) = x
    BY DEF Min
  <2> QED BY <1>2, <2>1 DEF Ended
<1> QED BY <1>1, <1>2

LEMMA InitIInv == Init => IInv
<1> SUFFICES ASSUME Init PROVE IInv
  OBVIOUS
<1>1. TypeOK
  <2>1. edges \in [Lines -> 0 .. MaxEdges]
    BY LinesAssumption DEF Init
  <2>2. irr \subseteq Lines
    BY Zenon DEF Init
  <2>3. isr1 \subseteq 0 .. 7 /\ isr2 \subseteq 8 .. 15 /\ handlers \subseteq Drivers
    BY Zenon DEF Init
  <2>4. intFlag \in BOOLEAN
    BY Zenon DEF Init
  <2>5. boot \in {"cli", "idt", "remapped", "sti", "ready"} /\ line \in 0 .. 15
    BY SMT DEF Init
  <2>6. cpu \in Stages \cup {"halted"}
    BY SMT DEF Init, Stages
  <2>7. below \in Seq([cpu : Stages, line : 0 .. 15])
    BY SMT DEF Init
  <2> QED BY <2>1, <2>2, <2>3, <2>4, <2>5, <2>6, <2>7 DEF TypeOK
<1>2. ServiceMatches /\ OneContext
  BY DEF Init, ServiceMatches, OneContext, Interrupted
<1> QED BY <1>1, <1>2 DEF IInv

\* IF is set in the main loop only, where nothing is in service.
LEMMA EnteringIInv ==
  ASSUME IInv, NEW n \in 0 .. 15, Enter(n), irr' \in SUBSET Lines,
         isr1' \in SUBSET {MasterLine(n)},
         isr2' \in SUBSET {n}, isr2' \in SUBSET (8 .. 15)
  PROVE  IInv'
<1> DEFINE ctx == [cpu |-> cpu, line |-> line]
<1>1. MasterLine(n) \in 0 .. 7
  BY DEF MasterLine, Slave, Cascade
<1>2. below = <<>> /\ ctx \in Main /\ boot \in {"sti", "ready"}
  BY DEF Enter, IInv, OneContext, TypeOK, Main
<1>3. below' = <<ctx>> /\ cpu' = "stub" /\ line' = n /\ intFlag' = FALSE
      /\ UNCHANGED <<edges, handlers, boot>>
  BY <1>2, SuspendResume DEF Enter
<1>4. TypeOK'
  <2>1. below' \in Seq([cpu : Stages, line : 0 .. 15])
    BY <1>2, <1>3, SuspendResume
  <2> QED BY <1>1, <1>3, <2>1 DEF IInv, TypeOK, Stages
<1>5. ServiceMatches'
  BY <1>3 DEF ServiceMatches, Interrupted
<1>6. OneContext'
  <2>1. below' # <<>>
    BY <1>2, <1>3, SuspendResume
  <2> QED BY <1>2, <1>3, <2>1 DEF OneContext, Interrupted
<1> QED BY <1>4, <1>5, <1>6 DEF IInv

LEMMA NextIInv == IInv /\ [Next]_irqVars => IInv'
<1> SUFFICES ASSUME IInv, [Next]_irqVars PROVE IInv'
  OBVIOUS
<1> USE LinesAssumption
<1>1. CASE IdtInit
  BY <1>1 DEF IdtInit, IInv, TypeOK, ServiceMatches, OneContext, Interrupted
<1>2. CASE PicRemap
  BY <1>2 DEF PicRemap, IInv, TypeOK, ServiceMatches, OneContext, Interrupted
<1>3. CASE Sti
  BY <1>3 DEF Sti, IInv, TypeOK, ServiceMatches, OneContext, Interrupted
<1>4. CASE KbInit
  BY <1>4 DEF KbInit, IInv, TypeOK, ServiceMatches, OneContext, Interrupted
<1>5. ASSUME NEW n \in Lines, Raise(n) PROVE IInv'
  <2>1. TypeOK'
    BY <1>5 DEF Raise, IInv, TypeOK
  <2> QED BY <1>5, <2>1 DEF Raise, IInv, ServiceMatches, OneContext, Interrupted
<1>6. ASSUME NEW n \in Drivers, Signal(n) PROVE IInv'
  <2>1. TypeOK'
    BY <1>6 DEF Signal, IInv, TypeOK
  <2> QED BY <1>6, <2>1 DEF Signal, IInv, ServiceMatches, OneContext, Interrupted
<1>7. ASSUME NEW n \in Lines, TakeInterrupt(n) PROVE IInv'
  <2>1. Enter(n) /\ cpu = "main" /\ isr1 = {} /\ isr2 = {} /\ n \in 0 .. 15
    BY <1>7 DEF TakeInterrupt, Enter, IInv, ServiceMatches, OneContext
  <2>2. isr1' \in SUBSET {MasterLine(n)} /\ isr2' \in SUBSET {n}
    BY <1>7, <2>1 DEF TakeInterrupt
  <2>3. isr2' \in SUBSET (8 .. 15)
    BY <1>7, <2>1 DEF TakeInterrupt, Slave
  <2>4. irr' \in SUBSET Lines
    BY <1>7 DEF TakeInterrupt, IInv, TypeOK
  <2> QED BY <2>1, <2>2, <2>3, <2>4, EnteringIInv
<1>8. ASSUME NEW n \in {7, 15}, TakeSpurious(n) PROVE IInv'
  <2>1. Enter(n) /\ cpu = "main" /\ isr1 = {} /\ isr2 = {} /\ n \in 0 .. 15
    BY <1>8 DEF TakeSpurious, Enter, IInv, ServiceMatches, OneContext
  <2>2. isr1' \in SUBSET {MasterLine(n)} /\ isr2' \in SUBSET {n}
    BY <1>8, <2>1 DEF TakeSpurious, MasterLine
  <2>3. isr2' \in SUBSET (8 .. 15)
    BY <1>8, <2>1 DEF TakeSpurious
  <2>4. irr' \in SUBSET Lines
    BY <1>8 DEF TakeSpurious, IInv, TypeOK
  <2> QED BY <2>1, <2>2, <2>3, <2>4, EnteringIInv
<1>9. CASE IrqHandler
  BY <1>9 DEF IrqHandler, IInv, TypeOK, Stages, ServiceMatches, OneContext, Interrupted
<1>10. ASSUME NEW n \in Drivers, HandlerReturns(n) PROVE IInv'
  BY <1>10 DEF HandlerReturns, HandlerEnds, IInv, TypeOK, Stages, ServiceMatches, OneContext,
               Interrupted
\* The slave is told of the interrupts it serves, which leaves it idle.
<1>11. CASE PicEoiSlave
  <2>1. line \in 0 .. 15 /\ isr2 \in SUBSET {line} /\ isr2 \in SUBSET (8 .. 15)
    BY <1>11 DEF PicEoiSlave, IInv, TypeOK, ServiceMatches, Interrupted
  <2>2. isr2' = {}
    <3>1. CASE Slave(line)
      <4>1. Ended(isr2) = {}
        <5>1. line \in Int
          BY <2>1
        <5> QED BY <2>1, <5>1, EndedLeavesNothing
      <4> QED BY <1>11, <3>1, <4>1 DEF PicEoiSlave
    <3>2. CASE ~Slave(line)
      BY <1>11, <2>1, <3>2 DEF PicEoiSlave, Slave
    <3> QED BY <3>1, <3>2
  <2> QED
    BY <1>11, <2>2 DEF PicEoiSlave, IInv, TypeOK, Stages, ServiceMatches, OneContext, Interrupted
\* The master is told of every interrupt; it serves at most this one.
<1>12. CASE PicEoiMaster
  <2>1. line \in 0 .. 15 /\ isr1 \in SUBSET {MasterLine(line)}
    BY <1>12 DEF PicEoiMaster, IInv, TypeOK, ServiceMatches, Interrupted
  <2>2. MasterLine(line) \in Int
    BY <2>1 DEF MasterLine, Cascade
  <2>3. isr1' = {}
    BY <1>12, <2>1, <2>2, EndedLeavesNothing DEF PicEoiMaster
  <2> QED
    BY <1>12, <2>3 DEF PicEoiMaster, IInv, TypeOK, Stages, ServiceMatches, OneContext, Interrupted
\* What goes on after iretq is the main loop, the only thing suspended.
<1>13. CASE Iretq
  <2>1. PICK ctx \in Main : below = <<ctx>>
    BY <1>13 DEF Iretq, IInv, OneContext, Interrupted
  <2>2. /\ cpu' = "main" /\ line' \in 0 .. 15 /\ below' = <<>> /\ intFlag' = TRUE
        /\ UNCHANGED <<edges, irr, isr1, isr2, handlers, boot>>
    BY <1>13, <2>1, SuspendResume DEF Iretq
  <2>3. isr1 = {} /\ isr2 = {} /\ boot \in {"sti", "ready"}
    BY <1>13, <2>1, SuspendResume DEF Iretq, IInv, ServiceMatches, OneContext
  <2> QED BY <2>2, <2>3 DEF IInv, TypeOK, Stages, ServiceMatches, OneContext, Interrupted
<1>14. CASE IsrHandler
  BY <1>14 DEF IsrHandler, IInv, TypeOK, ServiceMatches, OneContext, Interrupted
<1>15. CASE UNCHANGED irqVars
  BY <1>15 DEF irqVars, IInv, TypeOK, ServiceMatches, OneContext, Interrupted
<1> QED
  BY <1>1, <1>2, <1>3, <1>4, <1>5, <1>6, <1>7, <1>8, <1>9, <1>10, <1>11, <1>12, <1>13, <1>14, <1>15
     DEF Next, BootStep, StubStep

\* The inductive invariant holds in every reachable state.
THEOREM Invariance == Spec => []IInv
BY InitIInv, NextIInv, PTL DEF Spec

\* Types, among them that only lines of Drivers ever get a handler.
THEOREM TypeCorrect == Spec => []TypeOK
<1>1. IInv => TypeOK
  BY DEF IInv
<1> QED BY <1>1, Invariance, PTL

\* IrqHandler and PicEoi leave no line in service behind, on either
\* controller, whatever lines interrupt, spuriously or not.
THEOREM NothingStaysInService == Spec => []ServiceMatches
<1>1. IInv => ServiceMatches
  BY DEF IInv
<1> QED BY <1>1, Invariance, PTL

\* Whatever lines interrupt, only the main loop is ever interrupted, and only
\* after sti: the processor looks at IF alone, and every way into a handler
\* clears it until the iretq that leads out.
THEOREM HandlersNeverNest == Spec => []HandlersAreNotNested
<1>1. IInv => HandlersAreNotNested
  <2> SUFFICES ASSUME IInv, NEW j \in DOMAIN below PROVE below[j].cpu = "main"
    BY DEF IInv, OneContext, HandlersAreNotNested
  <2>1. below # <<>>
    OBVIOUS
  <2>2. PICK ctx \in Main : below = <<ctx>>
    BY <2>1 DEF IInv, OneContext
  <2> QED BY <2>2, SuspendResume
<1> QED BY <1>1, Invariance, PTL

-----------------------------------------------------------------------------
(* The keyboard and its driver use the interrupt system as Interrupts says *)
(* a device may, so what is proved of Interrupts holds with them.          *)

\* Reading port 0x60 raises line 1 again or leaves it alone.
LEMMA KbHandlerReturns == KbHandler => HandlerReturns(Kb)
<1> SUFFICES ASSUME KbHandler PROVE HandlerReturns(Kb)
  OBVIOUS
<1>1. HandlerEnds(Kb)
  BY DEF KbHandler
<1>2. irr' \in {irr, irr \cup {Kb}}
  BY DEF KbHandler, ReadPort
<1> QED BY <1>1, <1>2 DEF HandlerReturns

\* A scan code signals line 1 or joins the ones that wait.
LEMMA SendSignals ==
  ASSUME NEW kinds, NEW faked, Send(kinds, faked)
  PROVE  Signal(Kb) \/ UNCHANGED irqVars
BY DEF Send

LEMMA KbStepIsStep == [KbNext]_vars => [Next]_irqVars
<1> SUFFICES ASSUME [KbNext]_vars PROVE [Next]_irqVars
  OBVIOUS
<1>1. Kb \in Drivers
  BY KeyboardAssumption
<1>2. CASE SystemStep
  BY <1>2 DEF SystemStep, Next
<1>3. ASSUME NEW e \in KeyEvents, KeyEvent(e) PROVE Signal(Kb) \/ UNCHANGED irqVars
  <2>1. PICK kinds, faked : Send(kinds, faked)
    BY <1>3 DEF KeyEvent
  <2> QED BY <2>1, SendSignals
<1>4. CASE KbHandler
  BY <1>1, <1>4, KbHandlerReturns DEF Next
<1>5. CASE KbGetChar
  BY <1>5 DEF KbGetChar, TestPressed, StorePressed, LoadAndReturn, LoadCurrentCh,
              StoreAndReturn, Reader
<1>6. CASE UNCHANGED vars
  BY <1>6 DEF vars
<1> QED BY <1>1, <1>2, <1>3, <1>4, <1>5, <1>6 DEF KbNext, Next

\* The composition of keyboard, driver and controllers implements the
\* interrupt system.
THEOREM ImplementsInterrupts == KbSpec => Spec
<1>1. KbInitial => Init
  BY DEF KbInitial
<1> QED BY <1>1, KbStepIsStep, PTL DEF KbSpec, Spec

\* With the keyboard running, handlers are not nested and nothing stays in
\* service behind IrqHandler.
THEOREM KeyboardIsServed == KbSpec => [](ServiceMatches /\ HandlersAreNotNested)
BY ImplementsInterrupts, NothingStaysInService, HandlersNeverNest, PTL

-----------------------------------------------------------------------------
(* Types of the keyboard's variables, and what a key event puts into the   *)
(* controller's queue.                                                     *)

Tables == {"keys", "keysShift", "keysCaps"}
Code == [kind : CodeKinds, id : Nat, want : Tables, spoilt : BOOLEAN]
Char == [code : Code, table : Tables]

KbTypeOK ==
  /\ codes \in Seq(Code)
  /\ pressed \in BOOLEAN /\ caps \in BOOLEAN /\ shift \in BOOLEAN
  /\ currentCh \in Char /\ ret \in Char
  /\ storeFirst \in BOOLEAN
  /\ numLock \in BOOLEAN
  /\ typed \in Nat
  /\ shiftKey \in BOOLEAN /\ rightKey \in BOOLEAN /\ capsKey \in BOOLEAN
  /\ navKeys \in Nat /\ fake \in BOOLEAN
  /\ delivered \in Seq(Nat)

Chars == {"char", "nul", "beyond"}
IsChar(code) == code.kind \in Chars

\* The codes one key event sends: only the last one may be a character's.
Quiet == {p \in Seq(CodeKinds) : \A j \in 1 .. Len(p) : p[j] \notin Chars}
Burst ==
  {p \in Seq(CodeKinds) : Len(p) >= 1 /\ \A j \in 1 .. (Len(p) - 1) : p[j] \notin Chars}

LEMMA TableType == ASSUME NEW sh, NEW ca PROVE Table(sh, ca) \in Tables
BY DEF Table, Tables

LEMMA BurstFacts ==
  ASSUME NEW kinds \in Burst
  PROVE  /\ kinds \in Seq(CodeKinds)
         /\ Len(kinds) \in Nat /\ Len(kinds) >= 1
         /\ DOMAIN kinds = 1 .. Len(kinds)
         /\ \A i, j \in DOMAIN kinds : kinds[i] \in Chars /\ kinds[j] \in Chars => i = j
BY DEF Burst

LEMMA QuietBurst ==
  /\ \A k \in CodeKinds : <<k>> \in Burst
  /\ \A k \in CodeKinds : <<"release", k>> \in Burst
  /\ \A k \in CodeKinds \ Chars : <<"release", k>> \in Quiet
  /\ <<>> \in Quiet
  /\ \A p \in Quiet : Len(p) >= 1 => p \in Burst
BY DEF Quiet, Burst, CodeKinds, Chars

LEMMA BurstOn ==
  ASSUME NEW p \in Quiet
  PROVE  /\ \A q \in Burst : p \o q \in Burst
         /\ \A q \in Quiet : p \o q \in Quiet
         /\ \A q \in Quiet : Len(p) >= 1 => p \o q \in Burst
<1>1. p \in Seq(CodeKinds) /\ Len(p) \in Nat /\ \A j \in 1 .. Len(p) : p[j] \notin Chars
  BY DEF Quiet
<1>2. ASSUME NEW q \in Seq(CodeKinds)
      PROVE  /\ Len(q) \in Nat
             /\ p \o q \in Seq(CodeKinds) /\ Len(p \o q) = Len(p) + Len(q)
             /\ \A j \in 1 .. Len(p) + Len(q) :
                  (p \o q)[j] = IF j <= Len(p) THEN p[j] ELSE q[j - Len(p)]
  BY <1>1, ConcatProperties
<1>3. ASSUME NEW q \in Burst PROVE p \o q \in Burst
  <2>1. q \in Seq(CodeKinds) /\ Len(q) >= 1 /\ \A j \in 1 .. (Len(q) - 1) : q[j] \notin Chars
    BY <1>3 DEF Burst
  <2> DEFINE r == p \o q
  <2>2. /\ Len(q) \in Nat
        /\ r \in Seq(CodeKinds) /\ Len(r) = Len(p) + Len(q)
        /\ \A j \in 1 .. Len(p) + Len(q) : r[j] = IF j <= Len(p) THEN p[j] ELSE q[j - Len(p)]
    BY <1>2, <2>1
  <2> HIDE DEF r
  <2>3. ASSUME NEW j \in 1 .. (Len(r) - 1) PROVE r[j] \notin Chars
    BY <1>1, <2>1, <2>2
  <2>4. r \in Burst
    BY <1>1, <2>1, <2>2, <2>3 DEF Burst
  <2> QED BY <2>4 DEF r
<1>4. ASSUME NEW q \in Quiet PROVE p \o q \in Quiet /\ (Len(p) >= 1 => p \o q \in Burst)
  <2>1. q \in Seq(CodeKinds) /\ \A j \in 1 .. Len(q) : q[j] \notin Chars
    BY <1>4 DEF Quiet
  <2> DEFINE r == p \o q
  <2>2. /\ Len(q) \in Nat
        /\ r \in Seq(CodeKinds) /\ Len(r) = Len(p) + Len(q)
        /\ \A j \in 1 .. Len(p) + Len(q) : r[j] = IF j <= Len(p) THEN p[j] ELSE q[j - Len(p)]
    BY <1>2, <2>1
  <2> HIDE DEF r
  <2>3. ASSUME NEW j \in 1 .. Len(r) PROVE r[j] \notin Chars
    BY <1>1, <2>1, <2>2
  <2>4. r \in Quiet
    BY <2>2, <2>3 DEF Quiet
  <2>5. Len(p) >= 1 => Len(r) >= 1
    BY <1>1, <2>2
  <2> QED BY <2>4, <2>5, QuietBurst DEF r
<1> QED BY <1>3, <1>4

\* The fakes before an extended key are none of them characters, the last
\* one after it may be (the '\0' of a fake right shift).
LEMMA FakeBursts ==
  /\ FakesBefore \in Quiet
  /\ FakesBefore \o <<"release", "nul">> \in Burst
  /\ <<"release", "release">> \o FakesAfter \in Burst
<1> DEFINE rr == <<"release", "release">>
           rn == <<"release", "nul">>
           up == <<"release", "shiftUp">>
           down == <<"release", "shiftDown">>
<1>1. <<>> \in Quiet /\ rr \in Quiet /\ up \in Quiet /\ down \in Quiet /\ rn \in Burst
  BY QuietBurst DEF CodeKinds, Chars
<1>2. Len(rr) >= 1
  OBVIOUS
<1> HIDE DEF rr, rn, up, down
<1>3. FakesBefore \in Quiet
  <2> DEFINE u == IF shiftKey THEN up ELSE <<>>
             v == IF rightKey THEN rr ELSE <<>>
  <2>1. u \in Quiet /\ v \in Quiet
    BY <1>1
  <2> HIDE DEF u, v
  <2>2. u \o v \in Quiet
    BY <2>1, BurstOn
  <2> QED BY <1>1, <2>2 DEF FakesBefore, u, v, rr, up, down
<1>4. FakesBefore \o rn \in Burst
  BY <1>1, <1>3, BurstOn
<1>5. FakesAfter \in Quiet \cup Burst
  <2> DEFINE u == IF shiftKey THEN down ELSE <<>>
             v == IF rightKey THEN rn ELSE <<>>
  <2>1. u \in Quiet /\ v \in Quiet \cup Burst
    BY <1>1
  <2> HIDE DEF u, v
  <2>2. u \o v \in Quiet \cup Burst
    BY <2>1, BurstOn
  <2> QED BY <1>1, <2>2 DEF FakesAfter, u, v, rn, up, down
<1>6. rr \o FakesAfter \in Burst
  BY <1>1, <1>2, <1>5, BurstOn
<1> QED BY <1>3, <1>4, <1>6 DEF rr, rn

LEMMA KeyEventSends ==
  ASSUME KbTypeOK, NEW e, KeyEvent(e)
  PROVE  \E kinds \in Burst, faked \in BOOLEAN : Send(kinds, faked)
<1>1. fake \in BOOLEAN /\ (fake \/ FakesLeft) \in BOOLEAN /\ (fake /\ ~FakesLeft) \in BOOLEAN
  BY DEF KbTypeOK
<1>2. \A k \in CodeKinds : <<k>> \in Burst
  BY QuietBurst
<1>3. CASE e \in {"char", "nul", "beyond", "release"} /\ Send(<<e>>, fake)
  BY <1>1, <1>2, <1>3 DEF CodeKinds
<1>4. CASE Send(<<"caps">>, fake)
  BY <1>1, <1>2, <1>4 DEF CodeKinds
<1>5. CASE Send(<<IF shiftKey THEN "shiftUp" ELSE "shiftDown">>, FALSE)
  BY <1>2, <1>5 DEF CodeKinds
<1>6. CASE Send(<<IF rightKey THEN "release" ELSE "nul">>, fake)
  BY <1>1, <1>2, <1>6 DEF CodeKinds
<1>7. CASE Send(FakesBefore \o <<"release", "nul">>, fake \/ FakesLeft)
  BY <1>1, <1>7, FakeBursts
<1>8. CASE Send(<<"release", "release">> \o FakesAfter, fake /\ ~FakesLeft)
  BY <1>1, <1>8, FakeBursts
<1> QED BY <1>3, <1>4, <1>5, <1>6, <1>7, <1>8 DEF KeyEvent

Sent(kinds, faked) ==
  [j \in DOMAIN kinds |-> [kind |-> kinds[j], id |-> typed + 1,
                           want |-> Table(shiftKey, capsKey), spoilt |-> faked]]

LEMMA SentFacts ==
  ASSUME NEW kinds \in Seq(CodeKinds), NEW faked \in BOOLEAN, KbTypeOK
  PROVE  /\ Sent(kinds, faked) \in Seq(Code)
         /\ Len(kinds) \in Nat /\ Len(Sent(kinds, faked)) = Len(kinds)
         /\ \A j \in 1 .. Len(kinds) :
              /\ Sent(kinds, faked)[j].kind = kinds[j]
              /\ Sent(kinds, faked)[j].id = typed + 1
              /\ Sent(kinds, faked)[j].want = Table(shiftKey, capsKey)
              /\ Sent(kinds, faked)[j].spoilt = faked
<1>1. Len(kinds) \in Nat /\ DOMAIN kinds = 1 .. Len(kinds)
  BY LenProperties
<1>2. Table(shiftKey, capsKey) \in Tables /\ typed + 1 \in Nat
  BY TableType DEF KbTypeOK
<1>3. \A j \in 1 .. Len(kinds) : Sent(kinds, faked)[j] \in Code
  <2> TAKE j \in 1 .. Len(kinds)
  <2>1. kinds[j] \in CodeKinds
    BY <1>1, ElementOfSeq
  <2> QED BY <1>1, <1>2, <2>1 DEF Sent, Code
<1>4. Sent(kinds, faked) = [j \in 1 .. Len(kinds) |-> Sent(kinds, faked)[j]]
  BY <1>1 DEF Sent
<1>5. Sent(kinds, faked) \in Seq(Code) /\ Len(Sent(kinds, faked)) = Len(kinds)
  <2>1. Sent(kinds, faked) \in [1 .. Len(kinds) -> Code]
    BY <1>3, <1>4
  <2> QED BY <1>1, <2>1, LenProperties
<1> QED BY <1>1, <1>5 DEF Sent

\* The codes sent come after the ones that wait.
LEMMA SendFacts ==
  ASSUME NEW kinds \in Burst, NEW faked \in BOOLEAN, Send(kinds, faked), KbTypeOK
  PROVE  /\ Sent(kinds, faked) \in Seq(Code)
         /\ Len(Sent(kinds, faked)) = Len(kinds)
         /\ codes' = codes \o Sent(kinds, faked)
         /\ codes' \in Seq(Code)
         /\ Len(codes') = Len(codes) + Len(kinds)
         /\ \A j \in 1 .. Len(codes) : codes'[j] = codes[j]
         /\ \A j \in 1 .. Len(kinds) :
              /\ codes'[Len(codes) + j] = Sent(kinds, faked)[j]
              /\ Sent(kinds, faked)[j].kind = kinds[j]
              /\ Sent(kinds, faked)[j].id = typed + 1
<1> DEFINE q == Sent(kinds, faked)
<1>1. /\ kinds \in Seq(CodeKinds) /\ Len(kinds) \in Nat
  BY BurstFacts
<1>2. /\ q \in Seq(Code) /\ Len(q) = Len(kinds)
      /\ \A j \in 1 .. Len(kinds) : q[j].kind = kinds[j] /\ q[j].id = typed + 1
  BY <1>1, SentFacts
<1>3. codes \in Seq(Code) /\ codes' = codes \o q
  BY DEF Send, Sent, KbTypeOK
<1>4. codes \in Seq(Code) /\ q \in Seq(Code)
  BY <1>2, <1>3
<1> HIDE DEF q
<1>5. /\ codes \o q \in Seq(Code)
      /\ Len(codes \o q) = Len(codes) + Len(q)
      /\ \A j \in 1 .. Len(codes) + Len(q) :
           (codes \o q)[j] = IF j <= Len(codes) THEN codes[j] ELSE q[j - Len(codes)]
  BY <1>4, ConcatProperties
<1>6. Len(codes) \in Nat
  BY <1>3
<1>7. \A j \in 1 .. Len(codes) : codes'[j] = codes[j]
  BY <1>1, <1>2, <1>3, <1>5, <1>6
<1>8. \A j \in 1 .. Len(kinds) : codes'[Len(codes) + j] = q[j]
  BY <1>1, <1>2, <1>3, <1>5, <1>6
<1> QED BY <1>2, <1>3, <1>5, <1>7, <1>8 DEF q

\* KbHandler takes the first of a queue that is not empty.
LEMMA HandlerFacts ==
  ASSUME KbHandler, KbTypeOK
  PROVE  /\ Head(codes) \in Code /\ Head(codes) = codes[1]
         /\ codes' = Tail(codes) /\ codes' \in Seq(Code)
         /\ Len(codes) \in Nat /\ Len(codes) >= 1
         /\ Len(codes') = Len(codes) - 1
         /\ \A j \in 1 .. Len(codes') : codes'[j] = codes[j + 1]
         /\ Decode(Head(codes))
<1>1. codes \in Seq(Code) /\ codes # <<>> /\ codes' = Tail(codes)
  BY DEF KbHandler, ReadPort, KbTypeOK
<1> QED BY <1>1, HeadTailProperties, EmptySeq DEF KbHandler

LEMMA InitKbTypeOK == KbInitial => KbTypeOK
<1> SUFFICES ASSUME KbStart PROVE KbTypeOK
  BY DEF KbInitial
<1>1. NoChar \in Char
  BY DEF NoChar, Nul, Char, Code, Tables, CodeKinds
<1>2. codes \in Seq(Code) /\ delivered \in Seq(Nat) /\ typed \in Nat /\ navKeys \in Nat
  BY DEF KbStart
<1>3. /\ pressed \in BOOLEAN /\ caps \in BOOLEAN /\ shift \in BOOLEAN
      /\ storeFirst \in BOOLEAN /\ numLock \in BOOLEAN
      /\ shiftKey \in BOOLEAN /\ rightKey \in BOOLEAN /\ capsKey \in BOOLEAN
      /\ fake \in BOOLEAN
  BY Zenon DEF KbStart
<1>4. currentCh \in Char /\ ret \in Char
  BY <1>1, Zenon DEF KbStart
<1> QED BY <1>2, <1>3, <1>4, Zenon DEF KbTypeOK

LEMMA NextKbTypeOK == KbTypeOK /\ [KbNext]_vars => KbTypeOK'
<1> SUFFICES ASSUME KbTypeOK, [KbNext]_vars PROVE KbTypeOK'
  OBVIOUS
<1>1. CASE SystemStep
  BY <1>1 DEF SystemStep, KbTypeOK, keysVars
<1>2. ASSUME NEW e \in KeyEvents, KeyEvent(e) PROVE KbTypeOK'
  <2>1. PICK kinds \in Burst, faked \in BOOLEAN : Send(kinds, faked)
    BY <1>2, KeyEventSends
  <2>2. codes' \in Seq(Code)
    BY <2>1, SendFacts
  <2>3. typed' \in Nat /\ fake' \in BOOLEAN
    BY <2>1 DEF Send, KbTypeOK
  <2>4. /\ shiftKey' \in BOOLEAN /\ rightKey' \in BOOLEAN /\ capsKey' \in BOOLEAN
        /\ navKeys' \in Nat
    <3>1. /\ shiftKey' = shiftKey \/ shiftKey' = ~shiftKey
          /\ rightKey' = rightKey \/ rightKey' = ~rightKey
          /\ capsKey' = capsKey \/ capsKey' = ~capsKey
      BY <1>2 DEF KeyEvent
    <3>2. \/ navKeys' = navKeys \/ navKeys' = navKeys + 1
          \/ navKeys > 0 /\ navKeys' = navKeys - 1
      BY <1>2 DEF KeyEvent
    <3>3. navKeys' \in Nat
      BY <3>2 DEF KbTypeOK
    <3> QED BY <3>1, <3>3 DEF KbTypeOK
  <2> QED BY <2>1, <2>2, <2>3, <2>4 DEF Send, KbTypeOK
<1>3. CASE KbHandler
  <2>1. Head(codes) \in Code /\ codes' \in Seq(Code) /\ Decode(Head(codes))
    BY <1>3, HandlerFacts
  <2>2. currentCh' \in Char
    <3>1. ASSUME NEW k \in CodeKinds
          PROVE  [code |-> [Head(codes) EXCEPT !.kind = k], table |-> Table(shift, caps)] \in Char
      BY <2>1, <3>1, TableType DEF Code, Char
    <3>2. Entries(Head(codes).kind) \subseteq CodeKinds
      BY <2>1 DEF Entries, Code, CodeKinds
    <3> QED BY <2>1, <3>1, <3>2 DEF Decode, KbTypeOK
  <2>3. pressed' \in BOOLEAN /\ caps' \in BOOLEAN /\ shift' \in BOOLEAN
    BY <2>1 DEF Decode, KbTypeOK
  <2> QED BY <1>3, <2>1, <2>2, <2>3 DEF KbHandler, KbTypeOK, keysVars
<1>4. CASE KbGetChar
  <2>1. ret' \in Char
    <3>1. NoChar \in Char
      BY DEF NoChar, Nul, Char, Code, Tables, CodeKinds
    <3> QED BY <1>4, <3>1 DEF KbGetChar, TestPressed, StorePressed, LoadAndReturn,
              LoadCurrentCh, StoreAndReturn, Reader, Return, KbTypeOK
  <2>2. delivered' \in Seq(Nat)
    <3>1. ASSUME NEW ch \in Char, Return(ch) PROVE delivered' \in Seq(Nat)
      BY <3>1, AppendProperties DEF Return, Char, Code, KbTypeOK
    <3> QED BY <1>4, <3>1 DEF KbGetChar, TestPressed, StorePressed, LoadAndReturn,
              LoadCurrentCh, StoreAndReturn, Reader, KbTypeOK
  <2> QED
    BY <1>4, <2>1, <2>2 DEF KbGetChar, TestPressed, StorePressed, LoadAndReturn,
       LoadCurrentCh, StoreAndReturn, Reader, KbTypeOK, keysVars
<1>5. CASE UNCHANGED vars
  BY <1>5 DEF vars, kbVars, KbTypeOK
<1> QED BY <1>1, <1>2, <1>3, <1>4, <1>5 DEF KbNext

-----------------------------------------------------------------------------
(* An edge for every code. *)

\* From PicRemap on, a latched edge of line 1 stands for a code at port
\* 0x60, and so does one that is being handled; not both.
EdgeMeansCode ==
  boot \notin {"cli", "idt"} =>
    /\ cpu \in {"stub", "handler"} /\ line = Kb => codes # <<>> /\ Kb \notin irr
    /\ Kb \in irr => codes # <<>>

LEMMA NextEdgeMeansCode ==
  IInv /\ KbTypeOK /\ EdgeMeansCode /\ [KbNext]_vars => EdgeMeansCode'
<1> SUFFICES ASSUME IInv, KbTypeOK, EdgeMeansCode, [KbNext]_vars
             PROVE  EdgeMeansCode'
  OBVIOUS
<1> USE DEF EdgeMeansCode
<1>1. CASE SystemStep
  <2>1. codes' = codes
    BY <1>1 DEF SystemStep
  <2>2. CASE BootStep
    BY <2>1, <2>2 DEF BootStep, IdtInit, PicRemap, Sti, KbInit
  <2>3. CASE StubStep
    <3>1. CASE Iretq
      <4>1. PICK ctx \in Main : below = <<ctx>>
        BY <3>1 DEF Iretq, IInv, OneContext, Interrupted
      <4>2. cpu' = "main" /\ UNCHANGED <<irr, boot>>
        BY <3>1, <4>1, SuspendResume DEF Iretq
      <4>3. boot \in {"sti", "ready"}
        BY <4>1, SuspendResume DEF IInv, OneContext
      <4> QED BY <2>1, <4>2, <4>3
    <3> QED BY <2>1, <2>3, <3>1 DEF StubStep, IrqHandler, PicEoiSlave, PicEoiMaster
  <2>4. CASE IsrHandler
    BY <2>1, <2>4 DEF IsrHandler
  <2>5. ASSUME NEW n \in Lines \ {Kb}, Raise(n) PROVE EdgeMeansCode'
    BY <2>1, <2>5 DEF Raise
  <2>6. ASSUME NEW n \in Lines, TakeInterrupt(n) PROVE EdgeMeansCode'
    BY <2>1, <2>6 DEF TakeInterrupt, Enter, IInv, OneContext
  <2>7. ASSUME NEW n \in {7, 15}, TakeSpurious(n) PROVE EdgeMeansCode'
    BY <2>1, <2>7 DEF TakeSpurious, Enter, Kb
  <2> QED BY <1>1, <2>2, <2>3, <2>4, <2>5, <2>6, <2>7 DEF SystemStep
<1>2. ASSUME NEW e \in KeyEvents, KeyEvent(e) PROVE EdgeMeansCode'
  <2>1. PICK kinds \in Burst, faked \in BOOLEAN : Send(kinds, faked)
    BY <1>2, KeyEventSends
  <2>2. codes' # <<>>
    <3>1. codes' \in Seq(Code) /\ Len(codes') = Len(codes) + Len(kinds) /\ Len(codes) \in Nat
      BY <2>1, SendFacts DEF KbTypeOK
    <3>2. Len(kinds) \in Nat /\ Len(kinds) >= 1
      BY BurstFacts
    <3> QED BY <3>1, <3>2, EmptySeq
  <2>3. CASE codes = <<>>
    BY <2>1, <2>2, <2>3 DEF Send, Signal
  <2>4. CASE codes # <<>>
    BY <2>1, <2>2, <2>4 DEF Send, irqVars
  <2> QED BY <2>3, <2>4
<1>3. CASE KbHandler
  BY <1>3 DEF KbHandler, HandlerEnds, ReadPort
<1>4. CASE KbGetChar
  BY <1>4 DEF KbGetChar, TestPressed, StorePressed, LoadAndReturn, LoadCurrentCh,
              StoreAndReturn, Reader, irqVars
<1>5. CASE UNCHANGED vars
  BY <1>5 DEF vars, irqVars, kbVars
<1> QED BY <1>1, <1>2, <1>3, <1>4, <1>5 DEF KbNext

\* IrqHandler calls KbHandler only when the controller has a code for it,
\* from whatever edges the firmware left behind on.
THEOREM HandlerAlwaysFindsCode == KbSpec => []HandlerFindsCode
<1>1. KbInitial => EdgeMeansCode
  BY DEF KbInitial, Init, EdgeMeansCode
<1>2. KbSpec => []IInv
  BY ImplementsInterrupts, Invariance, PTL
<1>3. IInv /\ EdgeMeansCode => HandlerFindsCode
  BY DEF IInv, OneContext, Interrupted, EdgeMeansCode, HandlerFindsCode
<1> QED
  BY <1>1, <1>2, <1>3, InitKbTypeOK, NextKbTypeOK, NextEdgeMeansCode, PTL DEF KbSpec

-----------------------------------------------------------------------------
(* The order of the characters. *)

Slot == currentCh.code.id

\* No key returned is later than x, and x itself is at most among the last
\* k of them.
Below(x, k) ==
  \A j \in DOMAIN delivered :
    /\ delivered[j] <= x
    /\ j <= Len(delivered) - k => delivered[j] < x

\* The keys returned never go back, and k places on they have gone forward.
Spread(k) ==
  \A i, j \in DOMAIN delivered :
    /\ i <= j => delivered[i] <= delivered[j]
    /\ i + k <= j => delivered[i] < delivered[j]

\* Where KbGetChar is says how often the key in the slot, or the one already
\* loaded, can have been returned.
ReturnedStoringFirst ==
  /\ rd \in {"out", "store", "load"}
  /\ rd = "out" => Below(Slot, 2) /\ (pressed => Below(Slot, 1))
  /\ rd = "store" => pressed /\ Below(Slot, 1)
  /\ rd = "load" => Below(Slot, 1) /\ (pressed => Below(Slot, 0))
  /\ Spread(2)

ReturnedLoadingFirst ==
  /\ rd \in {"out", "load", "late"}
  /\ rd = "out" => Below(Slot, 1) /\ (pressed => Below(Slot, 0))
  /\ rd = "load" => pressed /\ Below(Slot, 0)
  /\ rd = "late" => pressed /\ Below(Slot, 0) /\ Below(ret.code.id, 0) /\ ret.code.id <= Slot
  /\ Spread(1)

\* The characters that wait in the controller are later than the one in the
\* slot, each later than the one before it.
CharsWaitInOrder ==
  /\ Slot <= typed
  /\ \A j \in DOMAIN codes :
       codes[j].id <= typed /\ (IsChar(codes[j]) => Slot < codes[j].id)
  /\ \A i, j \in DOMAIN codes :
       i < j /\ IsChar(codes[i]) /\ IsChar(codes[j]) => codes[i].id < codes[j].id

OrderInv ==
  /\ CharsWaitInOrder
  /\ IF storeFirst THEN ReturnedStoringFirst ELSE ReturnedLoadingFirst

\* A later character in the slot has not been returned; more may be among
\* the last ones than must be.
LEMMA BelowRises ==
  ASSUME NEW x \in Nat, NEW y \in Nat, x < y, NEW k \in Nat, KbTypeOK, Below(x, k)
  PROVE  Below(y, 0)
<1>1. \A j \in DOMAIN delivered : delivered[j] \in Nat
  BY ElementOfSeq, LenProperties DEF KbTypeOK
<1> QED BY <1>1 DEF Below

LEMMA BelowWeakens ==
  ASSUME KbTypeOK, NEW x \in Nat
  PROVE  (Below(x, 0) => Below(x, 1)) /\ (Below(x, 1) => Below(x, 2))
<1>1. DOMAIN delivered = 1 .. Len(delivered) /\ Len(delivered) \in Nat
  BY LenProperties DEF KbTypeOK
<1> QED BY <1>1 DEF Below

\* Returning x, or returning nothing: what the new history is like.
LEMMA ReturnBelow ==
  ASSUME KbTypeOK, NEW x \in Nat, NEW y \in Nat, x <= y, NEW k \in Nat,
         Below(x, k), delivered' = Append(delivered, x)
  PROVE  /\ \A j \in DOMAIN delivered' :
              /\ delivered'[j] <= y
              /\ j <= Len(delivered') - (k + 1) => delivered'[j] < y
         /\ Spread(k + 1) => Spread(k + 1)'
<1>1. /\ delivered \in Seq(Nat) /\ Len(delivered) \in Nat
      /\ DOMAIN delivered = 1 .. Len(delivered)
      /\ \A j \in DOMAIN delivered : delivered[j] \in Nat
  BY ElementOfSeq, LenProperties DEF KbTypeOK
<1>2. /\ delivered' \in Seq(Nat)
      /\ Len(delivered') = Len(delivered) + 1
      /\ \A j \in 1 .. Len(delivered) : delivered'[j] = delivered[j]
      /\ delivered'[Len(delivered) + 1] = x
  BY <1>1, AppendProperties
<1>3. DOMAIN delivered' = 1 .. (Len(delivered) + 1)
  BY <1>2, LenProperties
<1>4. \A j \in DOMAIN delivered' :
        \/ j = Len(delivered) + 1
        \/ j \in DOMAIN delivered /\ delivered'[j] = delivered[j]
  BY <1>1, <1>2, <1>3
<1>5. ASSUME NEW j \in DOMAIN delivered'
      PROVE  /\ delivered'[j] <= y
             /\ j <= Len(delivered') - (k + 1) => delivered'[j] < y
  <2>1. CASE j = Len(delivered) + 1
    BY <1>1, <1>2, <2>1
  <2>2. CASE j \in DOMAIN delivered /\ delivered'[j] = delivered[j]
    BY <1>1, <1>2, <2>2 DEF Below
  <2> QED BY <1>4, <2>1, <2>2
<1>6. ASSUME Spread(k + 1) PROVE Spread(k + 1)'
  <2> SUFFICES ASSUME NEW i \in DOMAIN delivered', NEW j \in DOMAIN delivered'
               PROVE  /\ i <= j => delivered'[i] <= delivered'[j]
                      /\ i + (k + 1) <= j => delivered'[i] < delivered'[j]
    BY DEF Spread
  <2>1. CASE j \in DOMAIN delivered /\ delivered'[j] = delivered[j]
    BY <1>1, <1>2, <1>4, <1>6, <2>1 DEF Spread
  <2>2. CASE j = Len(delivered) + 1 /\ i = Len(delivered) + 1
    BY <1>1, <1>2, <2>2
  <2>3. CASE j = Len(delivered) + 1 /\ i \in DOMAIN delivered /\ delivered'[i] = delivered[i]
    BY <1>1, <1>2, <2>3 DEF Below
  <2> QED BY <1>4, <2>1, <2>2, <2>3
<1> QED BY <1>5, <1>6

LEMMA WaitingIds ==
  ASSUME KbTypeOK, codes' \in Seq(Code)
  PROVE  /\ Len(codes) \in Nat /\ DOMAIN codes = 1 .. Len(codes)
         /\ DOMAIN codes' = 1 .. Len(codes')
         /\ \A j \in DOMAIN codes : codes[j].id \in Nat
<1>1. codes \in Seq(Code)
  BY DEF KbTypeOK
<1>2. \A j \in 1 .. Len(codes) : codes[j] \in Code
  BY <1>1, ElementOfSeq
<1>3. \A c \in Code : c.id \in Nat
  BY DEF Code
<1> QED BY <1>1, <1>2, <1>3, LenProperties

LEMMA OrderStays ==
  ASSUME OrderInv, CharsWaitInOrder',
         UNCHANGED <<pressed, currentCh, rd, ret, storeFirst, delivered>>
  PROVE  OrderInv'
<1>1. /\ \A k : Below(Slot, k)' <=> Below(Slot, k)
      /\ \A k : Below(ret.code.id, k)' <=> Below(ret.code.id, k)
      /\ \A k : Spread(k)' <=> Spread(k)
      /\ Slot' = Slot
  BY DEF Below, Spread, Slot
<1>2. ReturnedStoringFirst => ReturnedStoringFirst'
  BY <1>1 DEF ReturnedStoringFirst
<1>3. ReturnedLoadingFirst => ReturnedLoadingFirst'
  BY <1>1 DEF ReturnedLoadingFirst
<1> QED BY <1>2, <1>3 DEF OrderInv

LEMMA SendKeepsOrder ==
  ASSUME KbTypeOK, OrderInv, NEW kinds \in Burst, NEW faked \in BOOLEAN, Send(kinds, faked)
  PROVE  OrderInv'
<1>1. /\ codes' \in Seq(Code)
      /\ Len(codes') = Len(codes) + Len(kinds)
      /\ \A j \in 1 .. Len(codes) : codes'[j] = codes[j]
      /\ \A j \in 1 .. Len(kinds) :
           codes'[Len(codes) + j].kind = kinds[j] /\ codes'[Len(codes) + j].id = typed + 1
  BY SendFacts
<1>2. /\ Len(kinds) \in Nat /\ DOMAIN kinds = 1 .. Len(kinds)
      /\ \A i, j \in DOMAIN kinds : kinds[i] \in Chars /\ kinds[j] \in Chars => i = j
  BY BurstFacts
<1>3. /\ Len(codes) \in Nat /\ DOMAIN codes = 1 .. Len(codes)
      /\ DOMAIN codes' = 1 .. Len(codes')
      /\ \A j \in DOMAIN codes : codes[j].id \in Nat
  BY <1>1, WaitingIds
<1>4. typed \in Nat /\ typed' = typed + 1 /\ Slot \in Nat /\ Slot' = Slot
  BY DEF Send, KbTypeOK, Slot, Char, Code
<1>5. \A j \in DOMAIN codes' :
        \/ j \in DOMAIN codes /\ codes'[j] = codes[j]
        \/ /\ j - Len(codes) \in DOMAIN kinds
           /\ codes'[j].kind = kinds[j - Len(codes)] /\ codes'[j].id = typed + 1
  <2> TAKE j \in DOMAIN codes'
  <2>1. CASE j <= Len(codes)
    BY <1>1, <1>3, <2>1
  <2>2. CASE j > Len(codes)
    <3>1. j - Len(codes) \in 1 .. Len(kinds) /\ Len(codes) + (j - Len(codes)) = j
      BY <1>1, <1>2, <1>3, <2>2
    <3> QED BY <1>1, <1>2, <3>1
  <2> QED BY <1>3, <2>1, <2>2
<1>6. CharsWaitInOrder'
  <2>1. \A j \in DOMAIN codes' :
          codes'[j].id <= typed' /\ (IsChar(codes'[j]) => Slot' < codes'[j].id)
    BY <1>3, <1>4, <1>5 DEF OrderInv, CharsWaitInOrder
  <2>2. ASSUME NEW i \in DOMAIN codes', NEW j \in DOMAIN codes',
               i < j, IsChar(codes'[i]), IsChar(codes'[j])
        PROVE  codes'[i].id < codes'[j].id
    <3>1. CASE j \in DOMAIN codes /\ codes'[j] = codes[j]
      BY <1>1, <1>3, <2>2, <3>1 DEF OrderInv, CharsWaitInOrder
    <3>2. CASE i \in DOMAIN codes /\ codes'[i] = codes[i] /\ codes'[j].id = typed + 1
      BY <1>3, <1>4, <3>2 DEF OrderInv, CharsWaitInOrder
    <3>3. CASE /\ i - Len(codes) \in DOMAIN kinds /\ codes'[i].kind = kinds[i - Len(codes)]
               /\ j - Len(codes) \in DOMAIN kinds /\ codes'[j].kind = kinds[j - Len(codes)]
      <4>1. i - Len(codes) = j - Len(codes)
        BY <1>2, <2>2, <3>3 DEF IsChar
      <4> QED BY <1>3, <2>2, <4>1
    <3> QED BY <1>5, <3>1, <3>2, <3>3
  <2>3. Slot' <= typed'
    BY <1>4 DEF OrderInv, CharsWaitInOrder
  <2> QED BY <2>1, <2>2, <2>3 DEF CharsWaitInOrder
<1> QED
  BY <1>6, OrderStays DEF Send

LEMMA HandlerKeepsOrder ==
  ASSUME KbTypeOK, OrderInv, KbHandler
  PROVE  OrderInv'
<1>1. /\ Head(codes) \in Code /\ Head(codes) = codes[1]
      /\ codes' \in Seq(Code) /\ Len(codes) \in Nat /\ Len(codes) >= 1
      /\ Len(codes') = Len(codes) - 1
      /\ \A j \in 1 .. Len(codes') : codes'[j] = codes[j + 1]
      /\ Decode(Head(codes))
  BY HandlerFacts
<1>2. /\ DOMAIN codes = 1 .. Len(codes) /\ DOMAIN codes' = 1 .. Len(codes')
      /\ \A j \in DOMAIN codes : codes[j].id \in Nat
  BY <1>1, WaitingIds
<1>3. \A j \in DOMAIN codes' : j + 1 \in DOMAIN codes /\ j \in Nat /\ codes'[j] = codes[j + 1]
  BY <1>1, <1>2
<1>4. /\ Slot \in Nat /\ ret.code.id \in Nat /\ typed \in Nat
      /\ 1 \in DOMAIN codes
      /\ UNCHANGED <<rd, ret, storeFirst, delivered, typed>>
  <2>1. Slot \in Nat /\ ret.code.id \in Nat /\ typed \in Nat
    BY DEF KbTypeOK, Slot, Char, Code
  <2>2. UNCHANGED <<rd, ret, storeFirst, delivered, typed>>
    BY DEF KbHandler, keysVars
  <2> QED BY <1>1, <1>2, <2>1, <2>2
<1>5. CASE IsChar(codes[1])
  <2>1. pressed' = TRUE /\ currentCh'.code.id = codes[1].id
    <3>1. PICK k : currentCh' = [code |-> [codes[1] EXCEPT !.kind = k], table |-> Table(shift, caps)]
      BY <1>1, <1>5 DEF IsChar, Chars, Decode
    <3>2. [codes[1] EXCEPT !.kind = k].id = codes[1].id
      BY <1>1 DEF Code
    <3> QED BY <1>1, <1>5, <3>1, <3>2 DEF IsChar, Chars, Decode
  <2>2. Slot' = codes[1].id /\ Slot' \in Nat /\ Slot < Slot' /\ Slot' <= typed
    BY <1>2, <1>4, <1>5, <2>1 DEF Slot, OrderInv, CharsWaitInOrder
  <2>3. CharsWaitInOrder'
    <3>1. \A j \in DOMAIN codes' : IsChar(codes'[j]) => codes[1].id < codes'[j].id
      <4> SUFFICES ASSUME NEW j \in DOMAIN codes', IsChar(codes[j + 1])
                   PROVE  codes[1].id < codes[j + 1].id
        BY <1>3
      <4>1. 1 < j + 1
        BY <1>1, <1>2
      <4> QED BY <1>3, <1>4, <1>5, <4>1 DEF OrderInv, CharsWaitInOrder
    <3>2. \A i, j \in DOMAIN codes' : i < j => i + 1 < j + 1
      BY <1>3
    <3> QED BY <1>3, <1>4, <2>2, <3>1, <3>2 DEF OrderInv, CharsWaitInOrder
  <2>4. \A k \in Nat : Below(Slot, k) => Below(Slot', 0)
    BY <1>4, <2>2, BelowRises
  <2>5. 0 \in Nat /\ 1 \in Nat /\ 2 \in Nat
    OBVIOUS
  <2>6. Below(Slot', 0)
    BY <2>4, <2>5 DEF OrderInv, ReturnedStoringFirst, ReturnedLoadingFirst
  <2>7. Below(Slot', 1) /\ Below(Slot', 2)
    BY <2>2, <2>6, BelowWeakens
  <2>8. ret.code.id <= Slot => ret.code.id <= Slot'
    BY <1>4, <2>2
  <2>9. /\ \A k : Below(Slot, k)' <=> Below(Slot', k)
        /\ \A k : Below(ret.code.id, k)' <=> Below(ret.code.id, k)
        /\ \A k : Spread(k)' <=> Spread(k)
    BY <1>4 DEF Below, Spread
  <2>10. CASE storeFirst
    BY <1>4, <2>1, <2>3, <2>6, <2>7, <2>9, <2>10 DEF OrderInv, ReturnedStoringFirst
  <2>11. CASE ~storeFirst
    BY <1>4, <2>1, <2>3, <2>6, <2>7, <2>8, <2>9, <2>11 DEF OrderInv, ReturnedLoadingFirst
  <2> QED BY <2>10, <2>11
<1>6. CASE ~IsChar(codes[1])
  <2>1. UNCHANGED <<pressed, currentCh>>
    BY <1>1, <1>6 DEF IsChar, Chars, Decode
  <2>2. CharsWaitInOrder'
    <3>1. \A i, j \in DOMAIN codes' : i < j => i + 1 < j + 1
      BY <1>3
    <3> QED BY <1>3, <1>4, <2>1, <3>1 DEF OrderInv, CharsWaitInOrder, Slot
  <2> QED
    BY <1>4, <2>1, <2>2, OrderStays
<1> QED BY <1>5, <1>6

\* The history after Return(ch): what was at most among the last k is at
\* most among the last k + 1, whether or not ch is a '\0'.
LEMMA ReturnFacts ==
  ASSUME KbTypeOK, NEW ch \in Char, Return(ch), UNCHANGED currentCh,
         ch.code.id <= Slot, NEW k \in {0, 1}, Below(ch.code.id, k), Below(Slot, k)
  PROVE  Below(Slot, k + 1)' /\ (Spread(k + 1) => Spread(k + 1)')
<1>1. ch.code.id \in Nat /\ Slot \in Nat /\ Slot' = Slot
  BY DEF Slot, KbTypeOK, Char, Code
<1>2. CASE delivered' = delivered
  BY <1>1, <1>2, BelowWeakens DEF Below, Spread
<1>3. CASE delivered' = Append(delivered, ch.code.id)
  <2> DEFINE x == ch.code.id
             y == Slot
  <2>1. x \in Nat /\ y \in Nat /\ x <= y /\ k \in Nat /\ Below(x, k)
        /\ delivered' = Append(delivered, x)
    BY <1>1, <1>3
  <2>2. y' = y
    BY <1>1
  <2> HIDE DEF x, y
  <2>3. /\ \A j \in DOMAIN delivered' :
             /\ delivered'[j] <= y
             /\ j <= Len(delivered') - (k + 1) => delivered'[j] < y
        /\ Spread(k + 1) => Spread(k + 1)'
    BY <2>1, ReturnBelow
  <2> QED BY <2>2, <2>3 DEF Below, y
<1> QED BY <1>2, <1>3 DEF Return

LEMMA ReaderKeepsOrder ==
  ASSUME KbTypeOK, OrderInv, KbGetChar
  PROVE  OrderInv'
<1>1. UNCHANGED <<codes, currentCh, storeFirst, typed>>
  BY DEF KbGetChar, TestPressed, StorePressed, LoadAndReturn, LoadCurrentCh,
         StoreAndReturn, Reader, keysVars
<1>2. CharsWaitInOrder' /\ Slot' = Slot
  BY <1>1 DEF OrderInv, CharsWaitInOrder, Slot
<1>3. Slot \in Nat /\ currentCh \in Char /\ ret \in Char
  BY DEF KbTypeOK, Slot, Char, Code
<1>4. ASSUME UNCHANGED delivered
      PROVE  /\ \A k : Below(Slot, k)' <=> Below(Slot, k)
             /\ \A k : Spread(k)' <=> Spread(k)
  BY <1>2, <1>4 DEF Below, Spread
<1>5. CASE TestPressed
  BY <1>1, <1>2, <1>4, <1>5 DEF TestPressed, Reader, OrderInv, ReturnedStoringFirst,
     ReturnedLoadingFirst
<1>6. CASE StorePressed
  BY <1>1, <1>2, <1>4, <1>6 DEF StorePressed, Reader, OrderInv, ReturnedStoringFirst,
     ReturnedLoadingFirst
<1>7. CASE LoadCurrentCh
  <2>1. /\ rd = "load" /\ ~storeFirst /\ rd' = "late" /\ ret' = currentCh
        /\ UNCHANGED <<pressed, delivered>>
    BY <1>7 DEF LoadCurrentCh, Reader
  <2>2. ret'.code.id = Slot /\ Below(ret.code.id, 0)' <=> Below(Slot, 0)'
    BY <1>1, <2>1 DEF Slot, Below
  <2> QED
    BY <1>1, <1>2, <1>3, <1>4, <2>1, <2>2 DEF OrderInv, ReturnedLoadingFirst
<1>8. CASE LoadAndReturn
  <2>1. /\ rd = "load" /\ storeFirst /\ rd' = "out" /\ UNCHANGED pressed
        /\ Return(currentCh) /\ Slot = currentCh.code.id
    BY <1>8 DEF LoadAndReturn, Reader, Return, Slot
  <2>2. Below(Slot, 1) /\ Spread(2) /\ (pressed => Below(Slot, 0))
    BY <2>1 DEF OrderInv, ReturnedStoringFirst
  <2>3. Below(Slot, 2)' /\ Spread(2)'
    <3>1. Slot <= Slot /\ 1 \in {0, 1} /\ 1 + 1 = 2
      BY <1>3
    <3> QED BY <1>1, <1>3, <2>1, <2>2, <3>1, ReturnFacts
  <2>4. pressed => Below(Slot, 1)'
    <3>1. Slot <= Slot /\ 0 \in {0, 1} /\ 0 + 1 = 1
      BY <1>3
    <3> QED BY <1>1, <1>3, <2>1, <2>2, <3>1, ReturnFacts
  <2> QED BY <1>1, <1>2, <2>1, <2>3, <2>4 DEF OrderInv, ReturnedStoringFirst
<1>9. CASE StoreAndReturn
  <2>1. rd = "late" /\ rd' = "out" /\ pressed' = FALSE /\ Return(ret)
    BY <1>9 DEF StoreAndReturn, Reader, Return
  <2>2. /\ ~storeFirst /\ Below(Slot, 0) /\ Below(ret.code.id, 0)
        /\ ret.code.id <= Slot /\ Spread(1)
    BY <2>1 DEF OrderInv, ReturnedStoringFirst, ReturnedLoadingFirst
  <2>3. Below(Slot, 1)' /\ Spread(1)'
    <3>1. 0 \in {0, 1} /\ 0 + 1 = 1
      OBVIOUS
    <3> QED BY <1>1, <1>3, <2>1, <2>2, <3>1, ReturnFacts
  <2> QED BY <1>1, <1>2, <2>1, <2>2, <2>3 DEF OrderInv, ReturnedLoadingFirst
<1> QED BY <1>5, <1>6, <1>7, <1>8, <1>9 DEF KbGetChar

LEMMA NextOrderInv == KbTypeOK /\ OrderInv /\ [KbNext]_vars => OrderInv'
<1> SUFFICES ASSUME KbTypeOK, OrderInv, [KbNext]_vars PROVE OrderInv'
  OBVIOUS
<1>1. ASSUME UNCHANGED <<codes, pressed, currentCh, rd, ret, storeFirst, typed, delivered>>
      PROVE  OrderInv'
  <2>1. CharsWaitInOrder'
    BY <1>1 DEF OrderInv, CharsWaitInOrder, Slot
  <2> QED BY <1>1, <2>1, OrderStays
<1>2. CASE SystemStep
  BY <1>1, <1>2 DEF SystemStep, keysVars
<1>3. ASSUME NEW e \in KeyEvents, KeyEvent(e) PROVE OrderInv'
  BY <1>3, KeyEventSends, SendKeepsOrder
<1>4. CASE KbHandler
  BY <1>4, HandlerKeepsOrder
<1>5. CASE KbGetChar
  BY <1>5, ReaderKeepsOrder
<1>6. CASE UNCHANGED vars
  BY <1>1, <1>6 DEF vars, kbVars
<1> QED BY <1>2, <1>3, <1>4, <1>5, <1>6 DEF KbNext

LEMMA InitOrderInv == KbInitial => OrderInv
<1> SUFFICES ASSUME KbStart PROVE OrderInv
  BY DEF KbInitial
<1>1. Slot = 0 /\ typed = 0 /\ codes = <<>> /\ delivered = <<>>
  BY DEF KbStart, Slot, NoChar, Nul
<1>2. CharsWaitInOrder
  BY <1>1 DEF CharsWaitInOrder
<1>3. \A k : Below(Slot, k) /\ Spread(k)
  BY <1>1 DEF Below, Spread
<1> QED BY <1>2, <1>3 DEF OrderInv, KbStart, ReturnedStoringFirst, ReturnedLoadingFirst

\* The places a key was returned at are neighbours.
LEMMA SpreadCounts ==
  ASSUME KbTypeOK, NEW k \in {1, 2}, Spread(k), NEW j \in DOMAIN delivered
  PROVE  Cardinality({m \in DOMAIN delivered : delivered[m] = delivered[j]}) <= k
<1> DEFINE M == {m \in DOMAIN delivered : delivered[m] = delivered[j]}
<1>1. /\ DOMAIN delivered = 1 .. Len(delivered) /\ Len(delivered) \in Nat
      /\ \A m \in DOMAIN delivered : delivered[m] \in Nat
  BY LenProperties, ElementOfSeq DEF KbTypeOK
<1>2. \A m, n \in M : m \in Int /\ n < m + k
  <2> TAKE m, n \in M
  <2>1. ~(delivered[m] < delivered[n])
    BY <1>1
  <2> QED BY <1>1, <2>1 DEF Spread
<1>3. \E a \in Int : M \subseteq a .. (a + k - 1)
  <2>1. CASE \A m \in M : m >= j
    <3>1. M \subseteq j .. (j + k - 1)
      BY <1>1, <1>2, <2>1
    <3> QED BY <1>1, <3>1
  <2>2. CASE \E m \in M : m < j
    <3>1. PICK a \in M : a < j
      BY <2>2
    <3>2. k = 2 /\ a = j - 1
      BY <1>1, <1>2, <3>1
    <3>3. M \subseteq a .. (a + k - 1)
      <4> SUFFICES ASSUME NEW m \in M PROVE m \in a .. (a + k - 1)
        OBVIOUS
      <4>1. m \in Int /\ m < a + 2 /\ j < m + 2
        BY <1>2, <3>2
      <4> QED BY <1>1, <3>2, <4>1
    <3> QED BY <1>1, <3>1, <3>3
  <2>3. \A m \in M : m >= j \/ m < j
    BY <1>1
  <2> QED BY <2>1, <2>2, <2>3
<1>4. PICK a \in Int : M \subseteq a .. (a + k - 1)
  BY <1>3
<1>5. IsFiniteSet(a .. (a + k - 1)) /\ Cardinality(a .. (a + k - 1)) = k
  BY FS_Interval
<1> QED BY <1>4, <1>5, FS_Subset

\* Characters reach the terminal in the order of the keys and none comes
\* back later: one is returned twice in a row when the handler runs between
\* KbGetChar's store and its load, and once only in a build that loads first,
\* for every interleaving and any number of keys.
THEOREM KeysAreDeliveredInOrder == KbSpec => []DeliveredInOrderTwiceAtMost
<1>1. KbTypeOK /\ OrderInv => DeliveredInOrderTwiceAtMost
  <2> SUFFICES ASSUME KbTypeOK, OrderInv PROVE DeliveredInOrderTwiceAtMost
    OBVIOUS
  <2>1. PICK k \in {1, 2} : k = (IF storeFirst THEN 2 ELSE 1) /\ Spread(k)
    BY DEF OrderInv, ReturnedStoringFirst, ReturnedLoadingFirst
  <2>2. DOMAIN delivered = 1 .. Len(delivered) /\ Len(delivered) \in Nat
    BY LenProperties DEF KbTypeOK
  <2>3. \A j \in 1 .. (Len(delivered) - 1) : delivered[j] <= delivered[j + 1]
    BY <2>1, <2>2 DEF Spread
  <2> QED BY <2>1, <2>3, SpreadCounts DEF DeliveredInOrderTwiceAtMost
<1> QED
  BY <1>1, InitKbTypeOK, NextKbTypeOK, InitOrderInv, NextOrderInv, PTL DEF KbSpec

-----------------------------------------------------------------------------
(* The table a character is looked up in.                                  *)

States == [sh : BOOLEAN, ca : BOOLEAN]

\* What KbHandler will make of a code.
Effect(s, kind) ==
  [sh |-> IF kind = "shiftDown" THEN TRUE ELSE IF kind = "shiftUp" THEN FALSE ELSE s.sh,
   ca |-> IF kind = "caps" THEN ~s.ca ELSE s.ca]

\* A character met in the state s gets the table its user wants, unless a
\* fake shift spoils it.
Met(s, code) ==
  IsChar(code) => (Table(s.sh, s.ca) = code.want <=> ~code.spoilt)

\* st goes from a to b along the codes q.
Along(st, q, a, b) ==
  /\ st \in [1 .. (Len(q) + 1) -> States]
  /\ st[1] = a /\ st[Len(q) + 1] = b
  /\ \A j \in 1 .. Len(q) :
       /\ st[j + 1] = Effect(st[j], q[j].kind)
       /\ Met(st[j], q[j])

Runs(q, a, b) == \E st : Along(st, q, a, b)

\* What the keys make of the driver's state once their codes are read: a
\* fake shift turns left shift around.
Keyed(faked) == [sh |-> IF faked THEN ~shiftKey ELSE shiftKey, ca |-> capsKey]

\* The codes that wait lead from the driver's shift and caps to the keys'.
TablesInv ==
  /\ Runs(codes, [sh |-> shift, ca |-> caps], Keyed(fake))
  /\ LookedUpAsTyped

LEMMA RunsOn ==
  ASSUME NEW q \in Seq(Code), NEW r \in Seq(Code), NEW a, NEW b, NEW c,
         Runs(q, a, b), Runs(r, b, c)
  PROVE  Runs(q \o r, a, c)
<1>1. PICK s : Along(s, q, a, b)
  BY DEF Runs
<1>2. PICK t : Along(t, r, b, c)
  BY DEF Runs
<1>3. Len(q) \in Nat /\ Len(r) \in Nat
  BY LenProperties
<1>4. /\ Len(q \o r) = Len(q) + Len(r)
      /\ \A j \in 1 .. Len(q) + Len(r) :
           (q \o r)[j] = IF j <= Len(q) THEN q[j] ELSE r[j - Len(q)]
  BY ConcatProperties
<1> DEFINE n == Len(q)
           m == Len(r)
           u == [j \in 1 .. (n + m + 1) |-> IF j <= n + 1 THEN s[j] ELSE t[j - n]]
<1>5. s[n + 1] = t[1]
  BY <1>1, <1>2 DEF Along
<1>6. \A j \in 1 .. (m + 1) : u[n + j] = t[j]
  BY <1>3, <1>5
<1>7. \A j \in 1 .. (n + 1) : u[j] = s[j]
  BY <1>3
<1>8. u \in [1 .. (n + m + 1) -> States]
  BY <1>1, <1>2, <1>3 DEF Along
<1> HIDE DEF u
<1>9. u[1] = a /\ u[n + m + 1] = c
  <2>1. u[1] = a
    BY <1>1, <1>3, <1>7 DEF Along
  <2>2. m + 1 \in 1 .. (m + 1) /\ n + (m + 1) = n + m + 1
    BY <1>3
  <2>3. u[n + (m + 1)] = c
    BY <1>2, <1>6, <2>2 DEF Along
  <2> QED BY <2>1, <2>2, <2>3
<1>10. ASSUME NEW j \in 1 .. (n + m)
       PROVE  /\ u[j + 1] = Effect(u[j], (q \o r)[j].kind)
              /\ Met(u[j], (q \o r)[j])
  <2>1. CASE j <= n
    <3>1. j \in 1 .. n /\ u[j] = s[j] /\ u[j + 1] = s[j + 1] /\ (q \o r)[j] = q[j]
      BY <1>3, <1>4, <1>7, <2>1
    <3> QED BY <1>1, <3>1 DEF Along
  <2>2. CASE j > n
    <3>1. PICK i \in 1 .. m : j = n + i
      <4>1. j - n \in 1 .. m /\ j = n + (j - n)
        BY <1>3, <2>2
      <4> QED BY <4>1
    <3>2. u[j] = t[i] /\ u[j + 1] = t[i + 1] /\ (q \o r)[j] = r[i]
      <4>1. i \in 1 .. (m + 1) /\ i + 1 \in 1 .. (m + 1) /\ n + (i + 1) = j + 1 /\ j - n = i
        BY <1>3, <3>1
      <4> QED BY <1>3, <1>4, <1>6, <2>2, <3>1, <4>1
    <3> QED BY <1>2, <3>2 DEF Along
  <2> QED BY <1>3, <2>1, <2>2
<1>11. Along(u, q \o r, a, c)
  BY <1>3, <1>4, <1>8, <1>9, <1>10 DEF Along
<1> QED BY <1>11 DEF Runs

LEMMA RunsAlongNone ==
  ASSUME NEW a \in States
  PROVE  Runs(<<>>, a, a)
<1> DEFINE st == [j \in 1 .. 1 |-> a]
<1>1. Along(st, <<>>, a, a)
  BY DEF Along
<1> HIDE DEF st
<1> QED BY <1>1 DEF Runs

LEMMA RunsAlongOne ==
  ASSUME NEW code \in Code, NEW a \in States, NEW b \in States,
         b = Effect(a, code.kind), Met(a, code)
  PROVE  Runs(<<code>>, a, b)
<1> DEFINE st == [j \in 1 .. 2 |-> IF j = 1 THEN a ELSE b]
<1>1. Along(st, <<code>>, a, b)
  BY DEF Along
<1> HIDE DEF st
<1> QED BY <1>1 DEF Runs

\* What is typed with the keys as they are gets the table wanted, but for a
\* fake shift.
LEMMA KeyedIsMet ==
  ASSUME NEW faked \in BOOLEAN, NEW code, KbTypeOK,
         code.want = Table(shiftKey, capsKey), code.spoilt = faked
  PROVE  Met(Keyed(faked), code) /\ Keyed(faked) \in States
<1>1. shiftKey \in BOOLEAN /\ capsKey \in BOOLEAN
  BY DEF KbTypeOK
<1> QED BY <1>1 DEF Met, Keyed, States, Table

\* The codes of part of an event lead from a to b.
Leads(kinds, faked, a, b) ==
  kinds \in Seq(CodeKinds) /\ Runs(Sent(kinds, faked), a, b)

LEMMA NoneLeads ==
  ASSUME NEW a \in States, NEW faked
  PROVE  Leads(<<>>, faked, a, a)
<1>1. Sent(<<>>, faked) = <<>>
  BY DEF Sent
<1> QED BY <1>1, RunsAlongNone DEF Leads

LEMMA OneLeads ==
  ASSUME KbTypeOK, NEW k \in CodeKinds, NEW faked \in BOOLEAN,
         NEW a \in States, NEW b \in States, b = Effect(a, k),
         k \in Chars => a = Keyed(faked)
  PROVE  Leads(<<k>>, faked, a, b)
<1> DEFINE code == [kind |-> k, id |-> typed + 1, want |-> Table(shiftKey, capsKey),
                    spoilt |-> faked]
<1>1. code \in Code
  BY TableType DEF Code, KbTypeOK
<1>2. code.kind = k /\ code.want = Table(shiftKey, capsKey) /\ code.spoilt = faked
  OBVIOUS
<1>3. Sent(<<k>>, faked) = <<code>>
  BY DEF Sent
<1> HIDE DEF code
<1>4. Met(a, code)
  BY <1>2, KeyedIsMet DEF Met, IsChar
<1>5. Runs(<<code>>, a, b)
  BY <1>1, <1>2, <1>4, RunsAlongOne
<1> QED BY <1>3, <1>5 DEF Leads

LEMMA LeadsOn ==
  ASSUME KbTypeOK, NEW faked \in BOOLEAN, NEW p, NEW q, NEW a, NEW b, NEW c,
         Leads(p, faked, a, b), Leads(q, faked, b, c)
  PROVE  Leads(p \o q, faked, a, c)
<1>1. p \in Seq(CodeKinds) /\ q \in Seq(CodeKinds)
  BY DEF Leads
<1> DEFINE r == p \o q
           P == Sent(p, faked)
           Q == Sent(q, faked)
           R == Sent(r, faked)
<1>2. /\ r \in Seq(CodeKinds) /\ Len(r) = Len(p) + Len(q)
      /\ \A j \in 1 .. Len(p) + Len(q) : r[j] = IF j <= Len(p) THEN p[j] ELSE q[j - Len(p)]
  BY <1>1, ConcatProperties
<1> HIDE DEF r
<1>3. /\ P \in Seq(Code) /\ Len(P) = Len(p) /\ Len(p) \in Nat
      /\ Q \in Seq(Code) /\ Len(Q) = Len(q) /\ Len(q) \in Nat
      /\ R \in Seq(Code) /\ Len(R) = Len(r)
  BY <1>1, <1>2, SentFacts
<1>4. /\ DOMAIN p = 1 .. Len(p) /\ DOMAIN q = 1 .. Len(q) /\ DOMAIN r = 1 .. Len(r)
  BY <1>1, <1>2, LenProperties
<1>5. \A j \in 1 .. Len(p) + Len(q) : R[j] = IF j <= Len(p) THEN P[j] ELSE Q[j - Len(p)]
  <2> TAKE j \in 1 .. Len(p) + Len(q)
  <2>1. CASE j <= Len(p)
    <3>1. j \in DOMAIN p /\ j \in DOMAIN r /\ r[j] = p[j]
      BY <1>2, <1>3, <1>4, <2>1
    <3> QED BY <2>1, <3>1 DEF Sent
  <2>2. CASE j > Len(p)
    <3>1. j - Len(p) \in DOMAIN q /\ j \in DOMAIN r /\ r[j] = q[j - Len(p)]
      BY <1>2, <1>3, <1>4, <2>2
    <3>2. R[j] = Q[j - Len(p)]
      BY <3>1 DEF Sent
    <3> QED BY <1>3, <2>2, <3>2
  <2> QED BY <1>3, <2>1, <2>2
<1>6. P \in Seq(Code) /\ Q \in Seq(Code) /\ Runs(P, a, b) /\ Runs(Q, b, c)
  BY <1>3 DEF Leads
<1> HIDE DEF P, Q, R
<1>7. /\ P \o Q \in Seq(Code) /\ Len(P \o Q) = Len(P) + Len(Q)
      /\ \A j \in 1 .. Len(P) + Len(Q) : (P \o Q)[j] = IF j <= Len(P) THEN P[j] ELSE Q[j - Len(P)]
  BY <1>6, ConcatProperties
<1>8. R = P \o Q
  <2> DEFINE S == P \o Q
  <2>1. S \in Seq(Code) /\ Len(S) = Len(R) /\ \A j \in 1 .. Len(R) : S[j] = R[j]
    BY <1>2, <1>3, <1>5, <1>7
  <2> HIDE DEF S
  <2>2. S = R
    BY <1>3, <2>1, SeqEqual
  <2> QED BY <2>2 DEF S
<1>9. Runs(R, a, c)
  BY <1>6, <1>8, RunsOn
<1> QED BY <1>2, <1>9 DEF Leads, R, r

\* A code behind the prefix e0.
LEMMA PairLeads ==
  ASSUME KbTypeOK, NEW k \in CodeKinds, NEW faked \in BOOLEAN,
         NEW a \in States, NEW b \in States, b = Effect(a, k),
         k \in Chars => a = Keyed(faked)
  PROVE  Leads(<<"release", k>>, faked, a, b)
<1>1. Effect(a, "release") = a
  BY DEF Effect, States
<1>2. Leads(<<"release">>, faked, a, a)
  BY <1>1, OneLeads DEF CodeKinds, Chars
<1>3. Leads(<<k>>, faked, a, b)
  BY OneLeads
<1>4. Leads(<<"release">> \o <<k>>, faked, a, b)
  BY <1>2, <1>3, LeadsOn
<1>5. <<"release">> \o <<k>> = <<"release", k>>
  <2> DEFINE p == <<"release">>
             q == <<k>>
             r == <<"release", k>>
  <2>1. p \in Seq(CodeKinds) /\ q \in Seq(CodeKinds) /\ r \in Seq(CodeKinds)
    BY DEF CodeKinds
  <2>2. Len(p) = 1 /\ Len(q) = 1 /\ Len(r) = 2 /\ p[1] = "release" /\ q[1] = k
        /\ r[1] = "release" /\ r[2] = k
    OBVIOUS
  <2> HIDE DEF p, q, r
  <2>3. /\ p \o q \in Seq(CodeKinds) /\ Len(p \o q) = 2
        /\ (p \o q)[1] = "release" /\ (p \o q)[2] = k
    BY <2>1, <2>2, ConcatProperties
  <2> DEFINE s == p \o q
  <2>4. s \in Seq(CodeKinds) /\ Len(s) = 2 /\ s[1] = "release" /\ s[2] = k
    BY <2>3
  <2> HIDE DEF s
  <2>5. s = r
    <3>1. \A j \in 1 .. Len(s) : s[j] = r[j]
      BY <2>2, <2>4
    <3> QED BY <2>1, <2>2, <2>4, <3>1, SeqEqual
  <2> QED BY <2>5 DEF p, q, r, s
<1> QED BY <1>4, <1>5

LEMMA KeyedIsState ==
  ASSUME KbTypeOK, NEW faked \in BOOLEAN
  PROVE  Keyed(faked) \in States
BY DEF KbTypeOK, Keyed, States

\* The fakes before an extended key, of which at most one is of left shift.
LEMMA FakesBeforeLead ==
  ASSUME KbTypeOK, NEW faked \in BOOLEAN, faked = (fake \/ FakesLeft)
  PROVE  Leads(FakesBefore, faked, Keyed(fake), Keyed(faked))
<1> DEFINE a == Keyed(fake)
           b == Keyed(faked)
           up == <<"release", "shiftUp">>
           down == <<"release", "shiftDown">>
           rr == <<"release", "release">>
<1>1. a \in States /\ b \in States /\ fake \in BOOLEAN
      /\ numLock \in BOOLEAN /\ shiftKey \in BOOLEAN /\ rightKey \in BOOLEAN
  BY KeyedIsState DEF KbTypeOK
<1>2. ~FakesLeft => a = b
  BY <1>1
<1>3. FakesLeft => b = Effect(a, IF numLock THEN "shiftDown" ELSE "shiftUp")
  BY <1>1 DEF FakesLeft, ShiftHeld, Effect, Keyed
<1>4. b = Effect(b, "release")
  BY <1>1 DEF Effect, States
<1> HIDE DEF a, b
<1>5. Leads(<<>>, faked, a, a) /\ Leads(<<>>, faked, b, b)
  BY <1>1, NoneLeads
<1>6. FakesLeft /\ numLock => Leads(down, faked, a, b)
  BY <1>1, <1>3, PairLeads DEF CodeKinds, Chars
<1>7. FakesLeft /\ ~numLock => Leads(up, faked, a, b)
  BY <1>1, <1>3, PairLeads DEF CodeKinds, Chars
<1>8. Leads(rr, faked, b, b)
  BY <1>1, <1>4, PairLeads DEF CodeKinds, Chars
<1> HIDE DEF up, down, rr
<1>9. CASE numLock
  <2>1. FakesBefore = IF ShiftHeld THEN <<>> ELSE down
    BY <1>9 DEF FakesBefore, down
  <2>2. FakesLeft <=> ~ShiftHeld
    BY <1>9 DEF FakesLeft
  <2> QED BY <1>2, <1>5, <1>6, <1>9, <2>1, <2>2 DEF a, b
<1>10. CASE ~numLock
  <2> DEFINE u == IF shiftKey THEN up ELSE <<>>
             v == IF rightKey THEN rr ELSE <<>>
  <2>1. FakesBefore = u \o v
    BY <1>10 DEF FakesBefore, up, rr
  <2>2. FakesLeft <=> shiftKey
    BY <1>10 DEF FakesLeft
  <2>3. Leads(u, faked, a, b) /\ Leads(v, faked, b, b)
    BY <1>2, <1>5, <1>7, <1>8, <1>10, <2>2
  <2> HIDE DEF u, v
  <2>4. Leads(u \o v, faked, a, b)
    BY <2>3, LeadsOn
  <2> QED BY <2>1, <2>4 DEF a, b
<1> QED BY <1>1, <1>9, <1>10

\* The fakes after it; the '\0' of right shift comes last.
LEMMA FakesAfterLead ==
  ASSUME KbTypeOK, NEW faked \in BOOLEAN, faked = (fake /\ ~FakesLeft)
  PROVE  Leads(FakesAfter, faked, Keyed(fake), Keyed(faked))
<1> DEFINE a == Keyed(fake)
           b == Keyed(faked)
           up == <<"release", "shiftUp">>
           down == <<"release", "shiftDown">>
           rn == <<"release", "nul">>
<1>1. a \in States /\ b \in States /\ fake \in BOOLEAN
      /\ numLock \in BOOLEAN /\ shiftKey \in BOOLEAN /\ rightKey \in BOOLEAN
  BY KeyedIsState DEF KbTypeOK
<1>2. ~FakesLeft => a = b
  BY <1>1
<1>3. FakesLeft => b = Effect(a, IF numLock THEN "shiftUp" ELSE "shiftDown")
  BY <1>1 DEF FakesLeft, ShiftHeld, Effect, Keyed
<1>4. b = Effect(b, "nul")
  BY <1>1 DEF Effect, States
<1>5. Leads(rn, faked, b, b)
  BY <1>1, <1>4, PairLeads DEF CodeKinds
<1> HIDE DEF a, b
<1>6. Leads(<<>>, faked, a, a) /\ Leads(<<>>, faked, b, b)
  BY <1>1, NoneLeads
<1>7. FakesLeft /\ numLock => Leads(up, faked, a, b)
  BY <1>1, <1>3, PairLeads DEF CodeKinds, Chars
<1>8. FakesLeft /\ ~numLock => Leads(down, faked, a, b)
  BY <1>1, <1>3, PairLeads DEF CodeKinds, Chars
<1> HIDE DEF up, down, rn
<1>9. CASE numLock
  <2>1. FakesAfter = IF ShiftHeld THEN <<>> ELSE up
    BY <1>9 DEF FakesAfter, up
  <2>2. FakesLeft <=> ~ShiftHeld
    BY <1>9 DEF FakesLeft
  <2> QED BY <1>2, <1>6, <1>7, <1>9, <2>1, <2>2 DEF a, b
<1>10. CASE ~numLock
  <2> DEFINE u == IF shiftKey THEN down ELSE <<>>
             v == IF rightKey THEN rn ELSE <<>>
  <2>1. FakesAfter = u \o v
    BY <1>10 DEF FakesAfter, down, rn
  <2>2. FakesLeft <=> shiftKey
    BY <1>10 DEF FakesLeft
  <2>3. Leads(u, faked, a, b) /\ Leads(v, faked, b, b)
    BY <1>2, <1>5, <1>6, <1>8, <1>10, <2>2
  <2> HIDE DEF u, v
  <2>4. Leads(u \o v, faked, a, b)
    BY <2>3, LeadsOn
  <2> QED BY <2>1, <2>4 DEF a, b
<1> QED BY <1>1, <1>9, <1>10

\* Every key event takes the state the keys stood for to the one they stand
\* for now.
LEMMA KeyEventLeads ==
  ASSUME KbTypeOK, NEW e, KeyEvent(e)
  PROVE  \E kinds \in Burst, faked \in BOOLEAN :
           Send(kinds, faked) /\ Leads(kinds, faked, Keyed(fake), Keyed(fake)')
<1> DEFINE a == Keyed(fake)
           b == Keyed(fake)'
<1>1. /\ shiftKey \in BOOLEAN /\ capsKey \in BOOLEAN /\ rightKey \in BOOLEAN
      /\ fake \in BOOLEAN /\ a \in States /\ a = Keyed(fake)
  BY KeyedIsState DEF KbTypeOK
<1>2. b = [sh |-> IF fake' THEN ~shiftKey' ELSE shiftKey', ca |-> capsKey']
  BY DEF Keyed
<1>3. ASSUME NEW k \in CodeKinds, NEW faked \in BOOLEAN, Send(<<k>>, faked),
             b = Effect(a, k), k \in Chars => faked = fake
      PROVE  \E kinds \in Burst, f \in BOOLEAN :
               Send(kinds, f) /\ Leads(kinds, f, a, b)
  <2>1. b \in States
    <3>1. a \in States /\ b = Effect(a, k)
      BY <1>1, <1>3
    <3> HIDE DEF a, b
    <3> QED BY <3>1 DEF Effect, States
  <2>2. Leads(<<k>>, faked, a, b)
    BY <1>1, <1>3, <2>1, OneLeads
  <2> QED BY <1>3, <2>2, QuietBurst
<1>4. \A k \in {"char", "nul", "beyond", "release"} : Effect(a, k) = a /\ k \in CodeKinds
  BY <1>1 DEF Effect, States, CodeKinds
<1>5. CASE /\ e \in {"char", "nul", "beyond", "release"} /\ Send(<<e>>, fake)
           /\ UNCHANGED <<shiftKey, capsKey>>
  <2>1. b = a
    BY <1>5 DEF Send, Keyed
  <2> QED BY <1>1, <1>3, <1>4, <1>5, <2>1
<1>6. CASE Send(<<"caps">>, fake) /\ capsKey' = ~capsKey /\ UNCHANGED shiftKey
  <2>1. b = Effect(a, "caps") /\ "caps" \in CodeKinds \ Chars
    BY <1>1, <1>6 DEF Send, Keyed, Effect, CodeKinds, Chars
  <2> QED BY <1>1, <1>3, <1>6, <2>1
<1>7. CASE /\ Send(<<IF shiftKey THEN "shiftUp" ELSE "shiftDown">>, FALSE)
           /\ shiftKey' = ~shiftKey /\ UNCHANGED capsKey
  <2> DEFINE k == IF shiftKey THEN "shiftUp" ELSE "shiftDown"
  <2>1. b = Effect(a, k) /\ k \in CodeKinds \ Chars
    BY <1>1, <1>7 DEF Send, Keyed, Effect, CodeKinds, Chars
  <2> QED BY <1>3, <1>7, <2>1
<1>8. CASE /\ Send(<<IF rightKey THEN "release" ELSE "nul">>, fake)
           /\ UNCHANGED <<shiftKey, capsKey>>
  <2> DEFINE k == IF rightKey THEN "release" ELSE "nul"
  <2>1. b = a /\ k \in {"char", "nul", "beyond", "release"}
    BY <1>8 DEF Send, Keyed
  <2> QED BY <1>1, <1>3, <1>4, <1>8, <2>1
<1>9. CASE /\ Send(FakesBefore \o <<"release", "nul">>, fake \/ FakesLeft)
           /\ UNCHANGED <<shiftKey, capsKey>>
  <2> DEFINE f == fake \/ FakesLeft
  <2>1. f \in BOOLEAN /\ b = Keyed(f)
    BY <1>1, <1>9 DEF Send, Keyed
  <2>2. Leads(FakesBefore, f, a, b)
    BY <2>1, FakesBeforeLead
  <2>3. Leads(<<"release", "nul">>, f, b, b)
    <3>1. b \in States /\ Effect(b, "nul") = b /\ "nul" \in CodeKinds
      BY <2>1, KeyedIsState DEF Effect, States, CodeKinds
    <3> HIDE DEF f, b
    <3> QED BY <2>1, <3>1, PairLeads
  <2>4. Leads(FakesBefore \o <<"release", "nul">>, f, a, b)
    BY <2>1, <2>2, <2>3, LeadsOn
  <2> QED BY <1>9, <2>1, <2>4, FakeBursts
<1>10. CASE /\ Send(<<"release", "release">> \o FakesAfter, fake /\ ~FakesLeft)
            /\ UNCHANGED <<shiftKey, capsKey>>
  <2> DEFINE f == fake /\ ~FakesLeft
  <2>1. f \in BOOLEAN /\ b = Keyed(f)
    BY <1>1, <1>10 DEF Send, Keyed
  <2>2. Leads(FakesAfter, f, a, b)
    BY <2>1, FakesAfterLead
  <2>3. Leads(<<"release", "release">>, f, a, a)
    <3>1. Effect(a, "release") = a /\ "release" \in CodeKinds \ Chars
      BY <1>4 DEF CodeKinds, Chars
    <3> HIDE DEF f, a
    <3> QED BY <1>1, <2>1, <3>1, PairLeads
  <2>4. Leads(<<"release", "release">> \o FakesAfter, f, a, b)
    BY <2>1, <2>2, <2>3, LeadsOn
  <2> QED BY <1>10, <2>1, <2>4, FakeBursts
<1> QED BY <1>5, <1>6, <1>7, <1>8, <1>9, <1>10 DEF KeyEvent

LEMMA KeyEventKeepsTables ==
  ASSUME KbTypeOK, TablesInv, NEW e, KeyEvent(e)
  PROVE  TablesInv'
<1>1. PICK kinds \in Burst, faked \in BOOLEAN :
        Send(kinds, faked) /\ Leads(kinds, faked, Keyed(fake), Keyed(fake)')
  BY KeyEventLeads
<1> DEFINE q == Sent(kinds, faked)
           s == [sh |-> shift, ca |-> caps]
           c == Keyed(fake)'
<1>2. codes \in Seq(Code) /\ q \in Seq(Code) /\ codes' = codes \o q
  BY <1>1, SendFacts DEF KbTypeOK
<1>3. Runs(codes, s, Keyed(fake)) /\ Runs(q, Keyed(fake), c)
  BY <1>1 DEF TablesInv, Leads
<1>4. s' = s /\ LookedUpAsTyped'
  BY <1>1 DEF Send, TablesInv, LookedUpAsTyped
<1> HIDE DEF q, s, c
<1>5. Runs(codes', s, c)
  BY <1>2, <1>3, RunsOn
<1> QED BY <1>4, <1>5 DEF TablesInv, s, c, Runs, Along, Met

LEMMA HandlerKeepsTables ==
  ASSUME KbTypeOK, TablesInv, KbHandler
  PROVE  TablesInv'
<1> DEFINE Held == Keyed(fake)
<1>1. /\ Head(codes) \in Code /\ Head(codes) = codes[1]
      /\ Len(codes) \in Nat /\ Len(codes) >= 1
      /\ Len(codes') = Len(codes) - 1
      /\ \A j \in 1 .. Len(codes') : codes'[j] = codes[j + 1]
      /\ Decode(Head(codes))
      /\ shift \in BOOLEAN /\ caps \in BOOLEAN
  BY HandlerFacts DEF KbTypeOK
<1>2. PICK st : Along(st, codes, [sh |-> shift, ca |-> caps], Held)
  BY DEF TablesInv, Runs
<1>3. 1 \in 1 .. Len(codes) /\ st[1] = [sh |-> shift, ca |-> caps]
      /\ st[2] = Effect(st[1], codes[1].kind)
      /\ Met(st[1], codes[1])
  BY <1>1, <1>2 DEF Along
<1>4. st[2] = [sh |-> shift', ca |-> caps']
  <2>1. st[2].sh = shift' /\ st[2].ca = caps'
    <3> DEFINE k == codes[1].kind
    <3>1. /\ st[2].sh = IF k = "shiftDown" THEN TRUE ELSE IF k = "shiftUp" THEN FALSE ELSE shift
          /\ st[2].ca = IF k = "caps" THEN ~caps ELSE caps
      <4>1. st[1].sh = shift /\ st[1].ca = caps
        BY <1>3
      <4>2. st[2] = Effect(st[1], k)
        BY <1>3
      <4>3. /\ Effect(st[1], k).sh =
                 IF k = "shiftDown" THEN TRUE ELSE IF k = "shiftUp" THEN FALSE ELSE st[1].sh
            /\ Effect(st[1], k).ca = IF k = "caps" THEN ~st[1].ca ELSE st[1].ca
        BY DEF Effect
      <4> HIDE DEF k
      <4> QED BY <4>1, <4>2, <4>3, Zenon
    <3>2. Decode(codes[1])
      BY <1>1
    <3>3. CASE k = "shiftDown" /\ shift' = TRUE /\ caps' = caps
      BY <3>1, <3>3, Zenon
    <3>4. CASE k = "shiftUp" /\ shift' = FALSE /\ caps' = caps
      BY <3>1, <3>4, Zenon
    <3>5. CASE k = "caps" /\ shift' = shift /\ caps' = ~caps
      BY <3>1, <3>5, Zenon
    <3>6. CASE k \in Chars \cup {"release"} /\ shift' = shift /\ caps' = caps
      <4>1. k # "shiftDown" /\ k # "shiftUp" /\ k # "caps"
        BY <3>6 DEF Chars
      <4> QED BY <3>1, <3>6, <4>1, Zenon
    <3> HIDE DEF k
    <3> QED BY <3>2, <3>3, <3>4, <3>5, <3>6, Zenon DEF Decode, Chars, k
  <2>2. st[2] = [sh |-> st[2].sh, ca |-> st[2].ca]
    BY <1>3 DEF Effect
  <2> QED BY <2>1, <2>2
<1>5. LookedUpAsTyped'
  <2>1. CASE IsChar(codes[1])
    <3>1. PICK k : currentCh' = [code |-> [codes[1] EXCEPT !.kind = k], table |-> Table(shift, caps)]
      BY <1>1, <2>1 DEF IsChar, Chars, Decode
    <3>2. [codes[1] EXCEPT !.kind = k].want = codes[1].want
          /\ [codes[1] EXCEPT !.kind = k].spoilt = codes[1].spoilt
      BY <1>1 DEF Code
    <3>3. Table(shift, caps) = codes[1].want <=> ~codes[1].spoilt
      BY <1>3, <2>1 DEF Met
    <3> QED BY <3>1, <3>2, <3>3 DEF LookedUpAsTyped
  <2>2. CASE ~IsChar(codes[1])
    <3>1. UNCHANGED currentCh
      BY <1>1, <2>2 DEF IsChar, Chars, Decode
    <3> QED BY <3>1 DEF TablesInv, LookedUpAsTyped
  <2> QED BY <2>1, <2>2
<1>6. Held' = Held
  BY DEF KbHandler, keysVars, Keyed
<1> DEFINE u == [j \in 1 .. (Len(codes') + 1) |-> st[j + 1]]
<1>7. u \in [1 .. (Len(codes') + 1) -> States]
  BY <1>1, <1>2 DEF Along
<1>8. u[1] = st[2] /\ u[Len(codes') + 1] = Held
  BY <1>1, <1>2 DEF Along
<1>9. ASSUME NEW j \in 1 .. Len(codes')
      PROVE  /\ u[j + 1] = Effect(u[j], codes'[j].kind)
             /\ Met(u[j], codes'[j])
  <2>1. u[j] = st[j + 1] /\ u[j + 1] = st[(j + 1) + 1] /\ codes'[j] = codes[j + 1]
        /\ j + 1 \in 1 .. Len(codes)
    BY <1>1
  <2> QED BY <1>2, <2>1 DEF Along
<1> HIDE DEF u
<1>10. Along(u, codes', [sh |-> shift', ca |-> caps'], Held')
  BY <1>4, <1>6, <1>7, <1>8, <1>9 DEF Along
<1>11. Runs(codes', [sh |-> shift', ca |-> caps'], Held')
  BY <1>10 DEF Runs
<1> QED BY <1>5, <1>6, <1>11 DEF TablesInv, Runs, Along, Met

LEMMA NextTablesInv == KbTypeOK /\ TablesInv /\ [KbNext]_vars => TablesInv'
<1> SUFFICES ASSUME KbTypeOK, TablesInv, [KbNext]_vars PROVE TablesInv'
  OBVIOUS
<1>1. ASSUME UNCHANGED <<codes, caps, shift, currentCh, shiftKey, capsKey, fake>>
      PROVE  TablesInv'
  BY <1>1 DEF TablesInv, Keyed, Runs, Along, Met, LookedUpAsTyped
<1>2. CASE SystemStep
  BY <1>1, <1>2 DEF SystemStep, keysVars
<1>3. ASSUME NEW e \in KeyEvents, KeyEvent(e) PROVE TablesInv'
  BY <1>3, KeyEventKeepsTables
<1>4. CASE KbHandler
  BY <1>4, HandlerKeepsTables
<1>5. CASE KbGetChar
  BY <1>1, <1>5 DEF KbGetChar, TestPressed, StorePressed, LoadAndReturn, LoadCurrentCh,
     StoreAndReturn, Reader, keysVars
<1>6. CASE UNCHANGED vars
  BY <1>1, <1>6 DEF vars, kbVars
<1> QED BY <1>2, <1>3, <1>4, <1>5, <1>6 DEF KbNext

\* A character is looked up in the table of the left shift and caps lock it
\* was typed with, however many codes wait and whatever keys are held with
\* it; not so exactly while the keyboard's fake shifts are in force.
THEOREM CharactersAreLookedUpAsTyped == KbSpec => []LookedUpAsTyped
<1>1. KbInitial => TablesInv
  <2> SUFFICES ASSUME KbStart PROVE TablesInv
    BY DEF KbInitial
  <2>1. [sh |-> FALSE, ca |-> FALSE] \in States
    BY DEF States
  <2>2. Runs(<<>>, [sh |-> FALSE, ca |-> FALSE], [sh |-> FALSE, ca |-> FALSE])
    BY <2>1, RunsAlongNone
  <2>3. codes = <<>> /\ Keyed(fake) = [sh |-> shift, ca |-> caps] /\ ~shift /\ ~caps
    BY DEF KbStart, Keyed
  <2>4. LookedUpAsTyped
    BY DEF KbStart, LookedUpAsTyped, NoChar, Nul
  <2>5. [sh |-> shift, ca |-> caps] = [sh |-> FALSE, ca |-> FALSE]
    BY DEF KbStart
  <2> QED
    BY <2>2, <2>3, <2>4, <2>5 DEF TablesInv
<1>2. TablesInv => LookedUpAsTyped
  BY DEF TablesInv
<1> QED
  BY <1>1, <1>2, InitKbTypeOK, NextKbTypeOK, NextTablesInv, PTL DEF KbSpec
=============================================================================
