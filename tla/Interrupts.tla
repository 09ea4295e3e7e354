----------------------------- MODULE Interrupts -----------------------------
(***************************************************************************)
(* Hardware interrupts: the two 8259 controllers as pic.c programs them    *)
(* (edge triggered, nothing masked), the gates of idt.c and the stubs of   *)
(* idt.asm (an interrupt suspends what was running until iretq, with       *)
(* interrupts off), IrqHandler and PicEoi, and the order in which KeStart  *)
(* turns all this on.                                                      *)
(*                                                                         *)
(* The controllers and the devices are external; irr and isr are their     *)
(* request and in-service registers.  Line 2 is the cascade: a slave line  *)
(* being served shows as bit 2 of the master.                              *)
(***************************************************************************)
EXTENDS Integers, FiniteSets, SequencesExt

CONSTANTS
  Lines,      \* the interrupt lines devices use
  Drivers,    \* the lines KeStart registers a handler for, {1}
  MaxEdges    \* how often a device without a driver raises its line

ASSUME LinesAssumption ==
  /\ Lines \subseteq (0 .. 15) \ {2}
  /\ Drivers \subseteq Lines
  /\ MaxEdges \in Nat

VARIABLES
  edges,      \* how often each device will still raise its line
  irr,        \* lines with a latched edge, of both controllers
  isr1, isr2, \* lines in service at the master and at the slave
  intFlag,    \* the processor's interrupt flag, IF
  handlers,   \* the lines whose entry of g_handlers is not null
  boot,       \* how far KeStart is
  cpu,        \* where the processor is: "main" or a stage of an interrupt
  line,       \* the interrupt being handled (intNo - 32), if any
  below       \* what was interrupted and is not resumed yet, innermost last

irqVars == <<edges, irr, isr1, isr2, intFlag, handlers, boot, cpu, line, below>>

Cascade == 2
Slave(n) == n > 7
MasterLine(n) == IF Slave(n) THEN Cascade ELSE n

Stages == {"main", "stub", "handler", "eoi", "eoi1", "iret"}

TypeOK ==
  /\ edges \in [Lines -> 0 .. MaxEdges]
  /\ irr \subseteq Lines
  /\ isr1 \subseteq 0 .. 7 /\ isr2 \subseteq 8 .. 15
  /\ intFlag \in BOOLEAN
  /\ handlers \subseteq Drivers
  /\ boot \in {"cli", "idt", "remapped", "sti", "ready"}
  /\ cpu \in Stages \cup {"halted"}
  /\ line \in 0 .. 15
  /\ below \in Seq([cpu : Stages, line : 0 .. 15])

\* After KeStart's cli; the controllers are as the firmware left them.
Init ==
  /\ edges = [n \in Lines |-> MaxEdges]
  /\ irr \in SUBSET Lines
  /\ isr1 = {} /\ isr2 = {}
  /\ intFlag = FALSE
  /\ handlers = {}
  /\ boot = "cli"
  /\ cpu = "main" /\ line = 0 /\ below = <<>>

-----------------------------------------------------------------------------
(* KeStart *)

\* From here on a fault finds a gate.
IdtInit ==
  /\ boot = "cli" /\ cpu = "main"
  /\ boot' = "idt"
  /\ UNCHANGED <<edges, irr, isr1, isr2, intFlag, handlers, cpu, line, below>>

\* The initialisation words clear both controllers' registers, the last ones
\* unmask every line.
PicRemap ==
  /\ boot = "idt" /\ cpu = "main"
  /\ irr' = {} /\ isr1' = {} /\ isr2' = {}
  /\ boot' = "remapped"
  /\ UNCHANGED <<edges, intFlag, handlers, cpu, line, below>>

Sti ==
  /\ boot = "remapped" /\ cpu = "main"
  /\ intFlag' = TRUE
  /\ boot' = "sti"
  /\ UNCHANGED <<edges, irr, isr1, isr2, handlers, cpu, line, below>>

\* KbInit: IrqRegister(1, KbHandler), after interrupts were turned on.
KbInit ==
  /\ boot = "sti" /\ cpu = "main"
  /\ handlers' = Drivers
  /\ boot' = "ready"
  /\ UNCHANGED <<edges, irr, isr1, isr2, intFlag, cpu, line, below>>

-----------------------------------------------------------------------------
(* Devices and controllers *)

\* A device without a driver raises its line.
Raise(n) ==
  /\ edges[n] > 0
  /\ edges' = [edges EXCEPT ![n] = @ - 1]
  /\ irr' = irr \cup {n}
  /\ UNCHANGED <<isr1, isr2, intFlag, handlers, boot, cpu, line, below>>

\* A device with a driver raises its line; when, is said with the driver.
Signal(n) ==
  /\ irr' = irr \cup {n}
  /\ UNCHANGED <<edges, isr1, isr2, intFlag, handlers, boot, cpu, line, below>>

\* The order in which the controllers serve lines: the slave's come where
\* line 2 would.
Before(m, n) ==
  \/ MasterLine(m) < MasterLine(n)
  \/ MasterLine(m) = MasterLine(n) /\ m < n

\* Nothing of the same or a higher priority is in service.
Admitted(n) ==
  /\ \A b \in isr1 : MasterLine(n) < b
  /\ Slave(n) => \A b \in isr2 : n < b

\* Mutant: a trap gate, which leaves interrupts on.
EnterTrapGate(n) ==
  /\ intFlag
  /\ Admitted(n)
  /\ below' = Append(below, [cpu |-> cpu, line |-> line])
  /\ cpu' = "stub" /\ line' = n
  /\ UNCHANGED <<edges, intFlag, handlers, boot>>

\* The processor looks at IF only, wherever it is.  The gates are interrupt
\* gates: what was running is suspended and IF is cleared until iretq.
Enter(n) ==
  /\ intFlag
  /\ Admitted(n)
  /\ below' = Append(below, [cpu |-> cpu, line |-> line])
  /\ cpu' = "stub" /\ line' = n
  /\ intFlag' = FALSE
  /\ UNCHANGED <<edges, handlers, boot>>

\* The processor takes the most urgent request.
TakeInterrupt(n) ==
  /\ n \in irr
  /\ \A m \in irr : m # n /\ Admitted(m) => Before(n, m)
  /\ Enter(n)
  /\ irr' = irr \ {n}
  /\ isr1' = isr1 \cup {MasterLine(n)}
  /\ isr2' = IF Slave(n) THEN isr2 \cup {n} ELSE isr2

\* A request that went away before it was acknowledged: the controller
\* answers with its lowest line and marks nothing in service there.
TakeSpurious(n) ==
  /\ n \in {7, 15}
  /\ Enter(n)
  /\ isr1' = IF Slave(n) THEN isr1 \cup {Cascade} ELSE isr1
  /\ UNCHANGED <<edges, irr, isr2>>

\* A non-specific end of interrupt ends the most urgent one in service.
Ended(isr) == IF isr = {} THEN isr ELSE isr \ {Min(isr)}

-----------------------------------------------------------------------------
(* IrqHandler and the stubs *)

\* g_handlers[intNo - 32] is called if it is not null.
IrqHandler ==
  /\ cpu = "stub"
  /\ cpu' = IF line \in handlers THEN "handler" ELSE "eoi"
  /\ UNCHANGED <<edges, irr, isr1, isr2, intFlag, handlers, boot, line, below>>

\* What the handler does to its device, irr included, is not said here.
HandlerEnds(n) ==
  /\ cpu = "handler" /\ line = n
  /\ cpu' = "eoi"
  /\ UNCHANGED <<edges, isr1, isr2, intFlag, handlers, boot, line, below>>

\* The device may raise its line again while its handler runs.
HandlerReturns(n) == HandlerEnds(n) /\ irr' \in {irr, irr \cup {n}}

\* Mutants: PicEoi tests no > 8; it tells the master only of its own lines.
PicEoiSlaveOff ==
  /\ cpu = "eoi"
  /\ isr2' = IF line > 8 THEN Ended(isr2) ELSE isr2
  /\ cpu' = "eoi1"
  /\ UNCHANGED <<edges, irr, isr1, intFlag, handlers, boot, line, below>>

PicEoiMasterElse ==
  /\ cpu = "eoi1"
  /\ isr1' = IF Slave(line) THEN isr1 ELSE Ended(isr1)
  /\ cpu' = "iret"
  /\ UNCHANGED <<edges, irr, isr2, intFlag, handlers, boot, line, below>>

\* PicEoi: the slave is told for its own lines, then the master always.
PicEoiSlave ==
  /\ cpu = "eoi"
  /\ isr2' = IF Slave(line) THEN Ended(isr2) ELSE isr2
  /\ cpu' = "eoi1"
  /\ UNCHANGED <<edges, irr, isr1, intFlag, handlers, boot, line, below>>

PicEoiMaster ==
  /\ cpu = "eoi1"
  /\ isr1' = Ended(isr1)
  /\ cpu' = "iret"
  /\ UNCHANGED <<edges, irr, isr2, intFlag, handlers, boot, line, below>>

\* What was interrupted goes on, with IF as it was, that is set.
Iretq ==
  /\ cpu = "iret"
  /\ cpu' = Last(below).cpu /\ line' = Last(below).line
  /\ below' = Front(below)
  /\ intFlag' = TRUE
  /\ UNCHANGED <<edges, irr, isr1, isr2, handlers, boot>>

\* A fault of the code being run: IsrHandler turns interrupts off, shows
\* the panic message and halts for ever.
IsrHandler ==
  /\ boot # "cli" /\ cpu # "halted"
  /\ cpu' = "halted"
  /\ intFlag' = FALSE
  /\ UNCHANGED <<edges, irr, isr1, isr2, handlers, boot, line, below>>

BootStep == IdtInit \/ PicRemap \/ Sti \/ KbInit
StubStep == IrqHandler \/ PicEoiSlave \/ PicEoiMaster \/ Iretq

Next ==
  \/ BootStep
  \/ \E n \in Lines : Raise(n)
  \/ \E n \in Drivers : Signal(n)
  \/ \E n \in Lines : TakeInterrupt(n)
  \/ \E n \in {7, 15} : TakeSpurious(n)
  \/ StubStep
  \/ \E n \in Drivers : HandlerReturns(n)
  \/ IsrHandler

Spec == Init /\ [][Next]_irqVars

-----------------------------------------------------------------------------
(* Properties. *)

Interrupted == cpu \notin {"main", "halted"}

\* What the controllers have in service is what the processor is handling:
\* at most one interrupt, no line left in service (and so blocked for ever)
\* when IrqHandler is done, also after spurious interrupts and with the
\* cascade.
ServiceMatches ==
  /\ cpu = "main" => isr1 = {} /\ isr2 = {}
  /\ Interrupted => isr1 \subseteq {MasterLine(line)} /\ isr2 \subseteq {line}
  /\ cpu \in {"eoi1", "iret"} => isr2 = {}
  /\ cpu = "iret" => isr1 = {}

\* Only the main loop is ever interrupted, never a handler (KbHandler has no
\* protection of its own) nor an end of interrupt, and not before KeStart has
\* the gates and the controllers ready.
HandlersAreNotNested ==
  /\ \A j \in DOMAIN below : below[j].cpu = "main"
  /\ below # <<>> => boot \in {"sti", "ready"}

\* Every latched request is served, unless the kernel halts.  (The fairness
\* this needs is stated with the driver, in Keyboard.)
RequestsAreServed ==
  \A n \in Lines : (n \in irr) ~> (n \notin irr \/ cpu = "halted")
=============================================================================
