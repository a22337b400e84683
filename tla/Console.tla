------------------------------- MODULE Console -------------------------------
(***************************************************************************)
(* The management console (main/console.c) over the CDC-ACM port           *)
(* (esp_tinyusb: cdc.c, tinyusb_cdc_acm.c), on the stack of UsbStack: the  *)
(* TinyUSB task turns the bytes of the host into lines for the control     *)
(* task; every task prints into a queue of pieces, which the writer task   *)
(* copies to TinyUSB's transmit buffer as the host makes room in it.       *)
(*                                                                         *)
(* The program brings the console up once, after the driver, and keeps     *)
(* both.  A byte received is of one of four kinds, chosen when it is read; *)
(* a line is its length, and the bytes printed are numbered in the order   *)
(* the queue took them.                                                    *)
(***************************************************************************)
EXTENDS UsbStack, SequencesExt

CONSTANTS
    LineMax,        \* sizeof(line) - 1
    CommandsMax,    \* control's queue of commands
    OutputMax,      \* pieces in the queue
    PieceMax,       \* bytes in one: 127
    TxMax,          \* TinyUSB's transmit buffer
    Tries,          \* 10: how often the writer tries to place a piece
    MaxTyped,       \* bound: bytes the host sends
    MaxPrinted      \* bound: bytes printed

ASSUME ConsoleAssumption ==
    /\ LineMax \in Nat /\ CommandsMax \in Nat
    /\ OutputMax \in Nat /\ PieceMax \in Nat /\ TxMax \in Nat
    /\ Tries \in Nat \ {0}
    /\ MaxTyped \in Nat /\ MaxPrinted \in Nat

\* But for the end of a line.
Bytes == {"char", "erase", "invalid"}

VARIABLES
    cdc,            \* cdc_obj[0]: "none", "bare" (no ACM object in it), "acm"
    callbacks,      \* those registered in the ACM object
    rxFifo, reading,\* bytes TinyUSB holds for us, and rx() is reading them
    used, overflow, \* the line being put together
    commands,       \* control's queue: the lines submitted
    output, piece,  \* the queue, and the writer's b: [from, to, retries]
    txFifo,         \* bytes in TinyUSB's transmit buffer
    lastRead,       \* history: the last byte the host's program read
    printed,        \* history: bytes printed so far
    typed,          \* history: the bytes read since the last end of line
    sent            \* used up of the bound

consoleVars == <<cdc, callbacks, rxFifo, reading, used, overflow, commands, output,
                 piece, txFifo, lastRead, printed, typed, sent>>
vars == <<stackVars, consoleVars>>
portVars == <<cdc, callbacks>>
inputVars == <<rxFifo, reading, used, overflow, commands, typed, sent>>
outputVars == <<output, piece, txFifo, lastRead, printed>>

Idle == [from |-> 1, to |-> 0, retries |-> 0]

ConsoleInit ==
    /\ cdc = "none" /\ callbacks = {}
    /\ rxFifo = 0 /\ reading = FALSE /\ used = 0 /\ overflow = FALSE
    /\ commands = <<>> /\ typed = <<>> /\ sent = 0
    /\ output = <<>> /\ piece = Idle /\ txFifo = <<>> /\ lastRead = 0 /\ printed = 0

Serving == \E n \in Installs : task[n] = "loop"

-----------------------------------------------------------------------------
(* tinyusb_cdcacm_init, called by console_init after the driver is up.  The *)
(* TinyUSB task may call back between any two of its steps.  The program    *)
(* installs the driver once, with its PHY.                                 *)

CdcInit ==
    /\ cdc = "none" /\ started = 1 /\ ctx = 1 /\ phy /\ phyHdl
    /\ \A c \in Callers : At(c, "idle")
    /\ cdc' = "bare"
    /\ UNCHANGED <<callbacks, stackVars, inputVars, outputVars>>

AllocObj ==
    /\ cdc = "bare" /\ cdc' = "acm"
    /\ UNCHANGED <<callbacks, stackVars, inputVars, outputVars>>

RegisterCallback(event) ==
    /\ cdc = "acm" /\ event \notin callbacks
    /\ event = "line_state" => "rx" \in callbacks
    /\ callbacks' = callbacks \cup {event}
    /\ UNCHANGED <<cdc, stackVars, inputVars, outputVars>>

\* get_acm() and the callback it holds.
CallsBack(event) == cdc = "acm" /\ event \in callbacks

-----------------------------------------------------------------------------
(* Printing: mgmt_write from any task, one piece of what it prints. *)

\* No wait: a piece that finds the queue full is lost.
Put(n) ==
    IF Len(output) < OutputMax
      THEN /\ output' = Append(output, [from |-> printed + 1, to |-> printed + n])
           /\ printed' = printed + n
      ELSE UNCHANGED <<output, printed>>

MgmtWrite ==
    /\ cdc # "none"
    /\ \E n \in 1 .. PieceMax : printed + n <= MaxPrinted /\ Put(n)
    /\ UNCHANGED <<stackVars, portVars, inputVars, piece, txFifo, lastRead>>

\* What the rx and line state callbacks print; nothing once the bound is used up.
Answer ==
    /\ IF printed < MaxPrinted THEN Put(1) ELSE UNCHANGED <<output, printed>>
    /\ UNCHANGED <<piece, txFifo, lastRead>>

Room == TxMax - Len(txFifo)

WriterTake ==
    /\ piece.from > piece.to /\ output # <<>>
    /\ piece' = [from |-> Head(output).from, to |-> Head(output).to, retries |-> 0]
    /\ output' = Tail(output)
    /\ UNCHANGED <<stackVars, portVars, inputVars, txFifo, lastRead, printed>>

Least(m, n) == IF m < n THEN m ELSE n

\* Mutants of Left: what was placed is placed again; the writer never gives up.
LeftAgain(p, k) ==
    IF p.from + k > p.to \/ p.retries + 1 = Tries THEN Idle
    ELSE [p EXCEPT !.retries = @ + 1]
LeftForEver(p, k) == IF p.from + k > p.to THEN Idle ELSE [p EXCEPT !.from = @ + k]
\* What is left of a piece after k bytes of it were placed.
Left(p, k) ==
    IF p.from + k > p.to \/ p.retries + 1 = Tries THEN Idle
    ELSE [p EXCEPT !.from = @ + k, !.retries = @ + 1]

\* One round of the writer's loop, to the end of its waits.
WriterPlace ==
    /\ piece.from <= piece.to
    /\ LET k == IF cdc = "acm" THEN Least(piece.to - piece.from + 1, Room) ELSE 0
       IN  /\ txFifo' = txFifo \o [i \in 1 .. k |-> piece.from + i - 1]
           /\ piece' = Left(piece, k)
    /\ UNCHANGED <<stackVars, portVars, inputVars, output, lastRead, printed>>

HostReads ==
    /\ Serving /\ ~reading /\ txFifo # <<>>
    /\ lastRead' = Head(txFifo) /\ txFifo' = Tail(txFifo)
    /\ UNCHANGED <<stackVars, portVars, inputVars, output, piece, printed>>

-----------------------------------------------------------------------------
(* The TinyUSB task's callbacks. *)

\* tud_cdc_rx_cb; bytes nobody reads wait for the next packet.
HostSends ==
    /\ Serving /\ ~reading /\ sent < MaxTyped
    /\ \E n \in 1 .. MaxTyped - sent : rxFifo' = rxFifo + n /\ sent' = sent + n
    /\ reading' = CallsBack("rx")
    /\ UNCHANGED <<stackVars, portVars, used, overflow, commands, typed, outputVars>>

\* What the line becomes with one more byte.
Erased == IF used > 0 THEN used - 1 ELSE 0
Overflows(b) == b = "invalid" \/ (b = "char" /\ used = LineMax)
\* Mutant of Grown: one character more than there is room for.
GrownPast(b) == IF b = "char" /\ ~overflow /\ used <= LineMax THEN used + 1 ELSE used
Grown(b) == IF b = "char" /\ ~overflow /\ used < LineMax THEN used + 1 ELSE used

RxByte(b) ==
    /\ used' = IF b = "erase" THEN Erased ELSE Grown(b)
    /\ overflow' = (overflow \/ Overflows(b))
    /\ typed' = Append(typed, b)
    /\ UNCHANGED <<commands, outputVars>>

\* Mutant of Fresh: the next line begins with the flag of this one.
FreshUsed == used' = 0 /\ UNCHANGED overflow
Fresh == used' = 0 /\ overflow' = FALSE

\* The line is submitted, unless it is empty or was too long.
RxEnd ==
    /\ IF ~overflow /\ used > 0 /\ Len(commands) < CommandsMax
         THEN commands' = Append(commands, used) /\ UNCHANGED outputVars
         ELSE Answer /\ UNCHANGED commands
    /\ Fresh
    /\ typed' = <<>>

Rx ==
    /\ reading
    /\ IF rxFifo = 0
         THEN /\ reading' = FALSE
              /\ UNCHANGED <<rxFifo, used, overflow, commands, typed, outputVars>>
         ELSE /\ rxFifo' = rxFifo - 1 /\ UNCHANGED reading
              /\ RxEnd \/ \E b \in Bytes : RxByte(b)
    /\ UNCHANGED <<stackVars, portVars, sent>>

\* tud_cdc_line_state_cb: a terminal opens the port and is greeted.
LineState ==
    /\ Serving /\ ~reading /\ CallsBack("line_state")
    /\ printed < MaxPrinted /\ Answer
    /\ UNCHANGED <<stackVars, portVars, inputVars>>

\* The host resets the bus or is unplugged: TinyUSB empties its buffers.  The
\* line put together so far stays.
BusReset ==
    /\ Serving /\ ~reading /\ (rxFifo > 0 \/ txFifo # <<>>)
    /\ rxFifo' = 0 /\ txFifo' = <<>>
    /\ UNCHANGED <<stackVars, portVars, reading, used, overflow, commands, typed, sent,
                   output, piece, lastRead, printed>>

\* The control task takes a command.
ControlTakes ==
    /\ commands # <<>> /\ commands' = Tail(commands)
    /\ UNCHANGED <<stackVars, portVars, rxFifo, reading, used, overflow, typed, sent,
                   outputVars>>

-----------------------------------------------------------------------------

Init == StackInit /\ ConsoleInit

Lifecycle == cdc = "none" /\ StackNext /\ UNCHANGED consoleVars

Next ==
    \/ Lifecycle
    \/ CdcInit \/ AllocObj \/ \E event \in {"rx", "line_state"} : RegisterCallback(event)
    \/ MgmtWrite \/ WriterTake \/ WriterPlace \/ HostReads
    \/ HostSends \/ Rx \/ LineState \/ BusReset \/ ControlTakes

\* The writer is a task that is always given its turn, whatever the host does.
Spec == Init /\ [][Next]_vars /\ WF_vars(WriterTake \/ WriterPlace)

-----------------------------------------------------------------------------

ConsoleTypeOK ==
    /\ StackTypeOK
    /\ cdc \in {"none", "bare", "acm"} /\ callbacks \subseteq {"rx", "line_state"}
    /\ rxFifo \in Nat /\ reading \in BOOLEAN
    /\ used \in 0 .. LineMax /\ overflow \in BOOLEAN
    /\ commands \in Seq(1 .. LineMax) /\ Len(commands) <= CommandsMax
    /\ output \in Seq([from : Nat, to : Nat]) /\ Len(output) <= OutputMax
    /\ piece \in [from : Nat, to : Nat, retries : 0 .. Tries - 1]
    /\ txFifo \in Seq(Nat) /\ Len(txFifo) <= TxMax
    /\ lastRead \in Nat /\ printed \in Nat
    /\ typed \in Seq(Bytes) /\ sent \in Nat

Count(s, i, j, b) == Cardinality({k \in i .. j : s[k] = b})

\* The characters among the first n bytes that no later one of these erases.
Kept(s, n) ==
    {i \in 1 .. n : s[i] = "char"
        /\ \A j \in i + 1 .. n : Count(s, i + 1, j, "erase") <= Count(s, i + 1, j, "char")}

TooLong(s) == \E n \in 1 .. Len(s) : Cardinality(Kept(s, n)) > LineMax

\* A line is taken exactly as it was edited or not at all: one that was ever
\* too long, or held an invalid byte, is refused whole, with nothing of it in a
\* command or in the lines after it, in whatever packets it came; any other one
\* is a command if there is room for it.  ("CDC RX only queues bounded lines;
\* overflow rejects the entire command", docs/ADR-001.md:32.)
LinesWhole ==
    [][(reading /\ rxFifo' # rxFifo /\ typed' = <<>>) =>
         LET length == Cardinality(Kept(typed, Len(typed)))
             taken == ~TooLong(typed) /\ ~Contains(typed, "invalid") /\ length > 0
         IN  commands' = IF taken /\ Len(commands) < CommandsMax
                           THEN Append(commands, length) ELSE commands]_vars

\* The bytes in a piece, and those in TinyUSB's buffer.
Of(p) == p.from .. p.to
InBuffer == {txFifo[k] : k \in DOMAIN txFifo}

Before(A, B) == \A a \in A, b \in B : a < b

\* The host reads the bytes in the order they were printed and none twice,
\* whatever was lost to full buffers and however often a piece was retried: they
\* grow from the last one it read by way of TinyUSB's buffer and the writer's
\* piece to the queue.
OutputInOrder ==
    /\ \A j, k \in DOMAIN txFifo : j < k => txFifo[j] < txFifo[k]
    /\ \A j, k \in DOMAIN output : j < k => Before(Of(output[j]), Of(output[k]))
    /\ Before({lastRead}, InBuffer)
    /\ Before({lastRead} \cup InBuffer, Of(piece))
    /\ \A k \in DOMAIN output :
          Before({lastRead} \cup InBuffer \cup Of(piece), Of(output[k]))

\* A terminal that stops reading does not stop the console: what is printed
\* always leaves the queue.
OutputDrains == []<>(output = <<>> /\ piece = Idle)
=============================================================================
