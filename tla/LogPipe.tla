------------------------------ MODULE LogPipe ------------------------------
(***************************************************************************)
(* The log of kernel/src/anbo_log.c on the USART1 driver of the STM32L4S5  *)
(* port: lines are formatted and written into the log buffer by the main   *)
(* loop and by interrupt handlers, Anbo_Log_Flush hands them to the device *)
(* in chunks, and the interrupt of the transmitter takes them from the     *)
(* driver's buffer.                                                        *)
(*                                                                         *)
(* Both buffers are the queues that RingBuffer implements.  A byte of the  *)
(* log is its number, so that a queue tells what was lost, repeated or     *)
(* overtaken.  The transmit interrupt may come between any two steps of    *)
(* the main loop outside a critical section, also between reading and      *)
(* writing back the control register CR1.                                  *)
(***************************************************************************)
EXTENDS Format, FiniteSets

CONSTANTS
    LogSize,   \* the capacity of s_log_rb
    TxSize,    \* of the driver's tx_rb
    RxSize,    \* and of its rx_rb
    Fifo,      \* the bytes of each of the two FIFOs of the USART (8)
    Chunk,     \* the bytes of one flush (64 in the code)
    LineMax,   \* ANBO_CONF_LOG_LINE_MAX
    Lines,     \* what the main loop prints: sequences of items
    TraceLen,  \* the length of a line of ANBO_TRACE_PUBLISH
    MaxInputs, \* bound: calls of the application and bytes received
    Careful    \* whether the application keeps to what the driver expects

ASSUME LogPipeAssumption ==
    /\ LogSize \in Nat \ {0} /\ TxSize \in Nat \ {0} /\ RxSize \in Nat \ {0}
    /\ Fifo \in Nat \ {0}
    /\ Chunk \in Nat \ {0} /\ LineMax \in Nat \ {0} /\ TraceLen \in Nat
    /\ Lines \subseteq Seq(Item)
    /\ MaxInputs \in Nat
    /\ Careful \in BOOLEAN

\* More numbers than there are places.
Byte == 0..(LogSize + TxSize + Fifo)

VARIABLES
    log,      \* the bytes in s_log_rb
    dev,      \* s_log_dev is the USART device
    uartSink, \* the sink mask of a level has ANBO_LOG_SINK_UART
    \* the device
    opened,   \* ANBO_DEV_FLAG_OPENED
    priv,     \* priv: the handle has been stored
    tx,       \* the bytes in tx_rb
    rx,       \* the number of bytes in rx_rb
    cr1,      \* the interrupts enabled in CR1: TXEIE and RXNEIE
    tdr,      \* the bytes in the transmit FIFO, behind the register TDR
    rdr,      \* the number of bytes in the receive FIFO
    \* the main loop
    stage,
    line,     \* line: the text Anbo_Log_Printf has formatted
    items,    \* history: what it was asked to print
    chunk,    \* chunk: the bytes peeked
    fits,     \* how many of them the driver has room for
    copied,   \* how many of them the driver or the FIFO has got
    modify,   \* the value of CR1 to be written back
    drain,    \* the phase of Anbo_Log_DrainAll
    owed,     \* history: the bytes it has to see on the wire
    number,   \* history: the number of the next byte of the log
    inputs    \* bound: the inputs so far

device == <<opened, priv, tx, rx, cr1, tdr, rdr>>
flush == <<chunk, fits, copied, modify>>
history == <<items, owed, number, inputs>>
logVars == <<log, dev, uartSink, device, stage, line, flush, drain, history>>

LogTypeOK ==
    /\ log \in Seq(Byte) /\ Len(log) <= LogSize
    /\ {dev, uartSink, opened, priv} \subseteq BOOLEAN
    /\ tx \in Seq(Byte) /\ Len(tx) <= TxSize
    /\ rx \in 0..RxSize
    /\ cr1 \subseteq {"tx", "rx"} /\ modify \subseteq {"tx", "rx"}
    /\ tdr \in Seq(Byte) /\ Len(tdr) <= Fifo
    /\ rdr \in 0..Fifo
    /\ stage \in {"idle", "formatted", "counted", "peeked", "copy", "kick", "putchar", "skip",
                  "open", "close"}
    /\ Len(line) < LineMax
    /\ chunk \in Seq(Byte) /\ Len(chunk) <= Chunk
    /\ fits \in 0..Chunk /\ copied \in 0..Chunk
    /\ drain \in {"no", "log", "device"}
    /\ owed \in 0..(LogSize + TxSize + Fifo)
    /\ number \in Byte
    /\ inputs \in 0..MaxInputs

\* Anbo_Log_Init, with or without a device.
LogInit ==
    /\ log = << >> /\ dev \in BOOLEAN /\ uartSink = TRUE
    /\ opened = FALSE /\ priv = FALSE
    /\ tx = << >> /\ rx = 0
    /\ cr1 = {} /\ tdr = << >> /\ rdr = 0
    /\ stage = "idle" /\ line = << >> /\ items = << >>
    /\ chunk = << >> /\ fits = 0 /\ copied = 0 /\ modify = {}
    /\ drain = "no" /\ owed = 0 /\ number = 0 /\ inputs = 0

----------------------------------------------------------------------------
\* Writing lines

Min2(a, b) == IF a < b THEN a ELSE b

\* Anbo_RB_Write of a text into the log buffer, under a critical section: what
\* does not fit is discarded.
WriteLog(n) ==
    LET k == Min2(n, LogSize - Len(log))
    IN  /\ log' = log \o [i \in 1..k |-> (number + i - 1) % Cardinality(Byte)]
        /\ number' = (number + k) % Cardinality(Byte)

Input == inputs < MaxInputs /\ inputs' = inputs + 1

\* Anbo_Log_Printf of the main loop formats the line,
Printf(form) ==
    /\ stage = "idle" /\ drain = "no"
    /\ Input
    /\ items' = form
    /\ line' = FormatV(LineMax, FlattenSeq(Encodings(form)), FlattenSeq(Arguments(form)))
    /\ stage' = "formatted"
    /\ UNCHANGED <<log, dev, uartSink, device, flush, drain, owed, number>>

\* and writes it, if the mask of its level says so.
PrintfWrite ==
    /\ stage = "formatted"
    /\ IF uartSink THEN WriteLog(Len(line)) ELSE UNCHANGED <<log, number>>
    /\ line' = << >> /\ items' = << >>
    /\ stage' = "idle"
    /\ UNCHANGED <<dev, uartSink, device, flush, drain, owed, inputs>>

\* An interrupt handler prints, or Anbo_Log_WriteRaw.
PrintfFromIsr ==
    /\ Input
    /\ WriteLog(TraceLen)
    /\ UNCHANGED <<dev, uartSink, device, stage, line, flush, drain, items, owed>>

SetSink ==
    /\ stage = "idle" /\ drain = "no"
    /\ Input
    /\ uartSink' = ~uartSink
    /\ UNCHANGED <<log, dev, device, stage, line, flush, drain, items, owed, number>>

SetDevice ==
    /\ stage = "idle" /\ drain = "no"
    /\ Input
    /\ dev' = ~dev
    /\ UNCHANGED <<log, uartSink, device, stage, line, flush, drain, items, owed, number>>

----------------------------------------------------------------------------
\* Anbo_Log_Flush

\* Without a log device the whole chunk is skipped although the driver may have
\* taken a part of it, or none because its buffer is full, when the bytes overtake
\* those in that buffer: there has to be room.
RoomWithoutDevice ==
    Careful /\ ~dev /\ priv => TxSize - Len(tx) >= Min2(Chunk, LogSize)

\* The bytes are counted,
Flush ==
    /\ stage = "idle" /\ drain # "device"
    /\ RoomWithoutDevice
    /\ log # << >>
    /\ chunk' = SubSeq(log, 1, Min2(Chunk, Len(log)))
    /\ stage' = "counted"
    /\ UNCHANGED <<log, dev, uartSink, device, line, fits, copied, modify, drain, history>>

\* and peeked under another critical section.
Peek ==
    /\ stage = "counted"
    /\ chunk' = SubSeq(log, 1, Len(chunk))
    /\ stage' = "peeked"
    /\ UNCHANGED <<log, dev, uartSink, device, line, fits, copied, modify, drain, history>>

\* usart1_write, through Anbo_Dev_AsyncWrite or Anbo_Arch_UART_Transmit_DMA, takes
\* what fits now.  It takes nothing if its buffer is full or the handle missing: the
\* chunk stays in the log, or goes byte by byte if there is no log device.
Submit ==
    /\ stage = "peeked"
    /\ LET n == IF priv THEN Min2(Len(chunk), TxSize - Len(tx)) ELSE 0 IN
       /\ fits' = n
       /\ stage' = IF n > 0 THEN "copy" ELSE IF dev THEN "idle" ELSE "putchar"
       /\ chunk' = IF n = 0 /\ dev THEN << >> ELSE chunk
    /\ UNCHANGED <<log, dev, uartSink, device, line, copied, modify, drain, history>>

\* Anbo_RB_Write into the driver's buffer, byte by byte; then CR1 is read.
Copy ==
    /\ stage = "copy"
    /\ tx' = Append(tx, chunk[copied + 1])
    /\ copied' = copied + 1
    /\ stage' = IF copied + 1 < fits THEN "copy" ELSE "kick"
    /\ UNCHANGED <<log, dev, uartSink, opened, priv, rx, cr1, tdr, rdr, line, chunk, fits, modify,
                   drain, history>>

ReadCr1 ==
    /\ stage = "kick" /\ "tx" \notin modify
    /\ modify' = cr1 \cup {"tx"}
    /\ UNCHANGED <<log, dev, uartSink, device, stage, line, chunk, fits, copied, drain, history>>

\* The transmit interrupt is enabled.
WriteCr1 ==
    /\ stage = "kick" /\ "tx" \in modify
    /\ cr1' = modify
    /\ modify' = {}
    /\ stage' = "skip"
    /\ UNCHANGED <<log, dev, uartSink, opened, priv, tx, rx, tdr, rdr, line, chunk, fits, copied,
                   drain, history>>

\* Anbo_Arch_UART_PutChar waits for room in the transmit FIFO (TXFNF).
PutChar ==
    /\ stage = "putchar"
    /\ Len(tdr) < Fifo
    /\ tdr' = Append(tdr, chunk[copied + 1])
    /\ copied' = copied + 1
    /\ stage' = IF copied + 1 < Len(chunk) THEN "putchar" ELSE "skip"
    /\ UNCHANGED <<log, dev, uartSink, opened, priv, tx, rx, cr1, rdr, line, chunk, fits, modify,
                   drain, history>>

\* Faulty: the whole chunk is skipped.
Skip_All ==
    /\ stage = "skip"
    /\ log' = SubSeq(log, Len(chunk) + 1, Len(log))
    /\ chunk' = << >> /\ fits' = 0 /\ copied' = 0
    /\ stage' = "idle"
    /\ UNCHANGED <<dev, uartSink, device, line, modify, drain, history>>

\* What was accepted leaves the log; without a log device that is the whole chunk.
Skip ==
    /\ stage = "skip"
    /\ log' = SubSeq(log, 1 + (IF dev THEN copied ELSE Len(chunk)), Len(log))
    /\ chunk' = << >> /\ fits' = 0 /\ copied' = 0
    /\ stage' = "idle"
    /\ UNCHANGED <<dev, uartSink, device, line, modify, drain, history>>

FlushStep == Flush \/ Peek \/ Submit \/ Copy \/ ReadCr1 \/ WriteCr1 \/ PutChar \/ Skip

----------------------------------------------------------------------------
\* Anbo_Log_DrainAll

Drain ==
    /\ stage = "idle" /\ drain = "no"
    /\ Input
    /\ drain' = "log"
    /\ owed' = Len(tdr) + Len(tx) + Len(log)
    /\ UNCHANGED <<log, dev, uartSink, device, stage, line, flush, items, number>>

\* The log is empty; the buffer of a log device is waited for.
DrainDevice ==
    /\ stage = "idle" /\ drain = "log"
    /\ log = << >> /\ dev
    /\ drain' = "device"
    /\ UNCHANGED <<log, dev, uartSink, device, stage, line, flush, history>>

\* Faulty: the driver's buffer is not waited for.
DrainReturns_Early ==
    /\ stage = "idle"
    /\ \/ drain = "log" /\ log = << >>
       \/ drain = "device"
    /\ drain' = "no" /\ owed' = 0
    /\ UNCHANGED <<log, dev, uartSink, device, stage, line, flush, items, number, inputs>>

DrainReturns ==
    /\ stage = "idle"
    /\ \/ drain = "log" /\ log = << >> /\ ~dev
       \/ drain = "device" /\ tx = << >>
    /\ drain' = "no" /\ owed' = 0
    /\ UNCHANGED <<log, dev, uartSink, device, stage, line, flush, items, number, inputs>>

\* The guard has reached its limit.
DrainGivesUp ==
    /\ stage = "idle"
    /\ \/ drain = "log" /\ log # << >>
       \/ drain = "device" /\ tx # << >>
    /\ drain' = "no" /\ owed' = 0
    /\ UNCHANGED <<log, dev, uartSink, device, stage, line, flush, items, number, inputs>>

----------------------------------------------------------------------------
\* The device

\* Anbo_Dev_Open of a closed device: usart1_open stores the handle and reads CR1,
Open ==
    /\ stage = "idle" /\ drain = "no" /\ ~opened
    /\ Input
    /\ priv' = TRUE
    /\ modify' = cr1 \cup {"rx"}
    /\ stage' = "open"
    /\ UNCHANGED <<log, dev, uartSink, opened, tx, rx, cr1, tdr, rdr, line, chunk, fits, copied,
                   drain, items, owed, number>>

\* and enables the receive interrupt.
Opened ==
    /\ stage = "open"
    /\ cr1' = modify /\ modify' = {}
    /\ opened' = TRUE
    /\ stage' = "idle"
    /\ UNCHANGED <<log, dev, uartSink, priv, tx, rx, tdr, rdr, line, chunk, fits, copied, drain,
                   history>>

\* Anbo_Dev_Close, usart1_close: opening again does not take up the bytes left in
\* the transmit buffer.
Close ==
    /\ stage = "idle" /\ drain = "no" /\ priv
    /\ Careful => tx = << >>
    /\ Input
    /\ modify' = cr1 \ {"tx", "rx"}
    /\ stage' = "close"
    /\ UNCHANGED <<log, dev, uartSink, device, line, chunk, fits, copied, drain, items, owed,
                   number>>

Closed ==
    /\ stage = "close"
    /\ cr1' = modify
    /\ opened' = FALSE
    /\ stage' = "idle"
    /\ UNCHANGED <<log, dev, uartSink, priv, tx, rx, tdr, rdr, line, flush, drain, history>>

\* usart1_read.
Read(n) ==
    /\ n <= rx
    /\ rx' = rx - n
    /\ UNCHANGED <<log, dev, uartSink, opened, priv, tx, cr1, tdr, rdr, stage, line, flush, drain,
                   history>>

TxReady == "tx" \in cr1 /\ Len(tdr) < Fifo
RxReady == "rx" \in cr1 /\ rdr > 0

\* The interrupt takes the bytes received and publishes the signal, which is
\* traced in the log;
Receive ==
    IF rdr > 0
    THEN /\ rdr' = 0
         /\ rx' = Min2(RxSize, rx + rdr)
         /\ WriteLog(TraceLen)
    ELSE UNCHANGED <<rdr, rx, log, number>>

\* Faulty: the end of a transmission is published with a trace.
Transmit_Traced ==
    IF TxReady /\ tx # << >>
    THEN /\ tdr' = Append(tdr, Head(tx)) /\ tx' = Tail(tx)
         /\ UNCHANGED cr1
         /\ Receive
    ELSE /\ cr1' = IF TxReady THEN cr1 \ {"tx"} ELSE cr1
         /\ UNCHANGED <<tdr, tx>>
         /\ rdr' = 0 /\ rx' = Min2(RxSize, rx + rdr)
         /\ WriteLog((IF rdr > 0 THEN TraceLen ELSE 0) + (IF TxReady THEN TraceLen ELSE 0))

\* it sends the next byte, or finds none, disables itself and publishes that
\* silently.
Transmit ==
    /\ IF TxReady /\ tx # << >>
       THEN /\ tdr' = Append(tdr, Head(tx)) /\ tx' = Tail(tx)
            /\ UNCHANGED cr1
       ELSE /\ cr1' = IF TxReady THEN cr1 \ {"tx"} ELSE cr1
            /\ UNCHANGED <<tdr, tx>>
    /\ Receive

\* BSP_USART1_IRQ.
Irq ==
    /\ priv
    /\ TxReady \/ RxReady
    /\ Transmit
    /\ UNCHANGED <<dev, uartSink, opened, priv, stage, line, flush, drain, items, owed, inputs>>

\* The hardware: a byte arrives, or is lost if the FIFO is full,
Arrive ==
    /\ Input
    /\ rdr' = Min2(Fifo, rdr + 1)
    /\ UNCHANGED <<log, dev, uartSink, opened, priv, tx, rx, cr1, tdr, stage, line, flush, drain,
                   items, owed, number>>

\* and the oldest byte of the transmit FIFO goes onto the wire.
Shift ==
    /\ tdr # << >>
    /\ tdr' = Tail(tdr)
    /\ owed' = IF owed > 0 THEN owed - 1 ELSE 0
    /\ UNCHANGED <<log, dev, uartSink, opened, priv, tx, rx, cr1, rdr, stage, line, flush, drain,
                   items, number, inputs>>

----------------------------------------------------------------------------
MainStep ==
    \/ PrintfWrite
    \/ FlushStep
    \/ DrainDevice \/ DrainReturns \/ DrainGivesUp
    \/ Opened \/ Closed

LogNext ==
    \/ \E form \in Lines : Printf(form)
    \/ PrintfFromIsr
    \/ SetSink \/ SetDevice \/ Open \/ Close \/ Drain
    \/ MainStep
    \/ \E n \in 1..RxSize : Read(n)
    \/ Irq
    \/ Arrive
    \/ Shift

LogSpec == LogInit /\ [][LogNext]_logVars

\* The main loop goes on flushing, interrupts are served, the wire carries.
FairLogSpec == LogSpec /\ WF_logVars(MainStep) /\ WF_logVars(Irq) /\ WF_logVars(Shift)

----------------------------------------------------------------------------
\* Properties

\* The bytes on their way: those copied are still in the log until they are skipped.
OnTheWay == tdr \o tx \o SubSeq(log, copied + 1, Len(log))

\* From the log to the wire the pipe is one bounded queue: what it has taken comes
\* out once and in order, whatever part of a chunk the driver accepts, and whoever
\* prints or transmits meanwhile.
Pipe == INSTANCE BytePipe WITH q <- OnTheWay, next <- number,
                               Capacity <- LogSize + TxSize + Fifo, Numbers <- Cardinality(Byte)
ImplementsPipe == Pipe!PipeSpec

\* A formatted line is what its items mean, cut to the size of the buffer.
LineFormatted ==
    /\ LogTypeOK
    /\ stage = "formatted" => Shows(items, LineMax, line)

\* When Anbo_Log_DrainAll returns before its time is up, everything that was in the
\* log or in the device when it was called is on the wire, but for the bytes in the
\* transmit FIFO.
DrainedMeansSent ==
    [][DrainReturns /\ (dev \/ ~priv) => owed <= Len(tdr)]_logVars

\* When nobody prints any more, everything comes out and the transmit interrupt is
\* disabled for good: it is never left disabled with bytes in the buffer, and the end
\* of a transmission does not itself write to the log.
FallsSilent ==
    <>[](\/ log = << >> /\ tx = << >> /\ tdr = << >> /\ "tx" \notin cr1
         \/ dev /\ ~priv)
=============================================================================
