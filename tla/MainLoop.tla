------------------------------ MODULE MainLoop ------------------------------
(***************************************************************************)
(* main's loop between the two rings (main.cpp): a packet found in UARTcb  *)
(* is transmitted, one found in DWMcb is put out on the UART, while the    *)
(* UART interrupt fills the first ring, t_irq fills the second and puts    *)
(* range messages out on the UART itself.                                  *)
(*                                                                         *)
(* The rings are the queues CircularBuffer implements; the bytes written   *)
(* so far tell where head and tail are, and what the memory behind the     *)
(* contents still holds.  The writers preempt main between the two loads   *)
(* of circularBuffer_fill; the peeks and reads that follow are one step    *)
(* each: until the ring overflows a write moves nothing they look at.      *)
(***************************************************************************)
EXTENDS Pprz

CONSTANTS
  Size,       \* of both rings: 256
  Word,       \* the range of a size_t: 2^32
  MaxFrame,   \* the longest frame dwSetData accepts, with its CRC: 127
  Inputs,     \* strings of bytes the autopilot sends, each with a sequence of payloads
              \* of data frames the node receives
  Reports,    \* the ranges t_irq reports: source, destination, memory of the double
  MaxRanges,  \* bound: range messages
  Leftover,   \* bound: the bytes WriteBuffer may hold from earlier rounds
  Self        \* node_address at boot

ASSUME MainLoopAssumption ==
  /\ Size \in Nat /\ ByteMod <= Size
  /\ Word \in Nat /\ Word >= 2 * Size
  /\ MaxFrame \in Nat
  /\ Inputs \subseteq Seq(ByteValue) \X Seq(Seq(ByteValue))
  /\ Reports \subseteq ByteValue \X ByteValue \X Seq(ByteValue) /\ MaxRanges \in Nat
  /\ \A r \in Reports : Len(r[3]) + 8 < ByteMod
  /\ Leftover \subseteq ByteValue /\ Leftover # {}
  /\ Self \in ByteValue

VARIABLES
  uart, dwm,     \* UARTcb and DWMcb
  pc,            \* where main is
  wrapped, fill, \* circularBuffer_fill: the outcome of its test, its result
  l,             \* length of the packet it has found
  buffer,        \* the part of WriteBuffer main last had circularBuffer_read fill
  txBuffer,      \* the packet in TX_BUFFER, or Other
  node_address,
  uplink,        \* the bytes of this run's autopilot
  fed,           \* how many of them serialRead has put in UARTcb
  downlink,      \* payloads still to be received
  heard,         \* history: the bytes handle_data_frame has put in DWMcb
  sent,          \* history: what main has transmitted
  out,           \* history: the bytes put out on the UART
  passed,        \* history: the packets main has put out
  messages,      \* history: these and the range messages, each when it ends
  mixed,         \* history: a range message was put out in the middle of a packet
  lost,          \* history: the rings that have dropped a byte
  torn           \* history: those circularBuffer_fill has returned a wrong number of

rings == <<uart, dwm>>
count == <<wrapped, fill, torn>>
radio == <<txBuffer, sent>>
line == <<out, passed, messages, mixed>>
input == <<uplink, fed, downlink, heard>>
vars == <<rings, pc, count, l, buffer, node_address, input, radio, line, lost>>

Uart == INSTANCE DropOldest
  WITH q <- uart, got <- buffer, Capacity <- Size - 1, Byte <- ByteValue,
       Blocks <- Seq(ByteValue), Amounts <- Nat
Dwm == INSTANCE DropOldest
  WITH q <- dwm, got <- buffer, Capacity <- Size - 1, Byte <- ByteValue,
       Blocks <- Seq(ByteValue), Amounts <- Nat

\* A frame of t_irq's, which is no packet.
Other == << >>

\* A ring has dropped no byte, and its fill was never wrong.
Intact(r) == r \notin lost \cup torn

Init ==
  /\ uart = << >> /\ dwm = << >>
  /\ pc = "parseUart" /\ wrapped = FALSE /\ fill = 0
  /\ l = 0 /\ buffer = << >>
  /\ node_address = Self
  /\ \E i \in Inputs : uplink = i[1] /\ downlink = i[2]
  /\ fed = 0 /\ heard = << >>
  /\ txBuffer = Other /\ sent = << >>
  /\ out = << >> /\ passed = << >> /\ messages = << >> /\ mixed = FALSE
  /\ lost = {} /\ torn = {}
-----------------------------------------------------------------------------
\* serialRead
SerialRead ==
  /\ fed < Len(uplink)
  /\ Uart!Put(uplink[fed + 1])
  /\ fed' = fed + 1
  /\ lost' = IF Len(uart) = Size - 1 THEN lost \cup {"uart"} ELSE lost
  /\ UNCHANGED <<dwm, pc, count, l, node_address, uplink, downlink, heard, radio, line>>

\* handle_data_frame, on t_irq
DataFrame ==
  /\ downlink # << >>
  /\ Dwm!PutMany(Head(downlink))
  /\ downlink' = Tail(downlink)
  /\ heard' = heard \o Head(downlink)
  /\ lost' = IF Len(dwm) + Len(Head(downlink)) > Size - 1 THEN lost \cup {"dwm"} ELSE lost
  /\ UNCHANGED <<uart, pc, count, l, node_address, uplink, fed, radio, line>>

\* send_pprz_range_message, on t_irq: main puts nothing out until it is done.
PutRange(r) ==
  /\ Len(messages) - Len(passed) < MaxRanges
  /\ LET m == RangeMessage(node_address, r[1], r[2], r[3])
     IN  out' = out \o m /\ messages' = Append(messages, m)
  /\ mixed' = (mixed \/ (pc = "put" /\ l # Len(buffer)))
  /\ UNCHANGED <<rings, pc, count, l, buffer, node_address, input, radio, passed, lost>>

\* A ranging or position frame t_irq transmits goes through TX_BUFFER, too.
TirqSends ==
  /\ txBuffer' = Other
  /\ UNCHANGED <<rings, pc, count, l, buffer, node_address, input, sent, line, lost>>
-----------------------------------------------------------------------------
\* Head, tail and memory of a ring that holds q, of the bytes s ever written to it.
HeadOf(s) == Len(s) % Size
TailOf(q, s) == (Len(s) - Len(q)) % Size

\* From the tail on: behind the contents are the bytes of the lap before.
Memory(q, s) ==
  [i \in 1 .. Size |->
     LET earlier == Len(s) - Len(q) + i - Size
     IN  IF i <= Len(q) THEN q[i] ELSE IF earlier \in DOMAIN s THEN s[earlier] ELSE 0]

FedBytes == SubSeq(uplink, 1, fed)

\* circularBuffer_fill of the ring r that holds q, called by check_pprz and by
\* circularBuffer_read: head and tail are compared,
Compare(q, s, next) ==
  /\ wrapped' = (HeadOf(s) < TailOf(q, s))
  /\ pc' = next
  /\ UNCHANGED <<rings, fill, torn, l, buffer, node_address, input, radio, line, lost>>

\* ... then they are loaded again and subtracted, in a size_t.
Measure(r, q, s, next) ==
  /\ fill' = IF wrapped THEN Size - TailOf(q, s) + HeadOf(s)
             ELSE (Word + HeadOf(s) - TailOf(q, s)) % Word
  /\ torn' = IF fill' = Len(q) THEN torn ELSE torn \cup {r}
  /\ pc' = next /\ wrapped' = FALSE
  /\ UNCHANGED <<rings, l, buffer, node_address, input, radio, line, lost>>

Fill ==
  \/ pc = "parseUart" /\ Compare(uart, FedBytes, "measureUart")
  \/ pc = "measureUart" /\ Measure("uart", uart, FedBytes, "judgeUart")
  \/ pc = "readUart" /\ Compare(uart, FedBytes, "remeasureUart")
  \/ pc = "remeasureUart" /\ Measure("uart", uart, FedBytes, "copyUart")
  \/ pc = "parseDwm" /\ Compare(dwm, heard, "measureDwm")
  \/ pc = "measureDwm" /\ Measure("dwm", dwm, heard, "judgeDwm")
  \/ pc = "readDwm" /\ Compare(dwm, heard, "remeasureDwm")
  \/ pc = "remeasureDwm" /\ Measure("dwm", dwm, heard, "copyDwm")

\* The rest of a turn of parsePPRZ's loop, m being the ring's memory.  It gives up until
\* the next time, throws a byte away, or returns the length of a packet.
Parse(m, discard, again, giveUp, found) ==
  \/ CheckPprz(fill, m) = "SHORT" /\ pc' = giveUp /\ UNCHANGED <<rings, l, buffer>>
  \/ CheckPprz(fill, m) = "BROKEN" /\ discard /\ pc' = again /\ UNCHANGED l
  \/ CheckPprz(fill, m) = "OK" /\ pc' = found /\ l' = m[2] /\ UNCHANGED <<rings, buffer>>

ParseUart ==
  /\ pc = "judgeUart"
  /\ Parse(Memory(uart, FedBytes), Uart!Discard(1) /\ dwm' = dwm,
           "parseUart", "parseDwm", "identify")
  /\ UNCHANGED <<count, node_address, input, radio, line, lost>>

\* An ALIVE packet names the node.
Identify ==
  /\ pc = "identify" /\ pc' = "readUart"
  /\ LET m == Memory(uart, FedBytes)
     IN  node_address' = IF MsgId(m) = PPRZ_ALIVE_MSG_ID THEN SenderId(m) ELSE node_address
  /\ UNCHANGED <<rings, count, l, buffer, input, radio, line, lost>>

\* The rest of circularBuffer_read of a ring that holds q: an empty ring reads as 0.  If
\* the fill is below l it returns 0, which main ignores, and WriteBuffer stays as it was.
Copy(q) ==
  IF fill >= l
  THEN buffer' = [i \in 1 .. l |-> IF i <= Len(q) THEN q[i] ELSE 0]
  ELSE buffer' \in [1 .. l -> Leftover]

Rest(q) == IF fill >= l THEN SubSeq(q, l + 1, Len(q)) ELSE q

\* The frame header and the CRC take six bytes.
Fits(p) == Len(p) + 6 <= MaxFrame

\* dwSetData returns at once if the frame is too long, and the transmission is started all
\* the same: of what TX_BUFFER holds.
ReadUart ==
  /\ pc = "copyUart" /\ pc' = "parseDwm"
  /\ Copy(uart) /\ uart' = Rest(uart)
  /\ txBuffer' = IF Fits(buffer') THEN buffer' ELSE txBuffer
  /\ sent' = Append(sent, txBuffer')
  /\ UNCHANGED <<dwm, count, l, node_address, input, line, lost>>

ParseDwm ==
  /\ pc = "judgeDwm"
  /\ Parse(Memory(dwm, heard), Dwm!Discard(1) /\ uart' = uart,
           "parseDwm", "parseUart", "readDwm")
  /\ UNCHANGED <<count, node_address, input, radio, line, lost>>

ReadDwm ==
  /\ pc = "copyDwm" /\ pc' = "put"
  /\ Copy(dwm) /\ dwm' = Rest(dwm)
  /\ UNCHANGED <<uart, count, l, node_address, input, radio, line, lost>>

\* sendUART, byte by byte; l counts those left.
PutByte ==
  /\ pc = "put"
  /\ out' = Append(out, buffer[Len(buffer) - l + 1])
  /\ l' = l - 1
  /\ IF l = 1
     THEN /\ pc' = "parseUart"
          /\ passed' = Append(passed, buffer) /\ messages' = Append(messages, buffer)
     ELSE UNCHANGED <<pc, passed, messages>>
  /\ UNCHANGED <<rings, count, buffer, node_address, input, radio, mixed, lost>>

Main == Fill \/ ParseUart \/ Identify \/ ReadUart \/ ParseDwm \/ ReadDwm \/ PutByte

Next == SerialRead \/ DataFrame \/ (\E r \in Reports : PutRange(r)) \/ TirqSends \/ Main

Spec == Init /\ [][Next]_vars

\* main gets on between the interrupts, and what was sent to the node arrives.
Fairness == WF_vars(Main) /\ WF_vars(SerialRead) /\ WF_vars(DataFrame)

FairSpec == Spec /\ Fairness
-----------------------------------------------------------------------------
TypeOK ==
  /\ uart \in Seq(ByteValue) /\ dwm \in Seq(ByteValue)
  /\ Len(uart) < Size /\ Len(dwm) < Size
  /\ pc \in {"parseUart", "measureUart", "judgeUart", "identify",
             "readUart", "remeasureUart", "copyUart",
             "parseDwm", "measureDwm", "judgeDwm",
             "readDwm", "remeasureDwm", "copyDwm", "put"}
  /\ wrapped \in BOOLEAN /\ fill \in 0 .. Word - 1
  /\ l \in 0 .. ByteMod - 1
  /\ buffer \in Seq(ByteValue) /\ node_address \in ByteValue
  /\ uplink \in Seq(ByteValue) /\ fed \in 0 .. Len(uplink)
  /\ downlink \in Seq(Seq(ByteValue)) /\ heard \in Seq(ByteValue)
  /\ txBuffer \in Seq(ByteValue) /\ sent \in Seq(Seq(ByteValue))
  /\ out \in Seq(ByteValue)
  /\ passed \in Seq(Seq(ByteValue)) /\ messages \in Seq(Seq(ByteValue))
  /\ mixed \in BOOLEAN
  /\ lost \subseteq {"uart", "dwm"} /\ torn \subseteq {"uart", "dwm"}

\* Parsing byte by byte, at whatever pace they arrive, and waiting for what a false start
\* byte claims, main finds the packets that are in the string and no others, until the
\* ring overflows or its fill is torn: there is one transmission for each, in order, of
\* the packet itself or, if that is too long for a frame, of what was transmitted last.
SentMatches ==
  Intact("uart") =>
    /\ Len(sent) <= Len(Packets(uplink))
    /\ \A i \in DOMAIN sent :
         IF Fits(Packets(uplink)[i]) THEN sent[i] = Packets(uplink)[i]
         ELSE sent[i] = Other \/ (i > 1 /\ sent[i] = sent[i - 1])

\* ... and those that came by radio are put out on the UART, each once and in order.
PassedOn ==
  Intact("dwm") => IsPrefix(passed, Packets(heard))

\* What construct_pprz_range_message builds and what main puts out are packets to a
\* parser at the other end of the line, as long as none was put inside another and the
\* packets were read whole.
GroundHears ==
  ~mixed /\ Intact("dwm") => Packets(out) = messages

\* parsePPRZ never waits for more bytes than the ring can hold, whatever length a false
\* start byte is followed by: a full ring is not short.
FullRingParsed ==
  \A q \in {uart, dwm} : Len(q) = Size - 1 => CheckPprz(Len(q), q) # "SHORT"

\* What main transmits is the packet it has checked: it is still whole when it is read,
\* after whatever serialRead has written since.
SentWhole == [][ReadUart /\ Intact("uart") => IsPacket(buffer')]_vars

\* Every packet is transmitted or put out in the end, unless its ring overflows or its
\* fill is torn.
Delivered ==
  <>[](/\ Intact("uart") => Len(sent) = Len(Packets(uplink))
       /\ Intact("dwm") => Len(passed) = Len(Packets(heard)))
=============================================================================
