------------------------------- MODULE Framing -------------------------------
(***************************************************************************)
(* One direction of a nan0 TCP connection, byte stream included: what      *)
(* putMessageInConnection writes and how the loop of startServiceReceiver  *)
(* reads it with getMessageFromConnection through a new bufio.Reader per   *)
(* message.  A header field is two cells, so that a read can end inside    *)
(* it; the payload is one cell per unit of its size.                       *)
(*                                                                         *)
(* Read returns what is buffered, if anything; otherwise it reads the      *)
(* connection once, and how much that yields is the network's choice.      *)
(* Sizes stay below 256, so the leading part of a size field reads as 0.   *)
(* A stray type or a size read across two fields is never a valid one.     *)
(***************************************************************************)
EXTENDS Naturals, Sequences

CONSTANTS MaxMsgs,     \* bound: messages written
          MaxPayload,  \* bound: cells of a payload
          BufSize,     \* size of the bufio.Reader, in cells
          MaxWindow,   \* bound: messages the application sends ahead of delivery
          Encrypted,   \* the connections to consider: with keys, without, or both
          Smooth       \* the networks to consider

ASSUME FramingAssumption ==
  /\ MaxMsgs \in Nat /\ MaxPayload \in Nat /\ BufSize \in Nat \ {0}
  /\ MaxWindow \in Nat \ {0}
  /\ Encrypted \subseteq BOOLEAN /\ Smooth \subseteq BOOLEAN

VARIABLES
  encrypted,  \* encryptKey and hmacKey are set, fixed for the connection
  smooth,     \* reads return all that was written, on time; fixed
  window,     \* how far the sending application runs ahead, fixed
  sizes,      \* history: payload size of each message written
  writer,     \* "open", or "failed" when a write was cut short
  net,        \* cells on their way
  buf,        \* the bufio.Reader
  pc,         \* where getMessageFromConnection is; "dead": R panicked
  due,        \* the read deadline of this message has passed
  cur,        \* the message whose type was read
  macOK,      \* hmacSize was read correctly
  size,       \* the value of size
  delivered   \* history: messages returned, and the payload they were made from

vars == <<encrypted, smooth, window, sizes, writer, net, buf, pc, due, cur, macOK,
          size, delivered>>
fixed == <<encrypted, smooth, window>>

Least(a, b) == IF a <= b THEN a ELSE b

Cell(m, f, i) == [msg |-> m, field |-> f, part |-> i]
Field(m, f)   == <<Cell(m, f, 1), Cell(m, f, 2)>>

\* putMessageInConnection, and EncryptProtobuf when there are keys: preamble, type,
\* size of the hmac, size, payload.  Ciphertext is never empty.
Header(m) == Field(m, "pre") \o Field(m, "typ")
             \o (IF encrypted THEN Field(m, "mac") ELSE <<>>) \o Field(m, "siz")
Payload(m, n) == [i \in 1..n |-> Cell(m, "pay", i)]
Frame(m, n)   == Header(m) \o Payload(m, n)
PayloadSizes  == IF encrypted THEN 1..MaxPayload ELSE 0..MaxPayload

Init ==
  /\ encrypted \in Encrypted /\ smooth \in Smooth /\ window \in 1..MaxWindow
  /\ sizes = <<>> /\ writer = "open" /\ net = <<>> /\ buf = <<>>
  /\ pc = "loop" /\ due = FALSE /\ cur = 0 /\ macOK = FALSE /\ size = 0
  /\ delivered = <<>>

MayPut == /\ writer = "open" /\ pc # "dead"
          /\ Len(sizes) < MaxMsgs /\ Len(sizes) - Len(delivered) < window

Put(n) == /\ MayPut
          /\ net' = net \o Frame(Len(sizes) + 1, n)
          /\ sizes' = Append(sizes, n)
          /\ UNCHANGED <<fixed, writer, buf, pc, due, cur, macOK, size, delivered>>

\* The write deadline, or a close, ends a write after k cells.
PutCut(n, k) ==
  /\ MayPut /\ ~smooth
  /\ net' = net \o SubSeq(Frame(Len(sizes) + 1, n), 1, k)
  /\ sizes' = Append(sizes, n) /\ writer' = "failed"
  /\ UNCHANGED <<fixed, buf, pc, due, cur, macOK, size, delivered>>

-----------------------------------------------------------------------------
\* The results of one bufio Read of up to `want' cells: what it returns, and what
\* it leaves in the buffer and on the network.
Split(s, k) == <<SubSeq(s, 1, k), SubSeq(s, k + 1, Len(s))>>
\* Mutant: what is read stays on the network.
ReadsPeek(want) ==
  LET most == Least(IF want >= BufSize THEN want ELSE BufSize, Len(net)) IN
  IF buf # <<>> THEN {[data |-> Split(buf, Least(want, Len(buf)))[1],
                       buf |-> Split(buf, Least(want, Len(buf)))[2], net |-> net]}
  ELSE IF due \/ net = <<>> THEN {}
  ELSE {[data |-> Split(net, Least(want, most))[1],
         buf |-> SubSeq(net, Least(want, most) + 1, most), net |-> net]}
Reads(want) ==
  LET most   == Least(IF want >= BufSize THEN want ELSE BufSize, Len(net))
      Got(b) == Split(b, Least(want, Len(b)))
      Filled(n) == LET b == SubSeq(net, 1, n) IN
                   [data |-> Got(b)[1], buf |-> Got(b)[2], net |-> Split(net, n)[2]]
  IN IF buf # <<>> THEN {[data |-> Got(buf)[1], buf |-> Got(buf)[2], net |-> net]}
     ELSE IF due \/ net = <<>> THEN {}
     ELSE {Filled(n) : n \in IF smooth THEN {most} ELSE 1..most}

AtEOF    == buf = <<>> /\ net = <<>> /\ writer = "failed"
ReadFails == buf = <<>> /\ (due \/ AtEOF)

\* startServiceReceiver, per iteration: a new bufio.Reader on the connection, which
\* forgets what the last one had buffered, and a new read deadline.
Begin == /\ pc = "loop"
         /\ buf' = <<>> /\ due' = FALSE /\ pc' = "pre"
         /\ UNCHANGED <<fixed, sizes, writer, net, cur, macOK, size, delivered>>

\* Mutant: an invalid preamble is skipped.
ReadPreambleSkips ==
  /\ pc = "pre"
  /\ \E r \in Reads(2) :
       /\ buf' = r.buf /\ net' = r.net
       /\ pc' = IF \E m \in 1..Len(sizes) : r.data = Field(m, "pre") THEN "typ" ELSE "loop"
  /\ UNCHANGED <<fixed, sizes, writer, due, cur, macOK, size, delivered>>

\* isPreambleValid: a single Read, and the rest of the array stays zero.
ReadPreamble ==
  /\ pc = "pre"
  /\ \E r \in Reads(2) :
       /\ buf' = r.buf /\ net' = r.net
       /\ pc' = IF \E m \in 1..Len(sizes) : r.data = Field(m, "pre") THEN "typ" ELSE "dead"
  /\ UNCHANGED <<fixed, sizes, writer, due, cur, macOK, size, delivered>>

\* io.EOF is no error: the loop goes round.  Any other error ends R.
ReadPreambleFails ==
  /\ pc = "pre" /\ ReadFails
  /\ pc' = IF AtEOF /\ ~due THEN "loop" ELSE "dead"
  /\ UNCHANGED <<fixed, sizes, writer, net, buf, due, cur, macOK, size, delivered>>

\* readSize for the type; an error or a short read gives a type nobody registered.
ReadType ==
  /\ pc = "typ"
  /\ \E r \in Reads(2) :
       /\ buf' = r.buf /\ net' = r.net /\ cur' = r.data[1].msg
       /\ pc' = IF r.data # Field(cur', "typ") THEN "dead"
                ELSE IF encrypted THEN "mac" ELSE "siz"
  /\ UNCHANGED <<fixed, sizes, writer, due, macOK, size, delivered>>

ReadTypeFails ==
  /\ pc = "typ" /\ ReadFails /\ pc' = "dead"
  /\ UNCHANGED <<fixed, sizes, writer, net, buf, due, cur, macOK, size, delivered>>

ReadHmacSize ==
  /\ pc = "mac" /\ pc' = "siz"
  /\ \E r \in Reads(2) :
       /\ buf' = r.buf /\ net' = r.net /\ macOK' = (r.data = Field(cur, "mac"))
  /\ UNCHANGED <<fixed, sizes, writer, due, cur, size, delivered>>

ReadHmacSizeFails ==
  /\ pc = "mac" /\ ReadFails /\ pc' = "siz" /\ macOK' = FALSE
  /\ UNCHANGED <<fixed, sizes, writer, net, buf, due, cur, size, delivered>>

\* Mutant: the size counts one cell too many.
ReadSizeOff ==
  /\ pc = "siz" /\ pc' = "pay"
  /\ \E r \in Reads(2) : buf' = r.buf /\ net' = r.net /\ size' = sizes[cur] + 1
  /\ UNCHANGED <<fixed, sizes, writer, due, cur, macOK, delivered>>

\* A short read of the size field gives 0; one across two fields gives a size that
\* the payload read cannot match.
ReadSize ==
  /\ pc = "siz"
  /\ \E r \in Reads(2) :
       /\ buf' = r.buf /\ net' = r.net
       /\ IF r.data = Field(cur, "siz") THEN size' = sizes[cur] /\ pc' = "pay"
          ELSE size' = 0 /\ pc' = IF r.data = <<Cell(cur, "siz", 1)>> THEN "pay" ELSE "dead"
  /\ UNCHANGED <<fixed, sizes, writer, due, cur, macOK, delivered>>

\* readSize recovers from its own panic and returns 0.
ReadSizeFails ==
  /\ pc = "siz" /\ ReadFails /\ size' = 0 /\ pc' = "pay"
  /\ UNCHANGED <<fixed, sizes, writer, net, buf, due, cur, macOK, delivered>>

\* Mutant: the hmac is not checked.
FinishUnchecked(data) ==
  pc' = "loop" /\ delivered' = Append(delivered, [msg |-> cur, data |-> data])

\* The payload was read: unmarshal it, after DecryptProtobuf has authenticated it.
Finish(data) ==
  IF encrypted /\ ~(macOK /\ data = Payload(cur, sizes[cur]))
    THEN pc' = "dead" /\ UNCHANGED delivered
    ELSE pc' = "loop" /\ delivered' = Append(delivered, [msg |-> cur, data |-> data])

\* Mutant: the number of bytes read is not compared with size.
ReadPayloadShort ==
  /\ pc = "pay" /\ size > 0
  /\ \E r \in Reads(size) : buf' = r.buf /\ net' = r.net /\ Finish(r.data)
  /\ UNCHANGED <<fixed, sizes, writer, due, cur, macOK, size>>

ReadPayload ==
  /\ pc = "pay" /\ size > 0
  /\ \E r \in Reads(size) :
       /\ buf' = r.buf /\ net' = r.net
       /\ IF Len(r.data) = size THEN Finish(r.data) ELSE pc' = "dead" /\ UNCHANGED delivered
  /\ UNCHANGED <<fixed, sizes, writer, due, cur, macOK, size>>

ReadNoPayload ==
  /\ pc = "pay" /\ size = 0 /\ Finish(<<>>)
  /\ UNCHANGED <<fixed, sizes, writer, net, buf, due, cur, macOK, size>>

ReadPayloadFails ==
  /\ pc = "pay" /\ size > 0 /\ ReadFails /\ pc' = "dead"
  /\ UNCHANGED <<fixed, sizes, writer, net, buf, due, cur, macOK, size, delivered>>

\* TCPTimeout passes while a message is being read.
DeadlinePasses ==
  /\ ~smooth /\ ~due /\ pc \notin {"loop", "dead"} /\ due' = TRUE
  /\ UNCHANGED <<fixed, sizes, writer, net, buf, pc, cur, macOK, size, delivered>>

Next == \/ \E n \in PayloadSizes : Put(n) \/ \E k \in 0..Len(Frame(1, n)) - 1 : PutCut(n, k)
        \/ Begin \/ ReadPreamble \/ ReadPreambleFails \/ ReadType \/ ReadTypeFails
        \/ ReadHmacSize \/ ReadHmacSizeFails \/ ReadSize \/ ReadSizeFails
        \/ ReadPayload \/ ReadNoPayload \/ ReadPayloadFails \/ DeadlinePasses

Spec == Init /\ [][Next]_vars

-----------------------------------------------------------------------------
(* Properties. *)

\* The reader is at a place of getMessageFromConnection, reading a message that was
\* written; the buffer holds no more than its size.
TypeOK ==
  /\ pc \in {"loop", "pre", "typ", "mac", "siz", "pay", "dead"}
  /\ writer \in {"open", "failed"} /\ due \in BOOLEAN /\ macOK \in BOOLEAN
  /\ sizes \in Seq(PayloadSizes) /\ cur \in 0..Len(sizes) /\ size \in 0..MaxPayload
  /\ Len(buf) <= BufSize /\ Len(sizes) <= MaxMsgs

Genuine(d) == d.data = Payload(d.msg, sizes[d.msg])

\* Nothing is being read, buffered or on its way, and R is alive.
Quiet == pc = "pre" /\ buf = <<>> /\ net = <<>> /\ writer = "open"

DeliveredAll == [i \in 1..Len(delivered) |-> delivered[i].msg] = [i \in 1..Len(sizes) |-> i]

\* With keys, whatever the segmentation, the timeouts and the cut writes, only
\* messages that were sent whole are returned.
OnlyGenuine == encrypted => \A i \in 1..Len(delivered) : Genuine(delivered[i])

\* Without keys a message is returned as it was sent or empty: never with the bytes
\* of another or a part of its own.
NoMixing == \A i \in 1..Len(delivered) : Genuine(delivered[i]) \/ delivered[i].data = <<>>

\* Messages are returned in the order sent, none twice.
InOrder == \A i, j \in 1..Len(delivered) : i < j => delivered[i].msg < delivered[j].msg

\* An application that sends a message only when the one before was received loses
\* none silently: either all have arrived, or R is dead and the session closes.
NoSilentLoss == window = 1 /\ Quiet => DeliveredAll

\* When frames arrive whole, on time and one at a time, and fit the bufio.Reader,
\* R survives them all.
SmoothSurvives ==
  smooth /\ window = 1 /\ (\A m \in 1..Len(sizes) : Len(Frame(m, sizes[m])) <= BufSize)
    => pc # "dead"

\* nan0.go:50-51: the receiver "constantly reads from the open connection and places
\* the received message on receiver channel".
EveryMessageArrives == Quiet => DeliveredAll
=============================================================================
