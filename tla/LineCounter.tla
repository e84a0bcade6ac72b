---------------------------- MODULE LineCounter ----------------------------
(***************************************************************************)
(* One TCP connection of epoll-in-c: handle_tcp_communication() answers    *)
(* every line with its length.  The client sends whenever it likes; an     *)
(* event reads what has arrived, ReadSize bytes at most, behind the        *)
(* unfinished line kept from the events before, and the loop answers the   *)
(* lines that are complete by then.                                        *)
(*                                                                         *)
(* The loop trusts the memory it works in.  malloc() does not clear the    *)
(* buffer; strstr() asks neither e->count nor the end of the buffer, only  *)
(* a zero byte stops it; and every answer copies BUF_SIZE bytes from       *)
(* behind the line to the front, so as many bytes as the line had come in  *)
(* from behind the buffer, where the next block of the heap lies.  Both    *)
(* kinds of memory are modelled, byte by byte: a byte is a newline, a zero *)
(* or any other.  The ranges of that copy overlap; it is the memmove() that*)
(* the memcpy() of this platform's C library is.                           *)
(*                                                                         *)
(* The client sends text, so no zero byte.  Reading the end of the stream, *)
(* or nothing, leaves everything as it was.                                *)
(***************************************************************************)
EXTENDS Integers, Sequences, FiniteSets, SequencesExt

CONSTANTS
  BufSize,      (* BUF_SIZE                                                *)
  ReadSize,     (* SMOL_BUFF_SIZE - 1                                      *)
  Given,        (* the bytes that may be in the memory malloc() returns    *)
  Foreign,      (* the bytes that may lie behind the buffer                *)
  MaxLine,      (* bound: the longest line the client sends                *)
  MaxSent,      (* bound: how many bytes the client sends                  *)
  MaxReplies    (* bound: how many answers are followed                    *)

Text == {"newline", "other"}
Bytes == Text \union {"zero"}

ASSUME SizesAssumption ==
  /\ BufSize \in Nat \ {0} /\ ReadSize \in Nat \ {0}
  /\ MaxLine \in Nat /\ MaxSent \in Nat /\ MaxReplies \in Nat
ASSUME MemoryAssumption ==
  /\ Given \subseteq Bytes /\ Given # {}
  /\ Foreign \subseteq Bytes /\ Foreign # {}

VARIABLES
  sent,         (* everything the client has sent                          *)
  socket,       (* the part of it that was not read yet                    *)
  buffer,       (* e->buffer, all of it                                    *)
  count,        (* e->count                                                *)
  replies,      (* the numbers written back                                *)
  phase         (* "wait" for an event, "scan" the buffer, or "undefined"  *)

connection == <<sent, socket, buffer, count, replies, phase>>

Newlines(s) == {i \in 1 .. Len(s) : s[i] = "newline"}
Unfinished(s) == SubSeq(s, Max(Newlines(s) \union {0}) + 1, Len(s))

ConnectionInit ==
  /\ sent = << >>
  /\ socket = << >>
  /\ buffer \in [1 .. BufSize -> Given]
  /\ count = 0
  /\ replies = << >>
  /\ phase = "wait"

(* The client (client.py, or nc in t.sh) sends lines of bounded length.    *)
Send(b) ==
  /\ Len(sent) < MaxSent
  /\ b = "other" => Len(Unfinished(sent)) < MaxLine
  /\ sent' = Append(sent, b)
  /\ socket' = Append(socket, b)
  /\ UNCHANGED <<buffer, count, replies, phase>>

(* read() takes n bytes from the socket.                                   *)
Read(n) ==
  /\ phase = "wait"
  /\ n = Min({ReadSize, Len(socket)})
  /\ n > 0
  /\ socket' = SubSeq(socket, n + 1, Len(socket))
  /\ UNCHANGED <<sent, replies>>

ReceiveAtStart ==             \* mutant: the unfinished line is overwritten
  \E n \in 1 .. ReadSize :
    /\ Read(n)
    /\ 0 <= count /\ count + n <= BufSize
    /\ buffer' = [i \in 1 .. BufSize |-> IF i <= n THEN socket[i] ELSE buffer[i]]
    /\ count' = n
    /\ phase' = "scan"

CountWhatWasAsked ==          \* mutant: the size of the read, not its result
  \E n \in 1 .. ReadSize :
    /\ Read(n)
    /\ 0 <= count /\ count + n <= BufSize
    /\ buffer' = [i \in 1 .. BufSize |->
                    IF i \in count + 1 .. count + n THEN socket[i - count] ELSE buffer[i]]
    /\ count' = count + ReadSize
    /\ phase' = "scan"

Receive ==
  \E n \in 1 .. ReadSize :
    /\ Read(n)
    /\ 0 <= count /\ count + n <= BufSize
    /\ buffer' = [i \in 1 .. BufSize |->
                    IF i \in count + 1 .. count + n THEN socket[i - count] ELSE buffer[i]]
    /\ count' = count + n
    /\ phase' = "scan"

(* The bytes are written in front of the buffer or behind it, over what    *)
(* else is there.  Nothing is said of what the server does from then on.   *)
ReceiveOutside ==
  \E n \in 1 .. ReadSize :
    /\ Read(n)
    /\ count < 0 \/ count + n > BufSize
    /\ phase' = "undefined"
    /\ UNCHANGED <<buffer, count>>

(* Where strstr() finds a newline in the buffer: one place or none.        *)
Terminator ==
  {i \in 1 .. BufSize : buffer[i] = "newline" /\ \A j \in 1 .. i - 1 : buffer[j] = "other"}

AnswerOneLine ==              \* mutant: if in the place of while
  \E p \in Terminator : \E behind \in [BufSize - p + 1 .. BufSize -> Foreign] :
    /\ phase = "scan"
    /\ Len(replies) < MaxReplies
    /\ replies' = Append(replies, p - 1)
    /\ count' = count - p
    /\ buffer' = [i \in 1 .. BufSize |-> IF i + p <= BufSize THEN buffer[i + p] ELSE behind[i]]
    /\ phase' = "wait"
    /\ UNCHANGED <<sent, socket>>

CountTerminator ==            \* mutant: the terminator stays in count
  \E p \in Terminator : \E behind \in [BufSize - p + 1 .. BufSize -> Foreign] :
    /\ phase = "scan"
    /\ Len(replies) < MaxReplies
    /\ replies' = Append(replies, p - 1)
    /\ count' = count - (p - 1)
    /\ buffer' = [i \in 1 .. BufSize |-> IF i + p <= BufSize THEN buffer[i + p] ELSE behind[i]]
    /\ UNCHANGED <<sent, socket, phase>>

(* The newline becomes the end of a string, its length is written, and     *)
(* BUF_SIZE bytes from behind it move to the front, p of them from behind  *)
(* the buffer.  These may have changed since the last time, and are any of *)
(* the foreign bytes.                                                      *)
AnswerLine ==
  \E p \in Terminator : \E behind \in [BufSize - p + 1 .. BufSize -> Foreign] :
    /\ phase = "scan"
    /\ Len(replies) < MaxReplies
    /\ replies' = Append(replies, p - 1)
    /\ count' = count - p
    /\ buffer' = [i \in 1 .. BufSize |-> IF i + p <= BufSize THEN buffer[i + p] ELSE behind[i]]
    /\ UNCHANGED <<sent, socket, phase>>

(* A zero byte comes before any newline, in the buffer or behind it.       *)
NoMoreLines ==
  /\ phase = "scan"
  /\ Terminator = {}
  /\ phase' = "wait"
  /\ UNCHANGED <<sent, socket, buffer, count, replies>>

(* Nothing in the buffer stops strstr(): what lies behind it may be a      *)
(* newline, and a zero is written there.                                   *)
AnswerOutside ==
  /\ phase = "scan"
  /\ \A i \in 1 .. BufSize : buffer[i] = "other"
  /\ "newline" \in Foreign
  /\ phase' = "undefined"
  /\ UNCHANGED <<sent, socket, buffer, count, replies>>

HandleCommunication ==
  Receive \/ ReceiveOutside \/ AnswerLine \/ NoMoreLines \/ AnswerOutside

ConnectionNext == HandleCommunication \/ \E b \in Text : Send(b)

(* epoll is level-triggered: while bytes are waiting the handler is called *)
(* again.                                                                  *)
ConnectionSpec == ConnectionInit /\ [][ConnectionNext]_connection /\ WF_connection(HandleCommunication)
------------------------------------------------------------------------------
(* What the server has read of the stream.                                 *)
Received == SubSeq(sent, 1, Len(sent) - Len(socket))

(* The lengths of the complete lines of s.                                 *)
LineLengths(s) ==
  LET End(k) == CHOOSE i \in Newlines(s) : Cardinality(Newlines(SubSeq(s, 1, i))) = k
  IN  [k \in 1 .. Cardinality(Newlines(s)) |->
         IF k = 1 THEN End(1) - 1 ELSE End(k) - End(k - 1) - 1]

(* The answers are the lengths of the lines read so far, in their order,   *)
(* and between two events none of them is missing.                         *)
Answered ==
  \/ phase = "wait" /\ replies = LineLengths(Received)
  \/ phase = "scan" /\ IsPrefix(replies, LineLengths(Received))

(* e->count never says that the buffer holds more than fits into it.       *)
ConnectionTypeOK ==
  /\ sent \in Seq(Text) /\ socket \in Seq(Text)
  /\ buffer \in [1 .. BufSize -> Bytes]
  /\ count \in Int /\ count <= BufSize
  /\ replies \in Seq(Nat)
  /\ phase \in {"wait", "scan", "undefined"}

(* Whatever lies in the buffer and behind it, and however the lines are cut*)
(* into reads: as long as e->count is no less than zero, every answer was  *)
(* right (t.sh: "foo", then " bar\nbuzz\n" is answered 7 4).  It is below  *)
(* zero only when a line was answered that nobody sent; and then the next  *)
(* read is written in front of the buffer.                                 *)
AnswersAreLineLengths ==
  phase # "undefined" =>
    \/ count >= 0 /\ Answered
    \/ count < 0 /\ Len(replies) > Cardinality(Newlines(Received))

(* Whatever lies behind the buffer: as long as a connection has sent less  *)
(* than BUF_SIZE bytes, and was given memory that is zero (as the first    *)
(* ones are), a zero byte is left between its bytes and those that came in *)
(* from behind.  Until then all is defined and answered right.             *)
FirstBytesAnswered ==
  Given = {"zero"} /\ Len(Received) < BufSize => Answered

(* The same without end, where there is no newline in the memory given or  *)
(* behind the buffer, and the unfinished line and a read fit into it.      *)
NoForeignNewline == "newline" \notin Given \union Foreign
LinesFit == MaxLine + ReadSize <= BufSize
CleanMemoryAnswered == NoForeignNewline /\ LinesFit => Answered

(* Every line is answered, one that came with others in a single read too, *)
(* if no byte is written outside of the buffer before.                     *)
EveryLineAnswered ==
  \A k \in 1 .. MaxReplies :
    Cardinality(Newlines(sent)) >= k ~> Len(replies) >= k \/ phase = "undefined"
==============================================================================
