------------------------------ MODULE Framing ------------------------------
(***************************************************************************)
(* How four readers turn a stream of bytes into lines:                     *)
(*   "idle"   readMessage() of the helper while it waits for a request,    *)
(*   "busy"   pumpClient() of the helper while a command runs,             *)
(*   "client" readLine() of the worker,                                    *)
(*   "log"    flushLines() on the output of a command.                     *)
(* The stream arrives in pieces of any length up to the reader's buffer,   *)
(* and the readers look for lines after each piece.                        *)
(***************************************************************************)
EXTENDS Naturals, Sequences, SequencesExt

CONSTANTS Readers,     \* the readers to look at
          MaxChunk,    \* bytes of one read: 4096 in the code
          MaxLine,     \* kMaxLine; 2 MB in readLine()
          MaxStream    \* bytes sent, a bound for TLC

ASSUME FramingAssumption ==
  /\ Readers \subseteq {"idle", "busy", "client", "log"}
  /\ MaxChunk \in Nat \ {0} /\ MaxLine \in Nat /\ MaxChunk < MaxLine /\ MaxStream \in Nat

VARIABLES
  reader,   \* one of Readers
  stream,   \* everything it has read
  buffer,   \* m_buffer, buffer
  lines,    \* the lines it has handed on
  state     \* "open", "refused" by its limit, "overrun", "ended"

vars == <<reader, stream, buffer, lines, state>>

(* "u" and "v" stand for the bytes that no reader looks at.                  *)
Byte == {"u", "v", "\r", "\n"}

------------------------------------------------------------------------------
(* Lines of a text *)

Breaks(text) == {n \in DOMAIN text : text[n] = "\n"}
BreaksBefore(text, n) == {m \in Breaks(text) \cup {0} : m < n}
LastOf(places) == CHOOSE n \in places : \A m \in places : m <= n

(* The text of the line that ends at n, and what follows the last line.      *)
LineAt(text, n) == SubSeq(text, LastOf(BreaksBefore(text, n)) + 1, n - 1)
AfterRead(text) == <<>>                                                 \* mutant
Rest(text) == SubSeq(text, LastOf(Breaks(text) \cup {0}) + 1, Len(text))

NotEmpty(line) == line # <<>>

(* The lines that end among the first n bytes, each as As() has it, without  *)
(* those of which nothing is left.                                           *)
WithLine(before, line) == IF NotEmpty(line) THEN Append(before, line) ELSE before
LinesOf(text, As(_)) ==
  LET upTo[n \in 0..Len(text)] ==
        IF n = 0 THEN <<>>
        ELSE IF text[n] = "\n" THEN WithLine(upTo[n - 1], As(LineAt(text, n))) ELSE upTo[n - 1]
  IN  upTo[Len(text)]

(* "\r" at the end of a message; spaces, which follow the same loop, are "\r" here.  *)
Trimmed(line) ==
  SubSeq(line, 1, LastOf({n \in DOMAIN line : line[n] # "\r"} \cup {0}))

(* protocol::takeLines(): the complete lines without those that are blank.   *)
TakeLines(text) == LinesOf(text, Trimmed)

Returns(text) == {n \in DOMAIN text : text[n] = "\r"}
AfterReturn(text) == SubSeq(text, LastOf(Returns(text) \cup {0}) + 1, Len(text))

(* One "\r" before the "\n" belongs to it, others start the line anew.       *)
LogLine(line) ==
  AfterReturn(IF line # <<>> /\ Last(line) = "\r" THEN Front(line) ELSE line)

LogLines(text) == LinesOf(text, LogLine)

------------------------------------------------------------------------------
(* One piece of the stream *)

Init ==
  /\ reader \in Readers /\ stream = <<>> /\ buffer = <<>> /\ lines = <<>> /\ state = "open"

NoRoomForAnother(text) == Len(text) + MaxChunk > MaxLine                \* mutant
(* The limit is on all that is there, before a line is taken from it.        *)
TooLong(text) == Len(text) > MaxLine

(* readMessage() and readLine() take one line at a time and hang up.         *)
ReadMessage(text) ==
  /\ reader \in {"idle", "client"}
  /\ IF TooLong(text)
     THEN state' = "refused" /\ buffer' = text /\ UNCHANGED lines
     ELSE /\ lines' = lines \o TakeLines(text) /\ buffer' = Rest(text) /\ UNCHANGED state

(* pumpClient() reads until nothing is there and only then looks for lines;  *)
(* over the limit it forgets all of it, complete lines too, and goes on.     *)
PumpClient(text) ==
  /\ reader = "busy"
  /\ \/ TooLong(text) /\ state' = "overrun" /\ buffer' = <<>> /\ UNCHANGED lines
     \/ ~TooLong(text) /\ buffer' = text /\ UNCHANGED <<lines, state>>
     \/ ~TooLong(text) /\ lines' = lines \o TakeLines(text) /\ buffer' = Rest(text) /\ UNCHANGED state

(* flushLines(): the complete lines; then, of an incomplete one that has a   *)
(* "\r", what follows it, which also stays in the buffer; then what is too   *)
(* long; and at the end, the rest.                                           *)
UpdateOf(rest) ==
  IF Returns(rest) # {} THEN WithLine(<<>>, AfterReturn(rest)) ELSE <<>>

CutDropsRest(rest) == IF Len(rest) > MaxLine THEN <<>> ELSE rest        \* mutant
AfterCut(rest) == IF Len(rest) > MaxLine THEN SubSeq(rest, MaxLine + 1, Len(rest)) ELSE rest
Cut(rest) == IF Len(rest) > MaxLine THEN <<SubSeq(rest, 1, MaxLine)>> ELSE <<>>

LeftOf(text) == AfterReturn(Rest(text))
Reported(text) == LogLines(text) \o UpdateOf(Rest(text)) \o Cut(LeftOf(text))

FlushLines(text) ==
  /\ reader = "log"
  /\ lines' = lines \o Reported(text) /\ buffer' = AfterCut(LeftOf(text)) /\ UNCHANGED state

(* What may come next: what one read returns, or all the pipe still holds. *)
Chunks(sizes) == UNION {[1..size -> Byte] : size \in {n \in sizes : Len(stream) + n <= MaxStream}}
Pieces == Chunks(1..MaxChunk)
Remainders == Chunks(0..MaxStream)

Read ==
  /\ state \in {"open", "overrun"}
  /\ \E chunk \in Pieces :
       /\ stream' = stream \o chunk
       /\ \/ ReadMessage(buffer \o chunk)
          \/ PumpClient(buffer \o chunk)
          \/ FlushLines(buffer \o chunk)
  /\ UNCHANGED reader

(* The command has ended: all the pipe still holds is read, whatever it      *)
(* takes, and then flushed at once, with flushAll.                           *)
Ends ==
  /\ reader = "log" /\ state = "open" /\ state' = "ended"
  /\ \E chunk \in Remainders :
       /\ stream' = stream \o chunk
       /\ LET text == buffer \o chunk
          IN  lines' = WithLine(lines \o Reported(text), AfterCut(LeftOf(text)))
  /\ buffer' = <<>> /\ UNCHANGED reader

Done == (state \in {"refused", "ended"} \/ Len(stream) = MaxStream) /\ UNCHANGED vars

Next == Read \/ Ends \/ Done
Spec == Init /\ [][Next]_vars

------------------------------------------------------------------------------
(* Properties *)

TypeOK ==
  /\ reader \in Readers /\ stream \in Seq(Byte) /\ buffer \in Seq(Byte) /\ lines \in Seq(Seq(Byte))
  /\ state \in {"open", "refused", "overrun", "ended"}
  /\ Len(buffer) <= MaxLine + (IF state = "refused" THEN MaxChunk ELSE 0)

(* However a stream of messages is cut into reads, the same lines come out:  *)
(* those of the whole stream (protocol.cpp:68, server.cpp:241,               *)
(* helpersession.cpp:49).  Not so for what pumpClient() has thrown away.     *)
CutDoesNotMatter ==
  reader # "log" /\ state = "open" =>
    /\ TakeLines(stream) = lines \o TakeLines(buffer)
    /\ Rest(stream) = Rest(buffer)

(* The limit refuses a message that is too long, and never one that is       *)
(* shorter by a read: 4096 bytes of other messages may be counted with it    *)
(* (server.cpp:279, helpersession.cpp:80).                                   *)
LimitIsForLongLines ==
  state = "refused" =>
    \E n \in Breaks(stream) \cup {Len(stream) + 1} : Len(LineAt(stream, n)) > MaxLine - MaxChunk

(* The bytes of a text but for its line breaks. *)
Written(text) == FlattenSeq([n \in DOMAIN text |-> IF text[n] = "\n" THEN <<>> ELSE <<text[n]>>])

(* Output without "\r" is reported line by line as it was written, however   *)
(* it is read; a line over the limit comes in pieces, and nothing is lost or *)
(* doubled (executor.cpp:20).                                                *)
LogIsTheOutput ==
  reader = "log" /\ Returns(stream) = {} =>
    /\ FlattenSeq(lines) \o buffer = Written(stream)
    /\ (\A n \in Breaks(stream) \cup {Len(stream) + 1} : Len(LineAt(stream, n)) <= MaxLine) =>
         WithLine(lines, buffer) = WithLine(LogLines(stream), Rest(stream))
=============================================================================
