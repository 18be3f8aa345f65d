----------------------------- MODULE LineReader -----------------------------
(***************************************************************************)
(* ATChannel::ReadLine (src/src/channel.cc) with its static buffer         *)
(* kATBuffer, its cursor kATBufferCur, and AtFindNextEOL                   *)
(* (src/src/token.cc).  The buffer has MAX_AT_RESPONSE + 1 cells, at 0 ..  *)
(* MAX_AT_RESPONSE; the cell after them stands for the memory that follows *)
(* it, taken to hold \0.  Cells hold a character ("gt" and "sp" are the    *)
(* two of the prompt), "nl" for \r or \n, and "nul" for \0.                *)
(*                                                                         *)
(* A call of ReadLine is ReadLineEnter and then ReadBytes until a line is  *)
(* complete, or ReadFails.                                                 *)
(***************************************************************************)
EXTENDS Integers, Sequences

CONSTANTS
  MAX_AT_RESPONSE,  \* size of the buffer without its last cell
  Text,             \* characters other than \r, \n and \0
  MaxBytes          \* bound on the number of bytes the device sends

ASSUME BufferAssumption == MAX_AT_RESPONSE \in Nat /\ MAX_AT_RESPONSE > 0
ASSUME TextAssumption == {"nl", "nul"} \cap Text = {}
ASSUME BytesAssumption == MaxBytes \in Nat

Byte == Text \cup {"nl"}
Cells == 0..MAX_AT_RESPONSE + 1

VARIABLES
  kATBuffer, kATBufferCur,
  p_read,             \* where the data in the buffer ends
  state,              \* "out" of ReadLine, "in" its read loop, or "closed"
  bytes,              \* all bytes read so far
  lines,              \* all lines returned so far
  spans,              \* history: where in bytes each of them was read
  ditched             \* the buffer was dropped because it was full

vars == <<kATBuffer, kATBufferCur, p_read, state, bytes, lines, spans, ditched>>

Init ==
  /\ kATBuffer = [i \in Cells |-> "nul"]
  /\ kATBufferCur = 0 /\ p_read = 0
  /\ state = "out"
  /\ bytes = << >> /\ lines = << >> /\ spans = << >> /\ ditched = FALSE

-----------------------------------------------------------------------------
(* The least cell at or after i whose content is in S; None if there is none. *)
None == MAX_AT_RESPONSE + 2
FirstCell(buf, i, S) ==
  LET found == {j \in Cells : j >= i /\ buf[j] \in S}
  IN  IF found = {} THEN None ELSE CHOOSE j \in found : \A k \in found : j <= k

(* The loops that step over leading \r and \n. *)
SkipNewlines(buf, i) == FirstCell(buf, i, Text \cup {"nul"})

IsPrompt(buf, i) ==
  /\ i + 2 \in Cells
  /\ buf[i] = "gt" /\ buf[i + 1] = "sp" /\ buf[i + 2] = "nul"

AtFindNextEOL(buf, i) ==
  IF IsPrompt(buf, i) THEN i + 2
  ELSE LET e == FirstCell(buf, i, {"nl", "nul"})
       IN  IF e # None /\ buf[e] = "nl" THEN e ELSE None

(* Faulty variant of AfterEOL: every line is taken to end in \r\n. *)
AfterEOLSkippingTwo(i, e) == e + 2

(* Faulty variant of AfterEOL: the cursor stays at the returned line. *)
AfterEOLKeepingCursor(i, e) == i

(* Where the cursor goes after the line from i to e. *)
AfterEOL(i, e) == e + 1

(* The line from i up to the end of line e is cut off and returned; cell j of
   the buffer holds the byte of the stream at origin + j + 1. *)
ReturnLine(buf, i, e, origin) ==
  /\ lines' = Append(lines, [k \in 1..e - i |-> buf[i + k - 1]])
  /\ spans' = Append(spans, [from |-> origin + i + 1, to |-> origin + e])
  /\ kATBuffer' = [buf EXCEPT ![e] = "nul"]
  /\ kATBufferCur' = AfterEOL(i, e)
  /\ state' = "out"

(* Faulty variant of MoveUp: the copy starts one character late. *)
MoveUpLate(buf, i) ==
  LET len == FirstCell(buf, i, {"nul"}) - i
  IN  [j \in Cells |-> IF j < len THEN buf[i + j + 1] ELSE buf[j]]

(* memmove of the partial line at i, its \0 included, to the start. *)
MoveUp(buf, i) ==
  LET len == FirstCell(buf, i, {"nul"}) - i
  IN  [j \in Cells |-> IF j <= len THEN buf[i + j] ELSE buf[j]]

(* ReadLine up to its loop, and all of it when the buffer holds a line. *)
ReadLineEnter ==
  /\ state = "out"
  /\ IF kATBuffer[kATBufferCur] = "nul"
       THEN /\ kATBufferCur' = 0 /\ p_read' = 0
            /\ kATBuffer' = [kATBuffer EXCEPT ![0] = "nul"]
            /\ state' = "in"
            /\ UNCHANGED <<lines, spans>>
       ELSE LET i == SkipNewlines(kATBuffer, kATBufferCur)
                e == AtFindNextEOL(kATBuffer, i)
            IN  IF e # None
                  THEN ReturnLine(kATBuffer, i, e, Len(bytes) - p_read) /\ UNCHANGED p_read
                  ELSE /\ kATBuffer' = MoveUp(kATBuffer, i)
                       /\ p_read' = FirstCell(kATBuffer, i, {"nul"}) - i
                       /\ kATBufferCur' = 0
                       /\ state' = "in"
                       /\ UNCHANGED <<lines, spans>>
  /\ UNCHANGED <<bytes, ditched>>

(* The loop's test for a full buffer, which drops what it holds. *)
IsFull == p_read = MAX_AT_RESPONSE

(* Faulty variant of Room: the cell of the final \0 is counted. *)
RoomWithTerminator(from) == MAX_AT_RESPONSE + 1 - from

(* The number of bytes read() is asked for. *)
Room(from) == MAX_AT_RESPONSE - from

(* One read() of the loop: count bytes arrive, at most what the buffer holds. *)
ReadBytes(count) ==
  LET from == IF IsFull THEN 0 ELSE p_read
      cur == IF IsFull THEN 0 ELSE kATBufferCur
  IN
  /\ state = "in"
  /\ count <= Room(from) /\ Len(bytes) + count <= MaxBytes
  /\ ditched' = (ditched \/ IsFull)
  /\ \E data \in [1..count -> Byte] :
       LET buf == [j \in Cells |-> IF j \in from..from + count - 1 THEN data[j - from + 1]
                                   ELSE IF j = from + count THEN "nul" ELSE kATBuffer[j]]
           i == SkipNewlines(buf, cur)
           e == AtFindNextEOL(buf, i)
       IN  /\ bytes' = bytes \o data
           /\ p_read' = from + count
           /\ IF e # None
                THEN ReturnLine(buf, i, e, Len(bytes) - from)
                ELSE /\ kATBuffer' = buf /\ kATBufferCur' = i
                     /\ UNCHANGED <<state, lines, spans>>

(* read() fails or reports the end: the caller closes the channel. *)
ReadFails ==
  /\ state = "in"
  /\ state' = "closed"
  /\ kATBufferCur' = IF IsFull THEN 0 ELSE kATBufferCur
  /\ kATBuffer' = IF IsFull THEN [kATBuffer EXCEPT ![0] = "nul"] ELSE kATBuffer
  /\ p_read' = IF IsFull THEN 0 ELSE p_read
  /\ ditched' = (ditched \/ IsFull)
  /\ UNCHANGED <<bytes, lines, spans>>

Next == ReadLineEnter \/ (\E count \in 1..MAX_AT_RESPONSE : ReadBytes(count)) \/ ReadFails

Spec == Init /\ [][Next]_vars

-----------------------------------------------------------------------------
(* The cursor is in the buffer or one past it. *)
TypeOK ==
  /\ kATBuffer \in [Cells -> Byte \cup {"nul"}]
  /\ kATBufferCur \in Cells /\ p_read \in 0..MAX_AT_RESPONSE
  /\ state \in {"out", "in", "closed"}
  /\ bytes \in Seq(Byte) /\ lines \in Seq(Seq(Byte)) /\ ditched \in BOOLEAN
  /\ spans \in Seq([from : Int, to : Int])

(* ReadLine has returned the prompt. *)
Prompted == \E n \in 1..Len(lines) : lines[n] = <<"gt", "sp">>

(***************************************************************************)
(* The comment at the end of ReadLine: kATBufferCur "will always be <=     *)
(* p_read, and there will be a \0 at" p_read.  It is so until ReadLine     *)
(* returns the prompt "> ", which ends at the \0 itself: then the cursor   *)
(* is one past it, and the next call reads what an earlier line left.      *)
(***************************************************************************)
CursorInData ==
  \/ kATBufferCur <= p_read /\ kATBuffer[p_read] = "nul"
  \/ Prompted

Span(n) == spans[n].from..spans[n].to

(***************************************************************************)
(* What ReadLine returns are tails of lines of the stream, in order, also  *)
(* when the buffer was dropped because it was full: nothing is made up,    *)
(* glued together or returned twice, until a prompt was returned.          *)
(***************************************************************************)
LinesAreTails ==
  \/ /\ \A n \in 1..Len(lines) :
          /\ Span(n) # {} /\ Span(n) \subseteq 1..Len(bytes) - 1
          /\ lines[n] = SubSeq(bytes, spans[n].from, spans[n].to)
          /\ bytes[spans[n].to + 1] = "nl" /\ \A k \in Span(n) : bytes[k] # "nl"
     /\ \A m, n \in 1..Len(lines) : m < n => spans[m].to < spans[n].from
  \/ Prompted

(***************************************************************************)
(* However the bytes are split over read() calls, ReadLine returns the     *)
(* lines of the stream whole and leaves none out, as long as the buffer    *)
(* was never full and no prompt was returned: each starts where a line     *)
(* starts, and a character not returned comes after all lines returned;    *)
(* and read() is called only when no complete line is left.                *)
(***************************************************************************)
LinesOfStream ==
  ~ditched /\ ~Prompted =>
    /\ \A n \in 1..Len(lines) : spans[n].from = 1 \/ bytes[spans[n].from - 1] = "nl"
    /\ \A k \in 1..Len(bytes) :
         \/ bytes[k] = "nl" \/ \E n \in 1..Len(lines) : k \in Span(n)
         \/ /\ \A n \in 1..Len(lines) : spans[n].to < k
            /\ state = "in" => \A j \in k..Len(bytes) : bytes[j] # "nl"
=============================================================================
