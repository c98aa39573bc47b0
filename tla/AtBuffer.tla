------------------------------ MODULE AtBuffer ------------------------------
(***************************************************************************)
(* The receive buffer of an AT channel (src/at.c): tcore_at_buf_write      *)
(* appends what the HAL read, shifting or doubling the buffer when it is   *)
(* short of room, and the loop of tcore_at_process cuts it into lines.     *)
(*                                                                         *)
(* A byte is one of "a" (any text), "K" (the start of a final response),   *)
(* "P" (the two characters of the prompt "> "), "CR", "LF" and "NUL".      *)
(* Positions are offsets into the buffer, from 0.                          *)
(***************************************************************************)
EXTENDS Naturals, Sequences, SequencesExt

CONSTANTS
  Size,      \* MAX_AT_RESPONSE, the first size of the buffer
  Chunks,    \* what one read may deliver
  MaxUnread, \* bound: the bytes that may wait for the end of their line
  Requests,  \* what may be set as at->req: "plain", "body" (with next_send_pos)
  StrayPrompts \* TRUE: the modem may prompt as it likes

VARIABLES
  buf,      \* at->buf, buf_size bytes
  rd,       \* buf_read_pos
  wr,       \* buf_write_pos
  waiting,  \* "none" when at->req is NULL, else the kind of the request
  scanning, \* TRUE inside the loop of tcore_at_process
  line      \* the line that was handled last

vars == <<buf, rd, wr, waiting, scanning, line>>

Bytes == {"a", "K", "P", "CR", "LF", "NUL"}

\* A read delivers something, and no NUL.
ASSUME BufferAssumption ==
  /\ Size \in Nat \ {0}
  /\ \A data \in Chunks : data # <<>> /\ data \in Seq(Bytes \ {"NUL"})
  /\ "none" \notin Requests

At(i) == buf[i + 1]
Zeros(n) == [i \in 1..n |-> "NUL"]
Unread == SubSeq(buf, rd + 1, wr)

Init ==
  /\ buf = Zeros(Size)
  /\ rd = 0 /\ wr = 0
  /\ waiting = "none"
  /\ scanning = FALSE
  /\ line = <<>>

\* tcore_at_set_request, when no other request is out: from the main loop, or
\* from a plugin that handles a line, between two turns of the loop.
SetRequest ==
  /\ waiting = "none"
  /\ waiting' \in Requests
  /\ UNCHANGED <<buf, rd, wr, scanning, line>>

\* Mutant: the doubled buffer may be filled to the last byte.
TightSize(n) ==
  {s \in {Len(buf)} \cup 0..(2 * n - 1) : s >= n /\ \E k \in 0..n : s = Len(buf) * 2 ^ k}

\* The size for n bytes and a terminating NUL: the old one, or doubled until
\* it is large enough.  There is exactly one.
BufferSize(n) ==
  {s \in {Len(buf)} \cup 0..(2 * n) : s > n /\ \E k \in 0..n : s = Len(buf) * 2 ^ k}

\* Mutant: the bytes behind the written ones are not cleared after a shift.
WriteDirty(data) ==
  LET n == Len(data) IN
  IF wr + n < Len(buf)
  THEN /\ buf' = [i \in 1..Len(buf) |->
                    IF i \in (wr + 1)..(wr + n) THEN data[i - wr] ELSE buf[i]]
       /\ wr' = wr + n
       /\ UNCHANGED rd
  ELSE LET kept == Len(Unread)
       IN /\ \E size \in BufferSize(kept + n) :
            buf' = [i \in 1..size |->
                      IF i <= kept THEN Unread[i]
                      ELSE IF i <= kept + n THEN data[i - kept]
                      ELSE IF i <= Len(buf) THEN buf[i] ELSE "NUL"]
          /\ rd' = 0 /\ wr' = kept + n

(***************************************************************************)
(* tcore_at_buf_write: when the data does not fit behind what is there,    *)
(* the bytes already read are shifted out; when it still does not fit the  *)
(* buffer is doubled.  Whatever is behind the data then is cleared.  A     *)
(* shift with the read position beyond the write position writes outside   *)
(* the buffer: no behaviour of the model goes on from there.               *)
(***************************************************************************)
Write(data) ==
  LET n == Len(data) IN
  IF wr + n < Len(buf)
  THEN /\ buf' = [i \in 1..Len(buf) |->
                    IF i \in (wr + 1)..(wr + n) THEN data[i - wr] ELSE buf[i]]
       /\ wr' = wr + n
       /\ UNCHANGED rd
  ELSE LET kept == Len(Unread)
       IN /\ rd <= wr
          /\ \E size \in BufferSize(kept + n) :
               buf' = Unread \o data \o Zeros(size - kept - n)
          /\ rd' = 0 /\ wr' = kept + n

\* The modem prompts only when a body waits for it, and does not end a line that
\* is the prompt alone: the code would go on in front of the NUL it writes there.
Prompting(data) ==
  LET s == Unread \o data
  IN /\ Contains(data, "P") => waiting = "body"
     /\ \A i \in 1..(Len(s) - 1) :
          s[i] = "P" /\ (i > 1 => s[i - 1] \in {"CR", "LF"}) => s[i + 1] # "CR"

\* tcore_at_process, as the HAL calls it with what it read.
Receive ==
  /\ ~scanning
  /\ \E data \in Chunks :
       /\ Contains(data, "CR") \/ Len(Unread) + Len(data) <= MaxUnread
       /\ StrayPrompts \/ Prompting(data)
       /\ Write(data)
  /\ scanning' = TRUE
  /\ UNCHANGED <<waiting, line>>

\* p is the first position from i on whose byte is in the set S.
FirstOf(i, S, p) ==
  /\ p \in i..(Len(buf) - 1) /\ At(p) \in S
  /\ \A j \in i..(p - 1) : At(j) \notin S

PromptAt(p) == At(p) = "P" /\ At(p + 1) = "NUL"

\* The line between p and e, as _find_next_EOL finds it: up to a CR, or the
\* prompt at the end of the data.
LineAt(p, e) ==
  /\ FirstOf(rd, Bytes \ {"CR", "LF"}, p)
  /\ IF PromptAt(p) THEN e = p + 1 ELSE FirstOf(p, {"CR", "NUL"}, e) /\ At(e) = "CR"

\* The line is the prompt of a request that has more to send.
SendsBody(p, e) == waiting = "body" /\ At(p) = "P" /\ e = p + 1

\* Where the loop goes on behind a line that ended at e.
LineNext(e) == e + 1

(***************************************************************************)
(* One turn of the loop that finds a line.  A final response to the        *)
(* request ends it, and so does the prompt of a request that has more to   *)
(* send; what follows stays in the buffer until the next read.             *)
(***************************************************************************)
ScanLine ==
  /\ scanning
  /\ \E p, e \in 0..(Len(buf) - 1) :
       /\ LineAt(p, e)
       /\ buf' = [buf EXCEPT ![e + 1] = "NUL"]
       /\ \/ /\ SendsBody(p, e)
             /\ rd' = p + 1
             /\ scanning' = FALSE
             /\ UNCHANGED <<waiting, line>>
          \/ /\ ~SendsBody(p, e)
             /\ line' = SubSeq(buf, p + 1, e)
             /\ rd' = LineNext(e)
             /\ IF waiting # "none" /\ At(p) = "K"
                THEN waiting' = "none" /\ scanning' = FALSE
                ELSE UNCHANGED <<waiting, scanning>>
  /\ UNCHANGED wr

\* The turn that finds no complete line.
ScanEnd ==
  /\ scanning
  /\ \A p, e \in 0..(Len(buf) - 1) : ~LineAt(p, e)
  /\ scanning' = FALSE
  /\ UNCHANGED <<buf, rd, wr, waiting, line>>

Next == SetRequest \/ Receive \/ ScanLine \/ ScanEnd

Spec == Init /\ [][Next]_vars

-----------------------------------------------------------------------------
(* Properties *)

\* The read position is at or before the write position, which is inside the
\* buffer; the other variables have their types.
TypeOK ==
  /\ buf \in Seq(Bytes)
  /\ wr \in 0..Len(buf) /\ rd \in 0..wr
  /\ waiting \in Requests \cup {"none"}
  /\ scanning \in BOOLEAN
  /\ line \in Seq(Bytes)

(***************************************************************************)
(* tcore_at_buf_write leaves room for a terminating NUL: the scans for CR  *)
(* and for the start of a line, which know no length, end inside the       *)
(* buffer.                                                                 *)
(***************************************************************************)
Terminated ==
  TypeOK /\ wr < Len(buf) /\ \A i \in wr..(Len(buf) - 1) : At(i) = "NUL"

\* The buffer implements the byte stream: no shift, doubling or early end of
\* the loop loses, repeats or invents a byte of a line.
Stream == INSTANCE ByteStream WITH input <- Unread
ImplementsByteStream == Stream!Spec
=============================================================================
