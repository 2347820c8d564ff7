----------------------------- MODULE BufferChannel -----------------------------
(***************************************************************************)
(* serializeTo and parseFrom: calls of the SerializeMethod and ParseMethod *)
(* of a file or memory channel.  write() does everything at once on the    *)
(* QML thread, but the callbacks it reaches through data and unknownError  *)
(* may call again, so that writes nest; `frames' is their stack.           *)
(*                                                                         *)
(* Opening and writing a file fail at any time.  A FileOutputStream keeps  *)
(* a small message until it is closed, and a failure to write it then is   *)
(* only logged.                                                            *)
(***************************************************************************)
EXTENDS Naturals, Sequences

CONSTANTS
  Stored,        \* contents of a message
  Garbage,       \* other bytes: none, a part of a message, whatever was there
  MaxDepth,      \* bound: writes within callbacks of writes
  MaxCalls       \* bound: calls of serializeTo and parseFrom

ASSUME BufferAssumption ==
  Garbage \notin Stored /\ MaxDepth \in Nat /\ MaxCalls \in Nat

VARIABLES
  medium,     \* "file" or "memory"
  content,    \* of the file or of buffer_
  file,       \* file_: the descriptor that was opened last, or 0
  open,       \* descriptors the channel has open
  writes,     \* writes in progress, innermost last
  count,      \* history: calls made
  saved,      \* history: what the last call that told success stored
  lost        \* history: nothing was stored, or changed or failed to be since

bufferVars == <<medium, content, file, open, writes, count, saved, lost>>

WriteFrame == [op : {"serialize", "parse"}, msg : Stored, fd : 0..MaxDepth,
               at : {"open", "told", "failed", "refused"}]

BufferTypeOK ==
  /\ medium \in {"file", "memory"}
  /\ content \in Stored \cup {Garbage}
  /\ file \in 0..MaxDepth /\ open \subseteq 1..MaxDepth
  /\ writes \in Seq(WriteFrame) /\ Len(writes) <= MaxDepth
  /\ count \in 0..MaxCalls
  /\ saved \in Stored \cup {Garbage}
  /\ lost \in BOOLEAN

BufferInit ==
  /\ medium \in {"file", "memory"}
  /\ content = Garbage /\ file = 0 /\ open = {}
  /\ writes = <<>> /\ count = 0
  /\ saved = Garbage /\ lost = TRUE

Busy == writes # <<>>
TopWrite == writes[Len(writes)]
Below == SubSeq(writes, 1, Len(writes) - 1)

\* The program runs at the top, or in a callback, which is told or failed.
ProgramRuns == IF Busy THEN TopWrite.at # "open" ELSE TRUE

\* d is the lowest descriptor that is free.
NextFd(d) == d # 0 /\ d \notin open /\ \A e \in 1..(d - 1) : e \in open

\* openOutput, openInput.  Opening for output truncates the file, or resizes
\* the buffer to the message.
Opened(op, m) ==
  \E d \in 0..MaxDepth :
     /\ IF medium = "file" THEN NextFd(d) ELSE d = 0
     /\ writes' = Append(writes, [op |-> op, msg |-> m, fd |-> d, at |-> "open"])
     /\ file' = d
     /\ open' = open \cup ({d} \ {0})
     /\ content' = IF op = "serialize" THEN Garbage ELSE content
     /\ lost' = (lost \/ op = "serialize")

\* No path, or the file cannot be opened, which alone zeroes file_: unknownError
\* and false.
Refused(op, m) ==
  /\ medium = "file"
  /\ writes' = Append(writes, [op |-> op, msg |-> m, fd |-> 0, at |-> "refused"])
  /\ file' \in {file, 0}
  /\ UNCHANGED <<open, content, lost>>

Begin(op, m) ==
  /\ ProgramRuns
  /\ count < MaxCalls /\ Len(writes) < MaxDepth
  /\ count' = count + 1
  /\ Opened(op, m) \/ Refused(op, m)
  /\ UNCHANGED <<medium, saved>>

\* Slip: only file_ is closed.
CloseStream_File(d) == open' = open \ {file} /\ file' = 0

\* closeInput, closeOutput: the stream closes its descriptor d, then the
\* channel closes file_, which a call within a callback has set and zeroed.
CloseStream(d) == open' = open \ {d, file} /\ file' = 0

\* Slip: data is emitted before the stream is flushed.
Serialized_Early ==
  /\ Busy /\ TopWrite.at = "open" /\ TopWrite.op = "serialize"
  /\ writes' = Append(Below, [TopWrite EXCEPT !.at = "told"])
  /\ UNCHANGED <<content, open, file, medium, count>>
  /\ saved' = TopWrite.msg /\ lost' = FALSE

\* The message is written, the stream closed, then data is emitted.
Serialized ==
  /\ Busy /\ TopWrite.at = "open" /\ TopWrite.op = "serialize"
  /\ writes' = Append(Below, [TopWrite EXCEPT !.at = "told"])
  /\ CloseStream(TopWrite.fd)
  /\ \/ content' = TopWrite.msg /\ saved' = TopWrite.msg /\ lost' = FALSE
     \/ medium = "file" /\ UNCHANGED <<content, saved, lost>>
  /\ UNCHANGED <<medium, count>>

\* The stream parses, which other bytes may do as well; it is closed, then
\* data is emitted.
Parsed ==
  /\ Busy /\ TopWrite.at = "open" /\ TopWrite.op = "parse"
  /\ \E m \in Stored :
       /\ content # Garbage => m = content
       /\ writes' = Append(Below, [TopWrite EXCEPT !.at = "told", !.msg = m])
  /\ CloseStream(TopWrite.fd)
  /\ UNCHANGED <<medium, content, count, saved, lost>>

\* unknownError is emitted while the stream is open.
Failed ==
  /\ Busy /\ TopWrite.at = "open"
  /\ TopWrite.op = "parse" => content = Garbage \/ medium = "file"
  /\ TopWrite.op = "serialize" => medium = "file"
  /\ writes' = Append(Below, [TopWrite EXCEPT !.at = "failed"])
  /\ UNCHANGED <<medium, content, file, open, count, saved, lost>>

\* The callback returns and write() ends; after a failure it closes the
\* stream only now.
End ==
  /\ Busy /\ TopWrite.at # "open"
  /\ IF TopWrite.at = "failed" THEN CloseStream(TopWrite.fd) ELSE UNCHANGED <<file, open>>
  /\ writes' = Below
  /\ UNCHANGED <<medium, content, count, saved, lost>>

\* set_size and clear of a memory channel.  (clear of a file does nothing:
\* exists() is false whenever there is a path.)
Resize ==
  /\ medium = "memory" /\ ProgramRuns
  /\ content' = Garbage /\ lost' = TRUE
  /\ UNCHANGED <<medium, file, open, writes, count, saved>>

BufferNext ==
  \/ \E op \in {"serialize", "parse"}, m \in Stored : Begin(op, m)
  \/ Serialized \/ Parsed \/ Failed
  \/ End
  \/ Resize

\* What parseFrom gives its callback is what the last serializeTo stored, also
\* within the callback of that very call, unless a failure came between.
ReadBack ==
  [][Parsed => lost \/ writes'[Len(writes')].msg = saved]_bufferVars

\* However calls nest in the callbacks of others, those that have ended leave
\* no descriptor open: the open ones are those of the streams still in use.
NothingLeft ==
  /\ BufferTypeOK
  /\ open = {writes[i].fd : i \in {j \in DOMAIN writes : writes[j].at \in {"open", "failed"}}} \ {0}
=============================================================================
