------------------------------ MODULE JsonStream ------------------------------
(***************************************************************************)
(* JsonIOStream (common/messaging.py): values written by write_json at one *)
(* end of a connection and read by read_json at the other, in one of its   *)
(* two directions.  The connection carries a message in pieces: writes are *)
(* partial, may fail in between, and leave the stream open; reads return   *)
(* what is there; either end may close, the writing process may die, and   *)
(* the connection may be reset.                                            *)
(*                                                                         *)
(* A message is its number and the length of its body.  Its encoding is    *)
(* the text of the header, the end of that line, the empty line, and the   *)
(* units of the body; a unit is known by its place in the encoding.        *)
(***************************************************************************)
EXTENDS Naturals, Sequences, SequencesExt

CONSTANTS
    Lengths,    \* lengths of bodies that are written
    MaxBody,    \* MAX_BODY_SIZE of the reader
    MaxSend     \* bound: calls of write_json

ASSUME StreamConstants ==
    /\ Lengths \subseteq Nat \ {0}
    /\ MaxBody \in Nat /\ MaxSend \in Nat

VARIABLES
    writer,     \* write_json: the data still to be written (rest), and the
                \* number of calls; is the stream closed, or its process dead?
    wire,       \* units that are written and not read
    eof,        \* nothing more will be written: the reader sees the end
    reader,     \* read_json: pc, line, "Content-Length" or 0, body
    whole,      \* history: messages of which the last unit was written
    got,        \* history: what read_json returned
    torn,       \* history: has a write failed with a message begun and unfinished?
    lost        \* history: was the connection reset, or closed by the reader?

vars == <<writer, wire, eof, reader, whole, got, torn, lost>>

Messages   == [n : 1..MaxSend, length : Lengths]
Size(m)    == 3 + m.length
Unit(m, i) == [of |-> m, at |-> i]
Units      == UNION {{Unit(m, i) : i \in 1..Size(m)} : m \in Messages}
IsText(u)  == u.at = 1
IsEol(u)   == u.at \in {2, 3}

(* The units of a message from one place to another, all, and the body's.  *)
Part(m, i, j) == [k \in 1..(j - i + 1) |-> Unit(m, i + k - 1)]
Encoding(m)   == Part(m, 1, Size(m))
Body(m)       == Part(m, 4, Size(m))

(* The types; what is being written is the end of the last encoding.       *)
TypeOK ==
    /\ writer \in [rest : Seq(Units), sent : 0..MaxSend, open : BOOLEAN]
    /\ writer.rest # <<>> =>
          \E m \in Messages : \E i \in 1..Size(m) :
             m.n = writer.sent /\ writer.rest = Part(m, i, Size(m))
    /\ wire \in Seq(Units)
    /\ eof \in BOOLEAN
    /\ reader \in [pc : {"line", "body", "ended", "error"}, line : Seq(Units),
                   length : Lengths \cup {0}, body : Seq(Units)]
    /\ Len(reader.body) <= reader.length
    /\ whole \in Seq(Messages) /\ got \in Seq(Messages)
    /\ torn \in BOOLEAN /\ lost \in BOOLEAN

NewValue == [pc |-> "line", line |-> <<>>, length |-> 0, body |-> <<>>]

Init ==
    /\ writer = [rest |-> <<>>, sent |-> 0, open |-> TRUE]
    /\ wire = <<>> /\ eof = FALSE
    /\ reader = NewValue
    /\ whole = <<>> /\ got = <<>>
    /\ torn = FALSE /\ lost = FALSE

-----------------------------------------------------------------------------
(* write_json.                                                             *)
Idle == writer.rest = <<>>

WriteJson(length) ==
    /\ writer.open /\ Idle /\ writer.sent < MaxSend
    /\ LET m == [n |-> writer.sent + 1, length |-> length]
       IN writer' = [writer EXCEPT !.rest = Encoding(m), !.sent = m.n]
    /\ UNCHANGED <<wire, eof, reader, whole, got, torn, lost>>

(* One call of writer.write(): some of the data, or all of it.             *)
Written(k) == SubSeq(writer.rest, 1, k)
RemainingNothing(k) == <<>>                     \* faulty: partial writes ignored
Remaining(k) == SubSeq(writer.rest, k + 1, Len(writer.rest))

Write(k) ==
    /\ ~Idle /\ ~eof /\ k <= Len(writer.rest)
    /\ writer' = [writer EXCEPT !.rest = Remaining(k)]
    /\ wire' = wire \o Written(k)
    /\ whole' = IF Remaining(k) = <<>> THEN Append(whole, Last(writer.rest).of) ELSE whole
    /\ UNCHANGED <<eof, reader, got, torn, lost>>

(* write() raises: JsonIOError, and the stream stays open.                 *)
WriteFails ==
    /\ ~Idle
    /\ torn' = (torn \/ Len(writer.rest) < Len(Encoding(Last(writer.rest).of)))
    /\ writer' = [writer EXCEPT !.rest = <<>>]
    /\ UNCHANGED <<wire, eof, reader, whole, got, lost>>

(* close() of this end, which no write_json overlaps (the channel is       *)
(* locked for both), and the end of its process, at any point.             *)
CloseWriter ==
    /\ writer.open /\ Idle
    /\ writer' = [writer EXCEPT !.open = FALSE] /\ eof' = TRUE
    /\ UNCHANGED <<wire, reader, whole, got, torn, lost>>

WriterDies ==
    /\ writer.open
    /\ writer' = [writer EXCEPT !.open = FALSE, !.rest = <<>>] /\ eof' = TRUE
    /\ UNCHANGED <<wire, reader, whole, got, torn, lost>>

Reset ==
    /\ ~lost /\ lost' = TRUE
    /\ wire' = <<>> /\ eof' = TRUE
    /\ UNCHANGED <<writer, reader, whole, got, torn>>

-----------------------------------------------------------------------------
(* read_json, called again and again.                                      *)
Reads(pc) == reader.pc = pc

(* The value of a header line.  A line that is not one header as it was    *)
(* written has the key "Content-Length" and a value that is not a number.  *)
HeaderValue(line) ==
    IF Len(line) = 1 /\ IsText(line[1]) THEN line[1].of.length ELSE 0

Accepted(length) == length \in 1..MaxBody

(* _read_line takes one unit; an empty line ends the headers.              *)
ReadHeader ==
    /\ Reads("line") /\ wire # <<>>
    /\ LET u == Head(wire)
       IN reader' =
            IF ~IsEol(u) THEN [reader EXCEPT !.line = Append(@, u)]
            ELSE IF reader.line # <<>>
              THEN [reader EXCEPT !.line = <<>>, !.length = HeaderValue(reader.line)]
            ELSE [reader EXCEPT !.pc = IF Accepted(reader.length) THEN "body" ELSE "error"]
    /\ wire' = Tail(wire)
    /\ UNCHANGED <<writer, eof, whole, got, torn, lost>>

(* What is still missing of the body.                                      *)
Missing == reader.length - Len(reader.body)
MissingOneMore == Missing + 1                                           \* faulty
Wanted == Missing

CompleteEarly == reader.body # <<>>             \* faulty: after the first read
Complete == Missing = 0

(* At the end of the stream readline() returns nothing, which is noticed   *)
(* only if the line is empty: otherwise the loop goes on for ever.  On a   *)
(* connection that was reset it raises an error.                           *)
AtEnd == wire = <<>> /\ eof
Spins == Reads("line") /\ AtEnd /\ reader.line # <<>> /\ ~lost

EndsBetween == Reads("line") /\ (reader.line = <<>> \/ lost)             \* faulty
Ends == \/ Reads("line") /\ (reader.line = <<>> \/ lost)
        \/ Reads("body") /\ ~Complete

ReadEnd ==
    /\ AtEnd /\ Ends
    /\ reader' = [reader EXCEPT !.pc = "ended"]
    /\ UNCHANGED <<writer, wire, eof, whole, got, torn, lost>>

(* One call of reader.read(): what is there, at most what is missing.      *)
ReadBody(k) ==
    /\ Reads("body") /\ k <= Len(wire) /\ k <= Wanted
    /\ reader' = [reader EXCEPT !.body = @ \o SubSeq(wire, 1, k)]
    /\ wire' = SubSeq(wire, k + 1, Len(wire))
    /\ UNCHANGED <<writer, eof, whole, got, torn, lost>>

(* Decoding succeeds if the body is one that was written.                  *)
DecodeBody ==
    /\ Reads("body") /\ Complete
    /\ \/ \E m \in Messages :
             /\ reader.body = Body(m)
             /\ got' = Append(got, m)
             /\ reader' = NewValue
       \/ /\ \A m \in Messages : reader.body # Body(m)
          /\ reader' = [reader EXCEPT !.pc = "error"]
          /\ UNCHANGED got
    /\ UNCHANGED <<writer, wire, eof, whole, torn, lost>>

(* close() of this end while read_json is inside readline() or read().     *)
CloseReader ==
    /\ reader.pc \in {"line", "body"}
    /\ reader' = [reader EXCEPT !.pc = "ended"]
    /\ lost' = TRUE /\ eof' = TRUE
    /\ UNCHANGED <<writer, wire, whole, got, torn>>

-----------------------------------------------------------------------------
Read  == ReadHeader \/ ReadEnd \/ DecodeBody \/ \E k \in 1..MaxBody : ReadBody(k)
WriteJsons == \E length \in Lengths : WriteJson(length)
Writes == \E k \in 1..Len(writer.rest) : Write(k)

Next ==
    \/ WriteJsons \/ Writes \/ WriteFails \/ CloseWriter \/ WriterDies
    \/ Reset \/ Read \/ CloseReader

Spec == Init /\ [][Next]_vars

(* The parser thread reads as long as there is something to read.          *)
FairSpec == Spec /\ WF_vars(Read)

-----------------------------------------------------------------------------
Over == reader.pc \in {"ended", "error"}

(* A body that is being read, of a message that was torn, swallows the     *)
(* messages that follow.                                                   *)
Swallows == torn /\ \E u \in ToSet(reader.body) : u.at < 4

(* However the connection cuts them, and whatever failed before, read_json *)
(* returns messages that were written to their end, in the order in which  *)
(* they were written, and leaves none out.  NoMoreMessages means that:     *)
(* unless the reader closed the stream, or the connection was reset, all   *)
(* that was written was read before the end was reported, save what the    *)
(* body of a message swallowed of which the write failed half-way          *)
(* (messaging.py:188-336).                                                 *)
ReadAsWritten ==
    /\ IsPrefix(got, whole)
    /\ reader.pc = "ended" /\ ~lost => got = whole \/ Swallows

(* read_json takes a message for malformed only if a write was torn before *)
(* it, or if it is one that write_json should not have sent: it does not   *)
(* look at MAX_BODY_SIZE (messaging.py:244-252, 310-330).                  *)
ErrorHasCause ==
    reader.pc = "error" =>
        torn \/ \E l \in Lengths : l > MaxBody /\ reader.length = l

(* What was written is read, or swallowed, or the reader has ended; and it *)
(* sees the end, short of the endless loop in a header line                *)
(* (messaging.py:184-199).                                                 *)
AllRead ==
    /\ \A m \in Messages :
           m \in ToSet(whole) ~> m \in ToSet(got) \/ Over \/ lost \/ Spins \/ Swallows
    /\ eof ~> Over \/ Spins

(* "Returns JSON value as parsed by decoder.decode(), or raises            *)
(* NoMoreMessages if there are no more values to be read"                  *)
(* (messaging.py:204): it does one or the other, or fails.                 *)
EndIsReported == eof ~> Over

(* NoMoreMessages means that all that was written whole was read           *)
(* (messaging.py:204): not after a write that failed half-way.             *)
NothingSwallowed == reader.pc = "ended" /\ ~lost => got = whole
===============================================================================
