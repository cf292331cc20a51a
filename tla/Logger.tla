------------------------------- MODULE Logger -------------------------------
(***************************************************************************)
(* logger.js: lines are buffered, flushed as one encrypted block every     *)
(* 500 ms, and the file is rotated once it has grown too big.  A line is   *)
(* its number; a file is the lines in it.  The write stream writes in the  *)
(* background; rotation destroys it and renames files under it.            *)
(***************************************************************************)
EXTENDS Naturals, Sequences, SequencesExt

CONSTANTS
  MaxSize,    \* lines a file holds before it is rotated (512 KiB)
  MaxRotated, \* MAX_ROTATED
  MaxLines    \* bound: lines written

ASSUME LoggerAssumption == MaxSize \in Nat \ {0} /\ MaxRotated \in Nat /\ MaxLines \in Nat

VARIABLES
  lineNo,       \* lines passed to writeLog while the stream was there
  writeBuf,     \* _writeBuf
  flushTimer,   \* _flushTimer: null, armed, or a timer that has fired
  stream,       \* writeStream
  currentSize,
  files,        \* files[0] is activity.log, files[i] activity.log.i
  logReady,     \* ready
  firstLine     \* history: lineNo when the program last ended, or a rotation
                \* last left activity.log in its place

logVars == <<lineNo, writeBuf, flushTimer, stream, currentSize, files, logReady, firstLine>>

FileNames == 0..(MaxRotated + 1)

(* A stream that is open writes one block at a time; blocks it got before   *)
(* the file was open, or while it writes, wait.                             *)
NoStream == [st |-> "null", block |-> <<>>, waiting |-> <<>>]
NewStream == [st |-> "opening", block |-> <<>>, waiting |-> <<>>]

Lines == Seq(1..MaxLines)

LoggerTypeOK ==
  /\ lineNo \in 0..MaxLines
  /\ writeBuf \in Lines
  /\ flushTimer \in {"null", "armed", "fired"}
  /\ stream \in [st : {"null", "opening", "open", "ending"}, block : Lines, waiting : Lines]
  /\ currentSize \in Nat
  /\ files \in [FileNames -> Lines]
  /\ logReady \in BOOLEAN /\ firstLine \in 0..MaxLines

LoggerInit ==
  /\ lineNo = 0 /\ writeBuf = <<>> /\ flushTimer = "null"
  /\ stream = NoStream /\ currentSize = 0
  /\ files = [i \in FileNames |-> <<>>]
  /\ logReady = FALSE /\ firstLine = 0

\* Mutant: the files are copied, and activity.log is not cut.
RotatedCopied(fs, s, stuck) ==
  [n \in FileNames |->
     IF n # 0 /\ n - 1 \notin stuck THEN fs[n - 1]
     ELSE IF n = 0 THEN fs[0] \o s.block ELSE fs[n]]

(* The renames of rotateSync, from the last file that is kept down to       *)
(* activity.log.  Those of the files in stuck fail, unseen: a file that is  *)
(* not there, or that something holds open.  It stays, and the next rename  *)
(* replaces it.  destroy() drops what waits; a block that is being written  *)
(* still gets into the file, under the name it has by then.                 *)
Rotated(fs, s, stuck) ==
  LET old == [fs EXCEPT ![0] = @ \o s.block]
      moved == (0..MaxRotated) \ stuck
  IN [n \in FileNames |->
        IF n # 0 /\ n - 1 \in moved THEN old[n - 1]
        ELSE IF n \in moved THEN <<>> ELSE old[n]]

Rotate(s) ==
  \E stuck \in SUBSET (0..MaxRotated) :
    /\ files' = Rotated(files, s, stuck)
    /\ firstLine' = IF 0 \in stuck THEN lineNo ELSE firstLine

\* initLogger: a file that is too big already is rotated.
InitLogger ==
  LET big == Len(files[0]) >= MaxSize IN
  /\ ~logReady
  /\ logReady' = TRUE
  /\ IF big THEN Rotate(NoStream) ELSE UNCHANGED <<files, firstLine>>
  /\ currentSize' = IF big THEN 0 ELSE Len(files[0])
  /\ stream' = NewStream
  /\ UNCHANGED <<lineNo, writeBuf, flushTimer>>

Writable == stream.st \in {"opening", "open"}    \* writeStream is not null

WriteLog ==
  /\ Writable /\ lineNo < MaxLines
  /\ lineNo' = lineNo + 1
  /\ writeBuf' = Append(writeBuf, lineNo')
  /\ flushTimer' = IF flushTimer = "null" THEN "armed" ELSE flushTimer
  /\ UNCHANGED <<stream, currentSize, files, logReady, firstLine>>

\* Mutant: the handle of the timer that fired is kept.
FiredKept == "fired"

TimerAfterFlush == "null"

\* Mutant: the lines stay in the buffer.
BufferKept == writeBuf

BufferAfterFlush == <<>>

StreamWrite(s) ==
  IF s.st = "open" /\ s.block = <<>> THEN [s EXCEPT !.block = writeBuf]
  ELSE [s EXCEPT !.waiting = @ \o writeBuf]

(* flushLog.  The block that fills the file is written before the file is   *)
(* rotated; it is lost if the stream has not come to it.                    *)
Flush(closing) ==
  LET s == StreamWrite(stream)
      size == currentSize + Len(writeBuf)
      full == size >= MaxSize
      Ended(t) == IF closing
                  THEN [st |-> "ending", block |-> t.block \o t.waiting, waiting |-> <<>>]
                  ELSE t
  IN
  /\ flushTimer' = TimerAfterFlush
  /\ writeBuf' = BufferAfterFlush
  /\ stream' = Ended(IF writeBuf = <<>> THEN stream ELSE IF full THEN NewStream ELSE s)
  /\ IF writeBuf # <<>> /\ full THEN Rotate(s) ELSE UNCHANGED <<files, firstLine>>
  /\ currentSize' = IF writeBuf # <<>> /\ full THEN 0 ELSE size

FlushTimerFires ==
  /\ flushTimer = "armed" /\ Writable
  /\ Flush(FALSE)
  /\ UNCHANGED <<lineNo, logReady>>

CloseLogger ==
  /\ Writable
  /\ Flush(TRUE)
  /\ UNCHANGED <<lineNo, logReady>>

StreamOpens ==
  /\ stream.st = "opening"
  /\ stream' = [st |-> "open", block |-> stream.waiting, waiting |-> <<>>]
  /\ UNCHANGED <<lineNo, writeBuf, flushTimer, currentSize, files, logReady, firstLine>>

BlockWritten ==
  /\ stream.st \in {"open", "ending"} /\ stream.block # <<>>
  /\ files' = [files EXCEPT ![0] = @ \o stream.block]
  /\ stream' = [stream EXCEPT !.block = stream.waiting, !.waiting = <<>>]
  /\ UNCHANGED <<lineNo, writeBuf, flushTimer, currentSize, logReady, firstLine>>

(* The program exits or is killed: what is not in a file is lost.           *)
ProgramEnds ==
  /\ logReady
  /\ logReady' = FALSE /\ writeBuf' = <<>> /\ flushTimer' = "null"
  /\ stream' = NoStream /\ currentSize' = 0 /\ firstLine' = lineNo
  /\ UNCHANGED <<lineNo, files>>

LoggerNext ==
  \/ InitLogger \/ WriteLog \/ FlushTimerFires \/ CloseLogger
  \/ StreamOpens \/ BlockWritten \/ ProgramEnds

LoggerSpec == LoggerInit /\ [][LoggerNext]_logVars

-----------------------------------------------------------------------------
(* Properties *)

(* No line is stuck in the buffer: whenever there is one, a flush is to     *)
(* come.                                                                    *)
BufferedIsFlushed == writeBuf # <<>> => flushTimer = "armed"

CurrentLines == files[0] \o stream.block \o stream.waiting \o writeBuf
Content(n) == IF n = 0 THEN CurrentLines ELSE files[n]

(* From the oldest file to the current one and on to the buffer, the lines  *)
(* are in the order they were written and none is there twice, whichever    *)
(* renames of a rotation fail and whenever the program ends.                *)
LogInOrder ==
  \A m, n \in FileNames : \A i \in DOMAIN Content(m), j \in DOMAIN Content(n) :
    m > n \/ (m = n /\ i < j) => Content(m)[i] < Content(n)[j]

(* Since the last start of the program, or the last rotation that could not *)
(* move activity.log and lost what waited for it, lines are lost with whole *)
(* files only: those the current file holds, and those on their way to it,  *)
(* come after older ones and follow each other without a gap up to the last.*)
ThisRun(l) == l > firstLine
NoGapInFile ==
  \A i \in DOMAIN CurrentLines : ThisRun(CurrentLines[i]) =>
    /\ CurrentLines[i] = lineNo + i - Len(CurrentLines)
    /\ \A j \in DOMAIN CurrentLines : j > i => ThisRun(CurrentLines[j])
=============================================================================
