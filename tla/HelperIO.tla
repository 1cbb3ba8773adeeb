------------------------------ MODULE HelperIO ------------------------------
(***************************************************************************)
(* The bytes of the mutate helper (akonadi_bridge/mutate.cpp): stdin,      *)
(* which it reads in chunks that end anywhere and splits into lines, and   *)
(* the body of a mail, which it cuts to a number of bytes of UTF-8.        *)
(*                                                                         *)
(* A text is the sequence of its characters, a character the number of     *)
(* bytes UTF-8 gives it.  A byte of a body is 1 if it is ASCII, 2, 3 or 4  *)
(* if it leads a character of that many bytes, and 0 if it continues one.  *)
(***************************************************************************)
EXTENDS SequencesExt

CONSTANTS
    Line,                \* the requests, as sequences of bytes without NL
    Text,                \* the bodies of the mails
    maxBodyBytes,        \* g_maxBodyBytes
    MaxPipe              \* bound on the bytes unread

NL == "\n"

ASSUME LineAssumption == \A line \in Line : line \in Seq(ToSet(line)) /\ ~Contains(line, NL)
ASSUME TextAssumption == Text \subseteq Seq(1..4)
ASSUME BodyAssumption == maxBodyBytes \in Nat \ {0}
ASSUME PipeAssumption == MaxPipe \in Nat

VARIABLES
    pipe,                \* the bytes written and not read
    inbuf,               \* g_inbuf
    open,                \* the client lives
    reader,              \* "reads" or "quit"
    got,                 \* the lines dispatched after the last read
    text,                \* the body of the mail that is asked for
    body                 \* none, or the body_text of the last answer, in UTF-8

ioVars == <<pipe, inbuf, open, reader, got, text, body>>
-----------------------------------------------------------------------------
Encoded(char) == <<char>> \o [k \in 1..(char - 1) |-> 0]

Utf8(chars) == FlattenSeq([n \in DOMAIN chars |-> Encoded(chars[n])])

(* A mutant: only the lead byte of the character that was cut is dropped.  *)
truncatedOnce(utf8) ==
    IF Len(utf8) <= maxBodyBytes THEN utf8
    ELSE IF utf8[maxBodyBytes] \in 2..4 THEN SubSeq(utf8, 1, maxBodyBytes - 1)
    ELSE SubSeq(utf8, 1, maxBodyBytes)

(* Bytes that continue a character are chopped off, then the byte that     *)
(* leads it: the last character goes even if it was whole.                 *)
truncated(utf8) ==
    IF Len(utf8) <= maxBodyBytes THEN utf8
    ELSE LET n == Max({k \in 1..maxBodyBytes : utf8[k] # 0} \cup {0})
         IN SubSeq(utf8, 1, IF n > 0 /\ utf8[n] \in 2..4 THEN n - 1 ELSE n)

(* A mutant: one line for each chunk.                                      *)
SplitFirst(bytes) ==
    LET n == SelectInSeq(bytes, LAMBDA b : b = NL) IN
    IF n = 0 THEN [lines |-> <<>>, rest |-> bytes]
    ELSE [lines |-> <<SubSeq(bytes, 1, n - 1)>>, rest |-> SubSeq(bytes, n + 1, Len(bytes))]

(* One more byte is taken into what was split so far.                      *)
Taken(done, byte) ==
    IF byte = NL THEN [lines |-> Append(done.lines, done.rest), rest |-> <<>>]
                 ELSE [lines |-> done.lines, rest |-> Append(done.rest, byte)]

(* The lines that end in bytes, and what follows the last of them.         *)
Split(bytes) ==
    LET split[n \in 0..Len(bytes)] ==
            IF n = 0 THEN [lines |-> <<>>, rest |-> <<>>] ELSE Taken(split[n - 1], bytes[n])
    IN split[Len(bytes)]
-----------------------------------------------------------------------------
IOInit == /\ pipe = <<>> /\ inbuf = <<>> /\ got = <<>>
          /\ open = TRUE /\ reader = "reads"
          /\ text \in Text /\ body = <<>>

Write(line) ==
    /\ open
    /\ Len(pipe) + Len(line) < MaxPipe
    /\ pipe' = pipe \o line \o <<NL>>
    /\ UNCHANGED <<inbuf, open, reader, got, text, body>>

(* A mutant: the accumulator is emptied after each chunk.                  *)
ReadForgetful(n) ==
    /\ reader = "reads"
    /\ n <= Len(pipe)
    /\ LET split == Split(inbuf \o SubSeq(pipe, 1, n)) IN
       /\ got' = split.lines
       /\ inbuf' = <<>>
    /\ pipe' = SubSeq(pipe, n + 1, Len(pipe))
    /\ UNCHANGED <<open, reader, text, body>>

(* One ::read of n bytes and the dispatch of every line it completes, each *)
(* taken to be a fetch of the one mail that is answered at once.           *)
Read(n) ==
    /\ reader = "reads"
    /\ n <= Len(pipe)
    /\ LET split == Split(inbuf \o SubSeq(pipe, 1, n)) IN
       /\ got' = split.lines
       /\ inbuf' = split.rest
       /\ body' = IF split.lines = <<>> THEN body ELSE <<truncated(Utf8(text))>>
    /\ pipe' = SubSeq(pipe, n + 1, Len(pipe))
    /\ UNCHANGED <<open, reader, text>>

(* The client process ends.  What its own buffer held never gets into the  *)
(* pipe.                                                                   *)
ClientGone ==
    /\ open
    /\ open' = FALSE
    /\ \E n \in 0..Len(pipe) : pipe' = SubSeq(pipe, 1, n)
    /\ UNCHANGED <<inbuf, reader, got, text, body>>

(* A mutant: a read of nothing is tried again.                             *)
EndOfFileRetried ==
    /\ reader = "reads"
    /\ ~open /\ pipe = <<>>
    /\ UNCHANGED ioVars

(* ::read returns 0.  A line that has no end is not dispatched.            *)
EndOfFile ==
    /\ reader = "reads"
    /\ ~open /\ pipe = <<>>
    /\ reader' = "quit"
    /\ UNCHANGED <<pipe, inbuf, open, got, text, body>>

(* The helper is gone.                                                     *)
Gone == reader = "quit" /\ UNCHANGED ioVars

IONext == \/ \E line \in Line : Write(line)
          \/ \E n \in 1..MaxPipe : Read(n)
          \/ ClientGone \/ EndOfFile \/ Gone

IOSpec == IOInit /\ [][IONext]_ioVars /\ WF_ioVars(EndOfFile \/ \E n \in 1..MaxPipe : Read(n))
-----------------------------------------------------------------------------
Byte == {NL} \cup UNION {ToSet(line) : line \in Line}

(* Every variable has its type.                                            *)
IOTypeOK ==
    /\ pipe \in Seq(Byte) /\ Len(pipe) <= MaxPipe
    /\ inbuf \in Seq(Byte)
    /\ open \in BOOLEAN /\ reader \in {"reads", "quit"}
    /\ got \in Seq(Line)
    /\ text \in Text /\ body \in Seq(Seq(0..4))

(* Chunks that end anywhere add up to the lines that were written.         *)
Lines == INSTANCE LineQueue WITH queue <- Split(inbuf \o pipe).lines
LinesArrive == Lines!QueueSpec

(* A request never waits in the accumulator: what would wake the reader up *)
(* comes only after its answer (mutate.py:120).                            *)
NoRequestWaits == ~Contains(inbuf, NL)

(* When the service is gone its helper goes, too.                          *)
HelperFollows == ~open ~> reader = "quit"

(* A body is cut between two characters, fits, and lacks no more than one  *)
(* character that would have fitted (mutate.cpp:133-144).                  *)
BodyIsText ==
    \A cut \in ToSet(body) : \E n \in 0..Len(text) :
        /\ cut = Utf8(SubSeq(text, 1, n))
        /\ Len(cut) <= maxBodyBytes
        /\ n < Len(text) => Len(Utf8(text)) > maxBodyBytes
        /\ n + 2 <= Len(text) => Len(Utf8(SubSeq(text, 1, n + 2))) > maxBodyBytes

(* Why chunks do no harm: the accumulator and the pipe together are lines  *)
(* that were written, and end with one as long as there is a client.       *)
WholeLines == LET all == Split(inbuf \o pipe) IN
              all.lines \in Seq(Line) /\ (open => all.rest = <<>>)

IOInv == IOTypeOK /\ NoRequestWaits /\ WholeLines /\ BodyIsText
=============================================================================
