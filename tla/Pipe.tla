------------------------------- MODULE Pipe -------------------------------
(***************************************************************************)
(* The pipes that service info goes through on the device, as the          *)
(* goroutines that use them meet: the one that writes (Devmod.Write, or    *)
(* handleOwnerModuleMessages for a module) through UnchunkWriter, and the  *)
(* one of TO2 that reads chunks through ChunkReader, puts them into        *)
(* messages, and, in case of devmod, closes the writer when TO2 is over.   *)
(*                                                                         *)
(* A service info is a pipe of its own, sent over the channel readers.     *)
(* Devmod's channel and pipes hold nothing (capacity 0, io.Pipe), a        *)
(* module's are buffered (bufPipe).  How much a chunk may hold is          *)
(* ServiceInfoChunk's; here any size may be asked for.                     *)
(***************************************************************************)
EXTENDS Integers, Sequences, FiniteSets, SequencesExt

CONSTANTS
    Scripts,                \* what a goroutine may write, sequences of operations
    Capacities,             \* capacities of readers; 0 is devmod's
    MaxChunk                \* bytes that a chunk may hold

ASSUME PipeAssumption == Capacities \subseteq Nat /\ MaxChunk \in Nat \ {0}

\* A script: a goroutine ends by closing the writer (Devmod.Write's deferred Close, the
\* Close and CloseWithError of handleOwnerModuleMessages), and writes to a writer that
\* it got for a service info (respond), as Write of UnchunkWriter asks.  What it writes
\* is told apart by the key of that service info and a number, which is 0 for the key.
WellFormed(s) ==
    /\ s # <<>>
    /\ \A i \in 1 .. Len(s) :
          /\ s[i][1] \in {"close", "error"} <=> i = Len(s)
          /\ s[i][1] = "write" =>
                /\ s[i][3] # 0
                /\ \E j \in 1 .. i - 1 : /\ s[j][1] = "next" /\ s[j][2] = s[i][2]
                                         /\ \A k \in j + 1 .. i - 1 : s[k][1] # "next"

\* The operations of all scripts.
AllOps == UNION {Range(s) : s \in Scripts}

ASSUME ScriptsAssumption == \A s \in Scripts : s \in Seq(AllOps) /\ WellFormed(s)

VARIABLES
    cap,                    \* the capacity
    script,                 \* operations the writer has left
    a,                      \* the writer: what it does next
    w,                      \* UnchunkWriter.w, 0 if nil
    new,                    \* the pipe that nextPipe made
    pipes,                  \* all pipes: [buf, tok, closed]
    readers, open,          \* the channel readers, and whether it is open
    closing,                \* the channel closing is closed
    readerMu,               \* who holds it
    b,                      \* the reader: what it does next
    outcome,                \* how the round ended for it
    r,                      \* ChunkReader.r, 0 if nil
    waiting,                \* its Read waits for a wake-up
    ask, part,              \* bytes ReadFull still asks for, and has
    key,                    \* ChunkReader.key
    messages,               \* chunks read so far, message by message
    written                 \* the service infos written

writerVars == <<script, a, new, written>>
sharedVars == <<w, pipes, readers, open, closing, readerMu>>
readerVars == <<b, outcome, r, waiting, ask, part, key, messages>>
vars == <<cap, writerVars, sharedVars, readerVars>>

None == 0

\* A pipe: what was written and not read, bufPipe.ch and bufPipe.err.
NewPipe == [buf |-> <<>>, tok |-> FALSE, closed |-> "no"]

ClosePipe(p, how) == [p EXCEPT !.closed = IF @ = "no" THEN how ELSE @]

Init ==
    /\ cap \in Capacities
    /\ script \in Scripts
    /\ a = "ready"
    /\ w = None /\ new = None
    /\ pipes = <<>>
    /\ readers = <<>> /\ open = TRUE
    /\ closing = FALSE /\ readerMu = "free"
    /\ b = "read" /\ outcome = "" /\ r = None /\ waiting = FALSE
    /\ ask = 0 /\ part = <<>> /\ key = ""
    /\ messages = <<<<>>>>
    /\ written = <<>>

------------------------------------------------------------------------------
(* The writer: NextServiceInfo, ForceNewMessage, Write.                      *)

Op == Head(script)
A(from, to) == a = from /\ a' = to

\* An operation that fails makes its caller give up and report the error.  A module, a
\* custom one of devmod too, goes on with the next: respond and yield do not tell it.
WriterFails == script' = <<<<"error">>>> \/ script' = Tail(script)

\* The pipe of the service info before is closed and another made.
NextPipe ==
    /\ A("ready", "lock")
    /\ Op[1] \in {"next", "force"}
    /\ pipes' = Append(IF w = None THEN pipes ELSE [pipes EXCEPT ![w] = ClosePipe(@, "EOF")], NewPipe)
    /\ new' = Len(pipes) + 1
    /\ UNCHANGED <<cap, script, written, w, readers, open, closing, readerMu, readerVars>>

LockReaders ==
    /\ A("lock", "select")
    /\ readerMu = "free"
    /\ readerMu' = "writer"
    /\ UNCHANGED <<cap, script, new, written, w, pipes, readers, open, closing, readerVars>>

\* The select of nextPipe.  Without a buffer the channel takes the pipe only from
\* hand to hand.
CanTake == b = "read" /\ r = None

SelectSend ==
    /\ A("select", "set")
    /\ open
    /\ IF cap = 0 THEN CanTake /\ readers = <<>> ELSE Len(readers) < cap
    /\ readers' = Append(readers, new)
    /\ readerMu' = "free"
    /\ UNCHANGED <<cap, script, new, written, w, pipes, open, closing, readerVars>>

SelectClosing ==
    /\ A("select", "ready")
    /\ closing
    /\ readerMu' = "free"
    /\ WriterFails
    /\ UNCHANGED <<cap, new, written, w, pipes, readers, open, closing, readerVars>>

\* Both cases of the select are ready when both channels are closed, and sending on
\* a closed one panics.
SelectPanics ==
    /\ A("select", "panic")
    /\ ~open
    /\ UNCHANGED <<cap, script, new, written, sharedVars, readerVars>>

BreakWritten == [key |-> "", n |-> 0]

SetWriter ==
    /\ A("set", IF Op[1] = "force" THEN "ready" ELSE "key")
    /\ w' = new
    /\ pipes' = IF Op[1] = "force" THEN [pipes EXCEPT ![new] = ClosePipe(@, "EOF")] ELSE pipes
    /\ script' = IF Op[1] = "force" THEN Tail(script) ELSE script
    /\ written' = IF Op[1] = "force" THEN Append(written, BreakWritten) ELSE written
    /\ UNCHANGED <<cap, new, readers, open, closing, readerMu, readerVars>>

\* Write wakes the reader up.  io.Pipe returns when all is read.
Writes(data) ==
    IF w = None THEN a' = "panic" /\ UNCHANGED <<pipes, script, written>>
    ELSE IF pipes[w].closed # "no"
    THEN a' = "ready" /\ WriterFails /\ UNCHANGED <<pipes, written>>
    ELSE /\ pipes' = [pipes EXCEPT ![w].buf = @ \o data, ![w].tok = TRUE]
         /\ a' = IF cap = 0 THEN "written" ELSE "ready"
         /\ script' = IF cap = 0 THEN script ELSE Tail(script)
         /\ written' = written \o data

WriteKey ==
    /\ a = "key"
    /\ Writes(<<[key |-> Op[2], n |-> 0]>>)
    /\ UNCHANGED <<cap, new, w, readers, open, closing, readerMu, readerVars>>

Write ==
    /\ a = "ready" /\ Op[1] = "write"
    /\ Writes(<<[key |-> Op[2], n |-> Op[3]]>>)
    /\ UNCHANGED <<cap, new, w, readers, open, closing, readerMu, readerVars>>

WriteReturns ==
    /\ A("written", "ready")
    /\ \/ pipes[w].buf = <<>> /\ script' = Tail(script)
       \/ pipes[w].buf # <<>> /\ pipes[w].closed # "no" /\ WriterFails
    /\ UNCHANGED <<cap, new, written, sharedVars, readerVars>>

------------------------------------------------------------------------------
(* Close and CloseWithError, by the writer or, Close only, by TO2.           *)

\* The first to close closes closing; another gets an error.
BeginClose(who) ==
    /\ closing' = TRUE
    /\ IF who = "writer"
       THEN /\ a = "ready" /\ Op[1] \in {"close", "error"}
            /\ a' = IF closing THEN "over" ELSE "ensure"
            /\ UNCHANGED b
       ELSE /\ b = "close"
            /\ b' = IF closing THEN "over" ELSE "ensure"
            /\ UNCHANGED a
    /\ UNCHANGED <<cap, script, new, written, w, pipes, readers, open, readerMu>>
    /\ UNCHANGED <<outcome, r, waiting, ask, part, key, messages>>

At(who, from, to) ==
    IF who = "writer" THEN A(from, to) /\ UNCHANGED b
                      ELSE b = from /\ b' = to /\ UNCHANGED a

\* There is a writer to close: Close makes one that is nobody's; CloseWithError
\* sends its reader, and waits until it is taken.
EnsureWriter(who) ==
    /\ IF w # None THEN UNCHANGED <<w, pipes, readers>>
       ELSE /\ pipes' = Append(pipes, NewPipe)
            /\ w' = Len(pipes) + 1
            /\ IF who = "writer" /\ Op[1] = "error"
               THEN /\ IF cap = 0 THEN CanTake /\ readers = <<>> ELSE Len(readers) < cap
                    /\ readers' = Append(readers, w')
               ELSE UNCHANGED readers
    /\ At(who, "ensure", "close readers")
    /\ UNCHANGED <<cap, script, new, written, open, closing, readerMu>>
    /\ UNCHANGED <<outcome, r, waiting, ask, part, key, messages>>

CloseReaders_Not(who) ==       \* mutant: close(w.readers) is forgotten
    /\ readerMu = "free"
    /\ At(who, "close readers", "close writer")
    /\ UNCHANGED <<cap, script, new, written, w, pipes, readers, open, closing, readerMu>>
    /\ UNCHANGED <<outcome, r, waiting, ask, part, key, messages>>

CloseReaders(who) ==
    /\ readerMu = "free"
    /\ open' = FALSE
    /\ At(who, "close readers", "close writer")
    /\ UNCHANGED <<cap, script, new, written, w, pipes, readers, closing, readerMu>>
    /\ UNCHANGED <<outcome, r, waiting, ask, part, key, messages>>

CloseWriter_EOF(who) ==        \* mutant: CloseWithError closes the pipe like Close
    /\ At(who, "close writer", "over")
    /\ pipes' = [pipes EXCEPT ![w] = ClosePipe(@, "EOF")]
    /\ UNCHANGED <<cap, script, new, written, w, readers, open, closing, readerMu>>
    /\ UNCHANGED <<outcome, r, waiting, ask, part, key, messages>>

CloseWriter(who) ==
    /\ At(who, "close writer", "over")
    /\ LET how == IF who = "writer" /\ Op[1] = "error" THEN "error" ELSE "EOF"
       IN pipes' = [pipes EXCEPT ![w] = ClosePipe(@, how)]
    /\ UNCHANGED <<cap, script, new, written, w, readers, open, closing, readerMu>>
    /\ UNCHANGED <<outcome, r, waiting, ask, part, key, messages>>

------------------------------------------------------------------------------
(* The reader: ReadChunk in exchangeServiceInfoRound.                        *)

B(from) == b = from
Reading == UNCHANGED <<cap, writerVars, w, open, closing, readerMu>>
Reads == Reading /\ UNCHANGED outcome
Ends(how) == b' = "ended" /\ outcome' = how /\ Reading

TakeReader ==
    /\ B("read") /\ r = None
    /\ readers # <<>>
    /\ r' = Head(readers) /\ readers' = Tail(readers)
    /\ b' = "key" /\ ask' = 1 /\ part' = <<>>
    /\ UNCHANGED <<pipes, waiting, key, messages>>
    /\ Reads

\* The channel is closed: io.EOF, the message is sent and the round is over.
EndOfReaders ==
    /\ B("read") /\ r = None
    /\ readers = <<>> /\ ~open
    /\ Ends("eof")
    /\ UNCHANGED <<pipes, readers, r, waiting, ask, part, key, messages>>

\* The rest of a service info: a chunk of any size.
ReadMore ==
    /\ B("read") /\ r # None
    /\ \E n \in 1..MaxChunk : ask' = n
    /\ part' = <<>>
    /\ b' = "value"
    /\ UNCHANGED <<pipes, readers, r, waiting, key, messages>>
    /\ Reads

\* bufPipe.Read: what is there, up to what is asked for.
P == pipes[r]

ReadBytes ==
    /\ b \in {"key", "value"} /\ ~waiting
    /\ P.buf # <<>> /\ ask > 0
    /\ LET n == Min({ask, Len(P.buf)}) IN
       /\ part' = part \o SubSeq(P.buf, 1, n)
       /\ pipes' = [pipes EXCEPT ![r].buf = SubSeq(@, n + 1, Len(@))]
       /\ ask' = ask - n
    /\ UNCHANGED <<b, readers, r, waiting, key, messages>>
    /\ Reads

ReadWaits ==
    /\ b \in {"key", "value"} /\ ~waiting
    /\ P.buf = <<>> /\ ask > 0
    /\ waiting' = TRUE
    /\ UNCHANGED <<b, pipes, readers, r, ask, part, key, messages>>
    /\ Reads

Woken ==
    /\ waiting /\ P.tok
    /\ waiting' = FALSE
    /\ pipes' = [pipes EXCEPT ![r].tok = FALSE]
    /\ UNCHANGED <<b, readers, r, ask, part, key, messages>>
    /\ Reads

HaveKey ==
    /\ B("key") /\ ask = 0
    /\ key' = part[1].key
    /\ b' = "read"
    /\ UNCHANGED <<pipes, readers, r, waiting, ask, part, messages>>
    /\ Reads

\* A chunk is added to the message being filled.
Add(chunk) == messages' = Append(Front(messages), Append(Last(messages), chunk))
Chunk == [key |-> key, val |-> part]

HaveChunk ==
    /\ B("value") /\ ask = 0
    /\ Add(Chunk)
    /\ b' = "read"
    /\ UNCHANGED <<pipes, readers, r, waiting, ask, part, key>>
    /\ Reads

EndOfInfo_Partial ==           \* mutant: io.ErrUnexpectedEOF treated as io.EOF
    /\ B("value") /\ waiting /\ ~P.tok /\ P.closed = "EOF"
    /\ waiting' = FALSE
    /\ r' = None
    /\ b' = "read"
    /\ UNCHANGED <<pipes, readers, messages, ask, part, key>>
    /\ Reads

\* The end of a service info; there is no chunk without a byte.
EndOfInfo ==
    /\ B("value") /\ waiting /\ ~P.tok /\ P.closed = "EOF"
    /\ waiting' = FALSE
    /\ r' = None
    /\ b' = "read"
    /\ IF part = <<>> THEN UNCHANGED messages ELSE Add(Chunk)
    /\ UNCHANGED <<pipes, readers, ask, part, key>>
    /\ Reads

\* A pipe without a key is a break.  FDO 2.0 takes it for the end, as it does
\* exchangeServiceInfoRound when the message is empty.
Break ==
    /\ B("key") /\ waiting /\ ~P.tok /\ P.closed = "EOF"
    /\ waiting' = FALSE
    /\ r' = None
    /\ \/ Ends("early") /\ (cap = 0 \/ Last(messages) = <<>>) /\ UNCHANGED messages
       \/ b' = "read" /\ Last(messages) # <<>> /\ messages' = Append(messages, <<>>) /\ Reads
    /\ UNCHANGED <<pipes, readers, ask, part, key>>

\* The message is full, and sent with more to come.  (A key that finds no room in it
\* is ServiceInfoChunk's.)
MessageFull ==
    /\ B("read") /\ (r # None \/ cap = 0)
    /\ Last(messages) # <<>>
    /\ messages' = Append(messages, <<>>)
    /\ UNCHANGED <<b, pipes, readers, r, waiting, ask, part, key>>
    /\ Reads

\* The error the writer closed with, which fails TO2.
ReadFails ==
    /\ b \in {"key", "value"} /\ waiting /\ ~P.tok /\ P.closed = "error"
    /\ waiting' = FALSE
    /\ Ends("error")
    /\ r' = IF b = "key" THEN None ELSE r
    /\ UNCHANGED <<pipes, readers, ask, part, key, messages>>

\* Sending a message fails.
SendFails ==
    /\ B("read")
    /\ Last(messages) = <<>> /\ Len(messages) > 1
    /\ cap = 0 => readers = <<>>
    /\ Ends("failed")
    /\ UNCHANGED <<pipes, readers, r, waiting, ask, part, key, messages>>

CloseReader_Modules ==         \* mutant: TO2 closes the pipe of a module that still writes
    /\ B("ended")
    /\ b' = "close"
    /\ \/ r # None /\ pipes' = [pipes EXCEPT ![r] = ClosePipe(@, "EOF")]
       \/ UNCHANGED pipes
    /\ UNCHANGED <<readers, r, waiting, ask, part, key, messages>>
    /\ Reads

\* TO2 closes devmod's reader, in FDO 1.01 after the round, and the writer as it
\* returns; it leaves those of modules alone.
CloseReader ==
    /\ B("ended")
    /\ b' = IF cap = 0 THEN "close" ELSE "over"
    /\ \/ cap = 0 /\ r # None /\ pipes' = [pipes EXCEPT ![r] = ClosePipe(@, "EOF")]
       \/ UNCHANGED pipes
    /\ UNCHANGED <<readers, r, waiting, ask, part, key, messages>>
    /\ Reads

------------------------------------------------------------------------------

Writer ==
    \/ NextPipe \/ LockReaders \/ SelectSend \/ SelectClosing \/ SelectPanics \/ SetWriter
    \/ WriteKey \/ Write \/ WriteReturns
    \/ BeginClose("writer") \/ EnsureWriter("writer") \/ CloseReaders("writer") \/ CloseWriter("writer")

ChunkReader ==
    \/ TakeReader \/ EndOfReaders \/ ReadMore \/ ReadBytes \/ ReadWaits \/ Woken
    \/ HaveKey \/ HaveChunk \/ EndOfInfo \/ Break \/ ReadFails \/ CloseReader
    \/ BeginClose("TO2") \/ EnsureWriter("TO2") \/ CloseReaders("TO2") \/ CloseWriter("TO2")

Next == Writer \/ ChunkReader \/ MessageFull \/ SendFails

Spec == Init /\ [][Next]_vars

\* Both goroutines run.
FairSpec == Spec /\ WF_vars(Writer) /\ WF_vars(ChunkReader)

------------------------------------------------------------------------------
(* Unchunking.                                                               *)

\* ChunkWriter and UnchunkReader at the owner service, which reads a message once
\* all of it is written: pairs of one key in a row are one value.
Unchunk(infos, kv) ==
    IF infos # <<>> /\ Last(infos).key = kv.key
    THEN Append(Front(infos), [Last(infos) EXCEPT !.val = @ \o kv.val])
    ELSE Append(infos, kv)

Unchunked(kvs) ==
    LET infos[i \in 0 .. Len(kvs)] == IF i = 0 THEN <<>> ELSE Unchunk(infos[i - 1], kvs[i])
    IN  infos[Len(kvs)]

------------------------------------------------------------------------------
(* Properties.                                                               *)

Bytes(elements) ==
    FlattenSeq([i \in DOMAIN elements |-> IF elements[i].n = 0 THEN <<>> ELSE <<elements[i]>>])
Infos == FlattenSeq([i \in DOMAIN messages |-> Unchunked(messages[i])])
Panicked == a = "panic"

\* What the owner service unchunks is what the module wrote, in order, under its own
\* keys; and when the reader meets the end, nothing that was written is missing.
InOrder ==
    LET got == FlattenSeq([i \in DOMAIN Infos |-> Infos[i].val]) IN
    /\ IsPrefix(got, Bytes(written))
    /\ \A i \in DOMAIN Infos : \A j \in DOMAIN Infos[i].val : Infos[i].val[j].key = Infos[i].key
    /\ outcome = "eof" => got = Bytes(written)

\* A writer that reports an error ends the round with it: the reader does not take it
\* for the end of what there is to send, unless the last thing written was a break,
\* whose pipe is closed already (MTU too small to send devmod module name alone).
ErrorArrivesOrBreak ==
    outcome = "eof" /\ script # <<>> /\ Op[1] = "error" =>
        written # <<>> /\ Last(written) = BreakWritten

\* A goroutine that writes does not panic while TO2 reads what it writes, nor when
\* TO2 has come to its end.
PanicsOnlyIfAbandoned == Panicked => cap = 0 /\ outcome \in {"early", "failed"}

\* TO2 does not wait for ever for what the writer writes; and when it is over the
\* goroutine comes to its end: devmod's is always let go, a module's unless its queue
\* is full.
BothEnd ==
    /\ <>(b = "over" \/ Panicked)
    /\ b = "over" ~> a = "over" \/ Panicked \/ (cap > 0 /\ Len(readers) = cap)
=============================================================================
