----------------------------- MODULE PipeProof -----------------------------
(***************************************************************************)
(* Proofs about Pipe: a writer panics only when TO2 has given up, an error *)
(* it reports is not taken for the end, and what is read is a beginning of *)
(* what was written, and all of it at the end.                             *)
(*                                                                         *)
(* The reader takes a round for ended only when the channel is closed and  *)
(* empty and it has left the last pipe.  So what matters is which pipes it *)
(* may leave: those that were closed with EOF, for a reason (EndsOK), and  *)
(* that the pipe the writer writes to was sent to it (SentOK).             *)
(*                                                                         *)
(* That nothing is lost on the way is an equation (AllThere): the bytes    *)
(* written are those in the messages, then those the reader holds, those   *)
(* in the pipe it reads from and those in the pipes sent, in the order     *)
(* that they were made.  It needs lemmas on concatenation and unchunking,  *)
(* which go by induction on numbers, used as a fact about sets.            *)
(***************************************************************************)
EXTENDS Pipe, TLAPS, NaturalsInduction, WellFoundedInduction

OpsOf(kind) == {op \in AllOps : op[1] = kind}

Element ==
    {BreakWritten} \cup {[key |-> op[2], n |-> 0] : op \in OpsOf("next")}
                   \cup {[key |-> op[2], n |-> op[3]] : op \in OpsOf("write")}

Closed == {"no", "EOF", "error"}
PipeRecord == [buf : Seq(Element), tok : BOOLEAN, closed : Closed]

InNextPipe == {"lock", "select", "set"}
InClose == {"ensure", "close readers", "close writer"}

\* Types, of what decides who closes what.
TypeOK ==
    /\ cap \in Nat
    /\ script \in Seq(AllOps \cup {<<"error">>}) /\ script # <<>>
    /\ a \in {"ready", "key", "written", "over", "panic"} \cup InNextPipe \cup InClose
    /\ b \in {"read", "key", "value", "ended", "close", "over"} \cup InClose
    /\ pipes \in Seq(PipeRecord)
    /\ w \in 0 .. Len(pipes) /\ new \in 0 .. Len(pipes) /\ r \in 0 .. Len(pipes)
    /\ readers \in Seq(1 .. Len(pipes))
    /\ open \in BOOLEAN /\ closing \in BOOLEAN
    /\ ask \in Nat
    /\ outcome \in {"", "eof", "early", "error", "failed"}
    /\ written \in Seq(Element)

\* TO2 left devmod's round, whose writer a custom devmod goes on with.
Abandoned == cap = 0 /\ outcome \in {"early", "failed"}

\* The writer closes as its last operation and till then writes only to a pipe.
Shape ==
    \A i \in 1 .. Len(script) :
        /\ script[i][1] \in {"close", "error"} <=> i = Len(script)
        /\ script[i][1] = "write" => w # None \/ Abandoned \/ \E j \in 1 .. i - 1 : script[j][1] = "next"

\* It is at an operation of its script that has such a step.
ScriptOK ==
    /\ Shape
    /\ a \in InNextPipe => Op[1] \in {"next", "force"} /\ new # None /\ new # w
    /\ a = "key" => Op[1] = "next" /\ w # None
    /\ a = "written" => Op[1] \in {"next", "write"} /\ w # None
    /\ a \in InClose \cup {"over"} => Op[1] \in {"close", "error"}
    /\ a \in {"close readers", "close writer"} => w # None

\* TO2 closes devmod's writer only, after its round; the writer, as its last act.
StagesOK ==
    /\ outcome = "" <=> b \in {"read", "key", "value"}
    /\ b \in {"key", "value"} => r # None
    /\ waiting => b \in {"key", "value"} /\ ask # 0
    /\ b \in {"close"} \cup InClose => cap = 0
    /\ b \in {"close readers", "close writer"} => w # None
    /\ closing => a \in InClose \cup {"over"} \/ (cap = 0 /\ b \in InClose \cup {"over"})
    /\ ~open => a \in {"close writer", "over"} \/ (cap = 0 /\ b \in {"close writer", "over"})
    /\ outcome = "eof" => a \in {"close writer", "over"}
    /\ \A p \in 1 .. Len(pipes) : pipes[p].closed = "error" => a = "over"
    /\ outcome = "error" => a = "over"

Sent(p) == r = p \/ \E i \in 1 .. Len(readers) : readers[i] = p
Broken == written # <<>> /\ Last(written) = BreakWritten

\* During the round, the pipe that is written to is on its way to the reader or with
\* it, unless it was closed with EOF, or made by a Close of a writer that wrote nothing.
SentOK ==
    outcome = "" =>
        /\ a \in InNextPipe => pipes[new].closed = "no"
        /\ a = "set" => Sent(new)
        /\ a = "over" => w # None
        /\ w # None => \/ Sent(w)
                       \/ pipes[w].closed = "EOF"
                       \/ Op[1] = "close" /\ a \in {"close readers", "close writer", "over"}

\* It is closed with EOF to make place for the next, as a break, or at the end.
EndsOK ==
    outcome = "" /\ w # None /\ pipes[w].closed = "EOF" =>
        a \in InNextPipe \/ Broken \/ (Op[1] = "close" /\ a = "over")

PipeInv == TypeOK /\ ScriptOK /\ StagesOK /\ SentOK /\ EndsOK /\ PanicsOnlyIfAbandoned /\ ErrorArrivesOrBreak

------------------------------------------------------------------------------
(* Types.                                                                    *)

\* A pipe that is written to, read from or closed is a pipe, and the others stay.
LEMMA OnePipe ==
    ASSUME NEW ps \in Seq(PipeRecord), NEW i \in 1 .. Len(ps), NEW p \in PipeRecord
    PROVE  /\ [ps EXCEPT ![i] = p] \in Seq(PipeRecord)
           /\ Len([ps EXCEPT ![i] = p]) = Len(ps)
           /\ \A j \in 1 .. Len(ps) : [ps EXCEPT ![i] = p][j] = IF j = i THEN p ELSE ps[j]
    OBVIOUS

\* A new pipe comes after the others.
LEMMA AnotherPipe ==
    ASSUME NEW ps \in Seq(PipeRecord)
    PROVE  /\ Append(ps, NewPipe) \in Seq(PipeRecord)
           /\ Len(Append(ps, NewPipe)) = Len(ps) + 1
           /\ \A j \in 1 .. Len(ps) : Append(ps, NewPipe)[j] = ps[j]
           /\ Append(ps, NewPipe)[Len(ps) + 1].closed = "no"
<1>1. NewPipe \in PipeRecord /\ NewPipe.closed = "no"
    BY DEF NewPipe, PipeRecord, Closed
<1> QED
    BY <1>1

\* Closing keeps what is in a pipe, and how it was closed before.
LEMMA ClosedPipe ==
    ASSUME NEW p \in PipeRecord, NEW how \in {"EOF", "error"}
    PROVE  /\ ClosePipe(p, how) \in PipeRecord
           /\ ClosePipe(p, how).closed = IF p.closed = "no" THEN how ELSE p.closed
BY DEF ClosePipe, PipeRecord, Closed

\* An operation of the script.
LEMMA OpKinds ==
    ASSUME TypeOK
    PROVE  /\ Op = script[1] /\ Len(script) \in Nat /\ Len(script) > 0
           /\ Op[1] \in {"next", "write"} => Op \in OpsOf(Op[1])
           /\ Tail(script) \in Seq(AllOps \cup {<<"error">>})
           /\ Len(Tail(script)) = Len(script) - 1
           /\ \A i \in 1 .. Len(script) - 1 : Tail(script)[i] = script[i + 1]
<1>1. script \in Seq(AllOps \cup {<<"error">>}) /\ script # <<>>
    BY DEF TypeOK
<1>2. Op = script[1] /\ Len(script) \in Nat /\ Len(script) > 0
    BY <1>1 DEF Op
<1>3. <<"error">>[1] = "error"
    OBVIOUS
<1>4. Op[1] \in {"next", "write"} => Op \in OpsOf(Op[1])
    BY <1>1, <1>2, <1>3 DEF OpsOf
<1> QED
    BY <1>1, <1>2, <1>4

------------------------------------------------------------------------------
(* The reader.                                                               *)

\* In the round the reader takes from pipes and leaves alone how they were closed.
InRound ==
    /\ UNCHANGED <<cap, writerVars, w, open, closing>>
    /\ pipes' \in Seq(PipeRecord) /\ Len(pipes') = Len(pipes)
    /\ \A p \in 1 .. Len(pipes) : pipes'[p].closed = pipes[p].closed
    /\ ask' \in Nat /\ r' \in 0 .. Len(pipes) /\ readers' \in Seq(1 .. Len(pipes))
    /\ outcome = ""

\* It goes on, and leaves a pipe only when that ended.
GoesOn ==
    /\ b' \in {"read", "key", "value"} /\ outcome' = ""
    /\ b' \in {"key", "value"} => r' # None
    /\ waiting' => b' \in {"key", "value"} /\ ask' # 0
    /\ \A p \in 1 .. Len(pipes) : Sent(p) => Sent(p)' \/ pipes[p].closed = "EOF"

\* Or its round ends.
RoundEnds ==
    /\ b' = "ended" /\ ~waiting' /\ outcome' \in {"eof", "early", "error", "failed"}
    /\ outcome' = "error" => a = "over"
    /\ outcome' = "eof" => ~open /\ readers = <<>> /\ r = None

\* The pipes that have names.
LEMMA PipeNames ==
    ASSUME TypeOK
    PROVE  /\ Len(pipes) \in Nat
           /\ w # None => w \in 1 .. Len(pipes)
           /\ new # None => new \in 1 .. Len(pipes)
           /\ r # None => r \in 1 .. Len(pipes) /\ pipes[r] \in PipeRecord
<1>0. pipes \in Seq(PipeRecord) /\ {w, new, r} \subseteq 0 .. Len(pipes)
    BY Zenon DEF TypeOK
<1>1. pipes \in Seq(PipeRecord) /\ Len(pipes) \in Nat
    BY <1>0
<1>2. /\ w # None => w \in 1 .. Len(pipes)
      /\ new # None => new \in 1 .. Len(pipes)
      /\ r # None => r \in 1 .. Len(pipes)
    BY <1>0, <1>1 DEF None
<1> QED
    BY <1>1, <1>2

\* A reader with nothing has no pipe.
LEMMA NothingSent ==
    ASSUME readers = <<>>, r = None, NEW p, p # None
    PROVE  ~Sent(p)
BY DEF Sent

\* The last pipe of a writer that reports an error was left for a break.
LEMMA RegularEnd ==
    ASSUME PipeInv, outcome = "", ~open, readers = <<>>, r = None
    PROVE  /\ a \in {"close writer", "over"}
           /\ Op[1] = "error" => Broken
<1>1. a \in {"close writer", "over"} /\ b \in {"read", "key", "value"}
    BY DEF PipeInv, StagesOK
<1>2. w # None /\ w \in 1 .. Len(pipes)
    <2>1. w # None
        BY <1>1 DEF PipeInv, SentOK, ScriptOK
    <2> QED
        BY <2>1, PipeNames DEF PipeInv
<1>3. ~Sent(w)
    BY <1>2, NothingSent
<1>4. Op[1] = "error" => pipes[w].closed = "EOF"
    BY <1>2, <1>3 DEF PipeInv, SentOK
<1>5. Op[1] = "error" => Broken
    BY <1>1, <1>2, <1>4 DEF PipeInv, EndsOK, InNextPipe
<1> QED
    BY <1>1, <1>5

\* Such steps of the reader keep the invariant.
LEMMA RoundSteps ==
    ASSUME PipeInv, InRound, GoesOn \/ RoundEnds
    PROVE  PipeInv'
<1>0. /\ TypeOK /\ ScriptOK /\ StagesOK /\ SentOK /\ EndsOK /\ PanicsOnlyIfAbandoned
      /\ outcome = "" /\ UNCHANGED <<cap, script, a, new, written, w, open, closing>> /\ Op' = Op
    BY DEF PipeInv, InRound, writerVars, Op
<1>1. b' \in {"read", "key", "value", "ended"} /\ outcome' \in {"", "eof", "early", "error", "failed"}
    BY DEF GoesOn, RoundEnds
<1>2. TypeOK'
    BY <1>0, <1>1 DEF TypeOK, InRound
<1>3. ScriptOK'
    BY <1>0 DEF ScriptOK, Shape, Abandoned
<1>4. b \in {"read", "key", "value"}
    BY <1>0 DEF StagesOK
<1>5. outcome' = "eof" => a \in {"close writer", "over"} /\ (Op[1] = "error" => Broken)
    BY RegularEnd, <1>0 DEF GoesOn, RoundEnds
<1>6. StagesOK'
    <2>1. \A p \in 1 .. Len(pipes') : pipes'[p].closed = "error" => a' = "over"
        BY <1>0 DEF InRound, StagesOK
    <2>2. ~closing \/ a \in InClose \cup {"over"}
        BY <1>0, <1>4 DEF StagesOK, InClose
    <2>3. open \/ a \in {"close writer", "over"}
        BY <1>0, <1>4 DEF StagesOK
    <2>4. /\ outcome' = "" <=> b' \in {"read", "key", "value"}
          /\ b' \in {"key", "value"} => r' # None
          /\ waiting' => b' \in {"key", "value"} /\ ask' # 0
          /\ outcome' = "error" => a = "over"
        BY DEF GoesOn, RoundEnds
    <2>5. b' \notin InClose \cup {"close", "over"}
        BY <1>1 DEF InClose
    <2> QED
        BY <1>0, <1>5, <2>1, <2>2, <2>3, <2>4, <2>5 DEF StagesOK, InClose
<1>7. SentOK' /\ EndsOK'
    <2>1. CASE RoundEnds
        BY <2>1 DEF RoundEnds, SentOK, EndsOK
    <2>2. CASE GoesOn
        <3>1. /\ a \in InNextPipe => new \in 1 .. Len(pipes)
              /\ w # None => w \in 1 .. Len(pipes)
            BY <1>0, PipeNames DEF ScriptOK, Shape, Abandoned
        <3>2. a = "set" => Sent(new)'
            <4>1. a = "set" => Sent(new) /\ pipes[new].closed = "no"
                BY <1>0 DEF SentOK, InNextPipe
            <4>2. \A p \in 1 .. Len(pipes) : Sent(p) /\ pipes[p].closed = "no" => Sent(p)'
                BY <2>2 DEF GoesOn
            <4> QED
                BY <1>0, <3>1, <4>1, <4>2 DEF InNextPipe, Sent
        <3>3. w # None /\ Sent(w) => Sent(w)' \/ pipes[w].closed = "EOF"
            BY <1>0, <2>2, <3>1 DEF GoesOn, Sent
        <3>4. /\ a \in InNextPipe => pipes'[new].closed = pipes[new].closed
              /\ w # None => pipes'[w].closed = pipes[w].closed
            BY <3>1 DEF InRound
        <3>5. SentOK'
            BY <1>0, <3>2, <3>3, <3>4 DEF SentOK
        <3>6. EndsOK'
            BY <1>0, <3>4 DEF EndsOK, Broken
        <3> QED
            BY <3>5, <3>6
    <2> QED
        BY <2>1, <2>2
<1>8. PanicsOnlyIfAbandoned'
    BY <1>0 DEF PanicsOnlyIfAbandoned, Panicked
<1>9. ErrorArrivesOrBreak'
    BY <1>0, <1>5, Zenon DEF ErrorArrivesOrBreak, Broken
<1> QED
    BY <1>2, <1>3, <1>6, <1>7, <1>8, <1>9 DEF PipeInv

\* The least of two numbers.
LEMMA MinOfTwo ==
    ASSUME NEW m \in Nat, NEW n \in Nat
    PROVE  Min({m, n}) \in Nat /\ Min({m, n}) <= m /\ Min({m, n}) <= n
<1>1. \E x \in {m, n} : \A y \in {m, n} : x <= y
    <2>1. CASE m <= n
        BY <2>1
    <2>2. CASE n <= m
        BY <2>2
    <2> QED
        BY <2>1, <2>2
<1>2. Min({m, n}) \in {m, n} /\ \A y \in {m, n} : Min({m, n}) <= y
    BY <1>1 DEF Min
<1> QED
    BY <1>2

\* Taking from a pipe, or its wake-up, leaves a pipe, closed as it was.
LEMMA TakenFrom ==
    ASSUME TypeOK, r # None,
           \/ \E n \in Nat : pipes' = [pipes EXCEPT ![r].buf = SubSeq(@, n + 1, Len(@))]
           \/ pipes' = [pipes EXCEPT ![r].tok = FALSE]
    PROVE  /\ pipes' \in Seq(PipeRecord) /\ Len(pipes') = Len(pipes)
           /\ \A p \in 1 .. Len(pipes) : pipes'[p].closed = pipes[p].closed
<1>0. r \in 1 .. Len(pipes) /\ pipes[r] \in PipeRecord /\ pipes \in Seq(PipeRecord)
    <2>1. pipes \in Seq(PipeRecord)
        BY Zenon DEF TypeOK
    <2> QED
        BY <2>1, PipeNames
<1>1. PICK q \in PipeRecord : pipes' = [pipes EXCEPT ![r] = q] /\ q.closed = pipes[r].closed
    <2>1. ASSUME NEW n \in Nat, pipes' = [pipes EXCEPT ![r].buf = SubSeq(@, n + 1, Len(@))]
          PROVE  \E q \in PipeRecord : pipes' = [pipes EXCEPT ![r] = q] /\ q.closed = pipes[r].closed
        <3> DEFINE q == [pipes[r] EXCEPT !.buf = SubSeq(@, n + 1, Len(@))]
        <3>1. pipes[r].buf \in Seq(Element)
            BY <1>0 DEF PipeRecord
        <3>2. SubSeq(pipes[r].buf, n + 1, Len(pipes[r].buf)) \in Seq(Element)
            BY <3>1
        <3>3. q \in PipeRecord /\ q.closed = pipes[r].closed
            BY <1>0, <3>2 DEF PipeRecord
        <3>4. pipes' = [pipes EXCEPT ![r] = q]
            BY <2>1
        <3> QED
            BY <3>3, <3>4
    <2>2. ASSUME pipes' = [pipes EXCEPT ![r].tok = FALSE]
          PROVE  \E q \in PipeRecord : pipes' = [pipes EXCEPT ![r] = q] /\ q.closed = pipes[r].closed
        <3> DEFINE q == [pipes[r] EXCEPT !.tok = FALSE]
        <3>1. q \in PipeRecord /\ q.closed = pipes[r].closed
            BY <1>0 DEF PipeRecord
        <3>2. pipes' = [pipes EXCEPT ![r] = q]
            BY <2>2
        <3> QED
            BY <3>1, <3>2
    <2> QED
        BY <2>1, <2>2
<1>2. /\ pipes' \in Seq(PipeRecord) /\ Len(pipes') = Len(pipes)
      /\ \A p \in 1 .. Len(pipes) : pipes'[p] = IF p = r THEN q ELSE pipes[p]
    BY <1>0, <1>1, OnePipe
<1> QED
    BY <1>1, <1>2

\* The first of a queue and the others.
LEMMA FirstOf ==
    ASSUME NEW S, NEW s \in Seq(S), s # <<>>
    PROVE  Head(s) \in S /\ Tail(s) \in Seq(S)
OBVIOUS

\* Pipes are numbered from one, and none is none of them.
LEMMA NamesFromOne ==
    ASSUME NEW ps \in Seq(PipeRecord)
    PROVE  Len(ps) \in Nat /\ 1 .. Len(ps) \subseteq 0 .. Len(ps) /\ None \in 0 .. Len(ps)
<1>1. Len(ps) \in Nat
    OBVIOUS
<1> QED
    BY <1>1 DEF None

\* What the steps of the reader have to show, but for what they do not touch.
LEMMA RoundStep ==
    ASSUME PipeInv, Reading, outcome = "",
           pipes' = pipes \/ (/\ pipes' \in Seq(PipeRecord) /\ Len(pipes') = Len(pipes)
                              /\ \A p \in 1 .. Len(pipes) : pipes'[p].closed = pipes[p].closed),
           ask' \in Nat, r' \in {r, None} \/ (r = None /\ readers # <<>> /\ r' = Head(readers)),
           readers' = readers \/ (readers # <<>> /\ readers' = Tail(readers))
    PROVE  InRound
<1>1. pipes \in Seq(PipeRecord) /\ r \in 0 .. Len(pipes) /\ readers \in Seq(1 .. Len(pipes))
    BY Zenon DEF PipeInv, TypeOK
<1>2. pipes' \in Seq(PipeRecord) /\ Len(pipes') = Len(pipes)
      /\ \A p \in 1 .. Len(pipes) : pipes'[p].closed = pipes[p].closed
    BY <1>1
<1>3. readers # <<>> => Head(readers) \in 1 .. Len(pipes) /\ Tail(readers) \in Seq(1 .. Len(pipes))
    BY <1>1, FirstOf
<1>5. readers' \in Seq(1 .. Len(pipes))
    BY <1>1, <1>3, Zenon
<1>6. 1 .. Len(pipes) \subseteq 0 .. Len(pipes) /\ None \in 0 .. Len(pipes)
    BY <1>1, NamesFromOne
<1>7. r' \in 0 .. Len(pipes)
    BY <1>1, <1>3, <1>6, Zenon
<1>4. UNCHANGED <<cap, writerVars, w, open, closing>>
    BY DEF Reading
<1> QED
    BY <1>2, <1>4, <1>5, <1>7 DEF InRound

\* A pipe on its way that is not taken stays there, and the one that is taken is with
\* the reader.
LEMMA StaysSent ==
    ASSUME PipeInv, NEW p \in 1 .. Len(pipes), Sent(p),
           \/ r' = r /\ readers' = readers
           \/ r = None /\ readers # <<>> /\ r' = Head(readers) /\ readers' = Tail(readers)
    PROVE  Sent(p)'
<1>1. readers \in Seq(1 .. Len(pipes)) /\ pipes \in Seq(PipeRecord)
    BY Zenon DEF PipeInv, TypeOK
<1>2. CASE r' = r /\ readers' = readers
    BY <1>2 DEF Sent
<1>3. CASE r = None /\ readers # <<>> /\ r' = Head(readers) /\ readers' = Tail(readers)
    <2>1. p # r
        BY <1>1, <1>3 DEF None
    <2>2. PICK i \in 1 .. Len(readers) : readers[i] = p
        BY <2>1 DEF Sent
    <2>3. CASE i = 1
        BY <1>1, <1>3, <2>2, <2>3 DEF Sent
    <2>4. CASE i # 1
        <3>1. i - 1 \in 1 .. Len(readers') /\ readers'[i - 1] = p
            BY <1>1, <1>3, <2>2, <2>4
        <3> QED
            BY <3>1 DEF Sent
    <2> QED
        BY <2>3, <2>4
<1> QED
    BY <1>2, <1>3

\* All the steps of the round.
InRoundSteps ==
    \/ TakeReader \/ EndOfReaders \/ ReadMore \/ ReadBytes \/ ReadWaits \/ Woken
    \/ HaveKey \/ HaveChunk \/ EndOfInfo \/ Break \/ ReadFails \/ MessageFull \/ SendFails

\* The reader leaves a pipe only when it was closed, and ends for one of the reasons.
LEMMA RoundKeeps ==
    ASSUME PipeInv, InRoundSteps
    PROVE  PipeInv'
<1>0. /\ TypeOK /\ StagesOK /\ ask \in Nat
      /\ pipes \in Seq(PipeRecord)
      /\ r # None => r \in 1 .. Len(pipes) /\ pipes[r] \in PipeRecord
    <2>1. TypeOK /\ StagesOK
        BY DEF PipeInv
    <2>2. ask \in Nat /\ pipes \in Seq(PipeRecord)
        BY <2>1, Zenon DEF TypeOK
    <2> QED
        BY <2>1, <2>2, PipeNames
<1>1. /\ b \in {"read", "key", "value"} => outcome = "" /\ (b # "read" => r # None)
      /\ waiting => b \in {"key", "value"} /\ ask # 0
    BY <1>0 DEF StagesOK
<1>2. CASE TakeReader
    <2>1. /\ b = "read" /\ Reads /\ r = None /\ readers # <<>> /\ r' = Head(readers) /\ readers' = Tail(readers)
          /\ b' = "key" /\ ask' = 1 /\ UNCHANGED <<pipes, waiting>>
        BY <1>2 DEF TakeReader, B
    <2>2. r' # None
        <3>1. readers \in Seq(1 .. Len(pipes))
            BY <1>0, Zenon DEF TypeOK
        <3> QED
            BY <1>0, <2>1, <3>1 DEF None
    <2>3. InRound
        BY <1>1, <2>1, RoundStep DEF Reads
    <2>4. GoesOn
        BY <1>1, <2>1, <2>2, StaysSent DEF GoesOn, Reads
    <2> QED
        BY <2>3, <2>4, RoundSteps
<1>3. CASE EndOfReaders
    <2>1. /\ b = "read" /\ Reading /\ r = None /\ readers = <<>> /\ ~open /\ b' = "ended" /\ outcome' = "eof"
          /\ UNCHANGED <<pipes, readers, r, ask, waiting>>
        BY <1>3 DEF EndOfReaders, B, Ends
    <2>2. InRound
        BY <1>0, <1>1, <2>1, RoundStep
    <2>3. RoundEnds
        BY <1>1, <2>1 DEF RoundEnds
    <2> QED
        BY <2>2, <2>3, RoundSteps
<1>4. CASE ReadMore \/ ReadWaits \/ HaveKey \/ HaveChunk \/ MessageFull
    <2>1. /\ Reads /\ UNCHANGED <<pipes, readers, r>>
          /\ b \in {"read", "key", "value"} /\ b' \in {"read", "key", "value"}
          /\ b' # "read" => r # None
          /\ waiting' => b' \in {"key", "value"} /\ ask' # 0
          /\ ask' = ask \/ ask' \in 1 .. MaxChunk
        <3>1. CASE ReadMore
            BY <1>1, <3>1 DEF ReadMore, B, Reads
        <3>2. CASE ReadWaits
            <4>1. ask # 0
                BY <3>2 DEF ReadWaits
            <4> QED
                BY <1>1, <3>2, <4>1 DEF ReadWaits, Reads
        <3>3. CASE HaveKey
            BY <1>1, <3>3 DEF HaveKey, B, Reads
        <3>4. CASE HaveChunk
            BY <1>1, <3>4 DEF HaveChunk, B, Reads
        <3>5. CASE MessageFull
            BY <1>1, <3>5 DEF MessageFull, B, Reads
        <3> QED
            BY <1>4, <3>1, <3>2, <3>3, <3>4, <3>5
    <2>2. ask' \in Nat
        BY <1>0, <2>1, PipeAssumption
    <2>3. InRound
        BY <1>1, <2>1, <2>2, RoundStep DEF Reads
    <2>4. GoesOn
        BY <1>1, <2>1, StaysSent DEF GoesOn, Reads
    <2> QED
        BY <2>3, <2>4, RoundSteps
<1>5. CASE ReadBytes \/ Woken
    <2>1. /\ Reads /\ UNCHANGED <<b, readers, r>> /\ b \in {"key", "value"} /\ ~waiting'
          /\ \/ \E n \in Nat : pipes' = [pipes EXCEPT ![r].buf = SubSeq(@, n + 1, Len(@))]
             \/ pipes' = [pipes EXCEPT ![r].tok = FALSE]
          /\ ask' \in Nat
        <3>1. CASE Woken
            BY <1>0, <1>1, <1>5, <3>1 DEF Woken
        <3>2. CASE ReadBytes
            <4> DEFINE n == Min({ask, Len(P.buf)})
            <4>1. /\ Reads /\ UNCHANGED <<b, readers, r>> /\ b \in {"key", "value"} /\ ~waiting'
                  /\ pipes' = [pipes EXCEPT ![r].buf = SubSeq(@, n + 1, Len(@))]
                  /\ ask' = ask - n
                BY <3>2 DEF ReadBytes
            <4>2. P.buf \in Seq(Element)
                BY <1>0, <1>1, <4>1 DEF P, PipeRecord
            <4>3. n \in Nat /\ n <= ask
                BY <1>0, <4>2, MinOfTwo
            <4> HIDE DEF n
            <4>4. ask' \in Nat
                BY <1>0, <4>1, <4>3
            <4> QED
                BY <4>1, <4>3, <4>4
        <3> QED
            BY <1>5, <3>1, <3>2
    <2>2. /\ pipes' \in Seq(PipeRecord) /\ Len(pipes') = Len(pipes)
          /\ \A p \in 1 .. Len(pipes) : pipes'[p].closed = pipes[p].closed
        BY <1>0, <1>1, <2>1, TakenFrom
    <2>3. InRound
        BY <1>1, <2>1, <2>2, RoundStep DEF Reads
    <2>4. GoesOn
        BY <1>1, <2>1, StaysSent DEF GoesOn, Reads
    <2> QED
        BY <2>3, <2>4, RoundSteps
<1>6. CASE EndOfInfo \/ Break
    <2>1. /\ Reading /\ UNCHANGED <<pipes, readers, ask>> /\ b \in {"key", "value"} /\ pipes[r].closed = "EOF" /\ r' = None
          /\ ~waiting'
          /\ \/ b' = "ended" /\ outcome' = "early"
             \/ b' = "read" /\ outcome' = outcome
        BY <1>6 DEF EndOfInfo, Break, B, P, Ends, Reads
    <2>2. InRound
        BY <1>0, <1>1, <2>1, RoundStep
    <2>3. CASE b' = "ended" /\ outcome' = "early"
        BY <2>1, <2>2, <2>3, RoundSteps DEF RoundEnds
    <2>4. CASE b' = "read" /\ outcome' = outcome
        <3>1. \A p \in 1 .. Len(pipes) : Sent(p) => Sent(p)' \/ pipes[p].closed = "EOF"
            BY <2>1 DEF Sent
        <3>2. GoesOn
            BY <1>1, <2>1, <2>4, <3>1 DEF GoesOn
        <3> QED
            BY <2>2, <3>2, RoundSteps
    <2> QED
        BY <2>1, <2>3, <2>4
<1>7. CASE ReadFails \/ SendFails
    <2>1. /\ Reading /\ UNCHANGED <<pipes, readers, ask>> /\ b \in {"read", "key", "value"} /\ b' = "ended"
          /\ r' \in {r, None} /\ ~waiting'
          /\ \/ outcome' = "error" /\ b \in {"key", "value"} /\ pipes[r].closed = "error"
             \/ outcome' = "failed"
        <3>1. CASE ReadFails
            BY <3>1 DEF ReadFails, P, Ends
        <3>2. CASE SendFails
            BY <1>1, <3>2 DEF SendFails, B, Ends
        <3> QED
            BY <1>7, <3>1, <3>2
    <2>2. InRound
        BY <1>0, <1>1, <2>1, RoundStep
    <2>3. outcome' = "error" => a = "over"
        BY <1>0, <1>1, <2>1 DEF StagesOK
    <2> QED
        BY <2>1, <2>2, <2>3, RoundSteps DEF RoundEnds
<1> QED
    BY <1>2, <1>3, <1>4, <1>5, <1>6, <1>7 DEF InRoundSteps

------------------------------------------------------------------------------
(* TO2 after its round.                                                      *)

\* More pipes take nothing away from the names of those there are.
LEMMA MorePipes ==
    ASSUME NEW m \in Nat, NEW n \in Nat, m <= n
    PROVE  0 .. m \subseteq 0 .. n /\ 1 .. m \subseteq 1 .. n
OBVIOUS

\* A sequence of names is one of more names.
LEMMA InMore ==
    ASSUME NEW S, NEW T, S \subseteq T, NEW s \in Seq(S)
    PROVE  s \in Seq(T)
OBVIOUS

\* TO2 closes pipes with EOF, and a writer of devmod.
AfterRound ==
    /\ outcome # "" /\ UNCHANGED <<cap, writerVars, outcome, waiting, ask, r, readers>>
    /\ pipes' \in Seq(PipeRecord) /\ Len(pipes) <= Len(pipes')
    /\ \A p \in 1 .. Len(pipes') : pipes'[p].closed = "error" => p \in 1 .. Len(pipes) /\ pipes[p].closed = "error"
    /\ w' = w \/ (w = None /\ w' = Len(pipes) + 1 /\ Len(pipes') = Len(pipes) + 1)
    /\ b' \in {"close", "over"} \cup InClose
    /\ b' # "over" => cap = 0
    /\ b' \in {"close readers", "close writer"} => w' # None
    /\ closing' \in BOOLEAN /\ open' \in BOOLEAN
    /\ closing' => a \in InClose \cup {"over"} \/ (cap = 0 /\ b' \in InClose \cup {"over"})
    /\ ~open' => a \in {"close writer", "over"} \/ (cap = 0 /\ b' \in {"close writer", "over"})

\* Such steps keep the invariant.
LEMMA AfterRoundKeeps ==
    ASSUME PipeInv, AfterRound
    PROVE  PipeInv'
<1>0. /\ TypeOK /\ ScriptOK /\ StagesOK /\ PanicsOnlyIfAbandoned /\ ErrorArrivesOrBreak
      /\ outcome # "" /\ UNCHANGED <<cap, script, a, new, written, outcome, waiting, ask, r, readers>> /\ Op' = Op
    BY DEF PipeInv, AfterRound, writerVars, Op
<1>1. /\ pipes \in Seq(PipeRecord) /\ Len(pipes) \in Nat /\ pipes' \in Seq(PipeRecord) /\ Len(pipes') \in Nat
      /\ Len(pipes) <= Len(pipes')
    <2>1. pipes \in Seq(PipeRecord) /\ pipes' \in Seq(PipeRecord)
        BY <1>0, Zenon DEF TypeOK, AfterRound
    <2>2. Len(pipes) <= Len(pipes')
        BY Zenon DEF AfterRound
    <2> QED
        BY <2>1, <2>2
<1>2. 0 .. Len(pipes) \subseteq 0 .. Len(pipes') /\ 1 .. Len(pipes) \subseteq 1 .. Len(pipes')
    BY <1>1, MorePipes
<1>3. w' = w \/ (w = None /\ w' = Len(pipes) + 1 /\ Len(pipes') = Len(pipes) + 1)
    BY Zenon DEF AfterRound
<1>4. {w, new, r} \subseteq 0 .. Len(pipes)
    BY <1>0, Zenon DEF TypeOK
<1>5. /\ w' \in 0 .. Len(pipes') /\ (w # None => w' = w) /\ (w' # w => w' # None /\ w' # new)
    BY <1>1, <1>3, <1>4 DEF None
<1>6. TypeOK'
    <2>1. b' \in {"close", "over"} \cup InClose /\ closing' \in BOOLEAN /\ open' \in BOOLEAN
        BY Zenon DEF AfterRound
    <2>2. readers' \in Seq(1 .. Len(pipes'))
        <3>1. readers \in Seq(1 .. Len(pipes))
            BY <1>0, Zenon DEF TypeOK
        <3>2. readers \in Seq(1 .. Len(pipes'))
            BY <1>2, <3>1, InMore
        <3> QED
            BY <1>0, <3>2
    <2>3. new' \in 0 .. Len(pipes') /\ r' \in 0 .. Len(pipes')
        BY <1>0, <1>2, <1>4
    <2>4. b' \in {"read", "key", "value", "ended", "close", "over"} \cup InClose
        BY <2>1
    <2> QED
        BY <1>0, <1>1, <1>5, <2>1, <2>2, <2>3, <2>4, Zenon DEF TypeOK
<1>7. ScriptOK'
    BY <1>0, <1>5 DEF ScriptOK, Shape, Abandoned
<1>8. StagesOK'
    <2>1. b \notin {"read", "key", "value"} /\ ~waiting
        BY <1>0 DEF StagesOK
    <2>2. b' \notin {"read", "key", "value"}
        BY DEF AfterRound, InClose
    <2>3. \A p \in 1 .. Len(pipes') : pipes'[p].closed = "error" => a = "over"
        BY <1>0 DEF AfterRound, StagesOK
    <2>4. /\ b' \in {"close"} \cup InClose => cap' = 0
          /\ b' \in {"close readers", "close writer"} => w' # None
        BY <1>0 DEF AfterRound, InClose
    <2>5. closing' => a' \in InClose \cup {"over"} \/ (cap' = 0 /\ b' \in InClose \cup {"over"})
        BY <1>0 DEF AfterRound
    <2>6. ~open' => a' \in {"close writer", "over"} \/ (cap' = 0 /\ b' \in {"close writer", "over"})
        BY <1>0 DEF AfterRound
    <2>7. (outcome = "eof" => a \in {"close writer", "over"}) /\ (outcome = "error" => a = "over")
        BY <1>0 DEF StagesOK
    <2> QED
        BY <1>0, <2>1, <2>2, <2>3, <2>4, <2>5, <2>6, <2>7 DEF StagesOK
<1>9. SentOK' /\ EndsOK' /\ PanicsOnlyIfAbandoned' /\ ErrorArrivesOrBreak'
    BY <1>0 DEF SentOK, EndsOK, PanicsOnlyIfAbandoned, Panicked, ErrorArrivesOrBreak
<1> QED
    BY <1>6, <1>7, <1>8, <1>9 DEF PipeInv

\* TO2 after its round.
AfterRoundSteps ==
    CloseReader \/ BeginClose("TO2") \/ EnsureWriter("TO2") \/ CloseReaders("TO2") \/ CloseWriter("TO2")

\* Then TO2 closes devmod's reader and writer, and nothing of a module.
LEMMA AfterRoundStepsKeep ==
    ASSUME PipeInv, AfterRoundSteps
    PROVE  PipeInv'
<1>0. /\ StagesOK /\ Len(pipes) \in Nat
      /\ pipes \in Seq(PipeRecord) /\ closing \in BOOLEAN /\ open \in BOOLEAN
      /\ r # None => r \in 1 .. Len(pipes) /\ pipes[r] \in PipeRecord
      /\ w # None => w \in 1 .. Len(pipes) /\ pipes[w] \in PipeRecord
    <2>1. TypeOK /\ StagesOK
        BY DEF PipeInv
    <2>2. pipes \in Seq(PipeRecord) /\ closing \in BOOLEAN /\ open \in BOOLEAN
        BY <2>1, Zenon DEF TypeOK
    <2>3. w # None => pipes[w] \in PipeRecord
        BY <2>1, <2>2, PipeNames
    <2> QED
        BY <2>1, <2>2, <2>3, PipeNames
<1>1. \A i \in 1 .. Len(pipes) : pipes[i] \in PipeRecord =>
          LET ps == [pipes EXCEPT ![i] = ClosePipe(@, "EOF")] IN
          /\ ps \in Seq(PipeRecord) /\ Len(ps) = Len(pipes)
          /\ \A p \in 1 .. Len(ps) : ps[p].closed = "error" => p \in 1 .. Len(pipes) /\ pipes[p].closed = "error"
    <2> TAKE i \in 1 .. Len(pipes)
    <2> HAVE pipes[i] \in PipeRecord
    <2>1. ClosePipe(pipes[i], "EOF") \in PipeRecord
          /\ ClosePipe(pipes[i], "EOF").closed = IF pipes[i].closed = "no" THEN "EOF" ELSE pipes[i].closed
        BY ClosedPipe
    <2> QED
        BY <1>0, <2>1, OnePipe
<1>2. CASE CloseReader
    <2>1. /\ b = "ended" /\ Reads /\ UNCHANGED <<readers, r, waiting, ask>>
          /\ b' = IF cap = 0 THEN "close" ELSE "over"
          /\ pipes' = pipes \/ (r # None /\ pipes' = [pipes EXCEPT ![r] = ClosePipe(@, "EOF")])
        BY <1>2 DEF CloseReader, B
    <2>2. /\ pipes' \in Seq(PipeRecord) /\ Len(pipes') = Len(pipes)
          /\ \A p \in 1 .. Len(pipes') : pipes'[p].closed = "error" => p \in 1 .. Len(pipes) /\ pipes[p].closed = "error"
        BY <1>0, <1>1, <2>1
    <2>3. /\ outcome # ""
          /\ closing' => a \in InClose \cup {"over"}
          /\ ~open' => a \in {"close writer", "over"}
        BY <1>0, <2>1 DEF StagesOK, InClose, Reads, Reading
    <2>4. AfterRound
        <3>1. UNCHANGED <<cap, writerVars, outcome, w, open, closing>>
            BY <2>1 DEF Reads, Reading
        <3>2. Len(pipes) <= Len(pipes')
            BY <1>0, <2>2
        <3>3. b' \in {"close", "over"} \cup InClose /\ (b' # "over" => cap = 0) /\ b' \notin {"close readers", "close writer"}
            BY <2>1
        <3> QED
            BY <1>0, <2>1, <2>2, <2>3, <3>1, <3>2, <3>3, Zenon DEF AfterRound
    <2> QED
        BY <2>4, AfterRoundKeeps
<1>3. CASE BeginClose("TO2") \/ CloseReaders("TO2") \/ CloseWriter("TO2")
    <2>1. /\ UNCHANGED <<cap, script, new, written, w, readers, outcome, r, waiting, ask, a>>
          /\ \/ b = "close" /\ b' \in {"over", "ensure"} /\ closing' = TRUE /\ UNCHANGED <<pipes, open>>
             \/ b = "close readers" /\ b' = "close writer" /\ open' = FALSE /\ UNCHANGED <<pipes, closing>>
             \/ b = "close writer" /\ b' = "over" /\ pipes' = [pipes EXCEPT ![w] = ClosePipe(@, "EOF")]
                /\ UNCHANGED <<open, closing>>
        <3>1. CASE BeginClose("TO2")
            BY <3>1 DEF BeginClose
        <3>2. CASE CloseReaders("TO2")
            BY <3>2 DEF CloseReaders, At
        <3>3. CASE CloseWriter("TO2")
            BY <3>3 DEF CloseWriter, At
        <3> QED
            BY <1>3, <3>1, <3>2, <3>3
    <2>2. /\ cap = 0 /\ outcome # ""
          /\ b \in {"close readers", "close writer"} => w # None
        BY <1>0, <2>1 DEF StagesOK, InClose
    <2>3. /\ pipes' \in Seq(PipeRecord) /\ Len(pipes') = Len(pipes)
          /\ \A p \in 1 .. Len(pipes') : pipes'[p].closed = "error" => p \in 1 .. Len(pipes) /\ pipes[p].closed = "error"
        <3>1. CASE pipes' = pipes
            BY <1>0, <3>1
        <3>2. CASE b = "close writer" /\ pipes' = [pipes EXCEPT ![w] = ClosePipe(@, "EOF")]
            <4>1. w \in 1 .. Len(pipes) /\ pipes[w] \in PipeRecord
                BY <1>0, <2>2, <3>2
            <4> QED
                BY <1>1, <3>2, <4>1
        <3> QED
            BY <2>1, <3>1, <3>2
    <2>4. /\ b' \in {"over"} \cup InClose
          /\ b' \in {"close readers", "close writer"} => w' # None
          /\ closing' \in BOOLEAN /\ open' \in BOOLEAN
          /\ ~open' => a \in {"close writer", "over"} \/ b' \in {"close writer", "over"}
        BY <1>0, <2>1, <2>2 DEF StagesOK, InClose
    <2>5. AfterRound
        <3>1. UNCHANGED writerVars
            BY <2>1 DEF writerVars
        <3>2. Len(pipes) <= Len(pipes')
            BY <1>0, <2>3
        <3> QED
            BY <1>0, <2>1, <2>2, <2>3, <2>4, <3>1, <3>2, Zenon DEF AfterRound
    <2> QED
        BY <2>5, AfterRoundKeeps
<1>4. CASE EnsureWriter("TO2")
    <2>1. /\ UNCHANGED <<cap, script, new, written, open, closing, outcome, r, waiting, ask, a, readers>>
          /\ b = "ensure" /\ b' = "close readers"
          /\ \/ w # None /\ UNCHANGED <<w, pipes>>
             \/ w = None /\ pipes' = Append(pipes, NewPipe) /\ w' = Len(pipes) + 1
        BY <1>4 DEF EnsureWriter, At
    <2>2. cap = 0 /\ outcome # ""
        BY <1>0, <2>1 DEF StagesOK, InClose
    <2>3. /\ pipes' \in Seq(PipeRecord) /\ Len(pipes) <= Len(pipes')
          /\ w' = w \/ (w = None /\ w' = Len(pipes) + 1 /\ Len(pipes') = Len(pipes) + 1)
          /\ w' # None
          /\ \A p \in 1 .. Len(pipes') : pipes'[p].closed = "error" => p \in 1 .. Len(pipes) /\ pipes[p].closed = "error"
        <3>1. CASE w # None /\ UNCHANGED <<w, pipes>>
            BY <1>0, <3>1
        <3>2. CASE w = None /\ pipes' = Append(pipes, NewPipe) /\ w' = Len(pipes) + 1
            <4>1. /\ pipes' \in Seq(PipeRecord) /\ Len(pipes') = Len(pipes) + 1
                  /\ \A p \in 1 .. Len(pipes) : pipes'[p] = pipes[p]
                  /\ pipes'[Len(pipes) + 1].closed = "no"
                BY <1>0, <3>2, AnotherPipe
            <4>2. \A p \in 1 .. Len(pipes') : p \in 1 .. Len(pipes) \/ p = Len(pipes) + 1
                BY <1>0, <4>1
            <4> QED
                BY <1>0, <3>2, <4>1, <4>2 DEF None
        <3> QED
            BY <2>1, <3>1, <3>2
    <2>4. AfterRound
        <3>1. UNCHANGED writerVars
            BY <2>1 DEF writerVars
        <3>2. /\ b' \in {"close", "over"} \cup InClose /\ b' \in InClose
              /\ closing' \in BOOLEAN /\ open' \in BOOLEAN
              /\ ~open' => a \in {"close writer", "over"}
            BY <1>0, <2>1 DEF InClose, StagesOK
        <3> QED
            BY <2>1, <2>2, <2>3, <3>1, <3>2, Zenon DEF AfterRound
    <2> QED
        BY <2>4, AfterRoundKeeps
<1> QED
    BY <1>2, <1>3, <1>4 DEF AfterRoundSteps

------------------------------------------------------------------------------
(* The writer.                                                               *)

\* What is left of a script after an operation that does not close is one too.
LEMMA NextOp ==
    ASSUME TypeOK, Shape, Op[1] \notin {"close", "error"}, script' = Tail(script), w' # None \/ Abandoned'
    PROVE  script' \in Seq(AllOps \cup {<<"error">>}) /\ script' # <<>> /\ Shape'
<1>1. /\ Op = script[1] /\ Len(script) \in Nat /\ Len(script) > 0
      /\ script' \in Seq(AllOps \cup {<<"error">>}) /\ Len(script') = Len(script) - 1
      /\ \A i \in 1 .. Len(script) - 1 : script'[i] = script[i + 1]
    BY OpKinds
<1>2. Len(script) # 1
    <2>1. 1 \in 1 .. Len(script)
        BY <1>1
    <2> QED
        BY <1>1, <2>1 DEF Shape, Abandoned
<1>3. script' # <<>>
    <2>1. Len(script') # 0
        BY <1>1, <1>2
    <2> QED
        BY <2>1
<1>4. \A i \in 1 .. Len(script') : script'[i][1] \in {"close", "error"} <=> i = Len(script')
    <2> TAKE i \in 1 .. Len(script')
    <2>1. i + 1 \in 1 .. Len(script) /\ script'[i] = script[i + 1] /\ (i + 1 = Len(script) <=> i = Len(script'))
        BY <1>1
    <2> QED
        BY <2>1 DEF Shape, Abandoned
<1> QED
    BY <1>1, <1>3, <1>4 DEF Shape

\* What a goroutine does when it gives up.
LEMMA GivingUp ==
    ASSUME script' = <<<<"error">>>>
    PROVE  script' \in Seq(AllOps \cup {<<"error">>}) /\ script' # <<>> /\ Shape' /\ Op'[1] = "error"
<1>1. Len(script') = 1 /\ script'[1] = <<"error">> /\ <<"error">>[1] = "error"
    OBVIOUS
<1>2. \A i \in 1 .. Len(script') : i = 1
    BY <1>1
<1>3. Op' = <<"error">>
    BY DEF Op
<1>4. script' \in Seq(AllOps \cup {<<"error">>}) /\ script' # <<>>
    OBVIOUS
<1> QED
    BY <1>1, <1>2, <1>3, <1>4 DEF Shape, Abandoned

\* An operation that failed.
LEMMA Failing ==
    ASSUME TypeOK, Shape, WriterFails, Op[1] \notin {"close", "error"}, w' # None \/ Abandoned'
    PROVE  script' \in Seq(AllOps \cup {<<"error">>}) /\ script' # <<>> /\ Shape'
<1>1. CASE script' = <<<<"error">>>>
    BY <1>1, GivingUp
<1>2. CASE script' = Tail(script)
    BY <1>2, NextOp
<1> QED
    BY <1>1, <1>2 DEF WriterFails

\* Types of a step of the writer.
LEMMA WriterTypes ==
    ASSUME TypeOK, UNCHANGED <<cap, b, outcome, r, waiting, ask>>,
           a' \in {"ready", "key", "written", "over", "panic"} \cup InNextPipe \cup InClose,
           pipes' \in Seq(PipeRecord), Len(pipes) <= Len(pipes'),
           script' \in Seq(AllOps \cup {<<"error">>}), script' # <<>>,
           w' \in 0 .. Len(pipes'), new' \in 0 .. Len(pipes'), readers' \in Seq(1 .. Len(pipes')),
           open' \in BOOLEAN, closing' \in BOOLEAN, written' \in Seq(Element)
    PROVE  TypeOK'
<1>1. pipes \in Seq(PipeRecord) /\ r \in 0 .. Len(pipes)
    BY Zenon DEF TypeOK
<1>2. Len(pipes) \in Nat /\ Len(pipes') \in Nat
    BY <1>1, NamesFromOne
<1>3. r' \in 0 .. Len(pipes')
    BY <1>1, <1>2, MorePipes
<1> QED
    BY <1>3, Zenon DEF TypeOK

\* A step of the writer other than its last; what is left to show of it.
Writing ==
    /\ UNCHANGED <<cap, b, outcome, r, waiting, ask>>
    /\ a \notin {"close writer", "over", "panic"}
    /\ a \in InClose => a' \in InClose
    /\ w # None => w' # None
    /\ closing' => closing \/ a' \in InClose \cup {"over"}
    /\ ~open' => ~open \/ a' = "close writer"
    /\ \A p \in 1 .. Len(pipes') : pipes'[p].closed # "error"
    /\ a' = "panic" => cap = 0 /\ outcome \in {"early", "failed"}

\* With it, the parts that relate the writer to TO2 are kept.
LEMMA WriterKeeps ==
    ASSUME PipeInv, Writing, TypeOK', ScriptOK', SentOK', EndsOK'
    PROVE  PipeInv'
<1>0. /\ StagesOK /\ UNCHANGED <<cap, b, outcome, r, waiting, ask>>
      /\ a \notin {"close writer", "over", "panic"}
    BY DEF PipeInv, Writing
<1>1. outcome \notin {"eof", "error"}
    BY <1>0 DEF StagesOK
<1>2. StagesOK'
    <2>1. /\ outcome' = "" <=> b' \in {"read", "key", "value"}
          /\ b' \in {"key", "value"} => r' # None
          /\ waiting' => b' \in {"key", "value"} /\ ask' # 0
          /\ b' \in {"close"} \cup InClose => cap' = 0
          /\ b' \in {"close readers", "close writer"} => w' # None
        <3>1. w # None => w' # None
            BY DEF Writing
        <3>2. /\ outcome = "" <=> b \in {"read", "key", "value"}
              /\ b \in {"key", "value"} => r # None
              /\ waiting => b \in {"key", "value"} /\ ask # 0
              /\ b \in {"close"} \cup InClose => cap = 0
              /\ b \in {"close readers", "close writer"} => w # None
            BY <1>0, Zenon DEF StagesOK
        <3> QED
            BY <1>0, <3>1, <3>2
    <2>2. closing' => a' \in InClose \cup {"over"} \/ (cap' = 0 /\ b' \in InClose \cup {"over"})
        <3>1. closing => a \in InClose \/ (cap = 0 /\ b \in InClose \cup {"over"})
            BY <1>0 DEF StagesOK
        <3>2. closing' => closing \/ a' \in InClose \cup {"over"}
            BY DEF Writing
        <3>3. a \in InClose => a' \in InClose
            BY DEF Writing
        <3> QED
            BY <1>0, <3>1, <3>2, <3>3
    <2>3. ~open' => a' \in {"close writer", "over"} \/ (cap' = 0 /\ b' \in {"close writer", "over"})
        BY <1>0 DEF StagesOK, Writing
    <2>4. \A p \in 1 .. Len(pipes') : pipes'[p].closed = "error" => a' = "over"
        BY DEF Writing
    <2> QED
        BY <1>0, <1>1, <2>1, <2>2, <2>3, <2>4 DEF StagesOK
<1>3. PanicsOnlyIfAbandoned' /\ ErrorArrivesOrBreak'
    BY <1>0, <1>1 DEF PanicsOnlyIfAbandoned, Panicked, ErrorArrivesOrBreak, Writing
<1> QED
    BY <1>2, <1>3 DEF PipeInv

\* A pipe of the sequence is one.
LEMMA PipeAt ==
    ASSUME NEW ps \in Seq(PipeRecord), NEW p \in 1 .. Len(ps)
    PROVE  ps[p] \in PipeRecord
OBVIOUS

\* While the writer is not closing nothing is but for TO2, which is at its end.
LEMMA NotClosing ==
    ASSUME PipeInv, a \notin InClose \cup {"over"}
    PROVE  /\ closing \/ ~open => cap = 0 /\ outcome # "" /\ outcome \in {"early", "failed"}
           /\ \A p \in 1 .. Len(pipes) : pipes[p].closed \in {"no", "EOF"}
           /\ outcome \in {"", "early", "failed"}
<1>1. StagesOK /\ outcome \in {"", "eof", "early", "error", "failed"} /\ pipes \in Seq(PipeRecord)
    <2>1. StagesOK /\ TypeOK
        BY DEF PipeInv
    <2> QED
        BY <2>1, Zenon DEF TypeOK
<1>2. outcome \in {"", "early", "failed"}
    BY <1>1 DEF StagesOK, InClose
<1>3. closing \/ ~open => cap = 0 /\ outcome # ""
    BY <1>1 DEF StagesOK, InClose
<1>4. \A p \in 1 .. Len(pipes) : pipes[p].closed \in Closed
    <2> TAKE p \in 1 .. Len(pipes)
    <2>1. pipes[p] \in PipeRecord
        BY <1>1, PipeAt
    <2> QED
        BY <2>1 DEF PipeRecord
<1>5. \A p \in 1 .. Len(pipes) : pipes[p].closed # "error"
    BY <1>1 DEF StagesOK
<1> QED
    BY <1>2, <1>3, <1>4, <1>5 DEF Closed

\* What holds of the writer before each of its steps.
LEMMA WriterFacts ==
    ASSUME PipeInv
    PROVE  /\ TypeOK /\ Shape /\ ScriptOK /\ SentOK /\ EndsOK
           /\ pipes \in Seq(PipeRecord) /\ readers \in Seq(1 .. Len(pipes)) /\ written \in Seq(Element)
           /\ script \in Seq(AllOps \cup {<<"error">>}) /\ script # <<>>
           /\ open \in BOOLEAN /\ closing \in BOOLEAN
           /\ {w, new, r} \subseteq 0 .. Len(pipes)
<1>1. TypeOK /\ Shape /\ ScriptOK /\ SentOK /\ EndsOK
    BY DEF PipeInv, ScriptOK
<1> QED
    BY <1>1, Zenon DEF TypeOK

\* A step that leaves the pipes, the channel and the script alone.
Quiet == UNCHANGED <<cap, b, outcome, r, waiting, ask, script, w, new, pipes, readers, written>>

\* The lock, the panic, and closing up to the channel.
LEMMA QuietSteps ==
    ASSUME PipeInv, LockReaders \/ SelectPanics \/ BeginClose("writer") \/ CloseReaders("writer")
    PROVE  PipeInv'
<1>0. /\ TypeOK /\ Shape /\ ScriptOK /\ SentOK /\ EndsOK /\ {w, new, r} \subseteq 0 .. Len(pipes)
      /\ pipes \in Seq(PipeRecord) /\ readers \in Seq(1 .. Len(pipes)) /\ written \in Seq(Element)
      /\ script \in Seq(AllOps \cup {<<"error">>}) /\ script # <<>> /\ open \in BOOLEAN /\ closing \in BOOLEAN
    BY WriterFacts
<1>1. /\ Quiet
      /\ \/ a = "lock" /\ a' = "select" /\ open' = open /\ closing' = closing
         \/ a = "select" /\ a' = "panic" /\ ~open /\ open' = open /\ closing' = closing
         \/ /\ a = "ready" /\ Op[1] \in {"close", "error"} /\ a' \in {"ensure", "over"} /\ (a' = "over" => closing)
            /\ closing' = TRUE /\ open' = open
         \/ a = "close readers" /\ a' = "close writer" /\ open' = FALSE /\ closing' = closing
    <2>1. CASE LockReaders
        BY <2>1 DEF LockReaders, A, Quiet, readerVars
    <2>2. CASE SelectPanics
        BY <2>2 DEF SelectPanics, A, Quiet, sharedVars, readerVars
    <2>3. CASE BeginClose("writer")
        BY <2>3 DEF BeginClose, Quiet
    <2>4. CASE CloseReaders("writer")
        BY <2>4 DEF CloseReaders, At, A, Quiet
    <2> QED
        BY <2>1, <2>2, <2>3, <2>4
<1>2. /\ closing \/ ~open => a \in InClose \cup {"over"} \/ (cap = 0 /\ outcome \in {"early", "failed"})
      /\ a \notin InClose \cup {"over"} => \A p \in 1 .. Len(pipes) : pipes[p].closed \in {"no", "EOF"}
    BY NotClosing
<1>3. \A p \in 1 .. Len(pipes) : pipes[p].closed # "error"
    BY <1>1, Zenon DEF PipeInv, StagesOK
<1>4. UNCHANGED <<cap, b, outcome, r, waiting, ask, script, w, new, pipes, readers, written>> /\ Op' = Op
      /\ \A p : Sent(p)' <=> Sent(p)
    BY <1>1 DEF Quiet, Op, Sent
<1>5. TypeOK'
    <2>1. a' \in {"ready", "key", "written", "over", "panic"} \cup InNextPipe \cup InClose
          /\ open' \in BOOLEAN /\ closing' \in BOOLEAN
        BY <1>0, <1>1 DEF InNextPipe, InClose
    <2>2. Len(pipes) <= Len(pipes')
        BY <1>0, <1>4, NamesFromOne
    <2> QED
        BY <1>0, <1>4, <2>1, <2>2, WriterTypes
<1>6. ScriptOK'
    <2>1. Shape'
        BY <1>0, <1>4 DEF Shape, Abandoned
    <2> QED
        BY <1>0, <1>1, <1>4, <2>1 DEF ScriptOK, InNextPipe, InClose
<1>7. SentOK' /\ EndsOK'
    BY <1>0, <1>1, <1>2, <1>4 DEF SentOK, EndsOK, Broken, InNextPipe, InClose
<1>8. Writing
    <2>1. a' = "panic" => cap = 0 /\ outcome \in {"early", "failed"}
        BY <1>1, <1>2 DEF InClose
    <2>2. /\ a \notin {"close writer", "over", "panic"}
          /\ a \in InClose => a' \in InClose
        BY <1>1 DEF InClose
    <2>3. /\ closing' => closing \/ a' \in InClose \cup {"over"}
          /\ ~open' => ~open \/ a' = "close writer"
        <3>1. {"ensure", "over"} \subseteq InClose \cup {"over"}
            BY DEF InClose
        <3>2. closing' = closing \/ a' \in InClose \cup {"over"}
            BY <1>1, <3>1
        <3>3. open' = open \/ a' = "close writer"
            BY <1>1
        <3>4. ASSUME closing' PROVE closing \/ a' \in InClose \cup {"over"}
            BY <3>2, <3>4, Zenon
        <3>5. ASSUME ~open' PROVE ~open \/ a' = "close writer"
            BY <3>3, <3>5, Zenon
        <3> QED
            BY <3>4, <3>5
    <2>4. \A p \in 1 .. Len(pipes') : pipes'[p].closed # "error"
        BY <1>3, <1>4
    <2> QED
        BY <1>4, <2>1, <2>2, <2>3, <2>4, Zenon DEF Writing
<1> QED
    BY <1>5, <1>6, <1>7, <1>8, WriterKeeps

\* A pipe and its names before a step.
LEMMA Pipes ==
    ASSUME PipeInv
    PROVE  /\ Len(pipes) \in Nat
           /\ w # None => w \in 1 .. Len(pipes) /\ pipes[w] \in PipeRecord
           /\ new # None => new \in 1 .. Len(pipes) /\ pipes[new] \in PipeRecord
           /\ 1 .. Len(pipes) \subseteq 0 .. Len(pipes)
<1>1. TypeOK /\ pipes \in Seq(PipeRecord)
    BY WriterFacts
<1>2. /\ w # None => w \in 1 .. Len(pipes)
      /\ new # None => new \in 1 .. Len(pipes)
    BY <1>1, PipeNames
<1> QED
    BY <1>1, <1>2, PipeAt, NamesFromOne

\* A writer at work leaves open what TO2 left open.
LEMMA AtWork ==
    ASSUME PipeInv, UNCHANGED <<cap, b, outcome, r, waiting, ask, open, closing>>,
           a \notin {"close writer", "over", "panic"}, a \in InClose => a' \in InClose, a' # "panic",
           w # None => w' # None, \A p \in 1 .. Len(pipes') : pipes'[p].closed # "error"
    PROVE  Writing
<1>1. closing' = closing /\ open' = open
    OBVIOUS
<1>2. ASSUME closing' PROVE closing
    BY <1>1, <1>2, Zenon
<1>3. ASSUME ~open' PROVE ~open
    <2>1. ASSUME open PROVE open'
        BY <1>1, <2>1, Zenon
    <2> QED
        BY <1>3, <2>1
<1> QED
    BY <1>2, <1>3 DEF Writing

\* The pipe of the service info before is at its end, and a new one not sent yet.
LEMMA NextPipeKeeps ==
    ASSUME PipeInv, NextPipe
    PROVE  PipeInv'
<1>0. /\ TypeOK /\ Shape /\ {w, new, r} \subseteq 0 .. Len(pipes)
      /\ pipes \in Seq(PipeRecord) /\ readers \in Seq(1 .. Len(pipes)) /\ written \in Seq(Element)
      /\ script \in Seq(AllOps \cup {<<"error">>}) /\ script # <<>> /\ open \in BOOLEAN /\ closing \in BOOLEAN
    BY WriterFacts
<1>1. /\ a = "ready" /\ a' = "lock" /\ Op[1] \in {"next", "force"} /\ new' = Len(pipes) + 1
      /\ pipes' = Append(IF w = None THEN pipes ELSE [pipes EXCEPT ![w] = ClosePipe(@, "EOF")], NewPipe)
      /\ UNCHANGED <<cap, b, outcome, r, waiting, ask, script, written, w, readers, open, closing>>
    BY DEF NextPipe, A, readerVars
<1>2. Len(pipes) \in Nat /\ (w # None => w \in 1 .. Len(pipes) /\ pipes[w] \in PipeRecord)
    BY Pipes
<1>3. \A p \in 1 .. Len(pipes) : pipes[p].closed \in {"no", "EOF"}
    BY <1>1, NotClosing DEF InClose
<1>4. PICK ps \in Seq(PipeRecord) :
         /\ pipes' = Append(ps, NewPipe) /\ Len(ps) = Len(pipes)
         /\ \A p \in 1 .. Len(pipes) : ps[p].closed \in {"no", "EOF"}
         /\ w # None => ps[w].closed = "EOF"
    <2>1. CASE w = None
        BY <1>0, <1>1, <1>3, <2>1
    <2>2. CASE w # None
        <3>1. /\ ClosePipe(pipes[w], "EOF") \in PipeRecord
              /\ ClosePipe(pipes[w], "EOF").closed = "EOF"
            BY <1>2, <1>3, <2>2, ClosedPipe
        <3>2. pipes' = Append([pipes EXCEPT ![w] = ClosePipe(pipes[w], "EOF")], NewPipe)
            BY <1>1, <2>2
        <3>3. /\ [pipes EXCEPT ![w] = ClosePipe(pipes[w], "EOF")] \in Seq(PipeRecord)
              /\ Len([pipes EXCEPT ![w] = ClosePipe(pipes[w], "EOF")]) = Len(pipes)
              /\ \A j \in 1 .. Len(pipes) : [pipes EXCEPT ![w] = ClosePipe(pipes[w], "EOF")][j]
                                                = IF j = w THEN ClosePipe(pipes[w], "EOF") ELSE pipes[j]
            BY <1>0, <1>2, <2>2, <3>1, OnePipe
        <3> QED
            BY <1>2, <1>3, <2>2, <3>1, <3>2, <3>3
    <2> QED
        BY <2>1, <2>2
<1>5. /\ pipes' \in Seq(PipeRecord) /\ Len(pipes') = Len(pipes) + 1
      /\ \A p \in 1 .. Len(pipes) : pipes'[p] = ps[p]
      /\ pipes'[Len(pipes) + 1].closed = "no"
    BY <1>4, AnotherPipe
<1>6. \A p \in 1 .. Len(pipes') : pipes'[p].closed # "error"
    <2> TAKE p \in 1 .. Len(pipes')
    <2>1. p \in 1 .. Len(pipes) \/ p = Len(pipes) + 1
        BY <1>2, <1>5
    <2> QED
        BY <1>4, <1>5, <2>1
<1>7. Len(pipes) <= Len(pipes') /\ 0 .. Len(pipes) \subseteq 0 .. Len(pipes') /\ 1 .. Len(pipes) \subseteq 1 .. Len(pipes')
      /\ new' \in 0 .. Len(pipes') /\ new' # None /\ new' # w
    BY <1>0, <1>1, <1>2, <1>5 DEF None
<1>8. TypeOK'
    <2>1. readers' \in Seq(1 .. Len(pipes'))
        BY <1>0, <1>1, <1>7, InMore
    <2>2. a' \in {"ready", "key", "written", "over", "panic"} \cup InNextPipe \cup InClose
        BY <1>1 DEF InNextPipe
    <2>3. w' \in 0 .. Len(pipes')
        BY <1>0, <1>1, <1>7
    <2> QED
        BY <1>0, <1>1, <1>5, <1>7, <2>1, <2>2, <2>3, WriterTypes
<1>9. Op' = Op
    BY <1>1 DEF Op
<1>10. ScriptOK'
    <2>1. Shape'
        BY <1>0, <1>1 DEF Shape, Abandoned
    <2> QED
        BY <1>1, <1>7, <1>9, <2>1 DEF ScriptOK, InNextPipe, InClose
<1>11. SentOK' /\ EndsOK'
    <2>1. pipes'[new'].closed = "no"
        BY <1>1, <1>5
    <2>2. w # None => pipes'[w'].closed = "EOF"
        BY <1>1, <1>2, <1>4, <1>5
    <2> QED
        BY <1>1, <2>1, <2>2 DEF SentOK, EndsOK, InNextPipe
<1>12. Writing
    BY <1>1, <1>6, AtWork DEF InClose
<1> QED
    BY <1>8, <1>10, <1>11, <1>12, WriterKeeps

\* Pipes stay on their way when another is sent.
LEMMA SentOneMore ==
    ASSUME NEW S, readers \in Seq(S), NEW q \in S, readers' = Append(readers, q), r' = r
    PROVE  readers' \in Seq(S) /\ Sent(q)' /\ \A p : Sent(p) => Sent(p)'
<1>1. /\ readers' \in Seq(S) /\ Len(readers') = Len(readers) + 1 /\ Len(readers) \in Nat
      /\ readers'[Len(readers')] = q /\ Len(readers') \in 1 .. Len(readers')
      /\ \A i \in 1 .. Len(readers) : i \in 1 .. Len(readers') /\ readers'[i] = readers[i]
    OBVIOUS
<1>2. Sent(q)'
    BY <1>1 DEF Sent
<1>3. ASSUME NEW p, Sent(p) PROVE Sent(p)'
    BY <1>1, <1>3 DEF Sent
<1> QED
    BY <1>1, <1>2, <1>3

\* The new pipe is sent.
LEMMA SelectSendKeeps ==
    ASSUME PipeInv, SelectSend
    PROVE  PipeInv'
<1>0. /\ TypeOK /\ Shape /\ ScriptOK /\ SentOK /\ EndsOK /\ {w, new, r} \subseteq 0 .. Len(pipes)
      /\ pipes \in Seq(PipeRecord) /\ readers \in Seq(1 .. Len(pipes)) /\ written \in Seq(Element)
      /\ script \in Seq(AllOps \cup {<<"error">>}) /\ script # <<>> /\ open \in BOOLEAN /\ closing \in BOOLEAN
    BY WriterFacts
<1>1. /\ a = "select" /\ a' = "set" /\ readers' = Append(readers, new)
      /\ UNCHANGED <<cap, b, outcome, r, waiting, ask, script, new, written, w, pipes, open, closing>>
    BY DEF SelectSend, A, readerVars
<1>2. Len(pipes) \in Nat /\ new \in 1 .. Len(pipes) /\ new # w
    BY <1>0, <1>1, Pipes DEF ScriptOK, InNextPipe
<1>3. readers' \in Seq(1 .. Len(pipes)) /\ Sent(new)' /\ \A p : Sent(p) => Sent(p)'
    <2>1. PICK q \in 1 .. Len(pipes) : q = new
        BY <1>2
    <2>2. readers \in Seq(1 .. Len(pipes)) /\ readers' = Append(readers, q) /\ r' = r
        BY <1>0, <1>1, <1>2, <2>1
    <2>3. readers' \in Seq(1 .. Len(pipes)) /\ Sent(q)' /\ \A p : Sent(p) => Sent(p)'
        BY <2>2, SentOneMore
    <2>4. Sent(new)'
        BY <1>1, <2>1, <2>3 DEF Sent
    <2> QED
        BY <2>1, <2>3, <2>4
<1>4. \A p \in 1 .. Len(pipes) : pipes[p].closed # "error"
    BY <1>1, NotClosing DEF InClose
<1>5. TypeOK'
    <2>1. a' \in {"ready", "key", "written", "over", "panic"} \cup InNextPipe \cup InClose
        BY <1>1 DEF InNextPipe
    <2>2. Len(pipes) <= Len(pipes')
        BY <1>1, <1>2
    <2> QED
        BY <1>0, <1>1, <1>3, <2>1, <2>2, WriterTypes
<1>6. Op' = Op
    BY <1>1 DEF Op
<1>7. ScriptOK'
    <2>1. Shape'
        BY <1>0, <1>1 DEF Shape, Abandoned
    <2> QED
        BY <1>0, <1>1, <1>6, <2>1 DEF ScriptOK, InNextPipe, InClose
<1>8. SentOK' /\ EndsOK'
    <2>1. Sent(new)' /\ new' = new
        BY <1>1, <1>3
    <2>2. Sent(w) => Sent(w)'
        BY <1>1, <1>3 DEF Sent
    <2> QED
        BY <1>0, <1>1, <1>6, <2>1, <2>2 DEF SentOK, EndsOK, Broken, InNextPipe
<1>9. Writing
    BY <1>1, <1>4, AtWork DEF InClose
<1> QED
    BY <1>5, <1>7, <1>8, <1>9, WriterKeeps

\* The writer is told that TO2 is over.
LEMMA SelectClosingKeeps ==
    ASSUME PipeInv, SelectClosing
    PROVE  PipeInv'
<1>0. /\ TypeOK /\ Shape /\ ScriptOK /\ {w, new, r} \subseteq 0 .. Len(pipes)
      /\ pipes \in Seq(PipeRecord) /\ readers \in Seq(1 .. Len(pipes)) /\ written \in Seq(Element)
      /\ script \in Seq(AllOps \cup {<<"error">>}) /\ script # <<>> /\ open \in BOOLEAN /\ closing \in BOOLEAN
    BY WriterFacts
<1>1. /\ a = "select" /\ a' = "ready" /\ closing /\ WriterFails
      /\ UNCHANGED <<cap, b, outcome, r, waiting, ask, new, written, w, pipes, readers, open, closing>>
    BY DEF SelectClosing, A, readerVars
<1>2. Abandoned /\ outcome # "" /\ \A p \in 1 .. Len(pipes) : pipes[p].closed # "error"
    BY <1>1, NotClosing DEF InClose, Abandoned
<1>3. Op[1] \notin {"close", "error"}
    BY <1>0, <1>1 DEF ScriptOK, InNextPipe
<1>4. script' \in Seq(AllOps \cup {<<"error">>}) /\ script' # <<>> /\ Shape'
    <2>1. Abandoned'
        BY <1>1, <1>2 DEF Abandoned
    <2> QED
        BY <1>0, <1>1, <1>3, <2>1, Failing
<1>5. TypeOK'
    <2>1. a' \in {"ready", "key", "written", "over", "panic"} \cup InNextPipe \cup InClose
        BY <1>1
    <2>2. Len(pipes) <= Len(pipes')
        BY <1>0, <1>1, NamesFromOne
    <2> QED
        BY <1>0, <1>1, <1>4, <2>1, <2>2, WriterTypes
<1>6. ScriptOK'
    BY <1>1, <1>4 DEF ScriptOK, InNextPipe, InClose
<1>7. SentOK' /\ EndsOK'
    BY <1>1, <1>2 DEF SentOK, EndsOK
<1>8. Writing
    BY <1>1, <1>2, AtWork DEF InClose
<1> QED
    BY <1>5, <1>6, <1>7, <1>8, WriterKeeps

\* The new pipe is the one written to; that of a break is closed at once.
LEMMA SetWriterKeeps ==
    ASSUME PipeInv, SetWriter
    PROVE  PipeInv'
<1>0. /\ TypeOK /\ Shape /\ ScriptOK /\ SentOK /\ {w, new, r} \subseteq 0 .. Len(pipes)
      /\ pipes \in Seq(PipeRecord) /\ readers \in Seq(1 .. Len(pipes)) /\ written \in Seq(Element)
      /\ script \in Seq(AllOps \cup {<<"error">>}) /\ script # <<>> /\ open \in BOOLEAN /\ closing \in BOOLEAN
    BY WriterFacts
<1>1. /\ a = "set" /\ w' = new
      /\ UNCHANGED <<cap, b, outcome, r, waiting, ask, new, readers, open, closing>>
      /\ IF Op[1] = "force"
         THEN /\ a' = "ready" /\ pipes' = [pipes EXCEPT ![new] = ClosePipe(@, "EOF")]
              /\ script' = Tail(script) /\ written' = Append(written, BreakWritten)
         ELSE a' = "key" /\ UNCHANGED <<pipes, script, written>>
    BY DEF SetWriter, A, readerVars
<1>2. /\ new # None /\ new \in 1 .. Len(pipes) /\ pipes[new] \in PipeRecord /\ Op[1] \in {"next", "force"}
      /\ 1 .. Len(pipes) \subseteq 0 .. Len(pipes) /\ Len(pipes) \in Nat
    BY <1>0, <1>1, Pipes DEF ScriptOK, InNextPipe
<1>3. \A p \in 1 .. Len(pipes) : pipes[p].closed \in {"no", "EOF"}
    BY <1>1, NotClosing DEF InClose
<1>4. outcome = "" => Sent(new) /\ pipes[new].closed = "no"
    BY <1>0, <1>1 DEF SentOK, InNextPipe
<1>5. outcome' = "" => Sent(w)'
    BY <1>1, <1>4 DEF Sent
<1>6. CASE Op[1] # "force"
    <2>0. a' = "key" /\ UNCHANGED <<pipes, script, written>> /\ Op' = Op
        BY <1>1, <1>6 DEF Op
    <2>1. TypeOK'
        <3>1. a' \in {"ready", "key", "written", "over", "panic"} \cup InNextPipe \cup InClose
            BY <2>0
        <3>2. Len(pipes) <= Len(pipes')
            BY <2>0, <1>2
        <3>3. w' \in 0 .. Len(pipes')
            BY <1>1, <1>2, <2>0
        <3> QED
            BY <1>0, <1>1, <2>0, <3>1, <3>2, <3>3, WriterTypes
    <2>2. ScriptOK'
        <3>1. Shape'
            BY <1>0, <1>1, <1>2, <2>0 DEF Shape, Abandoned
        <3> QED
            BY <1>1, <1>2, <1>6, <2>0, <3>1 DEF ScriptOK, InNextPipe, InClose
    <2>3. SentOK' /\ EndsOK'
        BY <1>1, <1>4, <1>5, <2>0 DEF SentOK, EndsOK, InNextPipe
    <2>4. Writing
        BY <1>1, <1>2, <1>3, <2>0, AtWork DEF InClose
    <2> QED
        BY <2>1, <2>2, <2>3, <2>4, WriterKeeps
<1>7. CASE Op[1] = "force"
    <2>0. /\ a' = "ready" /\ pipes' = [pipes EXCEPT ![new] = ClosePipe(pipes[new], "EOF")]
          /\ script' = Tail(script) /\ written' = Append(written, BreakWritten)
        BY <1>1, <1>7
    <2>1. ClosePipe(pipes[new], "EOF") \in PipeRecord /\ ClosePipe(pipes[new], "EOF").closed = "EOF"
        BY <1>2, <1>3, ClosedPipe
    <2>2. /\ pipes' \in Seq(PipeRecord) /\ Len(pipes') = Len(pipes)
          /\ \A p \in 1 .. Len(pipes) : pipes'[p] = IF p = new THEN ClosePipe(pipes[new], "EOF") ELSE pipes[p]
        BY <1>0, <1>2, <2>0, <2>1, OnePipe
    <2>3. \A p \in 1 .. Len(pipes') : pipes'[p].closed # "error"
        BY <1>3, <2>1, <2>2
    <2>4. script' \in Seq(AllOps \cup {<<"error">>}) /\ script' # <<>> /\ Shape'
        BY <1>0, <1>1, <1>2, <1>7, <2>0, NextOp
    <2>5. BreakWritten \in Element
        BY DEF Element
    <2>6. written' \in Seq(Element) /\ written' # <<>> /\ Last(written') = BreakWritten
        <3>1. /\ written' \in Seq(Element) /\ Len(written') = Len(written) + 1 /\ Len(written) \in Nat
              /\ written'[Len(written) + 1] = BreakWritten
            BY <1>0, <2>0, <2>5
        <3>2. Len(written') # 0
            BY <3>1
        <3>3. written' # <<>>
            BY <3>2
        <3> QED
            BY <3>1, <3>3 DEF Last
    <2>7. TypeOK'
        <3>1. a' \in {"ready", "key", "written", "over", "panic"} \cup InNextPipe \cup InClose
            BY <2>0
        <3>2. Len(pipes) <= Len(pipes') /\ w' \in 0 .. Len(pipes')
            BY <1>1, <1>2, <2>2
        <3>3. new' \in 0 .. Len(pipes') /\ readers' \in Seq(1 .. Len(pipes'))
            BY <1>0, <1>1, <2>2
        <3> QED
            BY <1>0, <1>1, <2>2, <2>4, <2>6, <3>1, <3>2, <3>3, WriterTypes
    <2>8. ScriptOK'
        BY <2>0, <2>4 DEF ScriptOK, InNextPipe, InClose
    <2>9. SentOK' /\ EndsOK'
        BY <1>5, <2>0, <2>6 DEF SentOK, EndsOK, InNextPipe, Broken
    <2>10. Writing
        BY <1>1, <1>2, <2>0, <2>3, AtWork DEF InClose
    <2> QED
        BY <2>7, <2>8, <2>9, <2>10, WriterKeeps
<1> QED
    BY <1>6, <1>7

\* A step after which the writer has only its script changed, or one byte more written
\* to its pipe.
LEMMA WorkKeeps ==
    ASSUME PipeInv, UNCHANGED <<cap, b, outcome, r, waiting, ask, new, w, readers, open, closing>>,
           a \in {"key", "ready", "written"}, a' \in {"ready", "written"}, w # None,
           a' = "written" => Op[1] \in {"next", "write"} /\ Op' = Op,
           pipes' \in Seq(PipeRecord), Len(pipes') = Len(pipes),
           \A p \in 1 .. Len(pipes) : pipes'[p].closed = pipes[p].closed,
           written' \in Seq(Element), written' = written \/ pipes[w].closed = "no",
           script' \in Seq(AllOps \cup {<<"error">>}), script' # <<>>, Shape'
    PROVE  PipeInv'
<1>0. /\ TypeOK /\ SentOK /\ EndsOK /\ {w, new, r} \subseteq 0 .. Len(pipes)
      /\ pipes \in Seq(PipeRecord) /\ readers \in Seq(1 .. Len(pipes))
      /\ open \in BOOLEAN /\ closing \in BOOLEAN
    BY WriterFacts
<1>1. w' = w /\ w \in 1 .. Len(pipes) /\ pipes'[w].closed = pipes[w].closed /\ Len(pipes) \in Nat
    BY Pipes
<1>2. \A p \in 1 .. Len(pipes) : pipes[p].closed # "error"
    BY NotClosing DEF InClose
<1>3. TypeOK'
    <2>1. a' \in {"ready", "key", "written", "over", "panic"} \cup InNextPipe \cup InClose
        OBVIOUS
    <2>2. Len(pipes) <= Len(pipes')
        BY <1>1
    <2> QED
        BY <1>0, <2>1, <2>2, WriterTypes
<1>4. ScriptOK'
    BY DEF ScriptOK, InNextPipe, InClose
<1>5. Sent(w) => Sent(w)'
    BY DEF Sent
<1>6. SentOK' /\ EndsOK'
    BY <1>0, <1>1, <1>5 DEF SentOK, EndsOK, Broken, InNextPipe
<1>7. Writing
    BY <1>2, AtWork DEF InClose
<1> QED
    BY <1>3, <1>4, <1>6, <1>7, WriterKeeps

\* What is written is an element.
LEMMA WrittenElements ==
    ASSUME TypeOK
    PROVE  /\ Op[1] = "next" => <<[key |-> Op[2], n |-> 0]>> \in Seq(Element)
           /\ Op[1] = "write" => <<[key |-> Op[2], n |-> Op[3]]>> \in Seq(Element)
<1>1. /\ Op[1] = "next" => Op \in OpsOf("next")
      /\ Op[1] = "write" => Op \in OpsOf("write")
    BY OpKinds
<1>2. /\ Op[1] = "next" => [key |-> Op[2], n |-> 0] \in Element
      /\ Op[1] = "write" => [key |-> Op[2], n |-> Op[3]] \in Element
    BY <1>1 DEF Element
<1> QED
    BY <1>2

\* Writing, and returning from it.
LEMMA WritesKeep ==
    ASSUME PipeInv, WriteKey \/ Write \/ WriteReturns
    PROVE  PipeInv'
<1>0. /\ TypeOK /\ Shape /\ ScriptOK
      /\ pipes \in Seq(PipeRecord) /\ written \in Seq(Element)
      /\ script \in Seq(AllOps \cup {<<"error">>}) /\ script # <<>>
    BY WriterFacts
<1>1. /\ UNCHANGED <<cap, b, outcome, r, waiting, ask, new, w, readers, open, closing>>
      /\ a \in {"key", "ready", "written"} /\ Op[1] \in {"next", "write"}
    <2>1. CASE WriteKey
        BY <1>0, <2>1 DEF WriteKey, ScriptOK, readerVars
    <2>2. CASE Write
        BY <2>2 DEF Write, readerVars
    <2>3. CASE WriteReturns
        BY <1>0, <2>3 DEF WriteReturns, A, ScriptOK, sharedVars, readerVars
    <2> QED
        BY <2>1, <2>2, <2>3
<1>2. CASE w = None
    <2>1. Write /\ a = "ready" /\ Op[1] = "write"
        BY <1>0, <1>2 DEF WriteKey, Write, WriteReturns, A, ScriptOK
    <2>2. Abandoned
        <3>1. Op = script[1] /\ 1 \in 1 .. Len(script)
            BY <1>0, OpKinds
        <3>2. ~ \E j \in 1 .. 1 - 1 : script[j][1] = "next"
            OBVIOUS
        <3> QED
            BY <1>0, <1>2, <2>1, <3>1, <3>2 DEF Shape
    <2>3. a' = "panic" /\ UNCHANGED <<pipes, script, written>>
        BY <1>2, <2>1 DEF Write, Writes
    <2>4. Op' = Op /\ w' = None
        BY <1>1, <1>2, <2>3 DEF Op
    <2>5. TypeOK'
        <3>1. a' \in {"ready", "key", "written", "over", "panic"} \cup InNextPipe \cup InClose
            BY <2>3
        <3>2. Len(pipes) <= Len(pipes')
            BY <2>3, Pipes
        <3>3. /\ pipes' \in Seq(PipeRecord) /\ readers' \in Seq(1 .. Len(pipes'))
              /\ script' \in Seq(AllOps \cup {<<"error">>}) /\ script' # <<>> /\ written' \in Seq(Element)
              /\ w' \in 0 .. Len(pipes') /\ new' \in 0 .. Len(pipes')
            BY <1>1, <2>3, WriterFacts
        <3>4. open' \in BOOLEAN /\ closing' \in BOOLEAN
            BY <1>1, WriterFacts
        <3> QED
            BY <1>0, <1>1, <3>1, <3>2, <3>3, <3>4, WriterTypes
    <2>6. ScriptOK'
        <3>1. Shape'
            BY <1>0, <1>1, <2>3 DEF Shape, Abandoned
        <3> QED
            BY <2>3, <3>1 DEF ScriptOK, InNextPipe, InClose
    <2>7. SentOK' /\ EndsOK'
        BY <1>1, <2>2, <2>4 DEF SentOK, EndsOK, Abandoned
    <2>8. Writing
        <3>1. \A p \in 1 .. Len(pipes') : pipes'[p].closed # "error"
            BY <2>1, <2>3, NotClosing DEF InClose
        <3>2. closing' = closing /\ open' = open
            BY <1>1
        <3>3. ASSUME closing' PROVE closing
            BY <3>2, <3>3, Zenon
        <3>4. ASSUME ~open' PROVE ~open
            <4>1. ASSUME open PROVE open'
                BY <3>2, <4>1, Zenon
            <4> QED
                BY <3>4, <4>1
        <3> QED
            BY <1>1, <1>2, <2>1, <2>2, <2>3, <3>1, <3>3, <3>4 DEF Writing, Abandoned, InClose
    <2> QED
        BY <2>5, <2>6, <2>7, <2>8, WriterKeeps
<1> SUFFICES ASSUME w # None PROVE PipeInv'
    BY <1>2
<1>w. w \in 1 .. Len(pipes)
    BY Pipes
<1>3. w' = w /\ w' # None /\ Op[1] \notin {"close", "error"}
    BY <1>1
<1>4. /\ script' = Tail(script) => script' \in Seq(AllOps \cup {<<"error">>}) /\ script' # <<>> /\ Shape'
      /\ WriterFails => script' \in Seq(AllOps \cup {<<"error">>}) /\ script' # <<>> /\ Shape'
    BY <1>0, <1>1, <1>3, NextOp, Failing
<1>5. ASSUME NEW data \in Seq(Element), Writes(data) PROVE PipeInv'
    <2>1. CASE pipes[w].closed # "no"
        <3>1. a' = "ready" /\ WriterFails /\ UNCHANGED <<pipes, written>>
            BY <1>1, <1>5, <2>1 DEF Writes
        <3>2. script' \in Seq(AllOps \cup {<<"error">>}) /\ script' # <<>> /\ Shape'
            BY <1>4, <3>1
        <3> QED
            BY <1>0, <1>1, <3>1, <3>2, WorkKeeps
    <2>2. CASE pipes[w].closed = "no"
        <3>1. /\ pipes' = [pipes EXCEPT ![w].buf = @ \o data, ![w].tok = TRUE]
              /\ a' = IF cap = 0 THEN "written" ELSE "ready"
              /\ script' = IF cap = 0 THEN script ELSE Tail(script)
              /\ written' = written \o data
            BY <1>1, <1>5, <2>2 DEF Writes
        <3>2. /\ pipes' \in Seq(PipeRecord) /\ Len(pipes') = Len(pipes)
              /\ \A p \in 1 .. Len(pipes) : pipes'[p].closed = pipes[p].closed
            <4> DEFINE q == [pipes[w] EXCEPT !.buf = @ \o data, !.tok = TRUE]
            <4>1. pipes' = [pipes EXCEPT ![w] = q]
                BY <3>1
            <4>2. pipes \in Seq(PipeRecord) /\ w \in 1 .. Len(pipes) /\ pipes[w] \in PipeRecord
                BY <1>0, <1>w
            <4>3. pipes[w].buf \in Seq(Element)
                BY <4>2 DEF PipeRecord
            <4>4. pipes[w].buf \o data \in Seq(Element)
                BY <1>5, <4>3
            <4>5. q \in PipeRecord /\ q.closed = pipes[w].closed
                BY <4>2, <4>4 DEF PipeRecord
            <4> HIDE DEF q
            <4>6. /\ [pipes EXCEPT ![w] = q] \in Seq(PipeRecord) /\ Len([pipes EXCEPT ![w] = q]) = Len(pipes)
                  /\ \A p \in 1 .. Len(pipes) : [pipes EXCEPT ![w] = q][p] = IF p = w THEN q ELSE pipes[p]
                BY <4>2, <4>5, OnePipe
            <4> QED
                BY <4>1, <4>5, <4>6
        <3>3. written' \in Seq(Element)
            BY <1>0, <3>1
        <3>4. script' \in Seq(AllOps \cup {<<"error">>}) /\ script' # <<>> /\ Shape'
            <4>1. CASE cap = 0
                BY <1>0, <1>1, <3>1, <4>1 DEF Shape, Abandoned
            <4>2. CASE cap # 0
                BY <1>4, <3>1, <4>2
            <4> QED
                BY <4>1, <4>2
        <3>5. a' \in {"ready", "written"} /\ (a' = "written" => Op' = Op)
            BY <3>1 DEF Op
        <3> QED
            BY <1>1, <2>2, <3>2, <3>3, <3>4, <3>5, WorkKeeps
    <2> QED
        BY <2>1, <2>2
<1>6. CASE WriteKey
    <2>1. Writes(<<[key |-> Op[2], n |-> 0]>>) /\ Op[1] = "next"
        BY <1>0, <1>6 DEF WriteKey, ScriptOK
    <2> QED
        BY <1>0, <1>5, <2>1, WrittenElements
<1>7. CASE Write
    <2>1. Writes(<<[key |-> Op[2], n |-> Op[3]]>>) /\ Op[1] = "write"
        BY <1>7 DEF Write
    <2> QED
        BY <1>0, <1>5, <2>1, WrittenElements
<1>8. CASE WriteReturns
    <2>1. /\ a' = "ready" /\ UNCHANGED <<pipes, written>>
          /\ script' = Tail(script) \/ WriterFails
        BY <1>8 DEF WriteReturns, A, sharedVars
    <2>2. script' \in Seq(AllOps \cup {<<"error">>}) /\ script' # <<>> /\ Shape'
        BY <1>4, <2>1
    <2> QED
        BY <1>0, <1>1, <2>1, <2>2, WorkKeeps
<1> QED
    BY <1>6, <1>7, <1>8

\* The writer has a pipe to close; one that carries an error is sent.
LEMMA EnsureWriterKeeps ==
    ASSUME PipeInv, EnsureWriter("writer")
    PROVE  PipeInv'
<1>0. /\ TypeOK /\ Shape /\ ScriptOK /\ SentOK /\ EndsOK /\ {w, new, r} \subseteq 0 .. Len(pipes)
      /\ pipes \in Seq(PipeRecord) /\ readers \in Seq(1 .. Len(pipes)) /\ written \in Seq(Element)
      /\ script \in Seq(AllOps \cup {<<"error">>}) /\ script # <<>> /\ open \in BOOLEAN /\ closing \in BOOLEAN
    BY WriterFacts
<1>1. /\ a = "ensure" /\ a' = "close readers"
      /\ UNCHANGED <<cap, b, outcome, r, waiting, ask, script, new, written, open, closing>>
      /\ IF w # None THEN UNCHANGED <<w, pipes, readers>>
         ELSE /\ pipes' = Append(pipes, NewPipe) /\ w' = Len(pipes) + 1
              /\ IF Op[1] = "error" THEN readers' = Append(readers, w') ELSE UNCHANGED readers
    BY DEF EnsureWriter, At, A
<1>2. Op' = Op /\ Op[1] \in {"close", "error"}
    BY <1>0, <1>1 DEF Op, ScriptOK, InClose
<1>3. \A p \in 1 .. Len(pipes) : pipes[p].closed # "error"
    BY <1>1, Zenon DEF PipeInv, StagesOK
<1>4. Len(pipes) \in Nat
    BY Pipes
<1>5. a' \in {"ready", "key", "written", "over", "panic"} \cup InNextPipe \cup InClose
    BY <1>1 DEF InClose
<1>6. CASE w # None
    <2>1. UNCHANGED <<w, pipes, readers>> /\ \A p : Sent(p)' <=> Sent(p)
        BY <1>1, <1>6 DEF Sent
    <2>2. Len(pipes) <= Len(pipes')
        BY <1>4, <2>1
    <2>3. TypeOK'
        BY <1>0, <1>1, <1>5, <2>1, <2>2, WriterTypes
    <2>4. ScriptOK'
        <3>1. Shape'
            BY <1>0, <1>1, <2>1 DEF Shape, Abandoned
        <3> QED
            BY <1>1, <1>2, <1>6, <2>1, <3>1 DEF ScriptOK, InNextPipe, InClose
    <2>5. SentOK' /\ EndsOK'
        BY <1>0, <1>1, <1>2, <2>1 DEF SentOK, EndsOK, InNextPipe, Broken
    <2>6. Writing
        BY <1>1, <1>3, <2>1, AtWork DEF InClose
    <2> QED
        BY <2>3, <2>4, <2>5, <2>6, WriterKeeps
<1>7. CASE w = None
    <2>1. /\ pipes' = Append(pipes, NewPipe) /\ w' = Len(pipes) + 1
          /\ IF Op[1] = "error" THEN readers' = Append(readers, w') ELSE readers' = readers
        BY <1>1, <1>7
    <2>2. /\ pipes' \in Seq(PipeRecord) /\ Len(pipes') = Len(pipes) + 1
          /\ \A p \in 1 .. Len(pipes) : pipes'[p] = pipes[p]
          /\ pipes'[Len(pipes) + 1].closed = "no"
        BY <1>0, <2>1, AnotherPipe
    <2>3. /\ w' \in 1 .. Len(pipes') /\ w' # None /\ pipes'[w'].closed = "no" /\ Len(pipes) <= Len(pipes')
          /\ 0 .. Len(pipes) \subseteq 0 .. Len(pipes') /\ 1 .. Len(pipes) \subseteq 1 .. Len(pipes')
          /\ w' \in 0 .. Len(pipes')
        BY <1>4, <2>1, <2>2 DEF None
    <2>4. /\ readers' \in Seq(1 .. Len(pipes'))
          /\ Op[1] = "error" => Sent(w)'
        <3>1. readers \in Seq(1 .. Len(pipes'))
            BY <1>0, <2>3, InMore
        <3>2. PICK q \in 1 .. Len(pipes') : q = w'
            BY <2>3
        <3>3. CASE Op[1] = "error"
            <4>1. readers' = Append(readers, q) /\ r' = r
                BY <1>1, <2>1, <3>2, <3>3
            <4>2. PICK S : S = 1 .. Len(pipes')
                OBVIOUS
            <4>3. readers' \in Seq(S) /\ Sent(q)'
                BY <3>1, <4>1, <4>2, SentOneMore
            <4> QED
                BY <3>2, <4>2, <4>3 DEF Sent
        <3>4. CASE Op[1] # "error"
            BY <2>1, <3>1, <3>4
        <3> QED
            BY <3>3, <3>4
    <2>5. TypeOK'
        <3>1. new' \in 0 .. Len(pipes')
            BY <1>0, <1>1, <2>3
        <3> QED
            BY <1>0, <1>1, <1>5, <2>2, <2>3, <2>4, <3>1, WriterTypes
    <2>6. ScriptOK'
        <3>1. Shape'
            BY <1>0, <1>1, <2>3 DEF Shape, Abandoned
        <3> QED
            BY <1>1, <1>2, <2>3, <3>1 DEF ScriptOK, InNextPipe, InClose
    <2>7. SentOK' /\ EndsOK'
        BY <1>1, <1>2, <2>3, <2>4 DEF SentOK, EndsOK, InNextPipe
    <2>8. Writing
        <3>1. \A p \in 1 .. Len(pipes') : pipes'[p].closed # "error"
            <4> TAKE p \in 1 .. Len(pipes')
            <4>1. p \in 1 .. Len(pipes) \/ p = Len(pipes) + 1
                BY <1>4, <2>2
            <4> QED
                BY <1>3, <2>2, <4>1
        <3> QED
            BY <1>1, <2>3, <3>1, AtWork DEF InClose
    <2> QED
        BY <2>5, <2>6, <2>7, <2>8, WriterKeeps
<1> QED
    BY <1>6, <1>7

\* The writer closes its last pipe: with EOF after Close only, unless it was a break's.
LEMMA CloseWriterKeeps ==
    ASSUME PipeInv, CloseWriter("writer")
    PROVE  PipeInv'
<1>0. /\ TypeOK /\ Shape /\ ScriptOK /\ SentOK /\ EndsOK /\ {w, new, r} \subseteq 0 .. Len(pipes)
      /\ pipes \in Seq(PipeRecord) /\ readers \in Seq(1 .. Len(pipes)) /\ written \in Seq(Element)
      /\ script \in Seq(AllOps \cup {<<"error">>}) /\ script # <<>> /\ open \in BOOLEAN /\ closing \in BOOLEAN
    BY WriterFacts
<1> DEFINE how == IF Op[1] = "error" THEN "error" ELSE "EOF"
           p == ClosePipe(pipes[w], how)
<1>1. /\ a = "close writer" /\ a' = "over" /\ pipes' = [pipes EXCEPT ![w] = p]
      /\ UNCHANGED <<cap, b, outcome, r, waiting, ask, script, new, written, w, readers, open, closing>>
    BY DEF CloseWriter, At, A
<1>2. /\ Op' = Op /\ Op[1] \in {"close", "error"} /\ how \in {"EOF", "error"}
      /\ how = "EOF" => Op[1] = "close"
    BY <1>0, <1>1 DEF Op, ScriptOK, InClose
<1>3. w # None /\ w \in 1 .. Len(pipes) /\ pipes[w] \in PipeRecord /\ Len(pipes) \in Nat
    <2>1. w # None
        BY <1>0, <1>1 DEF ScriptOK
    <2> QED
        BY <2>1, Pipes
<1>4. p \in PipeRecord /\ p.closed = IF pipes[w].closed = "no" THEN how ELSE pipes[w].closed
    <2> HIDE DEF how
    <2> QED
        BY <1>2, <1>3, ClosedPipe
<1> HIDE DEF how, p
<1>5. /\ pipes' \in Seq(PipeRecord) /\ Len(pipes') = Len(pipes)
      /\ pipes'[w].closed = IF pipes[w].closed = "no" THEN how ELSE pipes[w].closed
    <2>1. /\ [pipes EXCEPT ![w] = p] \in Seq(PipeRecord) /\ Len([pipes EXCEPT ![w] = p]) = Len(pipes)
          /\ \A j \in 1 .. Len(pipes) : [pipes EXCEPT ![w] = p][j] = IF j = w THEN p ELSE pipes[j]
        BY <1>0, <1>3, <1>4, OnePipe
    <2> QED
        BY <1>1, <1>3, <1>4, <2>1
<1>6. TypeOK'
    <2>1. /\ Len(pipes) <= Len(pipes') /\ w' \in 0 .. Len(pipes') /\ new' \in 0 .. Len(pipes')
          /\ readers' \in Seq(1 .. Len(pipes'))
        <3>1. Len(pipes') = Len(pipes) /\ w' = w /\ new' = new /\ readers' = readers
            BY <1>1, <1>5
        <3> QED
            BY <1>0, <1>3, <3>1
    <2>2. /\ script' \in Seq(AllOps \cup {<<"error">>}) /\ script' # <<>> /\ written' \in Seq(Element)
          /\ open' \in BOOLEAN /\ closing' \in BOOLEAN
        BY <1>0, <1>1
    <2>3. a' \in {"ready", "key", "written", "over", "panic"} \cup InNextPipe \cup InClose
        BY <1>1
    <2> QED
        BY <1>0, <1>1, <1>5, <2>1, <2>2, <2>3, WriterTypes
<1>7. ScriptOK'
    <2>1. Shape'
        BY <1>0, <1>1 DEF Shape, Abandoned
    <2> QED
        BY <1>1, <1>2, <1>3, <2>1 DEF ScriptOK, InNextPipe, InClose
<1>8. StagesOK'
    <2>1. /\ outcome = "" <=> b \in {"read", "key", "value"}
          /\ b \in {"key", "value"} => r # None
          /\ waiting => b \in {"key", "value"} /\ ask # 0
          /\ b \in {"close"} \cup InClose => cap = 0
        BY Zenon DEF PipeInv, StagesOK
    <2> QED
        BY <1>1, <1>3, <2>1 DEF StagesOK
<1>9. SentOK'
    <2>1. outcome = "" => Sent(w) \/ pipes[w].closed = "EOF" \/ Op[1] = "close"
        BY <1>0, <1>1, <1>3 DEF SentOK
    <2>2. Sent(w)' <=> Sent(w)
        BY <1>1 DEF Sent
    <2> QED
        BY <1>1, <1>2, <1>3, <1>5, <2>1, <2>2 DEF SentOK, InNextPipe
<1>10. EndsOK'
    <2>1. outcome = "" /\ pipes[w].closed = "EOF" => Broken
        BY <1>0, <1>1, <1>3 DEF EndsOK, InNextPipe
    <2>2. Broken' <=> Broken
        BY <1>1 DEF Broken
    <2> QED
        BY <1>1, <1>2, <1>5, <2>1, <2>2 DEF EndsOK
<1>11. PanicsOnlyIfAbandoned' /\ ErrorArrivesOrBreak'
    <2>1. ErrorArrivesOrBreak
        BY DEF PipeInv
    <2> QED
        BY <1>1, <1>2, <2>1 DEF PanicsOnlyIfAbandoned, Panicked, ErrorArrivesOrBreak
<1> QED
    BY <1>6, <1>7, <1>8, <1>9, <1>10, <1>11 DEF PipeInv

------------------------------------------------------------------------------
(* The pipes.                                                                *)

\* It holds before the first step, of a well-formed script.
LEMMA InitPipeInv == Init => PipeInv
<1> SUFFICES ASSUME Init PROVE PipeInv
    OBVIOUS
<1>1. /\ cap \in Nat /\ script \in Scripts /\ a = "ready" /\ w = 0 /\ new = 0 /\ pipes = <<>>
      /\ readers = <<>> /\ open = TRUE /\ closing = FALSE /\ b = "read" /\ outcome = "" /\ r = 0
      /\ waiting = FALSE /\ ask = 0 /\ written = <<>>
    BY PipeAssumption DEF Init, None
<1>2. script \in Seq(AllOps) /\ WellFormed(script)
    BY <1>1, ScriptsAssumption
<1>3. script \in Seq(AllOps \cup {<<"error">>}) /\ script # <<>>
    BY <1>2 DEF WellFormed
<1>4. /\ pipes \in Seq(PipeRecord) /\ Len(pipes) = 0 /\ 0 \in 0 .. Len(pipes)
      /\ readers \in Seq(1 .. Len(pipes)) /\ written \in Seq(Element)
    <2>1. pipes = <<>> /\ readers = <<>> /\ written = <<>>
        BY <1>1
    <2>2. \A S : <<>> \in Seq(S)
        OBVIOUS
    <2>3. Len(pipes) = 0
        BY <2>1
    <2> QED
        BY <2>1, <2>2, <2>3
<1>5. TypeOK
    BY <1>1, <1>3, <1>4 DEF TypeOK
<1>6. ScriptOK
    <2>1. Shape
        <3> SUFFICES ASSUME NEW i \in 1 .. Len(script)
                     PROVE  /\ script[i][1] \in {"close", "error"} <=> i = Len(script)
                            /\ script[i][1] = "write" => \E j \in 1 .. i - 1 : script[j][1] = "next"
            BY DEF Shape
        <3> QED
            BY <1>2 DEF WellFormed
    <2> QED
        BY <1>1, <2>1 DEF ScriptOK, InNextPipe, InClose
<1>7. StagesOK
    <2>1. \A p \in 1 .. Len(pipes) : FALSE
        BY <1>4
    <2>2. closing => FALSE
        BY <1>1
    <2>3. ~open => FALSE
        BY <1>1
    <2> QED
        BY <1>1, <2>1, <2>2, <2>3, Zenon DEF StagesOK, InClose
<1>8. SentOK /\ EndsOK
    BY <1>1 DEF SentOK, EndsOK, InNextPipe, None
<1>9. PanicsOnlyIfAbandoned /\ ErrorArrivesOrBreak
    BY <1>1 DEF PanicsOnlyIfAbandoned, Panicked, ErrorArrivesOrBreak
<1> QED
    BY <1>5, <1>6, <1>7, <1>8, <1>9 DEF PipeInv

\* A step of nobody.
LEMMA IdlePipe ==
    ASSUME PipeInv, UNCHANGED vars
    PROVE  PipeInv'
<1>1. UNCHANGED <<cap, script, a, new, written, w, pipes, readers, open, closing, b, outcome, r, waiting, ask>>
    BY DEF vars, writerVars, sharedVars, readerVars
<1>2. /\ UNCHANGED <<Op, Broken, Panicked, Shape>>
      /\ \A p : Sent(p)' <=> Sent(p)
    BY <1>1 DEF Op, Broken, Panicked, Sent, Shape, Abandoned
<1>3. TypeOK'
    BY <1>1, Zenon DEF PipeInv, TypeOK
<1>4. ScriptOK'
    BY <1>1, <1>2 DEF PipeInv, ScriptOK
<1>5. StagesOK'
    BY <1>1, Zenon DEF PipeInv, StagesOK
<1>6. SentOK' /\ EndsOK'
    BY <1>1, <1>2 DEF PipeInv, SentOK, EndsOK
<1>7. PanicsOnlyIfAbandoned' /\ ErrorArrivesOrBreak'
    BY <1>1 DEF PipeInv, PanicsOnlyIfAbandoned, Panicked, ErrorArrivesOrBreak, Op
<1> QED
    BY <1>3, <1>4, <1>5, <1>6, <1>7 DEF PipeInv

\* Every step keeps it.
LEMMA NextPipeInv ==
    ASSUME PipeInv, [Next]_vars
    PROVE  PipeInv'
<1>1. CASE Writer
    BY <1>1, NextPipeKeeps, QuietSteps, SelectSendKeeps, SelectClosingKeeps, SetWriterKeeps, WritesKeep,
       EnsureWriterKeeps, CloseWriterKeeps DEF Writer
<1>2. CASE ChunkReader
    BY <1>2, RoundKeeps, AfterRoundStepsKeep DEF ChunkReader, InRoundSteps, AfterRoundSteps
<1>3. CASE MessageFull \/ SendFails
    BY <1>3, RoundKeeps DEF InRoundSteps
<1>4. CASE UNCHANGED vars
    BY <1>4, IdlePipe
<1> QED
    BY <1>1, <1>2, <1>3, <1>4 DEF Next

\* The invariant of the pipes.
LEMMA PipesHold == Spec => []PipeInv
<1>1. PipeInv /\ [Next]_vars => PipeInv'
    BY NextPipeInv
<1> QED
    BY <1>1, InitPipeInv, PTL DEF Spec

\* A goroutine that writes service info panics, on a nil pipe or the closed channel, only
\* if it is devmod's and TO2 gave its round up: unchunk.go's nextPipe, Close and Write.
THEOREM PanicsOnlyWhenAbandoned == Spec => []PanicsOnlyIfAbandoned
<1>1. PipeInv => PanicsOnlyIfAbandoned
    BY DEF PipeInv
<1> QED
    BY <1>1, PipesHold, PTL

\* An error that the writer closes with is not taken for the end of the service info by
\* ChunkReader.ReadChunk, unless a break was the last thing written.
THEOREM ErrorsArrive == Spec => []ErrorArrivesOrBreak
<1>1. PipeInv => ErrorArrivesOrBreak
    BY DEF PipeInv
<1> QED
    BY <1>1, PipesHold, PTL

------------------------------------------------------------------------------
(* Induction, as set equations, and the functions defined by recursion.       *)

\* A set of numbers with 0 and the successor of each is all of them.
LEMMA NumberInduction ==
    ASSUME NEW S \in SUBSET Nat, 0 \in S, \A n \in S : n + 1 \in S
    PROVE  S = Nat
<1> DEFINE less == {ss \in Nat \X Nat : ss[1] < ss[2]}
           rest == Nat \ S
<1>1. IsWellFoundedOn(less, Nat)
    BY NatLessThanWellFounded DEF OpToRel
<1>2. SUFFICES ASSUME rest # {} PROVE FALSE
    BY DEF rest
<1>3. rest \in SUBSET Nat
    BY DEF rest
<1> HIDE DEF less
<1>4. PICK n \in rest : \A m \in rest : <<m, n>> \notin less
    BY <1>1, <1>2, <1>3, WFMin
<1>5. n \in Nat /\ n # 0
    BY DEF rest
<1>6. n - 1 \in Nat /\ n - 1 < n
    BY <1>5
<1>7. n - 1 \in S
    BY <1>4, <1>5, <1>6 DEF less, rest
<1>8. n \in S
    BY <1>5, <1>6, <1>7
<1> QED
    BY <1>4, <1>8 DEF rest

\* A set of sequences with the empty one and every longer one is all of them.
LEMMA SequenceInduction ==
    ASSUME NEW T, NEW S, <<>> \in S, \A s \in S \cap Seq(T) : \A x \in T : Append(s, x) \in S
    PROVE  Seq(T) \subseteq S
<1> DEFINE N == {n \in Nat : \A s \in Seq(T) : Len(s) = n => s \in S}
<1>1. 0 \in N
    OBVIOUS
<1>2. ASSUME NEW n \in N PROVE n + 1 \in N
    <2> SUFFICES ASSUME NEW s \in Seq(T), Len(s) = n + 1 PROVE s \in S
        OBVIOUS
    <2> DEFINE front == SubSeq(s, 1, n)
    <2>1. n \in Nat
        OBVIOUS
    <2>2. front \in Seq(T) /\ Len(front) = n /\ s[n + 1] \in T
        BY <2>1
    <2>3. s = Append(front, s[n + 1])
        BY <2>1, <2>2
    <2>4. front \in S
        BY <2>2
    <2> HIDE DEF front
    <2> QED
        BY <2>2, <2>3, <2>4
<1>3. N \in SUBSET Nat
    OBVIOUS
<1> HIDE DEF N
<1>4. N = Nat
    BY <1>1, <1>2, <1>3, NumberInduction
<1> QED
    BY <1>4 DEF N

\* There is a function that the values of a step from each number to the next make.
Recurrence(Val, n, base, Step) == base \in Val /\ n \in Nat /\ Step \in [Val \X (1 .. n) -> Val]

LEMMA Recursion ==
    ASSUME NEW Val, NEW n, NEW base, NEW Step, Recurrence(Val, n, base, Step)
    PROVE  \E f \in [0 .. n -> Val] : f[0] = base /\ \A i \in 1 .. n : f[i] = Step[<<f[i - 1], i>>]
<1> DEFINE Upto(m) == \E f \in [0 .. m -> Val] : f[0] = base /\ \A i \in 1 .. m : f[i] = Step[<<f[i - 1], i>>]
           N == {m \in Nat : m <= n => Upto(m)}
<1>0. base \in Val /\ n \in Nat /\ Step \in [Val \X (1 .. n) -> Val]
    BY DEF Recurrence
<1>1. 0 \in N
    <2> DEFINE f == [i \in 0 .. 0 |-> base]
    <2>1. f \in [0 .. 0 -> Val] /\ f[0] = base
        BY <1>0
    <2>2. \A i \in 1 .. 0 : f[i] = Step[<<f[i - 1], i>>]
        OBVIOUS
    <2> HIDE DEF f
    <2>3. Upto(0)
        BY <2>1, <2>2
    <2> HIDE DEF Upto
    <2> QED
        BY <2>3
<1> HIDE DEF Upto
<1>2. ASSUME NEW m \in N PROVE m + 1 \in N
    <2>1. CASE m + 1 <= n
        <3>1. m \in Nat /\ m + 1 \in 1 .. n
            BY <1>0, <2>1
        <3>2. PICK f \in [0 .. m -> Val] : f[0] = base /\ \A i \in 1 .. m : f[i] = Step[<<f[i - 1], i>>]
            <4>1. m <= n /\ m \in N
                BY <1>0, <2>1, <3>1
            <4>2. Upto(m)
                BY <4>1
            <4> QED
                BY <4>2 DEF Upto
        <3> DEFINE x == Step[<<f[m], m + 1>>]
                   g == [i \in 0 .. m + 1 |-> IF i <= m THEN f[i] ELSE x]
        <3>3. x \in Val
            BY <1>0, <3>1
        <3> HIDE DEF x
        <3>4. g \in [0 .. m + 1 -> Val] /\ g[0] = base
            BY <3>1, <3>2, <3>3
        <3>5. \A i \in 1 .. m + 1 : g[i] = Step[<<g[i - 1], i>>]
            <4> SUFFICES ASSUME NEW i \in 1 .. m + 1 PROVE g[i] = Step[<<g[i - 1], i>>]
                OBVIOUS
            <4>1. CASE i <= m
                <5>1. i \in 1 .. m /\ i - 1 \in 0 .. m + 1 /\ i - 1 <= m /\ i \in 0 .. m + 1
                    BY <3>1, <4>1
                <5>2. g[i] = f[i] /\ g[i - 1] = f[i - 1]
                    BY <4>1, <5>1
                <5> QED
                    BY <3>2, <5>1, <5>2
            <4>2. CASE i = m + 1
                <5>1. i - 1 = m /\ m \in 0 .. m + 1 /\ i \in 0 .. m + 1 /\ ~(i <= m) /\ m <= m
                    BY <3>1, <4>2
                <5>2. g[i] = x /\ g[i - 1] = f[m]
                    BY <5>1
                <5> QED
                    BY <4>2, <5>2 DEF x
            <4> QED
                BY <3>1, <4>1, <4>2
        <3> HIDE DEF g
        <3>6. Upto(m + 1)
            BY <3>4, <3>5 DEF Upto
        <3> QED
            BY <3>1, <3>6
    <2>2. CASE ~(m + 1 <= n)
        BY <2>2
    <2> QED
        BY <2>1, <2>2
<1>3. N \in SUBSET Nat
    OBVIOUS
<1>4. n \in N
    <2> HIDE DEF N
    <2> QED
        BY <1>0, <1>1, <1>2, <1>3, NumberInduction
<1>5. Upto(n)
    BY <1>0, <1>4
<1> QED
    BY <1>5 DEF Upto

------------------------------------------------------------------------------
(* FlattenSeq.                                                                *)

\* The flattened beginnings of a sequence of sequences.
LEMMA Beginnings ==
    ASSUME NEW T, NEW ss \in Seq(Seq(T))
    PROVE  \E f \in [0 .. Len(ss) -> Seq(T)] :
               f[0] = <<>> /\ \A i \in 1 .. Len(ss) : f[i] = f[i - 1] \o ss[i]
<1> DEFINE n == Len(ss)
           Step == [p \in Seq(T) \X (1 .. n) |-> p[1] \o ss[p[2]]]
<1>1. n \in Nat /\ <<>> \in Seq(T)
    OBVIOUS
<1>2. ASSUME NEW x \in Seq(T), NEW i \in 1 .. n
      PROVE  x \o ss[i] \in Seq(T)
    <2>1. ss[i] \in Seq(T)
        OBVIOUS
    <2> QED
        BY <2>1
<1>3. Step \in [Seq(T) \X (1 .. n) -> Seq(T)]
    BY <1>2
<1>4. \A x \in Seq(T), i \in 1 .. n : Step[<<x, i>>] = x \o ss[i]
    OBVIOUS
<1> HIDE DEF n, Step
<1>5. PICK f \in [0 .. n -> Seq(T)] : f[0] = <<>> /\ \A i \in 1 .. n : f[i] = Step[<<f[i - 1], i>>]
    <2>1. Recurrence(Seq(T), n, <<>>, Step)
        BY <1>1, <1>3 DEF Recurrence
    <2> QED
        BY <2>1, Recursion
<1>6. \A i \in 1 .. n : f[i] = f[i - 1] \o ss[i]
    <2> SUFFICES ASSUME NEW i \in 1 .. n PROVE f[i] = f[i - 1] \o ss[i]
        OBVIOUS
    <2>1. i - 1 \in 0 .. n
        BY <1>1
    <2>2. f[i - 1] \in Seq(T)
        BY <2>1
    <2> QED
        BY <1>4, <1>5, <2>2
<1> QED
    BY <1>5, <1>6 DEF n

\* FlattenSeq is the last of them.
LEMMA FlattenIs ==
    ASSUME NEW T, NEW ss \in Seq(Seq(T)), NEW f \in [0 .. Len(ss) -> Seq(T)],
           f[0] = <<>>, \A i \in 1 .. Len(ss) : f[i] = f[i - 1] \o ss[i]
    PROVE  FlattenSeq(ss) = f[Len(ss)] /\ FlattenSeq(ss) \in Seq(T)
<1> DEFINE n == Len(ss)
<1>0. n \in Nat
    OBVIOUS
<1>1. CASE n = 0
    <2>1. ss = <<>> /\ FlattenSeq(ss) = ss
        BY <1>1 DEF FlattenSeq
    <2> QED
        BY <1>1, <2>1
<1>2. CASE n # 0
    <2> DEFINE g == [i \in 1 .. n |-> f[i]]
               fl == CHOOSE h : h = [i \in 1 .. Len(ss) |-> IF i = 1 THEN ss[i] ELSE h[i - 1] \o ss[i]]
    <2>1. FlattenSeq(ss) = fl[n]
        BY <1>2 DEF FlattenSeq
    <2>2. g = [i \in 1 .. n |-> IF i = 1 THEN ss[i] ELSE g[i - 1] \o ss[i]]
        <3>1. ASSUME NEW i \in 1 .. n PROVE g[i] = IF i = 1 THEN ss[i] ELSE g[i - 1] \o ss[i]
            <4>0. ss[i] \in Seq(T) /\ g[i] = f[i]
                OBVIOUS
            <4>1. CASE i = 1
                <5>0. i \in 1 .. Len(ss) /\ i - 1 = 0
                    BY <1>0, <4>1
                <5>1. f[i] = <<>> \o ss[i]
                    BY <5>0
                <5>2. <<>> \o ss[i] = ss[i]
                    BY <4>0
                <5> QED
                    BY <4>0, <4>1, <5>1, <5>2
            <4>2. CASE i # 1
                <5>1. i - 1 \in 1 .. n
                    BY <1>0, <4>2
                <5>2. g[i - 1] = f[i - 1]
                    BY <5>1
                <5> HIDE DEF g
                <5> QED
                    BY <4>0, <4>2, <5>2
            <4> QED
                BY <4>1, <4>2
        <3>2. g = [i \in 1 .. n |-> g[i]]
            OBVIOUS
        <3> HIDE DEF g
        <3> QED
            BY <3>1, <3>2
    <2> HIDE DEF g
    <2>3. fl = [i \in 1 .. n |-> IF i = 1 THEN ss[i] ELSE fl[i - 1] \o ss[i]]
        BY <2>2
    <2> HIDE DEF fl
    <2> DEFINE N == {m \in Nat : m + 1 <= n => fl[m + 1] = f[m + 1]}
    <2>4. 0 \in N
        <3>1. ss[1] \in Seq(T) /\ 1 \in 1 .. n
            BY <1>0, <1>2
        <3>2. fl[1] = ss[1]
            BY <2>3, <3>1
        <3>3. f[1] = <<>> \o ss[1]
            <4> DEFINE i == 1
            <4>1. i \in 1 .. Len(ss) /\ i - 1 = 0
                BY <3>1
            <4> HIDE DEF i
            <4>2. f[i] = f[i - 1] \o ss[i]
                BY <4>1
            <4> QED
                BY <4>1, <4>2 DEF i
        <3> QED
            BY <3>1, <3>2, <3>3
    <2>5. ASSUME NEW m \in N PROVE m + 1 \in N
        <3> SUFFICES ASSUME m + 2 <= n PROVE fl[m + 2] = f[m + 2]
            OBVIOUS
        <3>1. m \in Nat /\ m + 2 \in 1 .. n /\ m + 2 # 1 /\ (m + 2) - 1 = m + 1
            BY <1>0
        <3>2. fl[m + 1] = f[m + 1]
            BY <1>0, <3>1
        <3>3. fl[m + 2] = fl[m + 1] \o ss[m + 2]
            <4> DEFINE i == m + 2
            <4>1. i \in 1 .. n /\ i # 1 /\ i - 1 = m + 1
                BY <3>1
            <4> HIDE DEF i
            <4>2. fl[i] = fl[i - 1] \o ss[i]
                BY <2>3, <4>1
            <4> QED
                BY <4>1, <4>2 DEF i
        <3>4. f[m + 2] = f[m + 1] \o ss[m + 2]
            BY <3>1
        <3> QED
            BY <3>2, <3>3, <3>4
    <2>6. N \in SUBSET Nat
        OBVIOUS
    <2> HIDE DEF N
    <2>7. N = Nat
        BY <2>4, <2>5, <2>6, NumberInduction
    <2>8. n - 1 \in N
        BY <1>0, <1>2, <2>7
    <2>9. fl[n] = f[n]
        BY <1>0, <2>8 DEF N
    <2>10. n \in 0 .. Len(ss)
        BY <1>0
    <2> QED
        BY <2>1, <2>9, <2>10
<1> QED
    BY <1>1, <1>2

\* One more at the end.
LEMMA FlattenAppend ==
    ASSUME NEW T, NEW ss \in Seq(Seq(T)), NEW x \in Seq(T)
    PROVE  /\ FlattenSeq(Append(ss, x)) = FlattenSeq(ss) \o x
           /\ FlattenSeq(ss) \in Seq(T) /\ FlattenSeq(Append(ss, x)) \in Seq(T)
<1> DEFINE n == Len(ss)
           tt == Append(ss, x)
<1>0. n \in Nat /\ tt \in Seq(Seq(T)) /\ Len(tt) = n + 1
      /\ tt[n + 1] = x /\ \A i \in 1 .. n : tt[i] = ss[i]
    OBVIOUS
<1>1. PICK f \in [0 .. n -> Seq(T)] : f[0] = <<>> /\ \A i \in 1 .. n : f[i] = f[i - 1] \o ss[i]
    BY Beginnings
<1>2. FlattenSeq(ss) = f[n] /\ FlattenSeq(ss) \in Seq(T)
    BY <1>1, FlattenIs
<1> DEFINE y == f[n] \o x
           g == [i \in 0 .. n + 1 |-> IF i <= n THEN f[i] ELSE y]
<1>3. y \in Seq(T)
    <2>1. f[n] \in Seq(T)
        BY <1>0
    <2> QED
        BY <2>1
<1> HIDE DEF y, tt
<1>4. g \in [0 .. Len(tt) -> Seq(T)] /\ g[0] = <<>> /\ g[Len(tt)] = y
    BY <1>0, <1>1, <1>3
<1>5. \A i \in 1 .. Len(tt) : g[i] = g[i - 1] \o tt[i]
    <2> SUFFICES ASSUME NEW i \in 1 .. n + 1 PROVE g[i] = g[i - 1] \o tt[i]
        BY <1>0
    <2>1. CASE i <= n
        <3>1. i \in 1 .. n /\ i - 1 <= n /\ i - 1 \in 0 .. n + 1 /\ i \in 0 .. n + 1
            BY <1>0, <2>1
        <3>2. g[i] = f[i] /\ g[i - 1] = f[i - 1]
            BY <2>1, <3>1
        <3> QED
            BY <1>0, <1>1, <3>1, <3>2
    <2>2. CASE i = n + 1
        <3>1. i - 1 = n /\ n \in 0 .. n + 1 /\ i \in 0 .. n + 1 /\ ~(i <= n) /\ n <= n
            BY <1>0, <2>2
        <3>2. g[i] = y /\ g[i - 1] = f[n]
            BY <3>1
        <3> QED
            BY <1>0, <2>2, <3>2 DEF y
    <2>3. i <= n \/ i = n + 1
        BY <1>0
    <2> QED
        BY <2>1, <2>2, <2>3
<1> HIDE DEF g
<1>6. FlattenSeq(tt) = y /\ FlattenSeq(tt) \in Seq(T)
    BY <1>0, <1>4, <1>5, FlattenIs
<1> QED
    BY <1>2, <1>6 DEF y, tt

\* Two sequences of the same elements.
LEMMA SameElements ==
    ASSUME NEW T, NEW s \in Seq(T), NEW t \in Seq(T), Len(s) = Len(t), \A i \in 1 .. Len(s) : s[i] = t[i]
    PROVE  s = t
OBVIOUS

\* Nothing.
LEMMA FlattenNone == FlattenSeq(<<>>) = <<>>
BY DEF FlattenSeq

\* Concatenating is associative.
LEMMA ConcatAssociative ==
    ASSUME NEW T, NEW s \in Seq(T), NEW t \in Seq(T), NEW u \in Seq(T)
    PROVE  /\ (s \o t) \o u = s \o (t \o u) /\ s \o t \in Seq(T)
           /\ s \o <<>> = s /\ <<>> \o s = s
OBVIOUS

\* More at the end.
LEMMA FlattenConcat ==
    ASSUME NEW T, NEW ss \in Seq(Seq(T)), NEW tt \in Seq(Seq(T))
    PROVE  FlattenSeq(ss \o tt) = FlattenSeq(ss) \o FlattenSeq(tt)
<1> DEFINE S == {uu \in Seq(Seq(T)) : FlattenSeq(ss \o uu) = FlattenSeq(ss) \o FlattenSeq(uu)}
<1>0. <<>> \in Seq(T) /\ <<>> \in Seq(Seq(T)) /\ FlattenSeq(ss) \in Seq(T)
    BY FlattenAppend
<1>1. <<>> \in S
    BY <1>0, FlattenNone
<1>2. ASSUME NEW uu \in S, NEW x \in Seq(T) PROVE Append(uu, x) \in S
    <2>0. uu \in Seq(Seq(T)) /\ FlattenSeq(ss \o uu) = FlattenSeq(ss) \o FlattenSeq(uu)
        OBVIOUS
    <2>1. ss \o Append(uu, x) = Append(ss \o uu, x) /\ ss \o uu \in Seq(Seq(T)) /\ Append(uu, x) \in Seq(Seq(T))
        BY <2>0
    <2>2. FlattenSeq(Append(ss \o uu, x)) = FlattenSeq(ss \o uu) \o x
        BY <2>1, FlattenAppend
    <2>3. FlattenSeq(Append(uu, x)) = FlattenSeq(uu) \o x /\ FlattenSeq(uu) \in Seq(T)
        BY <2>0, FlattenAppend
    <2>4. (FlattenSeq(ss) \o FlattenSeq(uu)) \o x = FlattenSeq(ss) \o (FlattenSeq(uu) \o x)
        BY <1>0, <2>3
    <2> QED
        BY <2>0, <2>1, <2>2, <2>3, <2>4
<1> HIDE DEF S
<1>3. tt \in S
    BY <1>1, <1>2, SequenceInduction
<1> QED
    BY <1>3 DEF S

\* Chunks as the reader makes them, and service infos as the owner service unchunks them.
Key == {""} \cup {e.key : e \in Element}
ChunkRecord == [key : Key, val : Seq(Element)]
Values(infos) == FlattenSeq([i \in DOMAIN infos |-> infos[i].val])
KeyKept(info) == \A j \in DOMAIN info.val : info.val[j].key = info.key
KeysKept(infos) == \A i \in DOMAIN infos : KeyKept(infos[i])
InfosOf(ms) == FlattenSeq([i \in DOMAIN ms |-> Unchunked(ms[i])])

------------------------------------------------------------------------------
(* Bytes, values and what is unchunked.                                       *)

\* The bytes of elements written one after the other.
LEMMA BytesAppend ==
    ASSUME NEW s \in Seq(Element), NEW e \in Element
    PROVE  /\ Bytes(s) \in Seq(Element)
           /\ Bytes(Append(s, e)) = Bytes(s) \o IF e.n = 0 THEN <<>> ELSE <<e>>
<1> DEFINE one(x) == IF x.n = 0 THEN <<>> ELSE <<x>>
           all(t) == [i \in DOMAIN t |-> one(t[i])]
<1>1. \A x \in Element : one(x) \in Seq(Element)
    OBVIOUS
<1> HIDE DEF one
<1>2. all(s) \in Seq(Seq(Element))
    <2>1. all(s) = [i \in 1 .. Len(s) |-> one(s[i])] /\ Len(s) \in Nat
        OBVIOUS
    <2>2. \A i \in 1 .. Len(s) : one(s[i]) \in Seq(Element)
        BY <1>1
    <2> HIDE DEF all
    <2> QED
        BY <2>1, <2>2
<1>3. all(Append(s, e)) = Append(all(s), one(e))
    <2> DEFINE t == Append(s, e)
               u == Append(all(s), one(e))
    <2>1. t \in Seq(Element) /\ Len(t) = Len(s) + 1 /\ \A i \in 1 .. Len(t) : t[i] = IF i <= Len(s) THEN s[i] ELSE e
        OBVIOUS
    <2>2. /\ u \in Seq(Seq(Element)) /\ Len(u) = Len(s) + 1
          /\ \A i \in 1 .. Len(u) : u[i] = IF i <= Len(s) THEN one(s[i]) ELSE one(e)
        BY <1>1, <1>2
    <2>3. all(t) \in Seq(Seq(Element)) /\ Len(all(t)) = Len(t) /\ \A i \in 1 .. Len(t) : all(t)[i] = one(t[i])
        <3>1. all(t) = [i \in 1 .. Len(t) |-> one(t[i])] /\ Len(t) \in Nat
            BY <2>1
        <3>2. \A i \in 1 .. Len(t) : one(t[i]) \in Seq(Element)
            BY <1>1, <2>1
        <3> HIDE DEF all
        <3> QED
            BY <3>1, <3>2
    <2> HIDE DEF t, u, all
    <2>4. all(t) = u
        <3>1. \A i \in 1 .. Len(all(t)) : all(t)[i] = u[i]
            <4> TAKE i \in 1 .. Len(all(t))
            <4>1. i \in 1 .. Len(t) /\ i \in 1 .. Len(u)
                BY <2>1, <2>2, <2>3
            <4>2. all(t)[i] = one(t[i])
                BY <2>3, <4>1
            <4> QED
                BY <2>1, <2>2, <4>1, <4>2
        <3> QED
            BY <2>1, <2>2, <2>3, <3>1, SameElements
    <2> QED
        BY <2>4 DEF t, u
<1>4. Bytes(s) = FlattenSeq(all(s)) /\ Bytes(Append(s, e)) = FlattenSeq(all(Append(s, e)))
    BY DEF Bytes, one
<1> HIDE DEF all
<1> QED
    BY <1>1, <1>2, <1>3, <1>4, FlattenAppend DEF one

\* No byte, or one.
LEMMA BytesOne ==
    /\ Bytes(<<>>) = <<>>
    /\ \A e \in Element : Bytes(<<e>>) = IF e.n = 0 THEN <<>> ELSE <<e>>
<1>1. Bytes(<<>>) = <<>>
    <2>1. [i \in DOMAIN <<>> |-> IF <<>>[i].n = 0 THEN <<>> ELSE <<<<>>[i]>>] = <<>>
        OBVIOUS
    <2> QED
        BY <2>1, FlattenNone DEF Bytes
<1>2. ASSUME NEW e \in Element PROVE Bytes(<<e>>) = IF e.n = 0 THEN <<>> ELSE <<e>>
    <2>1. Append(<<>>, e) = <<e>> /\ <<>> \in Seq(Element)
        OBVIOUS
    <2>2. Bytes(Append(<<>>, e)) = <<>> \o IF e.n = 0 THEN <<>> ELSE <<e>>
        BY <1>1, <2>1, BytesAppend
    <2> QED
        BY <2>1, <2>2
<1> QED
    BY <1>1, <1>2

\* The bytes of elements written in two goes.
LEMMA BytesConcat ==
    ASSUME NEW s \in Seq(Element), NEW t \in Seq(Element)
    PROVE  Bytes(s \o t) = Bytes(s) \o Bytes(t)
<1> DEFINE S == {u \in Seq(Element) : Bytes(s \o u) = Bytes(s) \o Bytes(u)}
<1>0. \A u \in Seq(Element) : Bytes(u) \in Seq(Element)
    <2> SUFFICES ASSUME NEW u \in Seq(Element) PROVE Bytes(u) \in Seq(Element)
        OBVIOUS
    <2>1. BreakWritten \in Element
        BY DEF Element
    <2> QED
        BY <2>1, BytesAppend
<1>1. <<>> \in S
    BY <1>0, BytesOne
<1>2. ASSUME NEW u \in S, NEW e \in Element PROVE Append(u, e) \in S
    <2> DEFINE one == IF e.n = 0 THEN <<>> ELSE <<e>>
    <2>0. u \in Seq(Element) /\ Bytes(s \o u) = Bytes(s) \o Bytes(u) /\ one \in Seq(Element)
        OBVIOUS
    <2>1. s \o Append(u, e) = Append(s \o u, e) /\ s \o u \in Seq(Element) /\ Append(u, e) \in Seq(Element)
        BY <2>0
    <2>2. Bytes(Append(s \o u, e)) = Bytes(s \o u) \o one
        BY <2>1, BytesAppend
    <2>3. Bytes(Append(u, e)) = Bytes(u) \o one
        BY <2>0, BytesAppend
    <2> HIDE DEF one
    <2>4. (Bytes(s) \o Bytes(u)) \o one = Bytes(s) \o (Bytes(u) \o one)
        <3>1. Bytes(s) \in Seq(Element) /\ Bytes(u) \in Seq(Element)
            BY <1>0, <2>0
        <3> QED
            BY <2>0, <3>1
    <2> QED
        BY <2>0, <2>1, <2>2, <2>3, <2>4
<1> HIDE DEF S
<1>3. t \in S
    BY <1>1, <1>2, SequenceInduction
<1> QED
    BY <1>3 DEF S

\* Elements that are all bytes.
LEMMA BytesAll ==
    ASSUME NEW s \in Seq(Element), \A i \in 1 .. Len(s) : s[i].n # 0
    PROVE  Bytes(s) = s
<1> DEFINE S == {u \in Seq(Element) : (\A i \in 1 .. Len(u) : u[i].n # 0) => Bytes(u) = u}
<1>1. <<>> \in S
    BY BytesOne
<1>2. ASSUME NEW u \in S, NEW e \in Element PROVE Append(u, e) \in S
    <2>0. u \in Seq(Element) /\ Append(u, e) \in Seq(Element)
        OBVIOUS
    <2>1. SUFFICES ASSUME \A i \in 1 .. Len(Append(u, e)) : Append(u, e)[i].n # 0
                   PROVE  Bytes(Append(u, e)) = Append(u, e)
        BY <2>0
    <2>2. /\ \A i \in 1 .. Len(u) : i \in 1 .. Len(Append(u, e)) /\ Append(u, e)[i] = u[i]
          /\ Len(u) + 1 \in 1 .. Len(Append(u, e)) /\ Append(u, e)[Len(u) + 1] = e
        BY <2>0
    <2>3. Bytes(u) = u /\ e.n # 0
        <3>1. \A i \in 1 .. Len(u) : u[i].n # 0
            BY <2>1, <2>2
        <3> QED
            BY <2>1, <2>2, <3>1
    <2>4. Bytes(Append(u, e)) = u \o <<e>>
        BY <2>0, <2>3, BytesAppend
    <2> QED
        BY <2>0, <2>4
<1> HIDE DEF S
<1>3. s \in S
    BY <1>1, <1>2, SequenceInduction
<1> QED
    BY <1>3 DEF S

\* The bytes of service infos, and under which key they are.
LEMMA ValuesAppend ==
    ASSUME NEW s \in Seq(ChunkRecord), NEW x \in ChunkRecord
    PROVE  /\ Values(s) \in Seq(Element)
           /\ Values(Append(s, x)) = Values(s) \o x.val
           /\ KeysKept(Append(s, x)) <=> KeysKept(s) /\ KeyKept(x)
<1> DEFINE all(t) == [i \in DOMAIN t |-> t[i].val]
<1>1. \A y \in ChunkRecord : y.val \in Seq(Element)
    BY DEF ChunkRecord
<1>2. all(s) \in Seq(Seq(Element))
    <2>1. all(s) = [i \in 1 .. Len(s) |-> s[i].val] /\ Len(s) \in Nat
        OBVIOUS
    <2>2. \A i \in 1 .. Len(s) : s[i].val \in Seq(Element)
        BY <1>1
    <2> HIDE DEF all
    <2> QED
        BY <2>1, <2>2
<1> DEFINE t == Append(s, x)
           u == Append(all(s), x.val)
<1>3. t \in Seq(ChunkRecord) /\ Len(t) = Len(s) + 1 /\ \A i \in 1 .. Len(t) : t[i] = IF i <= Len(s) THEN s[i] ELSE x
    OBVIOUS
<1>4. /\ u \in Seq(Seq(Element)) /\ Len(u) = Len(s) + 1
      /\ \A i \in 1 .. Len(u) : u[i] = IF i <= Len(s) THEN s[i].val ELSE x.val
    BY <1>1, <1>2
<1>5. all(t) \in Seq(Seq(Element)) /\ Len(all(t)) = Len(t) /\ \A i \in 1 .. Len(t) : all(t)[i] = t[i].val
    <2>1. all(t) = [i \in 1 .. Len(t) |-> t[i].val] /\ Len(t) \in Nat
        BY <1>3
    <2>2. \A i \in 1 .. Len(t) : t[i].val \in Seq(Element)
        BY <1>1, <1>3
    <2> HIDE DEF all
    <2> QED
        BY <2>1, <2>2
<1>6. Values(s) = FlattenSeq(all(s)) /\ Values(t) = FlattenSeq(all(t))
    BY DEF Values
<1>7. KeysKept(t) <=> KeysKept(s) /\ KeyKept(x)
    <2>1. /\ DOMAIN t = 1 .. Len(s) + 1 /\ DOMAIN s = 1 .. Len(s) /\ Len(s) \in Nat
          /\ \A i \in 1 .. Len(s) : t[i] = s[i] /\ i \in 1 .. Len(s) + 1
          /\ t[Len(s) + 1] = x /\ Len(s) + 1 \in 1 .. Len(s) + 1
        OBVIOUS
    <2>2. \A i \in 1 .. Len(s) + 1 : i \in 1 .. Len(s) \/ i = Len(s) + 1
        BY <2>1
    <2> HIDE DEF t
    <2> QED
        BY <2>1, <2>2 DEF KeysKept
<1>8. all(t) = u
    <2> HIDE DEF all, t, u
    <2>1. \A i \in 1 .. Len(all(t)) : all(t)[i] = u[i]
        <3> TAKE i \in 1 .. Len(all(t))
        <3>1. i \in 1 .. Len(t) /\ i \in 1 .. Len(u)
            BY <1>3, <1>4, <1>5
        <3>2. all(t)[i] = t[i].val
            BY <1>5, <3>1
        <3> QED
            BY <1>3, <1>4, <3>1, <3>2
    <2> QED
        BY <1>3, <1>4, <1>5, <2>1, SameElements
<1>9. FlattenSeq(u) = FlattenSeq(all(s)) \o x.val /\ FlattenSeq(all(s)) \in Seq(Element)
    <2> HIDE DEF all, t
    <2> QED
        BY <1>1, <1>2, FlattenAppend
<1> HIDE DEF all, u, t
<1> QED
    BY <1>6, <1>7, <1>8, <1>9 DEF t

\* Bytes in three parts.
LEMMA ThreeParts == \A s, t, u \in Seq(Element) : (s \o t) \o u = s \o (t \o u)
OBVIOUS

\* What is past the first of two parts.
LEMMA InSecond ==
    ASSUME NEW T, NEW s \in Seq(T), NEW t \in Seq(T), NEW j \in DOMAIN (s \o t), ~(j <= Len(s))
    PROVE  j - Len(s) \in DOMAIN t /\ (s \o t)[j] = t[j - Len(s)]
<1>1. DOMAIN (s \o t) = 1 .. Len(s) + Len(t) /\ Len(s) \in Nat /\ Len(t) \in Nat /\ DOMAIN t = 1 .. Len(t)
    OBVIOUS
<1>2. j \in Int /\ j - Len(s) \in 1 .. Len(t)
    BY <1>1
<1> QED
    BY <1>1, <1>2

\* There are chunks.
LEMMA AChunk == \E x : x \in ChunkRecord
<1>1. PICK k : k \in Key
    BY Zenon DEF Key
<1>2. <<>> \in Seq(Element)
    OBVIOUS
<1>3. [key |-> k, val |-> <<>>] \in ChunkRecord
    BY <1>1, <1>2 DEF ChunkRecord
<1> QED
    BY <1>3

\* The bytes of service infos in two parts.
LEMMA ValuesConcat ==
    ASSUME NEW s \in Seq(ChunkRecord), NEW t \in Seq(ChunkRecord)
    PROVE  /\ Values(s \o t) = Values(s) \o Values(t)
           /\ KeysKept(s \o t) <=> KeysKept(s) /\ KeysKept(t)
           /\ Values(s) \in Seq(Element)
<1> DEFINE S == {u \in Seq(ChunkRecord) : /\ Values(s \o u) = Values(s) \o Values(u)
                                          /\ KeysKept(s \o u) <=> KeysKept(s) /\ KeysKept(u)}
<1>0. \A u \in Seq(ChunkRecord) : Values(u) \in Seq(Element)
    BY AChunk, ValuesAppend
<1>1. <<>> \in S
    <2>1. Values(<<>>) = <<>>
        <3>1. [i \in DOMAIN <<>> |-> <<>>[i].val] = <<>>
            OBVIOUS
        <3> QED
            BY <3>1, FlattenNone DEF Values
    <2>2. KeysKept(<<>>)
        BY DEF KeysKept
    <2>3. s \o <<>> = s /\ Values(s) \o <<>> = Values(s)
        BY <1>0
    <2>4. Values(s \o <<>>) = Values(s) \o Values(<<>>)
        BY <2>1, <2>3
    <2>5. KeysKept(s \o <<>>) <=> KeysKept(s) /\ KeysKept(<<>>)
        BY <2>2, <2>3
    <2>6. <<>> \in Seq(ChunkRecord)
        OBVIOUS
    <2> QED
        BY <2>4, <2>5, <2>6
<1>2. ASSUME NEW u \in S, NEW x \in ChunkRecord PROVE Append(u, x) \in S
    <2>0. /\ u \in Seq(ChunkRecord) /\ Values(s \o u) = Values(s) \o Values(u)
          /\ KeysKept(s \o u) <=> KeysKept(s) /\ KeysKept(u)
        OBVIOUS
    <2>1. s \o Append(u, x) = Append(s \o u, x) /\ s \o u \in Seq(ChunkRecord) /\ Append(u, x) \in Seq(ChunkRecord)
        BY <2>0
    <2>2. Values(Append(s \o u, x)) = Values(s \o u) \o x.val /\ (KeysKept(Append(s \o u, x)) <=> KeysKept(s \o u) /\ KeyKept(x))
        BY <2>1, ValuesAppend
    <2>3. Values(Append(u, x)) = Values(u) \o x.val /\ (KeysKept(Append(u, x)) <=> KeysKept(u) /\ KeyKept(x))
        BY <2>0, ValuesAppend
    <2>4. (Values(s) \o Values(u)) \o x.val = Values(s) \o (Values(u) \o x.val)
        <3>1. Values(s) \in Seq(Element) /\ Values(u) \in Seq(Element) /\ x.val \in Seq(Element)
            BY <1>0, <2>0 DEF ChunkRecord
        <3> QED
            BY <3>1, ThreeParts
    <2> QED
        BY <2>0, <2>1, <2>2, <2>3, <2>4
<1> HIDE DEF S
<1>3. t \in S
    BY <1>1, <1>2, SequenceInduction
<1> QED
    BY <1>0, <1>3 DEF S

\* The last of a sequence after the others.
LEMMA FrontAndLast ==
    ASSUME NEW T, NEW s \in Seq(T), s # <<>>
    PROVE  Front(s) \in Seq(T) /\ Last(s) \in T /\ s = Append(Front(s), Last(s))
<1>1. Len(s) \in Nat /\ Len(s) > 0
    OBVIOUS
<1>2. Front(s) = SubSeq(s, 1, Len(s) - 1) /\ Last(s) = s[Len(s)]
    BY DEF Front, Last
<1>3. Front(s) \in Seq(T) /\ Len(Front(s)) = Len(s) - 1 /\ \A i \in 1 .. Len(s) - 1 : Front(s)[i] = s[i]
    <2>1. Len(s) - 1 \in Nat /\ Len(s) - 1 <= Len(s)
        BY <1>1
    <2>2. \A i \in 1 .. Len(s) - 1 : s[i] \in T
        BY <1>1
    <2>3. Front(s) = [i \in 1 .. Len(s) - 1 |-> s[i]]
        BY <1>1, <1>2, <2>1
    <2> QED
        BY <2>1, <2>2, <2>3
<1>4. Last(s) \in T
    BY <1>1, <1>2
<1>5. s = Append(Front(s), Last(s))
    <2> DEFINE t == Append(Front(s), Last(s))
    <2>1. t \in Seq(T) /\ Len(t) = Len(s) /\ \A i \in 1 .. Len(s) : t[i] = IF i <= Len(s) - 1 THEN Front(s)[i] ELSE Last(s)
        BY <1>1, <1>3, <1>4
    <2> HIDE DEF t
    <2>2. \A i \in 1 .. Len(s) : s[i] = t[i]
        BY <1>1, <1>2, <1>3, <2>1
    <2>3. s = t
        BY <2>1, <2>2, SameElements
    <2> QED
        BY <2>3 DEF t
<1> QED
    BY <1>3, <1>4, <1>5

\* One more pair: its bytes come after the others, and under its key.
LEMMA UnchunkOne ==
    ASSUME NEW infos \in Seq(ChunkRecord), NEW kv \in ChunkRecord
    PROVE  /\ Unchunk(infos, kv) \in Seq(ChunkRecord)
           /\ Values(Unchunk(infos, kv)) = Values(infos) \o kv.val
           /\ KeysKept(infos) /\ KeyKept(kv) => KeysKept(Unchunk(infos, kv))
<1>1. CASE infos # <<>> /\ Last(infos).key = kv.key
    <2> DEFINE front == Front(infos)
               last == Last(infos)
               more == [last EXCEPT !.val = @ \o kv.val]
    <2>1. front \in Seq(ChunkRecord) /\ last \in ChunkRecord /\ infos = Append(front, last)
        BY <1>1, FrontAndLast
    <2>a. last.val \in Seq(Element) /\ kv.val \in Seq(Element) /\ last.val \o kv.val \in Seq(Element)
        <3>1. last.val \in Seq(Element) /\ kv.val \in Seq(Element)
            BY <2>1 DEF ChunkRecord
        <3> QED
            BY <3>1
    <2>2. more \in ChunkRecord /\ more.val = last.val \o kv.val /\ more.key = kv.key /\ last.key = kv.key
          /\ last.val \in Seq(Element) /\ kv.val \in Seq(Element)
        BY <1>1, <2>1, <2>a DEF ChunkRecord
    <2>3. Unchunk(infos, kv) = Append(front, more)
        BY <1>1 DEF Unchunk
    <2>4. KeyKept(last) /\ KeyKept(kv) => KeyKept(more)
        <3> HIDE DEF more, last
        <3> SUFFICES ASSUME KeyKept(last), KeyKept(kv), NEW j \in DOMAIN (last.val \o kv.val)
                     PROVE  (last.val \o kv.val)[j].key = kv.key
            BY <2>2 DEF KeyKept
        <3>1. CASE j <= Len(last.val)
            BY <2>2, <3>1 DEF KeyKept
        <3>2. CASE ~(j <= Len(last.val))
            <4>1. j - Len(last.val) \in DOMAIN kv.val /\ (last.val \o kv.val)[j] = kv.val[j - Len(last.val)]
                BY <2>2, <3>2, InSecond
            <4> QED
                BY <4>1 DEF KeyKept
        <3> QED
            BY <3>1, <3>2
    <2> HIDE DEF front, last, more
    <2>5. Values(Append(front, more)) = Values(front) \o more.val /\ Values(front) \in Seq(Element)
          /\ (KeysKept(Append(front, more)) <=> KeysKept(front) /\ KeyKept(more))
        BY <2>1, <2>2, ValuesAppend
    <2>6. Values(infos) = Values(front) \o last.val
          /\ (KeysKept(infos) <=> KeysKept(front) /\ KeyKept(last))
        BY <2>1, ValuesAppend
    <2>7. (Values(front) \o last.val) \o kv.val = Values(front) \o (last.val \o kv.val)
        BY <2>2, <2>5, ThreeParts
    <2>8. Append(front, more) \in Seq(ChunkRecord)
        BY <2>1, <2>2
    <2> QED
        BY <2>2, <2>3, <2>4, <2>5, <2>6, <2>7, <2>8
<1>2. CASE ~(infos # <<>> /\ Last(infos).key = kv.key)
    <2>1. Unchunk(infos, kv) = Append(infos, kv)
        BY <1>2 DEF Unchunk
    <2> QED
        BY <2>1, ValuesAppend
<1> QED
    BY <1>1, <1>2

\* The pairs of a message, one more each time.
LEMMA UnchunkedBeginnings ==
    ASSUME NEW kvs \in Seq(ChunkRecord)
    PROVE  \E f \in [0 .. Len(kvs) -> Seq(ChunkRecord)] :
               f[0] = <<>> /\ \A i \in 1 .. Len(kvs) : f[i] = Unchunk(f[i - 1], kvs[i])
<1> DEFINE n == Len(kvs)
           Step == [p \in Seq(ChunkRecord) \X (1 .. n) |-> Unchunk(p[1], kvs[p[2]])]
<1>1. n \in Nat /\ <<>> \in Seq(ChunkRecord)
    OBVIOUS
<1>2. ASSUME NEW x \in Seq(ChunkRecord), NEW i \in 1 .. n
      PROVE  Unchunk(x, kvs[i]) \in Seq(ChunkRecord)
    <2>1. kvs[i] \in ChunkRecord
        OBVIOUS
    <2> QED
        BY <2>1, UnchunkOne
<1>3. Step \in [Seq(ChunkRecord) \X (1 .. n) -> Seq(ChunkRecord)]
    BY <1>2
<1>4. \A x \in Seq(ChunkRecord), i \in 1 .. n : Step[<<x, i>>] = Unchunk(x, kvs[i])
    OBVIOUS
<1> HIDE DEF n, Step
<1>5. PICK f \in [0 .. n -> Seq(ChunkRecord)] : f[0] = <<>> /\ \A i \in 1 .. n : f[i] = Step[<<f[i - 1], i>>]
    <2>1. Recurrence(Seq(ChunkRecord), n, <<>>, Step)
        BY <1>1, <1>3 DEF Recurrence
    <2> QED
        BY <2>1, Recursion
<1>6. \A i \in 1 .. n : f[i] = Unchunk(f[i - 1], kvs[i])
    <2> SUFFICES ASSUME NEW i \in 1 .. n PROVE f[i] = Unchunk(f[i - 1], kvs[i])
        OBVIOUS
    <2>1. i - 1 \in 0 .. n
        BY <1>1
    <2>2. f[i - 1] \in Seq(ChunkRecord)
        BY <2>1
    <2> QED
        BY <1>4, <1>5, <2>2
<1> QED
    BY <1>5, <1>6 DEF n

\* Unchunked is the last of them.
LEMMA UnchunkedIs ==
    ASSUME NEW kvs \in Seq(ChunkRecord), NEW f \in [0 .. Len(kvs) -> Seq(ChunkRecord)],
           f[0] = <<>>, \A i \in 1 .. Len(kvs) : f[i] = Unchunk(f[i - 1], kvs[i])
    PROVE  Unchunked(kvs) = f[Len(kvs)] /\ Unchunked(kvs) \in Seq(ChunkRecord)
<1> DEFINE n == Len(kvs)
           h == CHOOSE g : g = [i \in 0 .. Len(kvs) |-> IF i = 0 THEN <<>> ELSE Unchunk(g[i - 1], kvs[i])]
<1>0. n \in Nat
    OBVIOUS
<1>1. Unchunked(kvs) = h[n]
    BY DEF Unchunked
<1>2. f = [i \in 0 .. Len(kvs) |-> IF i = 0 THEN <<>> ELSE Unchunk(f[i - 1], kvs[i])]
    <2>1. \A i \in 0 .. n : f[i] = IF i = 0 THEN <<>> ELSE Unchunk(f[i - 1], kvs[i])
        <3> TAKE i \in 0 .. n
        <3>1. i = 0 \/ (i \in 1 .. n /\ i # 0)
            BY <1>0
        <3> QED
            BY <3>1
    <2>2. f = [i \in 0 .. n |-> f[i]]
        OBVIOUS
    <2> QED
        BY <2>1, <2>2
<1>3. h = [i \in 0 .. Len(kvs) |-> IF i = 0 THEN <<>> ELSE Unchunk(h[i - 1], kvs[i])]
    BY <1>2
<1> HIDE DEF h
<1> DEFINE N == {m \in Nat : m <= n => h[m] = f[m]}
<1>4. 0 \in N
    <2>1. 0 \in 0 .. n
        BY <1>0
    <2> QED
        BY <1>3, <2>1
<1>5. ASSUME NEW m \in N PROVE m + 1 \in N
    <2> SUFFICES ASSUME m + 1 <= n PROVE h[m + 1] = f[m + 1]
        OBVIOUS
    <2> DEFINE i == m + 1
    <2>1. m \in Nat /\ i \in 1 .. n /\ i \in 0 .. n /\ i # 0 /\ i - 1 = m /\ m <= n
        BY <1>0
    <2>2. h[m] = f[m]
        BY <2>1
    <2> HIDE DEF i
    <2>3. h[i] = Unchunk(h[i - 1], kvs[i])
        BY <1>3, <2>1
    <2>4. f[i] = Unchunk(f[i - 1], kvs[i])
        BY <2>1
    <2>5. h[i] = f[i]
        BY <2>1, <2>2, <2>3, <2>4
    <2> QED
        BY <2>5 DEF i
<1>6. N \in SUBSET Nat
    OBVIOUS
<1> HIDE DEF N
<1>7. N = Nat
    BY <1>4, <1>5, <1>6, NumberInduction
<1>8. h[n] = f[n] /\ n \in 0 .. n
    BY <1>0, <1>7 DEF N
<1> QED
    BY <1>1, <1>8

\* A sequence with one more is not empty.
LEMMA OneMore ==
    ASSUME NEW T, NEW s \in Seq(T), NEW x \in T
    PROVE  Append(s, x) \in Seq(T) /\ Append(s, x) # <<>>
<1>1. Append(s, x) \in Seq(T) /\ Len(Append(s, x)) = Len(s) + 1 /\ Len(s) \in Nat
    OBVIOUS
<1>2. Len(Append(s, x)) # 0
    BY <1>1
<1> QED
    BY <1>1, <1>2

\* A message with one more pair.
LEMMA UnchunkedAppend ==
    ASSUME NEW kvs \in Seq(ChunkRecord), NEW kv \in ChunkRecord
    PROVE  /\ Unchunked(Append(kvs, kv)) = Unchunk(Unchunked(kvs), kv)
           /\ Unchunked(kvs) \in Seq(ChunkRecord) /\ Unchunked(Append(kvs, kv)) \in Seq(ChunkRecord)
           /\ Unchunked(<<>>) = <<>>
<1> DEFINE n == Len(kvs)
           more == Append(kvs, kv)
<1>0. n \in Nat /\ more \in Seq(ChunkRecord) /\ Len(more) = n + 1
      /\ more[n + 1] = kv /\ \A i \in 1 .. n : more[i] = kvs[i]
    OBVIOUS
<1>1. PICK f \in [0 .. n -> Seq(ChunkRecord)] : f[0] = <<>> /\ \A i \in 1 .. n : f[i] = Unchunk(f[i - 1], kvs[i])
    BY UnchunkedBeginnings
<1>2. Unchunked(kvs) = f[n] /\ Unchunked(kvs) \in Seq(ChunkRecord)
    BY <1>1, UnchunkedIs
<1> DEFINE y == Unchunk(f[n], kv)
           g == [i \in 0 .. n + 1 |-> IF i <= n THEN f[i] ELSE y]
<1>3. y \in Seq(ChunkRecord)
    <2>1. f[n] \in Seq(ChunkRecord)
        BY <1>0
    <2> QED
        BY <2>1, UnchunkOne
<1> HIDE DEF y, more
<1>4. g \in [0 .. Len(more) -> Seq(ChunkRecord)] /\ g[0] = <<>> /\ g[Len(more)] = y
    BY <1>0, <1>1, <1>3
<1>5. \A i \in 1 .. Len(more) : g[i] = Unchunk(g[i - 1], more[i])
    <2> SUFFICES ASSUME NEW i \in 1 .. n + 1 PROVE g[i] = Unchunk(g[i - 1], more[i])
        BY <1>0
    <2>1. CASE i <= n
        <3>1. i \in 1 .. n /\ i - 1 <= n /\ i - 1 \in 0 .. n + 1 /\ i \in 0 .. n + 1
            BY <1>0, <2>1
        <3>2. g[i] = f[i] /\ g[i - 1] = f[i - 1]
            BY <2>1, <3>1
        <3> QED
            BY <1>0, <1>1, <3>1, <3>2
    <2>2. CASE i = n + 1
        <3>1. i - 1 = n /\ n \in 0 .. n + 1 /\ i \in 0 .. n + 1 /\ ~(i <= n) /\ n <= n
            BY <1>0, <2>2
        <3>2. g[i] = y /\ g[i - 1] = f[n]
            BY <3>1
        <3> QED
            BY <1>0, <2>2, <3>2 DEF y
    <2>3. i <= n \/ i = n + 1
        BY <1>0
    <2> QED
        BY <2>1, <2>2, <2>3
<1> HIDE DEF g
<1>6. Unchunked(more) = y /\ Unchunked(more) \in Seq(ChunkRecord)
    BY <1>0, <1>4, <1>5, UnchunkedIs
<1>7. Unchunked(<<>>) = <<>>
    <2> DEFINE z == [i \in 0 .. 0 |-> <<>>]
               none == <<>>
    <2>1. /\ none \in Seq(ChunkRecord) /\ Len(none) = 0
          /\ z \in [0 .. Len(none) -> Seq(ChunkRecord)] /\ z[0] = <<>> /\ z[Len(none)] = <<>>
        OBVIOUS
    <2>2. \A i \in 1 .. Len(none) : z[i] = Unchunk(z[i - 1], none[i])
        BY <2>1
    <2> HIDE DEF z, none
    <2>3. Unchunked(none) = z[Len(none)]
        BY <2>1, <2>2, UnchunkedIs
    <2> QED
        BY <2>1, <2>3 DEF none
<1> QED
    BY <1>2, <1>6, <1>7 DEF y, more

\* What the owner service got, with one message more.
LEMMA OneMoreMessage ==
    ASSUME NEW ms \in Seq(Seq(ChunkRecord)), NEW m \in Seq(ChunkRecord)
    PROVE  /\ InfosOf(ms) \in Seq(ChunkRecord)
           /\ InfosOf(Append(ms, m)) = InfosOf(ms) \o Unchunked(m)
<1> DEFINE all(t) == [i \in DOMAIN t |-> Unchunked(t[i])]
<1>1. \A y \in Seq(ChunkRecord) : Unchunked(y) \in Seq(ChunkRecord)
    <2> SUFFICES ASSUME NEW y \in Seq(ChunkRecord) PROVE Unchunked(y) \in Seq(ChunkRecord)
        OBVIOUS
    <2>1. PICK f \in [0 .. Len(y) -> Seq(ChunkRecord)] : f[0] = <<>> /\ \A i \in 1 .. Len(y) : f[i] = Unchunk(f[i - 1], y[i])
        BY UnchunkedBeginnings
    <2> QED
        BY <2>1, UnchunkedIs
<1>2. all(ms) \in Seq(Seq(ChunkRecord))
    <2>1. all(ms) = [i \in 1 .. Len(ms) |-> Unchunked(ms[i])] /\ Len(ms) \in Nat
        OBVIOUS
    <2>2. \A i \in 1 .. Len(ms) : Unchunked(ms[i]) \in Seq(ChunkRecord)
        BY <1>1
    <2> HIDE DEF all
    <2> QED
        BY <2>1, <2>2
<1> DEFINE t == Append(ms, m)
           u == Append(all(ms), Unchunked(m))
<1>3. t \in Seq(Seq(ChunkRecord)) /\ Len(t) = Len(ms) + 1 /\ \A i \in 1 .. Len(t) : t[i] = IF i <= Len(ms) THEN ms[i] ELSE m
    OBVIOUS
<1>4. /\ u \in Seq(Seq(ChunkRecord)) /\ Len(u) = Len(ms) + 1
      /\ \A i \in 1 .. Len(u) : u[i] = IF i <= Len(ms) THEN Unchunked(ms[i]) ELSE Unchunked(m)
    BY <1>1, <1>2
<1>5. all(t) \in Seq(Seq(ChunkRecord)) /\ Len(all(t)) = Len(t) /\ \A i \in 1 .. Len(t) : all(t)[i] = Unchunked(t[i])
    <2>1. all(t) = [i \in 1 .. Len(t) |-> Unchunked(t[i])] /\ Len(t) \in Nat
        BY <1>3
    <2>2. \A i \in 1 .. Len(t) : Unchunked(t[i]) \in Seq(ChunkRecord)
        <3> TAKE i \in 1 .. Len(t)
        <3>1. t[i] \in Seq(ChunkRecord)
            BY <1>3
        <3> QED
            BY <1>1, <3>1
    <2> HIDE DEF all
    <2> QED
        BY <2>1, <2>2
<1>6. InfosOf(ms) = FlattenSeq(all(ms)) /\ InfosOf(t) = FlattenSeq(all(t))
    BY DEF InfosOf
<1>7. all(t) = u
    <2> HIDE DEF all, t, u
    <2>1. \A i \in 1 .. Len(all(t)) : all(t)[i] = u[i]
        <3> TAKE i \in 1 .. Len(all(t))
        <3>1. i \in 1 .. Len(t) /\ i \in 1 .. Len(u)
            BY <1>3, <1>4, <1>5
        <3>2. all(t)[i] = Unchunked(t[i])
            BY <1>5, <3>1
        <3> QED
            BY <1>3, <1>4, <3>1, <3>2
    <2> QED
        BY <1>3, <1>4, <1>5, <2>1, SameElements
<1>8. FlattenSeq(u) = FlattenSeq(all(ms)) \o Unchunked(m) /\ FlattenSeq(all(ms)) \in Seq(ChunkRecord)
    <2> HIDE DEF all, t
    <2> QED
        BY <1>1, <1>2, FlattenAppend
<1> HIDE DEF all, u, t
<1> QED
    BY <1>6, <1>7, <1>8 DEF t

\* A chunk added to the last message: its bytes come after the others.
LEMMA AddedChunk ==
    ASSUME NEW ms \in Seq(Seq(ChunkRecord)), ms # <<>>, NEW chunk \in ChunkRecord,
           KeyKept(chunk), KeysKept(InfosOf(ms)),
           NEW ns, ns = Append(Front(ms), Append(Last(ms), chunk))
    PROVE  /\ ns \in Seq(Seq(ChunkRecord)) /\ ns # <<>>
           /\ Values(InfosOf(ns)) = Values(InfosOf(ms)) \o chunk.val
           /\ KeysKept(InfosOf(ns))
<1> DEFINE front == Front(ms)
           last == Last(ms)
<1>1. front \in Seq(Seq(ChunkRecord)) /\ last \in Seq(ChunkRecord) /\ ms = Append(front, last)
    BY FrontAndLast
<1>2. ns = Append(front, Append(last, chunk)) /\ Append(last, chunk) \in Seq(ChunkRecord)
    BY <1>1
<1> HIDE DEF front, last
<1> DEFINE old == Unchunked(last)
           new1 == Unchunk(old, chunk)
           before == InfosOf(front)
<1>3. old \in Seq(ChunkRecord) /\ Unchunked(Append(last, chunk)) = new1 /\ new1 \in Seq(ChunkRecord)
    BY <1>1, UnchunkedAppend
<1>4. /\ Values(new1) = Values(old) \o chunk.val /\ (KeysKept(old) => KeysKept(new1))
      /\ Values(old) \in Seq(Element) /\ chunk.val \in Seq(Element)
    <2>1. chunk.val \in Seq(Element)
        BY DEF ChunkRecord
    <2> HIDE DEF old
    <2> QED
        BY <1>3, <2>1, UnchunkOne, ValuesConcat
<1>5. before \in Seq(ChunkRecord) /\ InfosOf(ms) = before \o old /\ InfosOf(ns) = before \o new1
    BY <1>1, <1>2, <1>3, OneMoreMessage
<1> HIDE DEF old, new1, before
<1>6. /\ Values(before \o old) = Values(before) \o Values(old) /\ (KeysKept(before \o old) <=> KeysKept(before) /\ KeysKept(old))
      /\ Values(before) \in Seq(Element)
    BY <1>3, <1>5, ValuesConcat
<1>7. Values(before \o new1) = Values(before) \o Values(new1) /\ (KeysKept(before \o new1) <=> KeysKept(before) /\ KeysKept(new1))
    BY <1>3, <1>5, ValuesConcat
<1>8. (Values(before) \o Values(old)) \o chunk.val = Values(before) \o (Values(old) \o chunk.val)
    BY <1>4, <1>6, ThreeParts
<1>9. ns \in Seq(Seq(ChunkRecord)) /\ ns # <<>>
    <2>1. \A x \in Seq(ChunkRecord) : Append(front, x) \in Seq(Seq(ChunkRecord)) /\ Append(front, x) # <<>>
        BY <1>1, OneMore
    <2> QED
        BY <1>2, <2>1
<1> QED
    BY <1>4, <1>5, <1>6, <1>7, <1>8, <1>9

\* A new message has nothing yet.
LEMMA EmptyMessage ==
    ASSUME NEW ms \in Seq(Seq(ChunkRecord))
    PROVE  /\ Append(ms, <<>>) \in Seq(Seq(ChunkRecord)) /\ Append(ms, <<>>) # <<>>
           /\ InfosOf(Append(ms, <<>>)) = InfosOf(ms)
<1>1. <<>> \in Seq(ChunkRecord) /\ Unchunked(<<>>) = <<>>
    <2>1. <<>> \in Seq(ChunkRecord)
        OBVIOUS
    <2>2. PICK x : x \in ChunkRecord
        BY AChunk
    <2> QED
        BY <2>1, <2>2, UnchunkedAppend
<1>2. InfosOf(Append(ms, <<>>)) = InfosOf(ms) \o <<>> /\ InfosOf(ms) \in Seq(ChunkRecord)
    BY <1>1, OneMoreMessage
<1>3. /\ Append(ms, <<>>) \in Seq(Seq(ChunkRecord)) /\ Append(ms, <<>>) # <<>>
      /\ InfosOf(ms) \o <<>> = InfosOf(ms)
    <2>1. \A x \in Seq(ChunkRecord) : Append(ms, x) \in Seq(Seq(ChunkRecord)) /\ Append(ms, x) # <<>>
        BY OneMore
    <2>2. InfosOf(ms) \o <<>> = InfosOf(ms)
        BY <1>2
    <2> QED
        BY <1>1, <2>1, <2>2
<1> QED
    BY <1>1, <1>2, <1>3

------------------------------------------------------------------------------
(* The invariant of what is written, which follows it from the writer, in the *)
(* pipes on their way in the order they were made, to the messages.           *)

\* The writes in a script before the next service info, from the operation at i on, have
\* the key k.
KeyHolds(s, i, k) ==
    \A j \in i .. Len(s) :
        s[j][1] = "write" /\ (\A m \in i .. j - 1 : s[m][1] # "next") => s[j][2] = k

\* What the writer has left to write.
ScriptKeys ==
    \A i \in 1 .. Len(script) :
        /\ script[i][1] = "write" => script[i][3] # 0
        /\ script[i][1] = "next" => KeyHolds(script, i + 1, script[i][2])

\* Types of what was read, and that each value is of the key it was unchunked under.
DataOK ==
    /\ messages \in Seq(Seq(ChunkRecord)) /\ messages # <<>>
    /\ part \in Seq(Element) /\ key \in Key
    /\ KeysKept(InfosOf(messages))

\* The pipes are read in the order they were made, and what is written to is the last.
Newest == IF a = "set" THEN new ELSE w
OrderOK ==
    /\ r <= Newest
    /\ \A i \in 1 .. Len(readers) : r < readers[i] /\ readers[i] <= Newest
    /\ \A i, j \in 1 .. Len(readers) : i < j => readers[i] < readers[j]
    /\ a \in InNextPipe => w < new

\* A pipe has a key and then bytes under it, of which the reader has some.
Whole(buf) ==
    buf # <<>> => buf[1].n = 0 /\ \A i \in 2 .. Len(buf) : buf[i].n # 0 /\ buf[i].key = buf[1].key
Under(k, buf) == \A i \in 1 .. Len(buf) : buf[i].n # 0 /\ buf[i].key = k

KeyRead == b # "key" \/ part # <<>>
KeyNow == IF b = "key" THEN part[1].key ELSE key

ContentOK ==
    /\ b = "key" => ask + Len(part) = 1 /\ (part # <<>> => part[1].n = 0)
    /\ b = "value" => Under(key, part)
    /\ r # None => IF KeyRead THEN Under(KeyNow, pipes[r].buf) ELSE Whole(pipes[r].buf)
    /\ \A i \in 1 .. Len(readers) : Whole(pipes[readers[i]].buf)
    /\ waiting /\ ~pipes[r].tok => pipes[r].buf = <<>>

\* The writer has written a key to the pipe, and which.
Begun(p) == (p = r /\ KeyRead) \/ pipes[p].buf # <<>>
KeyOf(p) == IF p = r /\ KeyRead THEN KeyNow ELSE pipes[p].buf[1].key

\* It has written one to the pipe that it goes on writing to.
WriterOK ==
    /\ a \in InNextPipe => ~Begun(new)
    /\ a = "key" => ~Begun(w) /\ pipes[w].closed = "no"
    /\ a \in {"ready", "written"} /\ w # None /\ pipes[w].closed = "no" =>
          Begun(w) /\ KeyHolds(script, IF a = "written" THEN 2 ELSE 1, KeyOf(w))

\* Every byte that was written is in a message, with the reader or in a pipe.
InEach(ps, sent) == [i \in DOMAIN sent |-> Bytes(ps[sent[i]].buf)]
InPipes(ps, sent) == FlattenSeq(InEach(ps, sent))
InHand == IF b = "value" THEN part ELSE <<>>
InFirst == IF r = None THEN <<>> ELSE Bytes(pipes[r].buf)
Got == Values(InfosOf(messages))
AllThere == Bytes(written) = Got \o (InHand \o (InFirst \o InPipes(pipes, readers)))

\* In the round all of this holds; after it, what was read stays as it is.
Ongoing == outcome = ""
Flow == OrderOK /\ ContentOK /\ WriterOK /\ AllThere
FlowInv ==
    /\ DataOK /\ ScriptKeys
    /\ Ongoing => Flow
    /\ \E rest \in Seq(Element) : Bytes(written) = Got \o rest
    /\ outcome = "eof" => Bytes(written) = Got

------------------------------------------------------------------------------
(* What is in the pipes.                                                      *)

\* Bytes are elements.
LEMMA BytesType == \A s \in Seq(Element) : Bytes(s) \in Seq(Element)
<1> SUFFICES ASSUME NEW s \in Seq(Element) PROVE Bytes(s) \in Seq(Element)
    OBVIOUS
<1>1. BreakWritten \in Element
    BY DEF Element
<1> QED
    BY <1>1, BytesAppend

\* The bytes in each of the pipes.
LEMMA BytesOfEach ==
    ASSUME NEW ps \in Seq(PipeRecord), NEW sent \in Seq(1 .. Len(ps))
    PROVE  /\ InEach(ps, sent) \in Seq(Seq(Element)) /\ Len(InEach(ps, sent)) = Len(sent)
           /\ \A i \in 1 .. Len(sent) : InEach(ps, sent)[i] = Bytes(ps[sent[i]].buf)
           /\ InPipes(ps, sent) = FlattenSeq(InEach(ps, sent)) /\ InPipes(ps, sent) \in Seq(Element)
<1> DEFINE each == InEach(ps, sent)
<1>1. \A i \in 1 .. Len(sent) : Bytes(ps[sent[i]].buf) \in Seq(Element)
    <2> TAKE i \in 1 .. Len(sent)
    <2>1. ps[sent[i]].buf \in Seq(Element)
        <3>1. sent[i] \in 1 .. Len(ps)
            OBVIOUS
        <3>2. ps[sent[i]] \in PipeRecord
            BY <3>1
        <3> QED
            BY <3>2 DEF PipeRecord
    <2> QED
        BY <2>1, BytesType
<1>2. each = [i \in 1 .. Len(sent) |-> Bytes(ps[sent[i]].buf)] /\ Len(sent) \in Nat
    BY DEF InEach
<1> HIDE DEF each
<1>3. each \in Seq(Seq(Element)) /\ Len(each) = Len(sent) /\ \A i \in 1 .. Len(sent) : each[i] = Bytes(ps[sent[i]].buf)
    <2>1. \A i \in 1 .. Len(sent) : each[i] = Bytes(ps[sent[i]].buf)
        BY <1>2
    <2>2. each = [i \in 1 .. Len(sent) |-> each[i]]
        BY <1>2
    <2> DEFINE n == Len(sent)
    <2>3. n \in Nat /\ each = [i \in 1 .. n |-> each[i]] /\ \A i \in 1 .. n : each[i] \in Seq(Element)
        BY <1>1, <1>2, <2>1, <2>2
    <2>4. each \in Seq(Seq(Element)) /\ Len(each) = n
        <3> HIDE DEF n
        <3> QED
            BY <2>3
    <2> QED
        BY <2>1, <2>4
<1>4. InPipes(ps, sent) = FlattenSeq(each)
    BY DEF InPipes, each
<1>5. FlattenSeq(each) \in Seq(Element)
    <2>1. <<>> \in Seq(Element)
        OBVIOUS
    <2> QED
        BY <1>3, <2>1, FlattenAppend
<1> QED
    BY <1>3, <1>4, <1>5 DEF each

\* It does not change where none of these pipes does.
LEMMA SameInPipes ==
    ASSUME NEW ps \in Seq(PipeRecord), NEW qs, NEW sent \in Seq(1 .. Len(ps)),
           \A i \in 1 .. Len(sent) : qs[sent[i]].buf = ps[sent[i]].buf
    PROVE  InPipes(qs, sent) = InPipes(ps, sent)
<1>1. DOMAIN sent = 1 .. Len(sent)
    OBVIOUS
<1>2. [i \in DOMAIN sent |-> Bytes(qs[sent[i]].buf)] = [i \in DOMAIN sent |-> Bytes(ps[sent[i]].buf)]
    BY <1>1
<1> QED
    BY <1>2 DEF InPipes, InEach

\* A pipe is sent.
LEMMA InOneMore ==
    ASSUME NEW ps \in Seq(PipeRecord), NEW sent \in Seq(1 .. Len(ps)), NEW p \in 1 .. Len(ps)
    PROVE  InPipes(ps, Append(sent, p)) = InPipes(ps, sent) \o Bytes(ps[p].buf)
<1> DEFINE more == Append(sent, p)
           each == InEach(ps, sent)
           all == InEach(ps, more)
           last == Bytes(ps[p].buf)
<1>1. more \in Seq(1 .. Len(ps)) /\ Len(more) = Len(sent) + 1 /\ Len(sent) \in Nat
      /\ \A i \in 1 .. Len(more) : more[i] = IF i <= Len(sent) THEN sent[i] ELSE p
    OBVIOUS
<1>2. last \in Seq(Element)
    <2>1. ps[p] \in PipeRecord
        OBVIOUS
    <2>2. ps[p].buf \in Seq(Element)
        BY <2>1 DEF PipeRecord
    <2> QED
        BY <2>2, BytesType
<1>3. /\ each \in Seq(Seq(Element)) /\ Len(each) = Len(sent)
      /\ \A i \in 1 .. Len(sent) : each[i] = Bytes(ps[sent[i]].buf)
      /\ InPipes(ps, sent) = FlattenSeq(each)
    BY BytesOfEach
<1>4. /\ all \in Seq(Seq(Element)) /\ Len(all) = Len(more)
      /\ \A i \in 1 .. Len(more) : all[i] = Bytes(ps[more[i]].buf)
      /\ InPipes(ps, more) = FlattenSeq(all)
    <2> HIDE DEF more
    <2> QED
        BY <1>1, BytesOfEach
<1> HIDE DEF more, each, all, last
<1>5. all = Append(each, last)
    <2> DEFINE u == Append(each, last)
    <2>1. u \in Seq(Seq(Element)) /\ Len(u) = Len(sent) + 1
          /\ \A i \in 1 .. Len(u) : u[i] = IF i <= Len(sent) THEN each[i] ELSE last
        BY <1>2, <1>3
    <2> HIDE DEF u
    <2>2. \A i \in 1 .. Len(all) : all[i] = u[i]
        <3> TAKE i \in 1 .. Len(all)
        <3>1. i \in 1 .. Len(more) /\ i \in 1 .. Len(u) /\ (i <= Len(sent) => i \in 1 .. Len(sent))
            BY <1>1, <1>4, <2>1
        <3>2. all[i] = Bytes(ps[more[i]].buf) /\ more[i] = IF i <= Len(sent) THEN sent[i] ELSE p
            BY <1>1, <1>4, <3>1
        <3>3. u[i] = IF i <= Len(sent) THEN each[i] ELSE last
            BY <2>1, <3>1
        <3>4. CASE i <= Len(sent)
            BY <1>3, <3>1, <3>2, <3>3, <3>4
        <3>5. CASE ~(i <= Len(sent))
            BY <3>2, <3>3, <3>5 DEF last
        <3> QED
            BY <3>4, <3>5
    <2>3. all = u
        <3>1. all \in Seq(Seq(Element)) /\ u \in Seq(Seq(Element)) /\ Len(all) = Len(u)
            BY <1>1, <1>4, <2>1
        <3> QED
            BY <2>2, <3>1, SameElements
    <2> QED
        BY <2>3 DEF u
<1>6. FlattenSeq(Append(each, last)) = FlattenSeq(each) \o last
    BY <1>2, <1>3, FlattenAppend
<1> QED
    BY <1>3, <1>4, <1>5, <1>6 DEF more, last

\* A sequence with one before it.
LEMMA OneBefore ==
    ASSUME NEW T, NEW s \in Seq(T), NEW x \in T
    PROVE  /\ <<x>> \o s \in Seq(T) /\ Len(<<x>> \o s) = Len(s) + 1
           /\ \A i \in 1 .. Len(<<x>> \o s) : (<<x>> \o s)[i] = IF i = 1 THEN x ELSE s[i - 1]
<1>1. <<x>> \in Seq(T) /\ Len(<<x>>) = 1 /\ <<x>>[1] = x /\ Len(s) \in Nat
    OBVIOUS
<1>2. <<x>> \o s \in Seq(T) /\ Len(<<x>> \o s) = Len(s) + 1
    OBVIOUS
<1>3. ASSUME NEW i \in 1 .. Len(s) + 1 PROVE (<<x>> \o s)[i] = IF i = 1 THEN x ELSE s[i - 1]
    <2>1. CASE i = 1
        BY <1>1, <2>1
    <2>2. CASE i # 1
        BY <1>1, <2>2
    <2> QED
        BY <2>1, <2>2
<1> QED
    BY <1>2, <1>3

\* The first pipe that was sent is taken.
LEMMA InTheOthers ==
    ASSUME NEW ps \in Seq(PipeRecord), NEW sent \in Seq(1 .. Len(ps)), sent # <<>>
    PROVE  InPipes(ps, sent) = Bytes(ps[Head(sent)].buf) \o InPipes(ps, Tail(sent))
<1> DEFINE rest == Tail(sent)
           p == Head(sent)
           each == InEach(ps, sent)
           all == InEach(ps, rest)
           first == Bytes(ps[p].buf)
<1>1. /\ rest \in Seq(1 .. Len(ps)) /\ Len(rest) = Len(sent) - 1 /\ Len(sent) \in Nat /\ Len(rest) \in Nat
      /\ p \in 1 .. Len(ps) /\ p = sent[1] /\ \A i \in 1 .. Len(rest) : rest[i] = sent[i + 1]
    OBVIOUS
<1>2. first \in Seq(Element)
    <2>1. ps[p] \in PipeRecord
        BY <1>1
    <2>2. ps[p].buf \in Seq(Element)
        BY <2>1 DEF PipeRecord
    <2> QED
        BY <2>2, BytesType
<1>3. /\ each \in Seq(Seq(Element)) /\ Len(each) = Len(sent)
      /\ \A i \in 1 .. Len(sent) : each[i] = Bytes(ps[sent[i]].buf)
      /\ InPipes(ps, sent) = FlattenSeq(each)
    BY BytesOfEach
<1>4. /\ all \in Seq(Seq(Element)) /\ Len(all) = Len(rest)
      /\ \A i \in 1 .. Len(rest) : all[i] = Bytes(ps[rest[i]].buf)
      /\ InPipes(ps, rest) = FlattenSeq(all)
    <2> HIDE DEF rest
    <2> QED
        BY <1>1, BytesOfEach
<1> HIDE DEF rest, p, each, all
<1>5. each = <<first>> \o all
    <2> DEFINE u == <<first>> \o all
    <2>1. u \in Seq(Seq(Element)) /\ Len(u) = Len(sent)
          /\ \A i \in 1 .. Len(u) : u[i] = IF i = 1 THEN first ELSE all[i - 1]
        <3> HIDE DEF first
        <3>1. /\ u \in Seq(Seq(Element)) /\ Len(u) = Len(all) + 1
              /\ \A i \in 1 .. Len(u) : u[i] = IF i = 1 THEN first ELSE all[i - 1]
            BY <1>2, <1>4, OneBefore
        <3> QED
            BY <1>1, <1>4, <3>1
    <2> HIDE DEF u
    <2>2. \A i \in 1 .. Len(each) : each[i] = u[i]
        <3> TAKE i \in 1 .. Len(each)
        <3>1. i \in 1 .. Len(sent) /\ i \in 1 .. Len(u) /\ each[i] = Bytes(ps[sent[i]].buf)
            BY <1>1, <1>3, <2>1
        <3>2. CASE i = 1
            BY <1>1, <2>1, <3>1, <3>2
        <3>3. CASE i # 1
            <4>1. i - 1 \in 1 .. Len(rest) /\ (i - 1) + 1 = i
                BY <1>1, <3>1, <3>3
            <4>2. rest[i - 1] = sent[i]
                BY <1>1, <4>1
            <4> QED
                BY <1>4, <2>1, <3>1, <3>3, <4>1, <4>2
        <3> QED
            BY <3>2, <3>3
    <2>3. each = u
        BY <1>3, <2>1, <2>2, SameElements
    <2> QED
        BY <2>3 DEF u
<1> HIDE DEF first
<1>6. FlattenSeq(<<first>> \o all) = first \o FlattenSeq(all)
    <2>1. <<>> \in Seq(Seq(Element)) /\ Append(<<>>, first) = <<first>> /\ <<first>> \in Seq(Seq(Element))
        BY <1>2
    <2>2. FlattenSeq(<<first>>) = <<>> \o first
        BY <1>2, <2>1, FlattenAppend, FlattenNone
    <2>3. FlattenSeq(<<first>> \o all) = FlattenSeq(<<first>>) \o FlattenSeq(all)
        BY <1>4, <2>1, FlattenConcat
    <2>4. <<>> \o first = first
        BY <1>2
    <2> QED
        BY <2>2, <2>3, <2>4
<1> QED
    BY <1>3, <1>4, <1>5, <1>6 DEF p, rest, first

\* Nothing was sent.
LEMMA InNoPipe == \A ps : InPipes(ps, <<>>) = <<>>
<1>1. \A ps : [i \in DOMAIN <<>> |-> Bytes(ps[<<>>[i]].buf)] = <<>>
    OBVIOUS
<1> QED
    BY <1>1, FlattenNone DEF InPipes, InEach

------------------------------------------------------------------------------
(* What the reader does with it.                                              *)

\* The pipes there are in a round.
LEMMA InRoundFacts ==
    ASSUME PipeInv, Ongoing
    PROVE  /\ pipes \in Seq(PipeRecord) /\ Len(pipes) \in Nat /\ readers \in Seq(1 .. Len(pipes))
           /\ w \in 0 .. Len(pipes) /\ new \in 0 .. Len(pipes) /\ r \in 0 .. Len(pipes)
           /\ r # None => r \in 1 .. Len(pipes)
           /\ w # None => w \in 1 .. Len(pipes)
           /\ a \in InNextPipe => new \in 1 .. Len(pipes)
           /\ \A p \in 1 .. Len(pipes) : pipes[p].buf \in Seq(Element)
           /\ written \in Seq(Element) /\ b \in {"read", "key", "value"} /\ ask \in Nat /\ cap \in Nat
<1>1. TypeOK /\ StagesOK /\ ScriptOK
    BY DEF PipeInv
<1>2. /\ pipes \in Seq(PipeRecord) /\ readers \in Seq(1 .. Len(pipes)) /\ written \in Seq(Element)
      /\ w \in 0 .. Len(pipes) /\ new \in 0 .. Len(pipes) /\ r \in 0 .. Len(pipes) /\ ask \in Nat /\ cap \in Nat
    BY <1>1, Zenon DEF TypeOK
<1>3. /\ r # None => r \in 1 .. Len(pipes)
      /\ w # None => w \in 1 .. Len(pipes)
      /\ a \in InNextPipe => new \in 1 .. Len(pipes)
    BY <1>1, PipeNames DEF ScriptOK
<1>4. b \in {"read", "key", "value"}
    BY <1>1 DEF StagesOK, Ongoing
<1>5. \A p \in 1 .. Len(pipes) : pipes[p].buf \in Seq(Element)
    <2> TAKE p \in 1 .. Len(pipes)
    <2>1. pipes[p] \in PipeRecord
        BY <1>2
    <2> QED
        BY <2>1 DEF PipeRecord
<1>6. Len(pipes) \in Nat
    BY <1>2
<1> QED
    BY <1>2, <1>3, <1>4, <1>5, <1>6

\* What the owner service got are bytes.
LEMMA BytesGot ==
    ASSUME NEW ms \in Seq(Seq(ChunkRecord))
    PROVE  InfosOf(ms) \in Seq(ChunkRecord) /\ Values(InfosOf(ms)) \in Seq(Element)
<1>1. <<>> \in Seq(ChunkRecord)
    OBVIOUS
<1>2. InfosOf(ms) \in Seq(ChunkRecord)
    BY <1>1, OneMoreMessage
<1> QED
    BY <1>2, ValuesConcat

\* Bytes that are with the reader or in the pipes.
LEMMA BytesOnTheWay ==
    ASSUME PipeInv, Ongoing, part \in Seq(Element)
    PROVE  InHand \in Seq(Element) /\ InFirst \in Seq(Element) /\ InPipes(pipes, readers) \in Seq(Element)
<1>1. InHand \in Seq(Element)
    BY DEF InHand
<1>2. InFirst \in Seq(Element)
    <2>1. r # None => pipes[r].buf \in Seq(Element)
        BY InRoundFacts
    <2>2. <<>> \in Seq(Element)
        OBVIOUS
    <2> QED
        BY <2>1, <2>2, BytesType DEF InFirst
<1>3. InPipes(pipes, readers) \in Seq(Element)
    BY InRoundFacts, BytesOfEach
<1> QED
    BY <1>1, <1>2, <1>3

\* So it is enough, as long as the round goes on, to account for each byte.
LEMMA FlowGoesOn ==
    ASSUME PipeInv', Ongoing', DataOK', ScriptKeys', Flow'
    PROVE  FlowInv'
<1>1. /\ pipes' \in Seq(PipeRecord) /\ readers' \in Seq(1 .. Len(pipes')) /\ r' \in 0 .. Len(pipes')
      /\ messages' \in Seq(Seq(ChunkRecord)) /\ part' \in Seq(Element)
    <2>1. TypeOK'
        BY DEF PipeInv
    <2> QED
        BY <2>1, Zenon DEF TypeOK, DataOK
<1>2. Got' \in Seq(Element)
    BY <1>1, BytesGot DEF Got
<1>3. InHand' \in Seq(Element)
    <2>1. <<>> \in Seq(Element)
        OBVIOUS
    <2> QED
        BY <1>1, <2>1 DEF InHand
<1>4. InFirst' \in Seq(Element)
    <2>1. <<>> \in Seq(Element)
        OBVIOUS
    <2>2. r' # None => r' \in 1 .. Len(pipes')
        BY <1>1 DEF None
    <2>3. r' # None => pipes'[r'] \in PipeRecord
        BY <1>1, <2>2
    <2>4. r' # None => pipes'[r'].buf \in Seq(Element)
        BY <2>3 DEF PipeRecord
    <2> QED
        BY <2>1, <2>4, BytesType DEF InFirst
<1>5. InPipes(pipes', readers') \in Seq(Element)
    BY <1>1, BytesOfEach
<1>6. Bytes(written') = Got' \o (InHand' \o (InFirst' \o InPipes(pipes', readers')))
    BY DEF Flow, AllThere
<1>7. InHand' \o (InFirst' \o InPipes(pipes', readers')) \in Seq(Element)
    BY <1>3, <1>4, <1>5
<1>8. \E rest \in Seq(Element) : Bytes(written') = Got' \o rest
    BY <1>6, <1>7
<1>9. ~(outcome' = "eof")
    BY Zenon DEF Ongoing
<1> QED
    BY <1>8, <1>9 DEF FlowInv

\* A step of the reader that keeps what it has to, of what the writer looks at.
LEMMA ReaderFlows ==
    ASSUME PipeInv, PipeInv', FlowInv, Ongoing, Ongoing', Reading,
           \A p \in 1 .. Len(pipes) : pipes'[p].closed = pipes[p].closed,
           \A p \in 1 .. Len(pipes) : pipes[p].closed = "no" =>
               (Begun(p)' <=> Begun(p)) /\ (Begun(p) => KeyOf(p)' = KeyOf(p)),
           DataOK', OrderOK', ContentOK', AllThere'
    PROVE  FlowInv'
<1>1. WriterOK /\ ScriptKeys
    BY DEF FlowInv, Flow
<1>2. UNCHANGED <<script, a, new, w>>
    BY DEF Reading, writerVars
<1>3. ScriptKeys'
    BY <1>1, <1>2 DEF ScriptKeys
<1>4. /\ w # None => w \in 1 .. Len(pipes)
      /\ a \in InNextPipe => new \in 1 .. Len(pipes) /\ pipes[new].closed = "no"
    <2>1. SentOK
        BY DEF PipeInv
    <2> QED
        BY <2>1, InRoundFacts DEF SentOK, Ongoing
<1>5. a = "key" => w # None
    BY DEF PipeInv, ScriptOK
<1>6. WriterOK'
    <2>1. a \in InNextPipe => ~Begun(new)'
        BY <1>1, <1>2, <1>4 DEF WriterOK
    <2>2. a = "key" => ~Begun(w)' /\ pipes'[w].closed = "no"
        BY <1>1, <1>2, <1>4, <1>5 DEF WriterOK
    <2>3. ASSUME a \in {"ready", "written"}, w # None, pipes'[w].closed = "no"
          PROVE  Begun(w)' /\ KeyHolds(script, IF a = "written" THEN 2 ELSE 1, KeyOf(w))'
        <3>1. Begun(w) /\ KeyHolds(script, IF a = "written" THEN 2 ELSE 1, KeyOf(w)) /\ pipes[w].closed = "no"
            BY <1>1, <1>4, <2>3 DEF WriterOK
        <3>2. Begun(w)' /\ KeyOf(w)' = KeyOf(w)
            BY <1>2, <1>4, <2>3, <3>1
        <3> QED
            BY <1>2, <3>1, <3>2
    <2> QED
        BY <1>2, <2>1, <2>2, <2>3 DEF WriterOK
<1>7. Flow'
    BY <1>6 DEF Flow
<1> QED
    BY <1>3, <1>7, FlowGoesOn

\* The reader waits, or is woken up, or asks for more of the pipe it reads from.
LEMMA WaitingFlows ==
    ASSUME PipeInv, PipeInv', FlowInv, Ongoing, ReadMore \/ ReadWaits \/ Woken
    PROVE  FlowInv'
<1>1. /\ Reading /\ Ongoing' /\ UNCHANGED <<readers, r, key, messages, written, a, w, new>>
      /\ Len(pipes') = Len(pipes)
      /\ \A p \in 1 .. Len(pipes) : pipes'[p].buf = pipes[p].buf /\ pipes'[p].closed = pipes[p].closed
    <2>1. CASE ReadMore \/ ReadWaits
        BY <2>1 DEF ReadMore, ReadWaits, Reads, Reading, writerVars, Ongoing
    <2>2. CASE Woken
        <3>1. pipes \in Seq(PipeRecord)
            BY InRoundFacts
        <3>2. pipes' = [pipes EXCEPT ![r].tok = FALSE]
            BY <2>2 DEF Woken
        <3>3. \A p \in 1 .. Len(pipes) : pipes[p] \in PipeRecord
            BY <3>1
        <3>4. Len(pipes') = Len(pipes)
            BY <3>1, <3>2
        <3>5. \A p \in 1 .. Len(pipes) : pipes'[p].buf = pipes[p].buf /\ pipes'[p].closed = pipes[p].closed
            BY <3>1, <3>2, <3>3 DEF PipeRecord
        <3> QED
            BY <2>2, <3>4, <3>5 DEF Woken, Reads, Reading, writerVars, Ongoing
    <2> QED
        BY <2>1, <2>2
<1>2. /\ KeyRead' <=> KeyRead
      /\ KeyRead => KeyNow' = KeyNow
      /\ InHand' = InHand
      /\ b' = "key" => b = "key" /\ UNCHANGED <<ask, part>>
      /\ b' = "value" => (b = "value" /\ part' = part) \/ part' = <<>>
      /\ part' = part \/ part' = <<>>
    BY DEF ReadMore, ReadWaits, Woken, B, KeyRead, KeyNow, InHand
<1>3. DataOK /\ Flow
    BY DEF FlowInv
<1>4. DataOK'
    <2>1. <<>> \in Seq(Element)
        OBVIOUS
    <2> QED
        BY <1>1, <1>2, <1>3, <2>1 DEF DataOK
<1>5. OrderOK'
    BY <1>1, <1>3 DEF Flow, OrderOK, Newest
<1>6. readers \in Seq(1 .. Len(pipes)) /\ pipes \in Seq(PipeRecord) /\ (r # None => r \in 1 .. Len(pipes))
      /\ (waiting \/ waiting' => r # None)
    <2>1. StagesOK /\ StagesOK'
        BY DEF PipeInv
    <2>2. waiting \/ waiting' => r # None
        BY <1>1, <2>1 DEF StagesOK
    <2> QED
        BY <2>2, InRoundFacts
<1>7. ContentOK'
    <2>1. ContentOK
        BY <1>3 DEF Flow
    <2>2. b' = "key" => ask' + Len(part') = 1 /\ (part' # <<>> => part'[1].n = 0)
        BY <1>2, <2>1 DEF ContentOK
    <2>3. b' = "value" => Under(key', part')
        BY <1>1, <1>2, <2>1 DEF ContentOK, Under
    <2>4. r' # None => IF KeyRead' THEN Under(KeyNow', pipes'[r'].buf) ELSE Whole(pipes'[r'].buf)
        BY <1>1, <1>2, <1>6, <2>1 DEF ContentOK
    <2>5. \A i \in 1 .. Len(readers') : Whole(pipes'[readers'[i]].buf)
        <3>1. \A i \in 1 .. Len(readers) : readers[i] \in 1 .. Len(pipes)
            BY <1>6
        <3> QED
            BY <1>1, <2>1, <3>1 DEF ContentOK
    <2>6. waiting' /\ ~pipes'[r'].tok => pipes'[r'].buf = <<>>
        <3>1. CASE ReadMore
            BY <1>1, <2>1, <3>1 DEF ContentOK, ReadMore
        <3>2. CASE ReadWaits
            BY <1>1, <3>2 DEF ReadWaits, P
        <3>3. CASE Woken
            BY <3>3 DEF Woken
        <3> QED
            BY <3>1, <3>2, <3>3
    <2> QED
        BY <2>2, <2>3, <2>4, <2>5, <2>6 DEF ContentOK
<1>8. \A p \in 1 .. Len(pipes) : (Begun(p)' <=> Begun(p)) /\ (Begun(p) => KeyOf(p)' = KeyOf(p))
    BY <1>1, <1>2 DEF Begun, KeyOf
<1>9. AllThere'
    <2>1. InFirst' = InFirst
        BY <1>1, <1>6 DEF InFirst
    <2>2. InPipes(pipes', readers) = InPipes(pipes, readers)
        <3>1. \A i \in 1 .. Len(readers) : readers[i] \in 1 .. Len(pipes)
            BY <1>6
        <3> QED
            BY <1>1, <1>6, <3>1, SameInPipes
    <2>3. Got' = Got
        BY <1>1 DEF Got
    <2> QED
        BY <1>1, <1>2, <1>3, <2>1, <2>2, <2>3 DEF Flow, AllThere
<1> QED
    BY <1>1, <1>4, <1>5, <1>7, <1>8, <1>9, ReaderFlows

\* The reader takes the next pipe.
LEMMA TakeReaderFlows ==
    ASSUME PipeInv, PipeInv', FlowInv, Ongoing, TakeReader
    PROVE  FlowInv'
<1>1. /\ Reading /\ Ongoing' /\ UNCHANGED <<pipes, key, messages, written, waiting, a, w, new>>
      /\ r = None /\ readers # <<>> /\ r' = Head(readers) /\ readers' = Tail(readers)
      /\ b = "read" /\ b' = "key" /\ ask' = 1 /\ part' = <<>>
    BY DEF TakeReader, B, Reads, Reading, writerVars, Ongoing
<1>2. DataOK /\ Flow
    BY DEF FlowInv
<1>3. DataOK'
    <2>1. <<>> \in Seq(Element)
        OBVIOUS
    <2> QED
        BY <1>1, <1>2, <2>1 DEF DataOK
<1>4. /\ readers \in Seq(1 .. Len(pipes)) /\ pipes \in Seq(PipeRecord) /\ r' = readers[1]
      /\ Len(readers') = Len(readers) - 1 /\ Len(readers) \in Nat /\ Len(readers) > 0
      /\ \A i \in 1 .. Len(readers') : readers'[i] = readers[i + 1] /\ i + 1 \in 1 .. Len(readers)
      /\ 1 \in 1 .. Len(readers) /\ r' \in 1 .. Len(pipes) /\ r' # None
    <2>1. readers \in Seq(1 .. Len(pipes)) /\ pipes \in Seq(PipeRecord) /\ Len(pipes) \in Nat
        BY InRoundFacts
    <2>2. Len(readers) \in Nat /\ Len(readers) > 0 /\ readers' \in Seq(1 .. Len(pipes))
        BY <1>1, <2>1
    <2> QED
        BY <1>1, <2>1, <2>2 DEF None
<1>5. OrderOK'
    <2>1. OrderOK /\ Newest' = Newest
        BY <1>1, <1>2 DEF Flow, Newest
    <2>2. r' <= Newest'
        BY <1>4, <2>1 DEF OrderOK
    <2>3. \A i \in 1 .. Len(readers') : r' < readers'[i] /\ readers'[i] <= Newest'
        <3> TAKE i \in 1 .. Len(readers')
        <3>1. readers'[i] = readers[i + 1] /\ i + 1 \in 1 .. Len(readers) /\ 1 < i + 1
            BY <1>4
        <3> QED
            BY <1>4, <2>1, <3>1 DEF OrderOK
    <2>4. \A i, j \in 1 .. Len(readers') : i < j => readers'[i] < readers'[j]
        <3> SUFFICES ASSUME NEW i \in 1 .. Len(readers'), NEW j \in 1 .. Len(readers'), i < j
                     PROVE  readers'[i] < readers'[j]
            OBVIOUS
        <3>1. i + 1 < j + 1
            BY <1>4
        <3> QED
            BY <1>4, <2>1, <3>1 DEF OrderOK
    <2> QED
        BY <1>1, <2>1, <2>2, <2>3, <2>4 DEF OrderOK
<1>6. KeyRead /\ ~KeyRead'
    BY <1>1 DEF KeyRead
<1>7. ContentOK'
    <2>1. ContentOK
        BY <1>2 DEF Flow
    <2>2. Whole(pipes[r'].buf) /\ \A i \in 1 .. Len(readers') : Whole(pipes[readers'[i]].buf)
        BY <1>4, <2>1 DEF ContentOK
    <2>3. ~waiting
        BY <1>1 DEF PipeInv, StagesOK
    <2>4. Len(part') = 0
        BY <1>1
    <2> QED
        BY <1>1, <1>6, <2>2, <2>3, <2>4 DEF ContentOK
<1>8. \A p \in 1 .. Len(pipes) : (Begun(p)' <=> Begun(p)) /\ (Begun(p) => KeyOf(p)' = KeyOf(p))
    <2> TAKE p \in 1 .. Len(pipes)
    <2>1. p # r
        BY <1>1, <1>4 DEF None
    <2> QED
        BY <1>1, <1>6, <2>1 DEF Begun, KeyOf
<1>9. AllThere'
    <2>1. InHand = <<>> /\ InHand' = <<>> /\ InFirst = <<>> /\ InFirst' = Bytes(pipes[r'].buf) /\ Got' = Got
        BY <1>1, <1>4 DEF InHand, InFirst, Got
    <2>2. InPipes(pipes, readers) = Bytes(pipes[r'].buf) \o InPipes(pipes, readers')
        BY <1>1, <1>4, InTheOthers
    <2>3. InPipes(pipes, readers) \in Seq(Element)
        BY <1>4, BytesOfEach
    <2>4. <<>> \o InPipes(pipes, readers) = InPipes(pipes, readers)
        BY <2>3
    <2> QED
        BY <1>1, <1>2, <2>1, <2>2, <2>4 DEF Flow, AllThere
<1>10. \A p \in 1 .. Len(pipes) : pipes'[p].closed = pipes[p].closed
    BY <1>1
<1> QED
    BY <1>1, <1>3, <1>5, <1>7, <1>8, <1>9, <1>10, ReaderFlows

\* The reader has the key.
LEMMA HaveKeyFlows ==
    ASSUME PipeInv, PipeInv', FlowInv, Ongoing, HaveKey
    PROVE  FlowInv'
<1>1. /\ Reading /\ Ongoing' /\ UNCHANGED <<pipes, readers, r, part, ask, messages, written, waiting, a, w, new>>
      /\ b = "key" /\ b' = "read" /\ ask = 0 /\ key' = part[1].key
    BY DEF HaveKey, B, Reads, Reading, writerVars, Ongoing
<1>2. DataOK /\ Flow
    BY DEF FlowInv
<1>3. part \in Seq(Element) /\ Len(part) = 1 /\ part # <<>> /\ part[1] \in Element
    <2>1. part \in Seq(Element) /\ ask + Len(part) = 1
        BY <1>1, <1>2 DEF DataOK, Flow, ContentOK
    <2>2. Len(part) = 1
        BY <1>1, <2>1
    <2> QED
        BY <2>1, <2>2
<1>4. DataOK'
    <2>1. key' \in Key
        BY <1>1, <1>3 DEF Key
    <2> QED
        BY <1>1, <1>2, <2>1 DEF DataOK
<1>5. OrderOK'
    BY <1>1, <1>2 DEF Flow, OrderOK, Newest
<1>6. KeyRead /\ KeyRead' /\ KeyNow' = KeyNow
    BY <1>1, <1>3 DEF KeyRead, KeyNow
<1>7. ContentOK'
    BY <1>1, <1>2, <1>6 DEF Flow, ContentOK
<1>8. \A p \in 1 .. Len(pipes) : (Begun(p)' <=> Begun(p)) /\ (Begun(p) => KeyOf(p)' = KeyOf(p))
    BY <1>1, <1>6 DEF Begun, KeyOf
<1>9. AllThere'
    BY <1>1, <1>2 DEF Flow, AllThere, InHand, InFirst, Got
<1>10. \A p \in 1 .. Len(pipes) : pipes'[p].closed = pipes[p].closed
    BY <1>1
<1> QED
    BY <1>1, <1>4, <1>5, <1>7, <1>8, <1>9, <1>10, ReaderFlows

\* A chunk is read.
LEMMA AddFlows ==
    ASSUME DataOK, Under(key, part), Add(Chunk), UNCHANGED <<part, key>>
    PROVE  DataOK' /\ Got' = Got \o part
<1>1. /\ messages \in Seq(Seq(ChunkRecord)) /\ messages # <<>> /\ KeysKept(InfosOf(messages))
      /\ part \in Seq(Element) /\ key \in Key
    BY DEF DataOK
<1>2. Chunk \in ChunkRecord /\ Chunk.val = part /\ Chunk.key = key
    BY <1>1 DEF Chunk, ChunkRecord
<1>3. KeyKept(Chunk)
    BY <1>1, <1>2 DEF KeyKept, Under
<1>4. messages' = Append(Front(messages), Append(Last(messages), Chunk))
    BY DEF Add
<1>5. /\ messages' \in Seq(Seq(ChunkRecord)) /\ messages' # <<>>
      /\ Values(InfosOf(messages')) = Values(InfosOf(messages)) \o Chunk.val
      /\ KeysKept(InfosOf(messages'))
    BY <1>1, <1>2, <1>3, <1>4, AddedChunk
<1> QED
    BY <1>1, <1>2, <1>5 DEF DataOK, Got

\* The reader has a chunk.
LEMMA HaveChunkFlows ==
    ASSUME PipeInv, PipeInv', FlowInv, Ongoing, HaveChunk
    PROVE  FlowInv'
<1>1. /\ Reading /\ Ongoing' /\ UNCHANGED <<pipes, readers, r, part, ask, key, written, waiting, a, w, new>>
      /\ b = "value" /\ b' = "read" /\ Add(Chunk)
    BY DEF HaveChunk, B, Reads, Reading, writerVars, Ongoing
<1>2. DataOK /\ Flow /\ part \in Seq(Element)
    BY DEF FlowInv, DataOK
<1>3. DataOK' /\ Got' = Got \o part
    <2>1. Under(key, part)
        BY <1>1, <1>2 DEF Flow, ContentOK
    <2> QED
        BY <1>1, <1>2, <2>1, AddFlows
<1>4. OrderOK'
    BY <1>1, <1>2 DEF Flow, OrderOK, Newest
<1>5. KeyRead /\ KeyRead' /\ KeyNow' = KeyNow
    BY <1>1 DEF KeyRead, KeyNow
<1>6. ContentOK'
    BY <1>1, <1>2, <1>5 DEF Flow, ContentOK
<1>7. \A p \in 1 .. Len(pipes) : (Begun(p)' <=> Begun(p)) /\ (Begun(p) => KeyOf(p)' = KeyOf(p))
    BY <1>1, <1>5 DEF Begun, KeyOf
<1>8. AllThere'
    <2>1. InHand = part /\ InHand' = <<>> /\ InFirst' = InFirst
        BY <1>1 DEF InHand, InFirst
    <2>2. InFirst \in Seq(Element) /\ InPipes(pipes, readers) \in Seq(Element)
        BY <1>2, BytesOnTheWay
    <2> DEFINE others == InFirst \o InPipes(pipes, readers)
    <2>3. others \in Seq(Element) /\ Got \in Seq(Element)
        BY <1>2, <2>2, BytesGot DEF DataOK, Got
    <2>4. Bytes(written) = Got \o (part \o others)
        BY <1>2, <2>1 DEF Flow, AllThere
    <2>5. others' = others
        BY <1>1, <2>1
    <2> HIDE DEF others
    <2>6. (Got \o part) \o others = Got \o (part \o others) /\ <<>> \o others = others
        BY <1>2, <2>3, ThreeParts
    <2>7. Bytes(written') = Got' \o (InHand' \o others')
        BY <1>1, <1>3, <2>1, <2>4, <2>5, <2>6
    <2> QED
        BY <2>7 DEF AllThere, others
<1>9. \A p \in 1 .. Len(pipes) : pipes'[p].closed = pipes[p].closed
    BY <1>1
<1> QED
    BY <1>1, <1>3, <1>4, <1>6, <1>7, <1>8, <1>9, ReaderFlows

\* The message is full.
LEMMA MessageFullFlows ==
    ASSUME PipeInv, PipeInv', FlowInv, Ongoing, MessageFull
    PROVE  FlowInv'
<1>1. /\ Reading /\ Ongoing' /\ UNCHANGED <<pipes, readers, r, b, part, ask, key, written, waiting, a, w, new>>
      /\ messages' = Append(messages, <<>>)
    BY DEF MessageFull, B, Reads, Reading, writerVars, Ongoing
<1>2. DataOK /\ Flow
    BY DEF FlowInv
<1>3. DataOK' /\ Got' = Got
    BY <1>1, <1>2, EmptyMessage DEF DataOK, Got
<1>4. OrderOK'
    BY <1>1, <1>2 DEF Flow, OrderOK, Newest
<1>5. (KeyRead' <=> KeyRead) /\ KeyNow' = KeyNow
    BY <1>1 DEF KeyRead, KeyNow
<1>6. ContentOK'
    BY <1>1, <1>2, <1>5 DEF Flow, ContentOK
<1>7. \A p \in 1 .. Len(pipes) : (Begun(p)' <=> Begun(p)) /\ (Begun(p) => KeyOf(p)' = KeyOf(p))
    BY <1>1, <1>5 DEF Begun, KeyOf
<1>8. AllThere'
    BY <1>1, <1>2, <1>3 DEF Flow, AllThere, InHand, InFirst
<1>9. \A p \in 1 .. Len(pipes) : pipes'[p].closed = pipes[p].closed
    BY <1>1
<1> QED
    BY <1>1, <1>3, <1>4, <1>6, <1>7, <1>8, <1>9, ReaderFlows

\* The reader leaves a pipe that came to its end.
LEMMA LeavingFlows ==
    ASSUME PipeInv, PipeInv', FlowInv, Ongoing, Ongoing', EndOfInfo \/ Break
    PROVE  FlowInv'
<1>1. /\ Reading /\ UNCHANGED <<pipes, readers, part, ask, key, written, a, w, new>>
      /\ b \in {"key", "value"} /\ waiting /\ ~waiting' /\ ~pipes[r].tok /\ pipes[r].closed = "EOF"
      /\ r' = None /\ b' = "read"
      /\ IF b = "value" /\ part # <<>> THEN Add(Chunk)
         ELSE messages' = messages \/ messages' = Append(messages, <<>>)
    <2>1. CASE EndOfInfo
        BY <2>1 DEF EndOfInfo, B, P, Reads, Reading, writerVars
    <2>2. CASE Break
        <3>1. ~Ends("early")
            BY Zenon DEF Ends, Ongoing
        <3> QED
            BY <2>2, <3>1 DEF Break, B, P, Reads, Reading, writerVars
    <2> QED
        BY <2>1, <2>2
<1>2. DataOK /\ Flow /\ part \in Seq(Element)
    BY DEF FlowInv, DataOK
<1>3. Got \in Seq(Element)
    BY <1>2, BytesGot DEF DataOK, Got
<1>4. DataOK' /\ Got' = Got \o InHand
    <2>1. CASE b = "value" /\ part # <<>>
        <3>1. Under(key, part) /\ InHand = part
            BY <1>2, <2>1 DEF Flow, ContentOK, InHand
        <3> QED
            BY <1>1, <1>2, <2>1, <3>1, AddFlows
    <2>2. CASE ~(b = "value" /\ part # <<>>)
        <3>1. InHand = <<>> /\ Got \o <<>> = Got
            BY <1>3, <2>2 DEF InHand
        <3>2. CASE messages' = messages
            BY <1>1, <1>2, <3>1, <3>2 DEF DataOK, Got
        <3>3. CASE messages' = Append(messages, <<>>)
            BY <1>1, <1>2, <3>1, <3>3, EmptyMessage DEF DataOK, Got
        <3> QED
            BY <1>1, <2>2, <3>2, <3>3
    <2> QED
        BY <2>1, <2>2
<1>5. /\ r # None /\ r \in 1 .. Len(pipes) /\ readers \in Seq(1 .. Len(pipes)) /\ Len(pipes) \in Nat
      /\ w \in 0 .. Len(pipes) /\ new \in 0 .. Len(pipes) /\ pipes[r].buf = <<>>
    <2>1. r # None
        BY <1>1 DEF PipeInv, StagesOK
    <2>2. pipes[r].buf = <<>>
        BY <1>1, <1>2 DEF Flow, ContentOK
    <2> QED
        BY <2>1, <2>2, InRoundFacts
<1>6. OrderOK'
    <2>1. OrderOK
        BY <1>2 DEF Flow
    <2>2. r' = 0 /\ Newest' = Newest /\ 0 <= Newest
        BY <1>1, <1>5 DEF Newest, None
    <2>3. \A i \in 1 .. Len(readers) : 0 < readers[i]
        BY <1>5
    <2> QED
        BY <1>1, <2>1, <2>2, <2>3 DEF OrderOK
<1>7. ContentOK'
    <2>1. \A i \in 1 .. Len(readers') : Whole(pipes'[readers'[i]].buf)
        BY <1>1, <1>2 DEF Flow, ContentOK
    <2> QED
        BY <1>1, <2>1 DEF ContentOK
<1>8. \A p \in 1 .. Len(pipes) : pipes[p].closed = "no" =>
          (Begun(p)' <=> Begun(p)) /\ (Begun(p) => KeyOf(p)' = KeyOf(p))
    <2> SUFFICES ASSUME NEW p \in 1 .. Len(pipes), pipes[p].closed = "no"
                 PROVE  (Begun(p)' <=> Begun(p)) /\ (Begun(p) => KeyOf(p)' = KeyOf(p))
        OBVIOUS
    <2>1. p # r /\ p # r'
        BY <1>1, <1>5 DEF None
    <2> QED
        BY <1>1, <2>1 DEF Begun, KeyOf
<1>9. AllThere'
    <2> DEFINE sent == InPipes(pipes, readers)
    <2>1. InFirst = <<>> /\ InFirst' = <<>> /\ InHand' = <<>>
        BY <1>1, <1>5, BytesOne DEF InFirst, InHand
    <2>2. sent \in Seq(Element) /\ InHand \in Seq(Element)
        BY <1>2, BytesOnTheWay
    <2>3. Bytes(written) = Got \o (InHand \o (InFirst \o sent))
        BY <1>2 DEF Flow, AllThere
    <2>4. sent' = sent
        BY <1>1
    <2> HIDE DEF sent
    <2>5. <<>> \o sent = sent /\ (Got \o InHand) \o sent = Got \o (InHand \o sent)
        BY <1>3, <2>2, ThreeParts
    <2>6. Bytes(written') = Got' \o (InHand' \o (InFirst' \o sent'))
        BY <1>1, <1>4, <2>1, <2>3, <2>4, <2>5
    <2> QED
        BY <2>6 DEF AllThere, sent
<1>10. \A p \in 1 .. Len(pipes) : pipes'[p].closed = pipes[p].closed
    BY <1>1
<1> QED
    BY <1>1, <1>4, <1>6, <1>7, <1>8, <1>9, <1>10, ReaderFlows

\* The least of two positive numbers.
LEMMA LeastIsPositive ==
    ASSUME NEW m \in Nat \ {0}, NEW n \in Nat \ {0}
    PROVE  Min({m, n}) \in Nat /\ 1 <= Min({m, n}) /\ Min({m, n}) <= m /\ Min({m, n}) <= n
<1>1. \E x \in {m, n} : \A y \in {m, n} : x <= y
    <2>1. CASE m <= n
        BY <2>1
    <2>2. CASE n <= m
        BY <2>2
    <2> QED
        BY <2>1, <2>2
<1>2. Min({m, n}) \in {m, n} /\ \A y \in {m, n} : Min({m, n}) <= y
    BY <1>1 DEF Min
<1> QED
    BY <1>2

\* One sequence after another.
LEMMA BothParts ==
    ASSUME NEW T, NEW s \in Seq(T), NEW t \in Seq(T)
    PROVE  s \o t \in Seq(T) /\ Len(s \o t) = Len(s) + Len(t)
OBVIOUS

\* A sequence in two parts.
LEMMA SplitAt ==
    ASSUME NEW T, NEW s \in Seq(T), NEW n \in Nat, n <= Len(s)
    PROVE  LET s1 == SubSeq(s, 1, n)
               s2 == SubSeq(s, n + 1, Len(s))
           IN
           /\ s1 \in Seq(T) /\ Len(s1) = n /\ \A i \in 1 .. n : s1[i] = s[i]
           /\ s2 \in Seq(T) /\ Len(s2) = Len(s) - n /\ \A i \in 1 .. Len(s) - n : s2[i] = s[n + i]
           /\ s = s1 \o s2
<1> DEFINE s1 == SubSeq(s, 1, n)
           s2 == SubSeq(s, n + 1, Len(s))
<1>0. Len(s) \in Nat
    OBVIOUS
<1>1. s1 \in Seq(T) /\ Len(s1) = n /\ \A i \in 1 .. n : s1[i] = s[i]
    <2>1. s1 = [i \in 1 .. n |-> s[i]]
        BY <1>0
    <2>2. \A i \in 1 .. n : s[i] \in T
        BY <1>0
    <2> QED
        BY <2>1, <2>2
<1>2. s2 \in Seq(T) /\ Len(s2) = Len(s) - n /\ \A i \in 1 .. Len(s) - n : s2[i] = s[n + i]
    <2>1. s2 \in Seq(T) /\ Len(s2) = Len(s) - n
        BY <1>0
    <2>2. \A i \in 1 .. Len(s) - n : s2[i] = s[n + i]
        <3> TAKE i \in 1 .. Len(s) - n
        <3>1. s2[i] = s[(n + 1) + i - 1]
            BY <1>0
        <3>2. (n + 1) + i - 1 = n + i
            BY <1>0
        <3> QED
            BY <3>1, <3>2
    <2> QED
        BY <2>1, <2>2
<1> HIDE DEF s1, s2
<1>3. s = s1 \o s2
    <2>1. Len(s) \in Nat /\ Len(s1) \in Nat /\ Len(s2) \in Nat /\ Len(s1) = n
        BY <1>1, <1>2
    <2>2. s1 \o s2 \in Seq(T) /\ Len(s1 \o s2) = Len(s1) + Len(s2)
        BY <1>1, <1>2, BothParts
    <2>3. \A i \in 1 .. Len(s) : s[i] = (s1 \o s2)[i]
        <3> TAKE i \in 1 .. Len(s)
        <3>1. CASE i <= n
            <4>1. i \in 1 .. Len(s1) /\ i \in 1 .. n
                BY <2>1, <3>1
            <4>2. (s1 \o s2)[i] = s1[i]
                BY <1>1, <1>2, <4>1
            <4> QED
                BY <1>1, <4>1, <4>2
        <3>2. CASE ~(i <= n)
            <4>1. i - n \in 1 .. Len(s) - n /\ n + (i - n) = i
                BY <2>1, <3>2
            <4>2. i \in DOMAIN (s1 \o s2)
                <5>1. DOMAIN (s1 \o s2) = 1 .. Len(s1 \o s2)
                    BY <2>2
                <5>2. Len(s1 \o s2) = Len(s)
                    BY <1>2, <2>1, <2>2
                <5> QED
                    BY <5>1, <5>2
            <4>3. (s1 \o s2)[i] = s2[i - Len(s1)]
                BY <1>1, <1>2, <2>1, <3>2, <4>2, InSecond
            <4>4. s2[i - n] = s[n + (i - n)]
                BY <1>2, <4>1
            <4> QED
                BY <2>1, <4>1, <4>3, <4>4
        <3> QED
            BY <3>1, <3>2
    <2>4. Len(s1 \o s2) = Len(s)
        BY <1>2, <2>1, <2>2
    <2> QED
        BY <2>2, <2>3, <2>4, SameElements
<1> QED
    BY <1>1, <1>2, <1>3 DEF s1, s2

\* The reader reads bytes, the first of them the key.
LEMMA ReadBytesFlows ==
    ASSUME PipeInv, PipeInv', FlowInv, Ongoing, ReadBytes
    PROVE  FlowInv'
<1> DEFINE buf == pipes[r].buf
           n == Min({ask, Len(buf)})
           front == SubSeq(buf, 1, n)
           back == SubSeq(buf, n + 1, Len(buf))
<1>1. /\ Reading /\ Ongoing' /\ UNCHANGED <<b, readers, r, waiting, key, messages, written, a, w, new>>
      /\ b \in {"key", "value"} /\ ~waiting /\ buf # <<>> /\ ask > 0
      /\ part' = part \o front /\ ask' = ask - n
      /\ pipes' = [pipes EXCEPT ![r].buf = back]
    BY DEF ReadBytes, P, Reads, Reading, writerVars, Ongoing
<1>2. DataOK /\ Flow /\ part \in Seq(Element)
    BY DEF FlowInv, DataOK
<1>3. /\ r # None /\ r \in 1 .. Len(pipes) /\ pipes \in Seq(PipeRecord) /\ pipes[r] \in PipeRecord
      /\ buf \in Seq(Element) /\ readers \in Seq(1 .. Len(pipes)) /\ ask \in Nat /\ Len(pipes) \in Nat
    <2>1. r # None
        BY <1>1 DEF PipeInv, StagesOK
    <2>2. r \in 1 .. Len(pipes) /\ pipes \in Seq(PipeRecord) /\ readers \in Seq(1 .. Len(pipes)) /\ ask \in Nat
        BY <2>1, InRoundFacts
    <2>3. pipes[r] \in PipeRecord
        BY <2>2
    <2> QED
        BY <2>1, <2>2, <2>3, InRoundFacts
<1>4. n \in Nat /\ 1 <= n /\ n <= ask /\ n <= Len(buf) /\ Len(buf) \in Nat
    <2>1. ask \in Nat \ {0} /\ Len(buf) \in Nat \ {0}
        BY <1>1, <1>3
    <2> QED
        BY <2>1, LeastIsPositive
<1>5. /\ Len(pipes') = Len(pipes) /\ pipes'[r].buf = back
      /\ \A p \in 1 .. Len(pipes) : p # r => pipes'[p].buf = pipes[p].buf
      /\ \A p \in 1 .. Len(pipes) : pipes'[p].closed = pipes[p].closed
    <2> HIDE DEF back
    <2> DEFINE q == [pipes[r] EXCEPT !.buf = back]
    <2>1. pipes' = [pipes EXCEPT ![r] = q]
        BY <1>1
    <2>2. q.buf = back /\ q.closed = pipes[r].closed
        BY <1>3 DEF PipeRecord
    <2> HIDE DEF q
    <2> QED
        BY <1>3, <2>1, <2>2
<1> HIDE DEF n
<1>6. /\ front \in Seq(Element) /\ Len(front) = n /\ \A i \in 1 .. n : front[i] = buf[i]
      /\ back \in Seq(Element) /\ Len(back) = Len(buf) - n /\ \A i \in 1 .. Len(buf) - n : back[i] = buf[n + i]
      /\ buf = front \o back
    <2> HIDE DEF buf
    <2> QED
        BY <1>3, <1>4, SplitAt
<1> HIDE DEF buf, front, back
<1>7. \A i \in 1 .. Len(readers) : readers[i] \in 1 .. Len(pipes) /\ readers[i] # r
    <2>1. OrderOK /\ r \in Nat
        BY <1>2, <1>3 DEF Flow
    <2>2. \A i \in 1 .. Len(readers) : readers[i] \in 1 .. Len(pipes) /\ r < readers[i]
        BY <1>3, <2>1 DEF OrderOK
    <2> QED
        BY <1>3, <2>2
<1>8. DataOK'
    <2>1. part' \in Seq(Element)
        BY <1>1, <1>2, <1>6
    <2> QED
        BY <1>1, <1>2, <2>1 DEF DataOK
<1>9. OrderOK'
    BY <1>1, <1>2 DEF Flow, OrderOK, Newest
<1>10. InPipes(pipes', readers) = InPipes(pipes, readers)
    <2>1. \A i \in 1 .. Len(readers) : pipes'[readers[i]].buf = pipes[readers[i]].buf
        BY <1>5, <1>7
    <2> QED
        BY <1>3, <2>1, SameInPipes
<1>11. \A i \in 1 .. Len(readers') : Whole(pipes'[readers'[i]].buf)
    BY <1>1, <1>2, <1>5, <1>7 DEF Flow, ContentOK
<1>12. Got' = Got /\ InFirst = Bytes(buf) /\ InFirst' = Bytes(back)
    BY <1>1, <1>3, <1>5 DEF Got, InFirst, buf
<1>13. InPipes(pipes, readers) \in Seq(Element)
    BY <1>2, BytesOnTheWay
<1> DEFINE sent == InPipes(pipes, readers)
<1>14. Bytes(written) = Got \o (InHand \o (Bytes(buf) \o sent))
    BY <1>2, <1>12 DEF Flow, AllThere
<1>15. CASE b = "value"
    <2>1. Under(key, part) /\ Under(key, buf)
        BY <1>2, <1>3, <1>15 DEF Flow, ContentOK, KeyRead, KeyNow, buf
    <2>2. Under(key, front) /\ Under(key, back)
        <3>1. \A i \in 1 .. n : i \in 1 .. Len(buf)
            BY <1>4
        <3>2. \A i \in 1 .. Len(buf) - n : n + i \in 1 .. Len(buf)
            BY <1>4
        <3>3. Under(key, front)
            BY <1>6, <2>1, <3>1 DEF Under
        <3>4. Under(key, back)
            <4>1. \A i \in 1 .. Len(back) : back[i] = buf[n + i] /\ n + i \in 1 .. Len(buf)
                BY <1>6, <3>2
            <4> QED
                BY <2>1, <4>1 DEF Under
        <3> QED
            BY <3>3, <3>4
    <2>3. Under(key, part')
        <3>1. ASSUME NEW i \in 1 .. Len(part \o front)
              PROVE  (part \o front)[i].n # 0 /\ (part \o front)[i].key = key
            <4>0. i \in DOMAIN (part \o front)
                BY <1>2, <1>6
            <4>1. CASE i <= Len(part)
                BY <1>2, <1>6, <2>1, <4>1 DEF Under
            <4>2. CASE ~(i <= Len(part))
                <5>1. i - Len(part) \in DOMAIN front /\ (part \o front)[i] = front[i - Len(part)]
                    BY <1>2, <1>6, <4>0, <4>2, InSecond
                <5>2. DOMAIN front = 1 .. Len(front)
                    BY <1>6
                <5> QED
                    BY <2>2, <5>1, <5>2 DEF Under
            <4> QED
                BY <4>1, <4>2
        <3> QED
            BY <1>1, <3>1 DEF Under
    <2>4. ContentOK'
        BY <1>1, <1>3, <1>5, <1>11, <1>15, <2>2, <2>3 DEF ContentOK, KeyRead, KeyNow
    <2>5. \A p \in 1 .. Len(pipes) : (Begun(p)' <=> Begun(p)) /\ (Begun(p) => KeyOf(p)' = KeyOf(p))
        BY <1>1, <1>5, <1>15 DEF Begun, KeyOf, KeyRead, KeyNow
    <2>6. AllThere'
        <3>1. Bytes(buf) = front \o back /\ Bytes(back) = back
            <4>1. Bytes(buf) = buf
                BY <1>3, <2>1, BytesAll DEF Under
            <4>2. Bytes(back) = back
                BY <1>6, <2>2, BytesAll DEF Under
            <4> QED
                BY <1>6, <4>1, <4>2
        <3>2. InHand = part /\ InHand' = part \o front
            BY <1>1, <1>15 DEF InHand
        <3>3. part \o ((front \o back) \o sent) = (part \o front) \o (back \o sent)
            <4>1. (front \o back) \o sent = front \o (back \o sent) /\ back \o sent \in Seq(Element)
                BY <1>6, <1>13, ThreeParts
            <4>2. (part \o front) \o (back \o sent) = part \o (front \o (back \o sent))
                BY <1>2, <1>6, <4>1, ThreeParts
            <4> QED
                BY <4>1, <4>2
        <3>4. Bytes(written) = Got \o (InHand' \o (back \o sent))
            BY <1>14, <3>1, <3>2, <3>3
        <3> QED
            BY <1>1, <1>10, <1>12, <3>1, <3>4 DEF AllThere
    <2> QED
        BY <1>1, <1>5, <1>8, <1>9, <2>4, <2>5, <2>6, ReaderFlows
<1>16. CASE b = "key"
    <2>1. ask = 1 /\ Len(part) = 0 /\ part = <<>> /\ n = 1
        <3>1. ask + Len(part) = 1 /\ Len(part) \in Nat
            BY <1>2, <1>16 DEF Flow, ContentOK
        <3>2. ask = 1 /\ Len(part) = 0
            BY <1>1, <1>3, <3>1
        <3> QED
            BY <1>2, <1>4, <3>2
    <2>2. ~KeyRead /\ Whole(buf)
        BY <1>2, <1>3, <1>16, <2>1 DEF Flow, ContentOK, KeyRead, buf
    <2>3. buf[1].n = 0 /\ buf[1] \in Element /\ \A i \in 2 .. Len(buf) : buf[i].n # 0 /\ buf[i].key = buf[1].key
        BY <1>1, <1>3, <1>4, <2>2 DEF Whole
    <2>4. part' = <<buf[1]>> /\ front = <<buf[1]>>
        <3>1. front \in Seq(Element) /\ Len(front) = 1 /\ front[1] = buf[1]
            BY <1>4, <1>6, <2>1
        <3>2. front = <<buf[1]>>
            BY <2>3, <3>1
        <3>3. <<>> \o front = front
            BY <3>1
        <3> QED
            BY <1>1, <2>1, <3>2, <3>3
    <2>5. KeyRead' /\ KeyNow' = buf[1].key /\ Len(part') = 1 /\ part'[1] = buf[1] /\ part' # <<>>
        BY <1>1, <1>16, <2>4 DEF KeyRead, KeyNow
    <2>6. Under(buf[1].key, back)
        <3>1. \A i \in 1 .. Len(buf) - n : n + i \in 2 .. Len(buf)
            BY <1>4, <2>1
        <3>2. Len(back) = Len(buf) - n /\ \A i \in 1 .. Len(buf) - n : back[i] = buf[n + i]
            BY <1>6
        <3>3. \A i \in 1 .. Len(back) : back[i].n # 0 /\ back[i].key = buf[1].key
            BY <2>3, <3>1, <3>2
        <3> HIDE DEF back, buf
        <3> QED
            BY <3>3 DEF Under
    <2>7. ContentOK'
        <3>1. b' = "key" => ask' + Len(part') = 1 /\ (part' # <<>> => part'[1].n = 0)
            BY <1>1, <2>1, <2>3, <2>5
        <3>2. r' # None => IF KeyRead' THEN Under(KeyNow', pipes'[r'].buf) ELSE Whole(pipes'[r'].buf)
            BY <1>1, <1>5, <2>5, <2>6
        <3> QED
            BY <1>1, <1>11, <1>16, <3>1, <3>2 DEF ContentOK
    <2>8. \A p \in 1 .. Len(pipes) : (Begun(p)' <=> Begun(p)) /\ (Begun(p) => KeyOf(p)' = KeyOf(p))
        BY <1>1, <1>5, <2>2, <2>5 DEF Begun, KeyOf, buf
    <2>9. AllThere'
        <3>1. Bytes(buf) = Bytes(front) \o Bytes(back)
            BY <1>6, BytesConcat
        <3>2. Bytes(front) = <<>>
            BY <2>3, <2>4, BytesOne
        <3>3. <<>> \o Bytes(back) = Bytes(back)
            BY <1>6, BytesType
        <3>4. InHand' = InHand
            BY <1>1, <1>16 DEF InHand
        <3> QED
            BY <1>1, <1>10, <1>12, <1>14, <3>1, <3>2, <3>3, <3>4 DEF AllThere
    <2> QED
        BY <1>1, <1>5, <1>8, <1>9, <2>7, <2>8, <2>9, ReaderFlows
<1> QED
    BY <1>1, <1>15, <1>16

------------------------------------------------------------------------------
(* The round is over.                                                         *)

\* The round ends for the reader.
LEMMA EndFlows ==
    ASSUME PipeInv, FlowInv, Ongoing, ~Ongoing', EndOfReaders \/ Break \/ ReadFails \/ SendFails
    PROVE  FlowInv'
<1>1. /\ UNCHANGED <<messages, part, key, script, written>>
      /\ outcome' = "eof" => b = "read" /\ r = None /\ readers = <<>>
    <2>1. CASE EndOfReaders
        BY <2>1 DEF EndOfReaders, B, Ends, Reading, writerVars
    <2>2. CASE Break
        <3>1. outcome' # outcome
            BY Zenon DEF Ongoing
        <3>2. Ends("early") /\ UNCHANGED <<messages, part, key>>
            BY <2>2, <3>1 DEF Break, Reads
        <3> QED
            BY <3>2 DEF Ends, Reading, writerVars
    <2>3. CASE ReadFails \/ SendFails
        BY <2>3 DEF ReadFails, SendFails, Ends, Reading, writerVars
    <2> QED
        BY <2>1, <2>2, <2>3
<1>2. DataOK /\ Flow /\ ScriptKeys /\ \E rest \in Seq(Element) : Bytes(written) = Got \o rest
    BY DEF FlowInv
<1>3. DataOK' /\ ScriptKeys' /\ Got' = Got
    BY <1>1, <1>2 DEF DataOK, ScriptKeys, Got
<1>4. outcome' = "eof" => Bytes(written') = Got'
    <2> HAVE outcome' = "eof"
    <2>1. InHand = <<>> /\ InFirst = <<>> /\ InPipes(pipes, readers) = <<>>
        BY <1>1, InNoPipe DEF InHand, InFirst
    <2>2. Got \in Seq(Element)
        BY <1>2, BytesGot DEF DataOK, Got
    <2>3. Got \o (<<>> \o (<<>> \o <<>>)) = Got
        BY <2>2
    <2>4. Bytes(written) = Got
        BY <1>2, <2>1, <2>3 DEF Flow, AllThere
    <2> QED
        BY <1>1, <1>3, <2>4
<1> QED
    BY <1>1, <1>2, <1>3, <1>4 DEF FlowInv

\* What the script has left after its first operation.
LEMMA ScriptRest ==
    ASSUME TypeOK, script' = Tail(script), NEW i \in Nat \ {0}, NEW k, KeyHolds(script, i + 1, k)
    PROVE  KeyHolds(script', i, k)
<1>1. /\ Len(script) \in Nat /\ Len(script') = Len(script) - 1
      /\ \A j \in 1 .. Len(script') : script'[j] = script[j + 1]
    BY OpKinds
<1>2. SUFFICES ASSUME NEW j \in i .. Len(script'), script'[j][1] = "write",
                      \A m \in i .. j - 1 : script'[m][1] # "next"
               PROVE  script'[j][2] = k
    BY DEF KeyHolds
<1>3. j + 1 \in i + 1 .. Len(script) /\ j \in 1 .. Len(script') /\ (j + 1) - 1 = j /\ j \in Nat
    BY <1>1
<1>4. \A m \in i + 1 .. j : script[m][1] # "next"
    <2> TAKE m \in i + 1 .. j
    <2>1. m - 1 \in i .. j - 1 /\ m - 1 \in 1 .. Len(script') /\ (m - 1) + 1 = m
        BY <1>1, <1>3
    <2> QED
        BY <1>1, <1>2, <2>1
<1>5. script[j + 1][1] = "write"
    BY <1>1, <1>2, <1>3
<1>6. script[j + 1][2] = k
    BY <1>3, <1>4, <1>5 DEF KeyHolds
<1> QED
    BY <1>1, <1>3, <1>6

\* The writer goes on with its script or gives up.
LEMMA ScriptKeysStay ==
    ASSUME TypeOK, ScriptKeys, script' = script \/ script' = Tail(script) \/ WriterFails
    PROVE  ScriptKeys'
<1>1. CASE script' = script
    BY <1>1 DEF ScriptKeys
<1>2. CASE script' = Tail(script)
    <2>1. /\ Len(script) \in Nat /\ Len(script') = Len(script) - 1
          /\ \A j \in 1 .. Len(script') : script'[j] = script[j + 1]
        BY <1>2, OpKinds
    <2> SUFFICES ASSUME NEW i \in 1 .. Len(script')
                 PROVE  /\ script'[i][1] = "write" => script'[i][3] # 0
                        /\ script'[i][1] = "next" => KeyHolds(script', i + 1, script'[i][2])
        BY DEF ScriptKeys
    <2>2. i + 1 \in 1 .. Len(script) /\ script'[i] = script[i + 1] /\ i + 1 \in Nat \ {0}
        BY <2>1
    <2>3. script'[i][1] = "write" => script'[i][3] # 0
        BY <2>2 DEF ScriptKeys
    <2>4. ASSUME script'[i][1] = "next" PROVE KeyHolds(script', i + 1, script'[i][2])
        <3> DEFINE k == script[i + 1][2]
        <3>1. KeyHolds(script, (i + 1) + 1, k)
            BY <2>2, <2>4 DEF ScriptKeys
        <3> HIDE DEF k
        <3>2. KeyHolds(script', i + 1, k)
            BY <1>2, <2>2, <3>1, ScriptRest
        <3> QED
            BY <2>2, <3>2 DEF k
    <2> QED
        BY <2>3, <2>4
<1>3. CASE script' = <<<<"error">>>>
    <2>1. Len(script') = 1 /\ script'[1][1] = "error"
        BY <1>3
    <2> QED
        BY <2>1 DEF ScriptKeys
<1> QED
    BY <1>1, <1>2, <1>3 DEF WriterFails

------------------------------------------------------------------------------
(* What the writer does with it.                                              *)

\* Whether a pipe has its key depends on the reader and what is in it.
LEMMA SameBegun ==
    ASSUME UNCHANGED <<b, r, part, key>>, NEW p, pipes'[p].buf = pipes[p].buf
    PROVE  (Begun(p)' <=> Begun(p)) /\ KeyOf(p)' = KeyOf(p)
BY DEF Begun, KeyOf, KeyRead, KeyNow

\* A step of the writer that writes no byte, and sends at most a pipe without any.
LEMMA WriterFlows ==
    ASSUME PipeInv, PipeInv', FlowInv, Ongoing, UNCHANGED readerVars,
           Len(pipes) <= Len(pipes'),
           \A p \in 1 .. Len(pipes) : pipes'[p].buf = pipes[p].buf /\ pipes'[p].tok = pipes[p].tok,
           \/ readers' = readers
           \/ \E q \in 1 .. Len(pipes') : readers' = Append(readers, q) /\ pipes'[q].buf = <<>>,
           Bytes(written') = Bytes(written), ScriptKeys', OrderOK', WriterOK'
    PROVE  FlowInv'
<1>1. UNCHANGED <<b, outcome, r, waiting, ask, part, key, messages>>
    BY DEF readerVars
<1>2. DataOK /\ Flow
    BY DEF FlowInv
<1>3. /\ pipes \in Seq(PipeRecord) /\ Len(pipes) \in Nat /\ readers \in Seq(1 .. Len(pipes))
      /\ r # None => r \in 1 .. Len(pipes)
    BY InRoundFacts
<1>4. Ongoing'
    BY <1>1 DEF Ongoing
<1>5. pipes' \in Seq(PipeRecord) /\ Len(pipes') \in Nat /\ readers \in Seq(1 .. Len(pipes'))
    <2>1. TypeOK'
        BY DEF PipeInv
    <2>2. pipes' \in Seq(PipeRecord)
        BY <2>1, Zenon DEF TypeOK
    <2>3. Len(pipes') \in Nat
        BY <2>2
    <2> QED
        BY <1>3, <2>2, <2>3
<1>6. DataOK'
    BY <1>1, <1>2 DEF DataOK
<1>7. ContentOK'
    <2>1. ContentOK
        BY <1>2 DEF Flow
    <2>2. KeyRead' = KeyRead /\ KeyNow' = KeyNow
        BY <1>1 DEF KeyRead, KeyNow
    <2>3. r' # None => IF KeyRead' THEN Under(KeyNow', pipes'[r'].buf) ELSE Whole(pipes'[r'].buf)
        BY <1>1, <1>3, <2>1, <2>2 DEF ContentOK
    <2>4. \A i \in 1 .. Len(readers) : Whole(pipes'[readers[i]].buf)
        <3>1. \A i \in 1 .. Len(readers) : readers[i] \in 1 .. Len(pipes)
            BY <1>3
        <3> QED
            BY <2>1, <3>1 DEF ContentOK
    <2>5. \A i \in 1 .. Len(readers') : Whole(pipes'[readers'[i]].buf)
        <3>1. CASE readers' = readers
            BY <2>4, <3>1
        <3>2. ASSUME NEW q \in 1 .. Len(pipes'), readers' = Append(readers, q), pipes'[q].buf = <<>>
              PROVE  \A i \in 1 .. Len(readers') : Whole(pipes'[readers'[i]].buf)
            <4>1. Whole(pipes'[q].buf)
                BY <3>2 DEF Whole
            <4>2. /\ Len(readers') = Len(readers) + 1 /\ Len(readers) \in Nat /\ readers'[Len(readers) + 1] = q
                  /\ \A i \in 1 .. Len(readers) : readers'[i] = readers[i]
                BY <1>5, <3>2
            <4> QED
                BY <2>4, <4>1, <4>2
        <3> QED
            BY <3>1, <3>2
    <2>6. waiting' /\ ~pipes'[r'].tok => pipes'[r'].buf = <<>>
        <3>1. waiting => r # None
            BY DEF PipeInv, StagesOK
        <3> QED
            BY <1>1, <1>3, <2>1, <3>1 DEF ContentOK
    <2> QED
        BY <1>1, <2>1, <2>3, <2>5, <2>6 DEF ContentOK
<1>8. AllThere'
    <2>1. InFirst' = InFirst
        BY <1>1, <1>3 DEF InFirst
    <2>2. InHand' = InHand /\ Got' = Got
        BY <1>1 DEF InHand, Got
    <2>3. InPipes(pipes', readers) = InPipes(pipes, readers)
        <3>1. \A i \in 1 .. Len(readers) : readers[i] \in 1 .. Len(pipes)
            BY <1>3
        <3> QED
            BY <1>3, <3>1, SameInPipes
    <2>4. InPipes(pipes', readers') = InPipes(pipes, readers)
        <3>1. CASE readers' = readers
            BY <2>3, <3>1
        <3>2. ASSUME NEW q \in 1 .. Len(pipes'), readers' = Append(readers, q), pipes'[q].buf = <<>>
              PROVE  InPipes(pipes', readers') = InPipes(pipes, readers)
            <4>1. InPipes(pipes', readers') = InPipes(pipes', readers) \o Bytes(pipes'[q].buf)
                BY <1>5, <3>2, InOneMore
            <4>2. Bytes(pipes'[q].buf) = <<>>
                BY <3>2, BytesOne
            <4>3. InPipes(pipes', readers) \in Seq(Element)
                BY <1>5, BytesOfEach
            <4>4. InPipes(pipes', readers) \o <<>> = InPipes(pipes', readers)
                BY <4>3
            <4> QED
                BY <2>3, <4>1, <4>2, <4>4
        <3> QED
            BY <3>1, <3>2
    <2> QED
        BY <1>2, <2>1, <2>2, <2>4 DEF Flow, AllThere
<1> QED
    BY <1>4, <1>6, <1>7, <1>8, FlowGoesOn DEF Flow

\* The order in which pipes are read, when no pipe is sent, and when one is.
LEMMA OrderStays ==
    ASSUME PipeInv, Ongoing, OrderOK, UNCHANGED <<r, readers>>, Newest <= Newest', Newest' \in Nat, Newest \in Nat,
           a' \in InNextPipe => w' < new'
    PROVE  OrderOK'
<1>1. readers \in Seq(Nat) /\ r \in Nat
    BY InRoundFacts
<1>2. r' <= Newest'
    BY <1>1 DEF OrderOK
<1>3. \A i \in 1 .. Len(readers) : r < readers[i] /\ readers[i] <= Newest'
    BY <1>1 DEF OrderOK
<1> QED
    BY <1>2, <1>3 DEF OrderOK

LEMMA OrderMore ==
    ASSUME PipeInv, Ongoing, OrderOK, r' = r, NEW q \in Nat, readers' = Append(readers, q),
           r < q, \A i \in 1 .. Len(readers) : readers[i] < q,
           Newest' = q, a' \in InNextPipe => w' < new'
    PROVE  OrderOK'
<1>1. readers \in Seq(Nat) /\ r \in Nat /\ Len(readers) \in Nat
    BY InRoundFacts
<1>2. /\ Len(readers') = Len(readers) + 1 /\ readers'[Len(readers) + 1] = q
      /\ \A i \in 1 .. Len(readers) : readers'[i] = readers[i]
    BY <1>1
<1>3. \A i \in 1 .. Len(readers') : r < readers'[i] /\ readers'[i] <= q
    BY <1>1, <1>2 DEF OrderOK
<1>4. \A i, j \in 1 .. Len(readers') : i < j => readers'[i] < readers'[j]
    <2> TAKE i, j \in 1 .. Len(readers')
    <2> HAVE i < j
    <2>1. CASE j = Len(readers) + 1
        BY <1>1, <1>2, <2>1
    <2>2. CASE j # Len(readers) + 1
        <3>1. i \in 1 .. Len(readers) /\ j \in 1 .. Len(readers)
            BY <1>1, <1>2, <2>2
        <3> QED
            BY <1>2, <3>1 DEF OrderOK
    <2> QED
        BY <2>1, <2>2
<1> QED
    BY <1>1, <1>3, <1>4 DEF OrderOK

\* The pipe of the service info before is closed and another made.
LEMMA NextPipeFlows ==
    ASSUME PipeInv, PipeInv', FlowInv, Ongoing, NextPipe
    PROVE  FlowInv'
<1>1. /\ a = "ready" /\ a' = "lock"
      /\ pipes' = Append(IF w = None THEN pipes ELSE [pipes EXCEPT ![w] = ClosePipe(@, "EOF")], NewPipe)
      /\ new' = Len(pipes) + 1
      /\ UNCHANGED <<script, written, w, readers, b, r, part, key, readerVars>>
    BY DEF NextPipe, A, readerVars
<1>2. /\ pipes \in Seq(PipeRecord) /\ Len(pipes) \in Nat
      /\ r \in 0 .. Len(pipes) /\ w \in 0 .. Len(pipes) /\ (w # None => w \in 1 .. Len(pipes))
    BY InRoundFacts
<1>3. /\ Len(pipes') = Len(pipes) + 1 /\ pipes'[Len(pipes) + 1] = NewPipe
      /\ \A p \in 1 .. Len(pipes) : pipes'[p].buf = pipes[p].buf /\ pipes'[p].tok = pipes[p].tok
    <2>1. CASE w = None
        BY <1>1, <1>2, <2>1
    <2>2. CASE w # None
        <3> DEFINE c == ClosePipe(pipes[w], "EOF")
                   ps == [pipes EXCEPT ![w] = c]
        <3>1. pipes[w] \in PipeRecord
            BY <1>2, <2>2
        <3>2. c \in PipeRecord
            BY <3>1, ClosedPipe
        <3>3. c.buf = pipes[w].buf /\ c.tok = pipes[w].tok
            BY <3>1 DEF ClosePipe, PipeRecord
        <3> HIDE DEF c
        <3>4. /\ ps \in Seq(PipeRecord) /\ Len(ps) = Len(pipes)
              /\ \A j \in 1 .. Len(pipes) : ps[j] = IF j = w THEN c ELSE pipes[j]
            BY <1>2, <2>2, <3>2, OnePipe
        <3>5. pipes' = Append(ps, NewPipe)
            BY <1>1, <2>2 DEF c
        <3> HIDE DEF ps
        <3>6. /\ Len(pipes') = Len(ps) + 1 /\ pipes'[Len(ps) + 1] = NewPipe
              /\ \A j \in 1 .. Len(ps) : pipes'[j] = ps[j]
            BY <3>4, <3>5
        <3> QED
            BY <3>3, <3>4, <3>6
    <2> QED
        BY <2>1, <2>2
<1>4. Flow /\ ScriptKeys
    BY DEF FlowInv
<1>5. OrderOK'
    <2>1. Newest' = w /\ Newest = w
        BY <1>1 DEF Newest
    <2>2. w' < new'
        BY <1>1, <1>2
    <2> QED
        BY <1>1, <1>2, <1>4, <2>1, <2>2, OrderStays DEF Flow
<1>6. WriterOK'
    <2>1. ~Begun(new)'
        <3>1. new' # r' /\ pipes'[new'].buf = <<>>
            BY <1>1, <1>2, <1>3 DEF NewPipe
        <3> QED
            BY <3>1 DEF Begun
    <2> QED
        BY <1>1, <2>1 DEF WriterOK, InNextPipe
<1>7. ScriptKeys'
    BY <1>1, <1>4 DEF ScriptKeys
<1> QED
    BY <1>1, <1>2, <1>3, <1>5, <1>6, <1>7, WriterFlows

\* It is sent.
LEMMA SelectSendFlows ==
    ASSUME PipeInv, PipeInv', FlowInv, Ongoing, SelectSend
    PROVE  FlowInv'
<1>1. /\ a = "select" /\ a' = "set" /\ readers' = Append(readers, new)
      /\ UNCHANGED <<script, written, w, new, pipes, b, r, part, key, readerVars>>
    BY DEF SelectSend, A, readerVars
<1>2. /\ pipes \in Seq(PipeRecord) /\ Len(pipes) \in Nat /\ readers \in Seq(1 .. Len(pipes))
      /\ r \in 0 .. Len(pipes) /\ w \in 0 .. Len(pipes) /\ new \in 1 .. Len(pipes)
    BY <1>1, InRoundFacts DEF InNextPipe
<1>3. Flow /\ ScriptKeys /\ OrderOK /\ WriterOK
    BY DEF FlowInv, Flow
<1>4. Newest = w /\ Newest' = new /\ w < new
    BY <1>1, <1>3 DEF Newest, OrderOK, InNextPipe
<1>5. ~Begun(new)
    BY <1>1, <1>3 DEF WriterOK, InNextPipe
<1>6. pipes'[new].buf = <<>>
    BY <1>1, <1>5 DEF Begun
<1>7. OrderOK'
    <2>1. r < new /\ \A i \in 1 .. Len(readers) : readers[i] < new
        BY <1>2, <1>3, <1>4 DEF OrderOK
    <2> QED
        BY <1>1, <1>2, <1>3, <1>4, <2>1, OrderMore
<1>8. WriterOK'
    <2>1. ~Begun(new)'
        BY <1>1, <1>5, SameBegun
    <2> QED
        BY <1>1, <2>1 DEF WriterOK
<1>9. ScriptKeys'
    BY <1>1, <1>3 DEF ScriptKeys
<1> QED
    BY <1>1, <1>2, <1>6, <1>7, <1>8, <1>9, WriterFlows

\* The lock is taken.
LEMMA LockReadersFlows ==
    ASSUME PipeInv, PipeInv', FlowInv, Ongoing, LockReaders
    PROVE  FlowInv'
<1>1. /\ a = "lock" /\ a' = "select"
      /\ UNCHANGED <<script, written, w, new, pipes, readers, b, r, part, key, readerVars>>
    BY DEF LockReaders, A, readerVars
<1>2. Len(pipes) \in Nat /\ w \in 0 .. Len(pipes)
    BY InRoundFacts
<1>3. ScriptKeys /\ OrderOK /\ WriterOK
    BY DEF FlowInv, Flow
<1>4. OrderOK'
    <2>1. Newest = w /\ Newest' = w /\ w < new
        BY <1>1, <1>3 DEF Newest, OrderOK, InNextPipe
    <2> QED
        BY <1>1, <1>2, <1>3, <2>1, OrderStays
<1>5. WriterOK'
    <2>1. ~Begun(new)
        BY <1>1, <1>3 DEF WriterOK, InNextPipe
    <2>2. ~Begun(new)'
        BY <1>1, <2>1, SameBegun
    <2> QED
        BY <1>1, <2>2 DEF WriterOK
<1>6. ScriptKeys'
    BY <1>1, <1>3 DEF ScriptKeys
<1> QED
    BY <1>1, <1>2, <1>4, <1>5, <1>6, WriterFlows

\* The new pipe is the one to write to; a break closes it.
LEMMA SetWriterFlows ==
    ASSUME PipeInv, PipeInv', FlowInv, Ongoing, SetWriter
    PROVE  FlowInv'
<1> DEFINE force == Op[1] = "force"
<1>1. /\ a = "set" /\ a' = IF force THEN "ready" ELSE "key"
      /\ w' = new
      /\ pipes' = IF force THEN [pipes EXCEPT ![new] = ClosePipe(@, "EOF")] ELSE pipes
      /\ script' = IF force THEN Tail(script) ELSE script
      /\ written' = IF force THEN Append(written, BreakWritten) ELSE written
      /\ UNCHANGED <<new, readers, b, r, part, key, readerVars>>
    BY DEF SetWriter, A, readerVars
<1> HIDE DEF force
<1>2. /\ pipes \in Seq(PipeRecord) /\ Len(pipes) \in Nat /\ readers \in Seq(1 .. Len(pipes))
      /\ w \in 0 .. Len(pipes) /\ new \in 1 .. Len(pipes) /\ written \in Seq(Element)
    BY <1>1, InRoundFacts DEF InNextPipe
<1>3. ScriptKeys /\ OrderOK /\ WriterOK /\ TypeOK /\ pipes[new].closed = "no"
    BY <1>1 DEF FlowInv, Flow, PipeInv, SentOK, Ongoing, InNextPipe
<1>4. /\ Len(pipes') = Len(pipes)
      /\ \A p \in 1 .. Len(pipes) : pipes'[p].buf = pipes[p].buf /\ pipes'[p].tok = pipes[p].tok
      /\ force => pipes'[new].closed = "EOF"
    <2>1. CASE ~force
        BY <1>1, <2>1
    <2>2. CASE force
        <3> DEFINE c == ClosePipe(pipes[new], "EOF")
        <3>1. pipes[new] \in PipeRecord
            BY <1>2
        <3>2. c \in PipeRecord /\ c.closed = "EOF"
            BY <1>3, <3>1, ClosedPipe
        <3>3. c.buf = pipes[new].buf /\ c.tok = pipes[new].tok
            BY <3>1 DEF ClosePipe, PipeRecord
        <3> HIDE DEF c
        <3>4. pipes' = [pipes EXCEPT ![new] = c]
            BY <1>1, <2>2 DEF c
        <3>5. Len(pipes') = Len(pipes) /\ \A j \in 1 .. Len(pipes) : pipes'[j] = IF j = new THEN c ELSE pipes[j]
            BY <1>2, <3>2, <3>4, OnePipe
        <3> QED
            BY <1>2, <3>2, <3>3, <3>5
    <2> QED
        BY <2>1, <2>2
<1>5. OrderOK'
    <2>1. Newest = new /\ Newest' = new /\ a' \notin InNextPipe
        BY <1>1 DEF Newest, InNextPipe
    <2> QED
        BY <1>1, <1>2, <1>3, <2>1, OrderStays
<1>6. WriterOK'
    <2>1. CASE force
        BY <1>1, <1>4, <2>1 DEF WriterOK, InNextPipe
    <2>2. CASE ~force
        <3>1. ~Begun(new)
            BY <1>1, <1>3 DEF WriterOK, InNextPipe
        <3>2. ~Begun(new)' /\ pipes' = pipes
            BY <1>1, <2>2, <3>1, SameBegun
        <3>3. ~Begun(w)'
            BY <1>1, <3>2 DEF Begun, KeyRead
        <3> QED
            BY <1>1, <1>3, <2>2, <3>2, <3>3 DEF WriterOK, InNextPipe
    <2> QED
        BY <2>1, <2>2
<1>7. ScriptKeys'
    BY <1>1, <1>3, ScriptKeysStay
<1>8. Bytes(written') = Bytes(written)
    <2>1. CASE ~force
        BY <1>1, <2>1
    <2>2. CASE force
        <3>1. BreakWritten \in Element /\ BreakWritten.n = 0
            BY DEF Element, BreakWritten
        <3>2. Bytes(Append(written, BreakWritten)) = Bytes(written) \o <<>> /\ Bytes(written) \in Seq(Element)
            BY <1>2, <3>1, BytesAppend
        <3>3. Bytes(written) \o <<>> = Bytes(written)
            BY <3>2
        <3> QED
            BY <1>1, <2>2, <3>2, <3>3
    <2> QED
        BY <2>1, <2>2
<1> QED
    BY <1>1, <1>2, <1>4, <1>5, <1>6, <1>7, <1>8, WriterFlows

\* Write returns.
LEMMA WriteReturnsFlows ==
    ASSUME PipeInv, PipeInv', FlowInv, Ongoing, WriteReturns
    PROVE  FlowInv'
<1>1. /\ a = "written" /\ a' = "ready"
      /\ script' = Tail(script) \/ (pipes[w].closed # "no" /\ WriterFails)
      /\ UNCHANGED <<written, w, new, pipes, readers, b, r, part, key, readerVars>>
    BY DEF WriteReturns, A, readerVars, sharedVars
<1>2. Len(pipes) \in Nat /\ w \in 0 .. Len(pipes)
    BY InRoundFacts
<1>3. ScriptKeys /\ OrderOK /\ WriterOK /\ TypeOK
    BY DEF FlowInv, Flow, PipeInv
<1>4. OrderOK'
    <2>1. Newest = w /\ Newest' = w /\ a' \notin InNextPipe
        BY <1>1 DEF Newest, InNextPipe
    <2> QED
        BY <1>1, <1>2, <1>3, <2>1, OrderStays
<1>5. WriterOK'
    <2>1. ASSUME w # None, pipes[w].closed = "no" PROVE Begun(w)' /\ KeyHolds(script', 1, KeyOf(w)')
        <3>1. Begun(w) /\ KeyHolds(script, 2, KeyOf(w)) /\ script' = Tail(script)
            BY <1>1, <1>3, <2>1 DEF WriterOK
        <3>2. Begun(w)' /\ KeyOf(w)' = KeyOf(w)
            BY <1>1, <3>1 DEF Begun, KeyOf, KeyRead, KeyNow
        <3> DEFINE k == KeyOf(w)
        <3>3. KeyHolds(script, 1 + 1, k)
            BY <3>1
        <3> HIDE DEF k
        <3>4. KeyHolds(script', 1, k)
            BY <1>3, <3>1, <3>3, ScriptRest
        <3> QED
            BY <3>2, <3>4 DEF k
    <2> QED
        BY <1>1, <2>1 DEF WriterOK, InNextPipe
<1>6. ScriptKeys'
    BY <1>1, <1>3, ScriptKeysStay
<1> QED
    BY <1>1, <1>2, <1>4, <1>5, <1>6, WriterFlows

\* Close and CloseWithError make, send and close a pipe in which nothing is written.
LEMMA CloseFlows ==
    ASSUME PipeInv, PipeInv', FlowInv, Ongoing,
           BeginClose("writer") \/ EnsureWriter("writer") \/ CloseReaders("writer") \/ CloseWriter("writer")
    PROVE  FlowInv'
<1>1. /\ pipes \in Seq(PipeRecord) /\ Len(pipes) \in Nat /\ readers \in Seq(1 .. Len(pipes))
      /\ r \in 0 .. Len(pipes) /\ w \in 0 .. Len(pipes) /\ (w # None => w \in 1 .. Len(pipes))
    BY InRoundFacts
<1>2. ScriptKeys /\ OrderOK /\ WriterOK /\ TypeOK /\ ScriptOK
    BY DEF FlowInv, Flow, PipeInv
<1>3. UNCHANGED <<written, script, new, b, outcome, r, waiting, ask, part, key, messages>>
    BY DEF BeginClose, EnsureWriter, CloseReaders, CloseWriter, At
<1>4. UNCHANGED readerVars /\ ScriptKeys'
    BY <1>2, <1>3 DEF readerVars, ScriptKeys
<1>5. a' \in InClose \cup {"over"} /\ a \in {"ready"} \cup InClose
    BY DEF BeginClose, EnsureWriter, CloseReaders, CloseWriter, At, A, InClose
<1>6. WriterOK' /\ Newest' = w' /\ Newest = w /\ a' \notin InNextPipe
    BY <1>5 DEF WriterOK, Newest, InClose, InNextPipe
<1>7. CASE BeginClose("writer") \/ CloseReaders("writer")
    <2>1. UNCHANGED <<w, pipes, readers>>
        BY <1>7 DEF BeginClose, CloseReaders
    <2>2. OrderOK'
        BY <1>1, <1>2, <1>3, <1>6, <2>1, OrderStays
    <2> QED
        BY <1>1, <1>3, <1>4, <1>6, <2>1, <2>2, WriterFlows
<1>8. CASE EnsureWriter("writer")
    <2>1. CASE w # None
        <3>1. UNCHANGED <<w, pipes, readers>>
            BY <1>8, <2>1 DEF EnsureWriter
        <3>2. OrderOK'
            BY <1>1, <1>2, <1>3, <1>6, <3>1, OrderStays
        <3> QED
            BY <1>1, <1>3, <1>4, <1>6, <3>1, <3>2, WriterFlows
    <2>2. CASE w = None
        <3> DEFINE q == Len(pipes) + 1
        <3>1. /\ pipes' = Append(pipes, NewPipe) /\ w' = q
              /\ readers' = Append(readers, q) \/ readers' = readers
            BY <1>8, <2>2 DEF EnsureWriter
        <3>2. /\ Len(pipes') = q /\ pipes'[q] = NewPipe
              /\ \A p \in 1 .. Len(pipes) : pipes'[p] = pipes[p]
            BY <1>1, <3>1
        <3>3. pipes'[q].buf = <<>> /\ q \in 1 .. Len(pipes') /\ q \in Nat
            BY <1>1, <3>2 DEF NewPipe
        <3>4. OrderOK'
            <4>1. CASE readers' = readers
                BY <1>1, <1>2, <1>3, <1>6, <3>1, <4>1, OrderStays
            <4>2. CASE readers' = Append(readers, q)
                <5>1. r < q /\ \A i \in 1 .. Len(readers) : readers[i] < q
                    BY <1>1
                <5> QED
                    BY <1>1, <1>2, <1>3, <1>6, <3>1, <3>3, <4>2, <5>1, OrderMore
            <4> QED
                BY <3>1, <4>1, <4>2
        <3>5. Len(pipes) <= Len(pipes')
            BY <1>1, <3>2
        <3>6. Bytes(written') = Bytes(written)
            BY <1>3
        <3> HIDE DEF q
        <3> QED
            BY <1>4, <1>6, <3>1, <3>2, <3>3, <3>4, <3>5, <3>6, WriterFlows
    <2> QED
        BY <2>1, <2>2
<1>9. CASE CloseWriter("writer")
    <2>1. PICK how \in {"EOF", "error"} : pipes' = [pipes EXCEPT ![w] = ClosePipe(@, how)]
        BY <1>9 DEF CloseWriter
    <2>2. UNCHANGED <<w, readers>>
        BY <1>9 DEF CloseWriter
    <2>3. w \in 1 .. Len(pipes)
        <3>1. a = "close writer"
            BY <1>9 DEF CloseWriter, At, A
        <3> QED
            BY <1>1, <1>2, <3>1 DEF ScriptOK
    <2> DEFINE c == ClosePipe(pipes[w], how)
    <2>4. pipes[w] \in PipeRecord
        BY <1>1, <2>3
    <2>5. c \in PipeRecord
        BY <2>4, ClosedPipe
    <2>6. c.buf = pipes[w].buf /\ c.tok = pipes[w].tok
        BY <2>4 DEF ClosePipe, PipeRecord
    <2>7. pipes' = [pipes EXCEPT ![w] = c]
        BY <2>1
    <2> HIDE DEF c
    <2>8. Len(pipes') = Len(pipes) /\ \A j \in 1 .. Len(pipes) : pipes'[j] = IF j = w THEN c ELSE pipes[j]
        BY <1>1, <2>3, <2>5, <2>7, OnePipe
    <2>9. OrderOK'
        BY <1>1, <1>2, <1>3, <1>6, <2>2, OrderStays
    <2> QED
        BY <1>1, <1>3, <1>4, <1>6, <2>2, <2>6, <2>8, <2>9, WriterFlows
<1> QED
    BY <1>7, <1>8, <1>9

\* A write to no pipe, or to one that is closed.
LEMMA FailedWriteFlows ==
    ASSUME PipeInv, PipeInv', FlowInv, Ongoing, WriteKey \/ Write, w = None \/ pipes[w].closed # "no"
    PROVE  FlowInv'
<1>1. /\ a \in {"key", "ready"} /\ a' \in {"panic", "ready"}
      /\ w # None \/ a' = "panic"
      /\ script' = script \/ WriterFails
      /\ UNCHANGED <<written, w, new, pipes, readers, b, r, part, key, readerVars>>
    BY DEF WriteKey, Write, Writes, readerVars
<1>2. Len(pipes) \in Nat /\ w \in 0 .. Len(pipes)
    BY InRoundFacts
<1>3. ScriptKeys /\ OrderOK /\ WriterOK /\ TypeOK
    BY DEF FlowInv, Flow, PipeInv
<1>4. OrderOK'
    <2>1. Newest = w /\ Newest' = w /\ a' \notin InNextPipe
        BY <1>1 DEF Newest, InNextPipe
    <2> QED
        BY <1>1, <1>2, <1>3, <2>1, OrderStays
<1>5. WriterOK'
    BY <1>1 DEF WriterOK, InNextPipe
<1>6. ScriptKeys'
    BY <1>1, <1>3, ScriptKeysStay
<1> QED
    BY <1>1, <1>2, <1>4, <1>5, <1>6, WriterFlows

\* Who writes next to a pipe that has a key writes under it.
LEMMA KeyAfterWrite ==
    ASSUME TypeOK, NEW k, KeyHolds(script, 1, k), Op[1] = "write"
    PROVE  Op[2] = k /\ KeyHolds(script, 2, k)
<1>1. script[1] = Op /\ Len(script) \in Nat /\ Len(script) > 0
    BY OpKinds
<1>2. Op[2] = k
    BY <1>1 DEF KeyHolds
<1>3. KeyHolds(script, 2, k)
    <2> SUFFICES ASSUME NEW j \in 2 .. Len(script), script[j][1] = "write", \A m \in 2 .. j - 1 : script[m][1] # "next"
                 PROVE  script[j][2] = k
        BY DEF KeyHolds
    <2>1. \A m \in 1 .. j - 1 : script[m][1] # "next"
        BY <1>1
    <2> QED
        BY <1>1, <2>1 DEF KeyHolds
<1> QED
    BY <1>2, <1>3

\* What is in a pipe, with one more.
LEMMA OneMoreInPipe ==
    ASSUME NEW buf \in Seq(Element), NEW e \in Element
    PROVE  /\ \A k : Under(k, buf) /\ e.n # 0 /\ e.key = k => Under(k, Append(buf, e))
           /\ buf = <<>> /\ e.n = 0 => Whole(Append(buf, e))
           /\ Whole(buf) /\ buf # <<>> /\ e.n # 0 /\ e.key = buf[1].key => Whole(Append(buf, e))
           /\ Append(buf, e) # <<>>
           /\ buf # <<>> => Append(buf, e)[1] = buf[1]
           /\ buf = <<>> => Append(buf, e)[1] = e
<1> DEFINE more == Append(buf, e)
<1>1. /\ Len(buf) \in Nat /\ Len(more) = Len(buf) + 1 /\ more # <<>> /\ more[Len(buf) + 1] = e
      /\ \A i \in 1 .. Len(buf) : more[i] = buf[i]
      /\ buf = <<>> <=> Len(buf) = 0
    OBVIOUS
<1> HIDE DEF more
<1>2. ASSUME NEW k, Under(k, buf), e.n # 0, e.key = k PROVE Under(k, more)
    BY <1>1, <1>2 DEF Under
<1>3. buf = <<>> /\ e.n = 0 => Whole(more)
    BY <1>1 DEF Whole
<1>4. Whole(buf) /\ buf # <<>> /\ e.n # 0 /\ e.key = buf[1].key => Whole(more)
    BY <1>1 DEF Whole
<1>5. /\ buf # <<>> => more[1] = buf[1]
      /\ buf = <<>> => more[1] = e
    BY <1>1
<1> QED
    BY <1>1, <1>2, <1>3, <1>4, <1>5 DEF more

\* The bytes before and after a write.
LEMMA BytesLast ==
    ASSUME PipeInv, Ongoing, OrderOK, w # None, Sent(w), a \notin InNextPipe,
           NEW e \in Element, Len(pipes') = Len(pipes), pipes' \in Seq(PipeRecord),
           UNCHANGED <<w, r, readers>>,
           pipes'[w].buf = Append(pipes[w].buf, e),
           \A p \in 1 .. Len(pipes) : p # w => pipes'[p].buf = pipes[p].buf
    PROVE  InFirst' \o InPipes(pipes', readers')
               = (InFirst \o InPipes(pipes, readers)) \o (IF e.n = 0 THEN <<>> ELSE <<e>>)
<1> DEFINE one == IF e.n = 0 THEN <<>> ELSE <<e>>
           buf == pipes[w].buf
<1>1. /\ pipes \in Seq(PipeRecord) /\ Len(pipes) \in Nat /\ readers \in Seq(1 .. Len(pipes))
      /\ r \in 0 .. Len(pipes) /\ (r # None => r \in 1 .. Len(pipes)) /\ w \in 1 .. Len(pipes) /\ Len(readers) \in Nat
      /\ \A p \in 1 .. Len(pipes) : pipes[p].buf \in Seq(Element)
    BY InRoundFacts
<1>2. r <= w /\ \A i \in 1 .. Len(readers) : r < readers[i] /\ readers[i] <= w
    BY DEF OrderOK, Newest, InNextPipe
<1>3. buf \in Seq(Element) /\ one \in Seq(Element) /\ Bytes(Append(buf, e)) = Bytes(buf) \o one /\ Bytes(buf) \in Seq(Element)
    <2>1. buf \in Seq(Element)
        BY <1>1
    <2>2. Bytes(Append(buf, e)) = Bytes(buf) \o one /\ Bytes(buf) \in Seq(Element)
        BY <2>1, BytesAppend
    <2>3. <<>> \in Seq(Element) /\ <<e>> \in Seq(Element)
        OBVIOUS
    <2> QED
        BY <2>1, <2>2, <2>3
<1> HIDE DEF one
<1>4. CASE r = w
    <2>1. readers = <<>>
        <3> SUFFICES ASSUME Len(readers) # 0 PROVE FALSE
            BY <1>1
        <3>1. 1 \in 1 .. Len(readers) /\ readers[1] \in Nat
            BY <1>1
        <3> QED
            BY <1>1, <1>2, <1>4, <3>1
    <2>2. InPipes(pipes', readers') = <<>> /\ InPipes(pipes, readers) = <<>>
        BY <2>1, InNoPipe
    <2>3. InFirst = Bytes(buf) /\ InFirst' = Bytes(buf) \o one
        BY <1>1, <1>3, <1>4 DEF InFirst
    <2>4. /\ Bytes(buf) \o <<>> = Bytes(buf)
          /\ (Bytes(buf) \o one) \o <<>> = Bytes(buf) \o one
        BY <1>3
    <2> QED
        BY <2>2, <2>3, <2>4 DEF one
<1>5. CASE r # w
    <2> DEFINE m == Len(readers)
               front == SubSeq(readers, 1, m - 1)
    <2>1. m # 0 /\ readers[m] = w
        <3>1. PICK i \in 1 .. m : readers[i] = w
            BY <1>5 DEF Sent
        <3>2. i = m
            <4> SUFFICES ASSUME i # m PROVE FALSE
                OBVIOUS
            <4>1. readers[i] < readers[m] /\ readers[m] <= w
                BY <1>1, <1>2, <3>1 DEF OrderOK
            <4> QED
                BY <1>1, <3>1, <4>1
        <3> QED
            BY <1>1, <3>1, <3>2
    <2>2. /\ front \in Seq(1 .. Len(pipes)) /\ Len(front) = m - 1
          /\ \A i \in 1 .. m - 1 : front[i] = readers[i]
        <3>1. m - 1 \in Nat /\ m - 1 <= Len(readers)
            BY <1>1, <2>1
        <3>2. readers \in Seq(1 .. Len(pipes))
            BY <1>1
        <3> DEFINE T == 1 .. Len(pipes)
                   n == m - 1
        <3>3. readers \in Seq(T) /\ n \in Nat /\ n <= Len(readers)
            BY <3>1, <3>2
        <3>4. front = SubSeq(readers, 1, n)
            OBVIOUS
        <3> HIDE DEF T, n, front
        <3>5. front \in Seq(T) /\ Len(front) = n /\ \A i \in 1 .. n : front[i] = readers[i]
            BY <3>3, <3>4, SplitAt
        <3> QED
            BY <3>5 DEF T, n
    <2>3. readers = Append(front, w)
        <3>1. Append(front, w) \in Seq(1 .. Len(pipes)) /\ Len(Append(front, w)) = m
            BY <1>1, <2>1, <2>2
        <3>2. ASSUME NEW i \in 1 .. m PROVE readers[i] = Append(front, w)[i]
            <4>1. CASE i = m
                BY <1>1, <2>1, <2>2, <4>1
            <4>2. CASE i # m
                <5>1. i \in 1 .. m - 1
                    BY <1>1, <4>2
                <5> QED
                    BY <2>2, <5>1
            <4> QED
                BY <4>1, <4>2
        <3> QED
            BY <1>1, <3>1, <3>2, SameElements
    <2>4. \A i \in 1 .. Len(front) : front[i] # w
        <3> TAKE i \in 1 .. Len(front)
        <3>1. i \in 1 .. m /\ m \in 1 .. m /\ i < m
            BY <1>1, <2>1, <2>2
        <3>2. readers[i] < readers[m] /\ readers[i] \in Nat
            BY <1>1, <3>1 DEF OrderOK
        <3> QED
            BY <1>1, <2>1, <2>2, <3>1, <3>2
    <2> HIDE DEF front, m
    <2>5. InPipes(pipes', front) = InPipes(pipes, front)
        <3>1. \A i \in 1 .. Len(front) : pipes'[front[i]].buf = pipes[front[i]].buf
            BY <1>1, <2>2, <2>4
        <3> QED
            BY <1>1, <2>2, <3>1, SameInPipes
    <2>6. InPipes(pipes, Append(front, w)) = InPipes(pipes, front) \o Bytes(buf)
        BY <1>1, <2>2, InOneMore
    <2>7. InPipes(pipes', Append(front, w)) = InPipes(pipes', front) \o (Bytes(buf) \o one)
        <3>1. front \in Seq(1 .. Len(pipes')) /\ w \in 1 .. Len(pipes')
            BY <1>1, <2>2
        <3>2. InPipes(pipes', Append(front, w)) = InPipes(pipes', front) \o Bytes(pipes'[w].buf)
            BY <3>1, InOneMore
        <3> QED
            BY <1>3, <3>2
    <2>8. InPipes(pipes, front) \in Seq(Element)
        BY <1>1, <2>2, BytesOfEach
    <2>9. InFirst' = InFirst /\ InFirst \in Seq(Element)
        <3>1. CASE r = None
            <4>1. <<>> \in Seq(Element)
                OBVIOUS
            <4> QED
                BY <3>1, <4>1 DEF InFirst
        <3>2. CASE r # None
            BY <1>1, <1>5, <3>2, BytesType DEF InFirst
        <3> QED
            BY <3>1, <3>2
    <2> DEFINE x == InPipes(pipes, front)
               y == Bytes(buf)
               z == InFirst
    <2>10. z \in Seq(Element) /\ x \in Seq(Element) /\ y \in Seq(Element) /\ one \in Seq(Element)
        BY <1>3, <2>8, <2>9
    <2>11. z' \o InPipes(pipes', readers') = z \o (x \o (y \o one)) /\ z \o InPipes(pipes, readers) = z \o (x \o y)
        BY <2>3, <2>5, <2>6, <2>7, <2>9
    <2> HIDE DEF x, y, z
    <2>12. x \o (y \o one) = (x \o y) \o one /\ x \o y \in Seq(Element)
        <3>1. x \o y \in Seq(Element)
            BY <2>10
        <3> QED
            BY <2>10, <3>1, ThreeParts
    <2>13. z \o ((x \o y) \o one) = (z \o (x \o y)) \o one
        BY <2>10, <2>12, ThreeParts
    <2> QED
        BY <2>11, <2>12, <2>13 DEF z, one
<1> QED
    BY <1>4, <1>5

\* An element is written to a pipe: first a key, then bytes under it.
LEMMA OneWrittenFlows ==
    ASSUME PipeInv, PipeInv', FlowInv, Ongoing, UNCHANGED <<readerVars, w, new, readers>>,
           w # None, Sent(w), a \notin InNextPipe, a' \notin InNextPipe,
           NEW e \in Element, Len(pipes') = Len(pipes),
           pipes'[w].buf = Append(pipes[w].buf, e), pipes'[w].tok,
           \A p \in 1 .. Len(pipes) : p # w => pipes'[p] = pipes[p],
           written' = written \o <<e>>,
           IF Begun(w) THEN e.n # 0 /\ e.key = KeyOf(w) ELSE e.n = 0,
           ScriptKeys', WriterOK'
    PROVE  FlowInv'
<1>1. UNCHANGED <<b, outcome, r, waiting, ask, part, key, messages>>
    BY DEF readerVars
<1>2. DataOK /\ ScriptKeys /\ OrderOK /\ ContentOK /\ AllThere
    BY DEF FlowInv, Flow
<1>3. /\ pipes \in Seq(PipeRecord) /\ Len(pipes) \in Nat /\ readers \in Seq(1 .. Len(pipes))
      /\ r # None => r \in 1 .. Len(pipes)
      /\ w \in 1 .. Len(pipes) /\ written \in Seq(Element)
      /\ \A p \in 1 .. Len(pipes) : pipes[p].buf \in Seq(Element)
    BY InRoundFacts
<1>4. Ongoing' /\ DataOK'
    BY <1>1, <1>2 DEF Ongoing, DataOK
<1>5. pipes' \in Seq(PipeRecord)
    <2>1. TypeOK'
        BY DEF PipeInv
    <2> QED
        BY <2>1, Zenon DEF TypeOK
<1>6. OrderOK'
    <2>1. Newest' = w /\ Newest = w /\ w \in Nat
        BY <1>3 DEF Newest, InNextPipe
    <2> QED
        BY <1>1, <1>2, <2>1, OrderStays
<1> DEFINE buf == pipes[w].buf
           more == Append(buf, e)
<1>7. buf \in Seq(Element)
    BY <1>3
<1>8. pipes'[w].buf = more
    OBVIOUS
<1>9. /\ \A k : Under(k, buf) /\ e.n # 0 /\ e.key = k => Under(k, more)
      /\ buf = <<>> /\ e.n = 0 => Whole(more)
      /\ Whole(buf) /\ buf # <<>> /\ e.n # 0 /\ e.key = buf[1].key => Whole(more)
    BY <1>7, OneMoreInPipe
<1> HIDE DEF more
<1>10. ~(w = r /\ KeyRead) /\ Whole(buf) => Whole(more)
    BY <1>9 DEF Begun, KeyOf
<1>11. ContentOK'
    <2>1. KeyRead' = KeyRead /\ KeyNow' = KeyNow
        BY <1>1 DEF KeyRead, KeyNow
    <2>2. r' # None => IF KeyRead' THEN Under(KeyNow', pipes'[r'].buf) ELSE Whole(pipes'[r'].buf)
        <3>1. CASE r # w
            BY <1>1, <1>2, <1>3, <2>1, <3>1 DEF ContentOK
        <3>2. CASE r = w
            <4>1. KeyRead => Under(KeyNow, buf) /\ Begun(w) /\ KeyOf(w) = KeyNow
                BY <1>2, <3>2 DEF ContentOK, Begun, KeyOf
            <4>2. KeyRead => Under(KeyNow, more)
                BY <1>9, <4>1
            <4>3. ~KeyRead => Whole(more)
                BY <1>2, <1>10, <3>2 DEF ContentOK
            <4> QED
                BY <1>1, <1>8, <2>1, <3>2, <4>2, <4>3
        <3> QED
            BY <3>1, <3>2
    <2>3. ASSUME NEW i \in 1 .. Len(readers') PROVE Whole(pipes'[readers'[i]].buf)
        <3>1. readers[i] \in 1 .. Len(pipes) /\ Whole(pipes[readers[i]].buf) /\ i \in 1 .. Len(readers)
            BY <1>2, <1>3 DEF ContentOK
        <3>2. CASE readers[i] # w
            BY <3>1, <3>2
        <3>3. CASE readers[i] = w
            <4>1. r # w
                <5>1. r < readers[i] /\ r \in Nat
                    BY <1>2, <3>1, InRoundFacts DEF OrderOK
                <5> QED
                    BY <3>3, <5>1
            <4> QED
                BY <1>8, <1>10, <3>1, <3>3, <4>1
        <3> QED
            BY <3>2, <3>3
    <2>4. waiting' /\ ~pipes'[r'].tok => pipes'[r'].buf = <<>>
        <3>1. waiting => r # None
            BY DEF PipeInv, StagesOK
        <3>2. CASE r # w
            BY <1>1, <1>2, <1>3, <3>1, <3>2 DEF ContentOK
        <3>3. CASE r = w
            BY <1>1, <3>3
        <3> QED
            BY <3>2, <3>3
    <2> QED
        BY <1>1, <1>2, <2>2, <2>3, <2>4 DEF ContentOK
<1>12. AllThere'
    <2> DEFINE one == IF e.n = 0 THEN <<>> ELSE <<e>>
               got == Got
               hand == InHand
               way == InFirst \o InPipes(pipes, readers)
    <2>1. Bytes(written') = Bytes(written) \o one
        <3>1. Bytes(<<e>>) = one /\ <<e>> \in Seq(Element)
            BY BytesOne
        <3> QED
            BY <1>3, <3>1, BytesConcat
    <2>2. InFirst' \o InPipes(pipes', readers') = way \o one
        <3>1. \A p \in 1 .. Len(pipes) : p # w => pipes'[p].buf = pipes[p].buf
            OBVIOUS
        <3> QED
            BY <1>1, <1>2, <1>5, <3>1, BytesLast
    <2>3. got' = got /\ hand' = hand
        BY <1>1 DEF Got, InHand
    <2>4. one \in Seq(Element)
        <3>1. <<>> \in Seq(Element) /\ <<e>> \in Seq(Element)
            OBVIOUS
        <3> QED
            BY <3>1
    <2>5. got \in Seq(Element) /\ hand \in Seq(Element) /\ way \in Seq(Element)
        <3>1. hand \in Seq(Element) /\ InFirst \in Seq(Element) /\ InPipes(pipes, readers) \in Seq(Element)
            BY <1>2, BytesOnTheWay DEF DataOK
        <3>2. way \in Seq(Element)
            BY <3>1
        <3>3. got \in Seq(Element)
            BY <1>2, BytesGot DEF Got, DataOK
        <3> QED
            BY <3>1, <3>2, <3>3
    <2>6. Bytes(written) = got \o (hand \o way)
        BY <1>2 DEF AllThere
    <2> HIDE DEF one, got, hand, way
    <2>7. (hand \o way) \o one = hand \o (way \o one) /\ hand \o way \in Seq(Element)
        <3>1. hand \o way \in Seq(Element)
            BY <2>5
        <3> QED
            BY <2>4, <2>5, <3>1, ThreeParts
    <2>8. (got \o (hand \o way)) \o one = got \o ((hand \o way) \o one)
        BY <2>4, <2>5, <2>7, ThreeParts
    <2>9. Bytes(written') = got' \o (hand' \o (way \o one))
        BY <2>1, <2>3, <2>6, <2>7, <2>8
    <2> QED
        BY <2>2, <2>9 DEF AllThere, got, hand
<1> QED
    BY <1>4, <1>6, <1>11, <1>12, FlowGoesOn DEF Flow

\* A write to a pipe that is open.
LEMMA WriteFlows ==
    ASSUME PipeInv, PipeInv', FlowInv, Ongoing, WriteKey \/ Write, w # None, pipes[w].closed = "no"
    PROVE  FlowInv'
<1> DEFINE e == [key |-> Op[2], n |-> IF a = "key" THEN 0 ELSE Op[3]]
<1>1. /\ a \in {"key", "ready"}
      /\ a = "ready" => Op[1] = "write"
      /\ pipes' = [pipes EXCEPT ![w].buf = @ \o <<e>>, ![w].tok = TRUE]
      /\ IF cap = 0 THEN a' = "written" /\ script' = script ELSE a' = "ready" /\ script' = Tail(script)
      /\ written' = written \o <<e>>
      /\ UNCHANGED <<readerVars, w, new, readers>>
    BY DEF WriteKey, Write, Writes
<1>2. /\ pipes \in Seq(PipeRecord) /\ Len(pipes) \in Nat
      /\ w \in 1 .. Len(pipes)
      /\ \A p \in 1 .. Len(pipes) : pipes[p].buf \in Seq(Element)
    BY InRoundFacts
<1>3. ScriptKeys /\ WriterOK /\ TypeOK /\ SentOK /\ ScriptOK
    BY DEF FlowInv, Flow, PipeInv
<1>4. a = "key" => Op[1] = "next"
    BY <1>3 DEF ScriptOK
<1>5. Sent(w)
    <2>1. Op[1] # "close"
        BY <1>1, <1>4
    <2> QED
        BY <1>3, <2>1 DEF SentOK, Ongoing
<1>6. script[1] = Op /\ Len(script) \in Nat /\ 1 \in 1 .. Len(script) /\ Op \in OpsOf(Op[1])
    BY <1>1, <1>3, <1>4, OpKinds
<1>7. e \in Element
    <2>1. CASE a = "key"
        <3>1. Op \in OpsOf("next") /\ e = [key |-> Op[2], n |-> 0]
            BY <1>4, <1>6, <2>1
        <3> QED
            BY <3>1 DEF Element
    <2>2. CASE a = "ready"
        <3>1. Op \in OpsOf("write") /\ e = [key |-> Op[2], n |-> Op[3]]
            BY <1>1, <1>6, <2>2
        <3> QED
            BY <3>1 DEF Element
    <2> QED
        BY <1>1, <2>1, <2>2
<1>8. IF Begun(w) THEN e.n # 0 /\ e.key = KeyOf(w) ELSE e.n = 0
    <2>1. CASE a = "key"
        BY <1>3, <2>1 DEF WriterOK
    <2>2. CASE a = "ready"
        <3>1. Begun(w) /\ KeyHolds(script, 1, KeyOf(w))
            BY <1>3, <2>2 DEF WriterOK
        <3>2. Op[2] = KeyOf(w)
            BY <1>1, <1>3, <2>2, <3>1, KeyAfterWrite
        <3>3. Op[3] # 0
            BY <1>1, <1>3, <1>6, <2>2 DEF ScriptKeys
        <3> QED
            BY <2>2, <3>1, <3>2, <3>3
    <2> QED
        BY <1>1, <2>1, <2>2
<1>9. KeyHolds(script, 2, e.key)
    <2>1. CASE a = "key"
        <3>1. KeyHolds(script, 1 + 1, Op[2])
            BY <1>3, <1>4, <1>6, <2>1 DEF ScriptKeys
        <3> QED
            BY <3>1
    <2>2. CASE a = "ready"
        <3>1. KeyHolds(script, 1, KeyOf(w))
            BY <1>3, <2>2 DEF WriterOK
        <3> DEFINE k == KeyOf(w)
        <3>2. KeyHolds(script, 1, k)
            BY <3>1
        <3> HIDE DEF k
        <3>3. Op[2] = k /\ KeyHolds(script, 2, k)
            BY <1>1, <1>3, <2>2, <3>2, KeyAfterWrite
        <3> QED
            BY <3>3
    <2> QED
        BY <1>1, <2>1, <2>2
<1> DEFINE buf == pipes[w].buf
           more == Append(buf, e)
<1>10. buf \in Seq(Element)
    BY <1>2
<1>11. /\ more # <<>>
       /\ buf # <<>> => more[1] = buf[1]
       /\ buf = <<>> => more[1] = e
    BY <1>7, <1>10, OneMoreInPipe
<1>12. buf \o <<e>> = more
    BY <1>7, <1>10
<1> HIDE DEF e, more
<1>13. /\ Len(pipes') = Len(pipes) /\ pipes'[w].buf = more /\ pipes'[w].tok /\ pipes'[w].closed = "no"
       /\ \A p \in 1 .. Len(pipes) : p # w => pipes'[p] = pipes[p]
    <2>1. pipes[w] \in PipeRecord
        BY <1>2
    <2> DEFINE c == [pipes[w] EXCEPT !.buf = more, !.tok = TRUE]
    <2>2. more \in Seq(Element)
        BY <1>7, <1>10 DEF more
    <2>3. c \in PipeRecord /\ c.buf = more /\ c.tok /\ c.closed = "no"
        BY <2>1, <2>2 DEF PipeRecord
    <2>4. pipes' = [pipes EXCEPT ![w] = c]
        BY <1>1, <1>12
    <2> HIDE DEF c
    <2>5. Len(pipes') = Len(pipes) /\ \A p \in 1 .. Len(pipes) : pipes'[p] = IF p = w THEN c ELSE pipes[p]
        BY <1>2, <2>3, <2>4, OnePipe
    <2> QED
        BY <1>2, <2>3, <2>5
<1>14. a' \notin InNextPipe /\ a \notin InNextPipe
    BY <1>1 DEF InNextPipe
<1>15. ScriptKeys'
    BY <1>1, <1>3, ScriptKeysStay
<1>16. WriterOK'
    <2>1. UNCHANGED <<b, r, part, key>>
        BY <1>1 DEF readerVars
    <2>2. Begun(w)' /\ KeyOf(w)' = e.key
        <3>1. Begun(w)'
            BY <1>1, <1>11, <1>13 DEF Begun
        <3>2. CASE w = r /\ KeyRead
            BY <1>1, <1>8, <2>1, <3>2 DEF Begun, KeyOf, KeyRead, KeyNow
        <3>3. CASE ~(w = r /\ KeyRead)
            <4>1. KeyOf(w)' = more[1].key
                BY <1>1, <1>13, <2>1, <3>3 DEF KeyOf, KeyRead
            <4>2. buf # <<>> => e.key = buf[1].key
                BY <1>8, <3>3 DEF Begun, KeyOf
            <4> QED
                BY <1>11, <3>1, <4>1, <4>2
        <3> QED
            BY <3>1, <3>2, <3>3
    <2>3. CASE cap = 0
        BY <1>1, <1>9, <2>2, <2>3 DEF WriterOK, InNextPipe
    <2>4. CASE cap # 0
        <3> DEFINE k == e.key
        <3>1. KeyHolds(script, 1 + 1, k) /\ script' = Tail(script) /\ a' = "ready"
            BY <1>1, <1>9, <2>4
        <3> HIDE DEF k
        <3>2. KeyHolds(script', 1, k)
            BY <1>3, <3>1, ScriptRest
        <3>3. KeyHolds(script', 1, KeyOf(w)')
            BY <2>2, <3>2 DEF k
        <3> QED
            BY <1>1, <2>2, <3>1, <3>3 DEF WriterOK, InNextPipe
    <2> QED
        BY <2>3, <2>4
<1> QED
    BY <1>1, <1>5, <1>7, <1>8, <1>13, <1>14, <1>15, <1>16, OneWrittenFlows DEF more

------------------------------------------------------------------------------
(* When the round is over no chunk is read.                                   *)

\* The last of a sequence of elements is one.
LEMMA LastElement ==
    ASSUME NEW T, NEW s \in Seq(T), NEW x, s \o <<x>> \in Seq(T)
    PROVE  x \in T
<1> DEFINE t == s \o <<x>>
<1>1. Len(t) = Len(s) + 1 /\ t[Len(s) + 1] = x /\ Len(s) \in Nat
    OBVIOUS
<1>2. t \in Seq(T)
    OBVIOUS
<1> HIDE DEF t
<1>3. Len(s) + 1 \in 1 .. Len(t)
    BY <1>1
<1> QED
    BY <1>1, <1>2, <1>3

\* The writer may go on to write, unless the reader met its end.
LEMMA WriteAfterRound ==
    ASSUME PipeInv, PipeInv', ~Ongoing, [Next]_vars
    PROVE  /\ UNCHANGED <<messages, part, key, outcome>>
           /\ script' = script \/ script' = Tail(script) \/ WriterFails
           /\ written' = written \/ \E x \in Element : written' = written \o <<x>>
           /\ outcome = "eof" => written' = written
<1>1. TypeOK /\ StagesOK /\ written \in Seq(Element) /\ written' \in Seq(Element)
    <2>1. TypeOK /\ TypeOK' /\ StagesOK
        BY DEF PipeInv
    <2> QED
        BY <2>1, Zenon DEF TypeOK
<1>2. b \notin {"read", "key", "value"}
    BY <1>1 DEF StagesOK, Ongoing
<1>3. ~waiting
    BY <1>1, <1>2 DEF StagesOK
<1>4. UNCHANGED <<messages, part, key, outcome>>
    <2>1. CASE UNCHANGED vars
        BY <2>1 DEF vars, readerVars
    <2>2. CASE Writer
        <3>1. CASE BeginClose("writer") \/ EnsureWriter("writer") \/ CloseReaders("writer") \/ CloseWriter("writer")
            BY <3>1 DEF BeginClose, EnsureWriter, CloseReaders, CloseWriter
        <3>2. CASE ~(BeginClose("writer") \/ EnsureWriter("writer") \/ CloseReaders("writer") \/ CloseWriter("writer"))
            BY <2>2, <3>2 DEF Writer, NextPipe, LockReaders, SelectSend, SelectClosing, SelectPanics, SetWriter,
               WriteKey, Write, WriteReturns, readerVars
        <3> QED
            BY <3>1, <3>2
    <2>3. CASE MessageFull \/ SendFails
        BY <1>2, <2>3 DEF MessageFull, SendFails, B
    <2>4. CASE ChunkReader
        <3>1. CASE BeginClose("TO2") \/ EnsureWriter("TO2") \/ CloseReaders("TO2") \/ CloseWriter("TO2")
            BY <3>1 DEF BeginClose, EnsureWriter, CloseReaders, CloseWriter
        <3>2. CASE CloseReader
            BY <3>2 DEF CloseReader, Reads
        <3>3. CASE ~CloseReader /\ ~(BeginClose("TO2") \/ EnsureWriter("TO2") \/ CloseReaders("TO2") \/ CloseWriter("TO2"))
            BY <1>2, <1>3, <2>4, <3>3 DEF ChunkReader, B, TakeReader, EndOfReaders, ReadMore, ReadBytes, ReadWaits, Woken,
               HaveKey, HaveChunk, EndOfInfo, Break, ReadFails
        <3> QED
            BY <3>1, <3>2, <3>3
    <2> QED
        BY <2>1, <2>2, <2>3, <2>4 DEF Next
<1>5. /\ script' = script \/ script' = Tail(script) \/ WriterFails
      /\ written' = written \/ (a \in {"set", "key", "ready"} /\ \E x : written' = written \o <<x>>)
    <2>1. CASE UNCHANGED vars
        BY <2>1 DEF vars, writerVars
    <2>2. CASE Writer
        <3>1. CASE BeginClose("writer") \/ EnsureWriter("writer") \/ CloseReaders("writer") \/ CloseWriter("writer")
            BY <3>1 DEF BeginClose, EnsureWriter, CloseReaders, CloseWriter
        <3>2. CASE NextPipe \/ LockReaders \/ SelectSend \/ SelectClosing \/ SelectPanics \/ WriteReturns
            BY <3>2 DEF NextPipe, LockReaders, SelectSend, SelectClosing, SelectPanics, WriteReturns
        <3>3. CASE SetWriter
            <4>1. a = "set" /\ (script' = script \/ script' = Tail(script))
                BY <3>3 DEF SetWriter, A
            <4>2. written' = written \/ written' = Append(written, BreakWritten)
                BY <3>3 DEF SetWriter
            <4>3. Append(written, BreakWritten) = written \o <<BreakWritten>>
                BY <1>1
            <4> QED
                BY <4>1, <4>2, <4>3
        <3>4. CASE WriteKey
            BY <3>4 DEF WriteKey, Writes
        <3>5. CASE Write
            BY <3>5 DEF Write, Writes
        <3> QED
            BY <2>2, <3>1, <3>2, <3>3, <3>4, <3>5 DEF Writer
    <2>3. CASE MessageFull \/ SendFails
        BY <2>3 DEF MessageFull, SendFails, Reads, Ends, Reading, writerVars
    <2>4. CASE ChunkReader
        <3>1. CASE BeginClose("TO2") \/ EnsureWriter("TO2") \/ CloseReaders("TO2") \/ CloseWriter("TO2")
            BY <3>1 DEF BeginClose, EnsureWriter, CloseReaders, CloseWriter
        <3>2. CASE CloseReader
            BY <3>2 DEF CloseReader, Reads, Reading, writerVars
        <3>3. CASE ~CloseReader /\ ~(BeginClose("TO2") \/ EnsureWriter("TO2") \/ CloseReaders("TO2") \/ CloseWriter("TO2"))
            BY <1>2, <1>3, <2>4, <3>3 DEF ChunkReader, B, TakeReader, EndOfReaders, ReadMore, ReadBytes, ReadWaits, Woken,
               HaveKey, HaveChunk, EndOfInfo, Break, ReadFails
        <3> QED
            BY <3>1, <3>2, <3>3
    <2> QED
        BY <2>1, <2>2, <2>3, <2>4 DEF Next
<1>6. \A x : written' = written \o <<x>> => x \in Element
    BY <1>1, LastElement
<1>7. outcome = "eof" => a \in {"close writer", "over"}
    BY <1>1 DEF StagesOK
<1> QED
    BY <1>4, <1>5, <1>6, <1>7

\* So what was read stays a part of what was written.
LEMMA AfterRoundFlows ==
    ASSUME PipeInv, PipeInv', FlowInv, ~Ongoing, [Next]_vars
    PROVE  FlowInv'
<1>1. /\ UNCHANGED <<messages, part, key, outcome>>
      /\ script' = script \/ script' = Tail(script) \/ WriterFails
      /\ written' = written \/ \E x \in Element : written' = written \o <<x>>
      /\ outcome = "eof" => written' = written
    BY WriteAfterRound
<1>2. DataOK /\ ScriptKeys
    BY DEF FlowInv
<1>3. TypeOK /\ written \in Seq(Element)
    <2>1. TypeOK
        BY DEF PipeInv
    <2> QED
        BY <2>1, Zenon DEF TypeOK
<1>4. PICK rest \in Seq(Element) : Bytes(written) = Got \o rest
    BY DEF FlowInv
<1>5. Got' = Got /\ Got \in Seq(Element) /\ DataOK' /\ ~Ongoing' /\ ScriptKeys'
    <2>1. Got \in Seq(Element)
        BY <1>2, BytesGot DEF Got, DataOK
    <2>2. ScriptKeys'
        BY <1>1, <1>2, <1>3, ScriptKeysStay
    <2> QED
        BY <1>1, <1>2, <2>1, <2>2 DEF Got, DataOK, Ongoing
<1>6. \E more \in Seq(Element) : Bytes(written') = Got \o more
    <2>1. CASE written' = written
        BY <1>4, <2>1
    <2>2. ASSUME NEW x \in Element, written' = written \o <<x>>
          PROVE  \E more \in Seq(Element) : Bytes(written') = Got \o more
        <3>1. <<x>> \in Seq(Element)
            OBVIOUS
        <3>2. Bytes(written') = Bytes(written) \o Bytes(<<x>>) /\ Bytes(<<x>>) \in Seq(Element)
            BY <1>3, <2>2, <3>1, BytesConcat, BytesType
        <3>3. (Got \o rest) \o Bytes(<<x>>) = Got \o (rest \o Bytes(<<x>>))
            BY <1>4, <1>5, <3>2, ThreeParts
        <3>4. rest \o Bytes(<<x>>) \in Seq(Element)
            BY <3>2
        <3> QED
            BY <1>4, <3>2, <3>3, <3>4
    <2> QED
        BY <1>1, <2>1, <2>2
<1>7. outcome' = "eof" => Bytes(written') = Got'
    BY <1>1, <1>5 DEF FlowInv
<1> QED
    BY <1>5, <1>6, <1>7 DEF FlowInv

------------------------------------------------------------------------------
(* What is read is what is written.                                           *)

\* At first nothing is written.
LEMMA InitFlow == Init => FlowInv
<1> SUFFICES ASSUME Init PROVE FlowInv
    OBVIOUS
<1>1. /\ script \in Scripts /\ a = "ready" /\ w = None /\ new = None /\ pipes = <<>>
      /\ readers = <<>> /\ b = "read" /\ r = None /\ waiting = FALSE /\ ask = 0 /\ part = <<>>
      /\ messages = <<<<>>>> /\ written = <<>>
    BY DEF Init
<1>2. key \in Key /\ ~(outcome = "eof")
    BY Zenon DEF Init, Key
<1>3. <<>> \in Seq(Element) /\ <<>> \in Seq(ChunkRecord) /\ <<>> \in Seq(Seq(ChunkRecord))
    OBVIOUS
<1>4. messages \in Seq(Seq(ChunkRecord)) /\ messages # <<>> /\ InfosOf(messages) = <<>>
    <2> DEFINE no == <<>>
    <2>1. messages = Append(no, <<>>)
        BY <1>1
    <2>2. no \in Seq(Seq(ChunkRecord))
        BY <1>3
    <2>3. InfosOf(no) = <<>>
        <3>1. [i \in DOMAIN no |-> Unchunked(no[i])] = <<>>
            OBVIOUS
        <3> QED
            BY <3>1, FlattenNone DEF InfosOf
    <2> HIDE DEF no
    <2> QED
        BY <2>1, <2>2, <2>3, EmptyMessage
<1>5. Got = <<>>
    <2>1. [i \in DOMAIN <<>> |-> <<>>[i].val] = <<>>
        OBVIOUS
    <2> QED
        BY <1>4, <2>1, FlattenNone DEF Got, Values
<1>6. DataOK
    <2>1. KeysKept(InfosOf(messages))
        BY <1>4 DEF KeysKept
    <2> QED
        BY <1>1, <1>2, <1>3, <1>4, <2>1 DEF DataOK
<1>7. ScriptKeys
    <2>1. WellFormed(script)
        BY <1>1, ScriptsAssumption
    <2> SUFFICES ASSUME NEW i \in 1 .. Len(script)
                 PROVE  /\ script[i][1] = "write" => script[i][3] # 0
                        /\ script[i][1] = "next" => KeyHolds(script, i + 1, script[i][2])
        BY DEF ScriptKeys
    <2>2. script[i][1] = "write" => script[i][3] # 0
        BY <2>1 DEF WellFormed
    <2>3. ASSUME script[i][1] = "next", NEW j \in i + 1 .. Len(script),
                 script[j][1] = "write", \A m \in i + 1 .. j - 1 : script[m][1] # "next"
          PROVE  script[j][2] = script[i][2]
        <3>1. script \in Seq(AllOps) /\ Len(script) \in Nat
            BY <1>1, ScriptsAssumption
        <3>2. j \in 1 .. Len(script) /\ i \in Nat /\ j \in Nat
            BY <3>1
        <3>3. PICK k \in 1 .. j - 1 : /\ script[k][1] = "next" /\ script[k][2] = script[j][2]
                                      /\ \A m \in k + 1 .. j - 1 : script[m][1] # "next"
            BY <2>1, <2>3, <3>2 DEF WellFormed
        <3>4. k = i
            <4>1. ~(k < i)
                BY <2>3, <3>2, <3>3
            <4>2. ~(i < k)
                BY <2>3, <3>2, <3>3
            <4> QED
                BY <3>2, <4>1, <4>2
        <3> QED
            BY <3>3, <3>4
    <2> QED
        BY <2>2, <2>3 DEF KeyHolds
<1>8. OrderOK
    BY <1>1 DEF OrderOK, Newest, InNextPipe, None
<1>9. ContentOK
    BY <1>1 DEF ContentOK
<1>10. WriterOK
    BY <1>1 DEF WriterOK, InNextPipe
<1>11. Bytes(written) = <<>>
    BY <1>1, BytesOne
<1>12. AllThere
    <2>1. InHand = <<>> /\ InFirst = <<>> /\ InPipes(pipes, readers) = <<>>
        BY <1>1, InNoPipe DEF InHand, InFirst
    <2>2. <<>> \o (<<>> \o (<<>> \o <<>>)) = <<>>
        OBVIOUS
    <2> QED
        BY <1>5, <1>11, <2>1, <2>2 DEF AllThere
<1>13. \E rest \in Seq(Element) : Bytes(written) = Got \o rest
    <2>1. <<>> \o <<>> = <<>>
        OBVIOUS
    <2> QED
        BY <1>3, <1>5, <1>11, <2>1
<1> QED
    BY <1>2, <1>6, <1>7, <1>8, <1>9, <1>10, <1>12, <1>13 DEF FlowInv, Flow

\* A step of nobody, in the round.
LEMMA IdleFlows ==
    ASSUME PipeInv, PipeInv', FlowInv, Ongoing, UNCHANGED vars
    PROVE  FlowInv'
<1>1. /\ UNCHANGED <<script, a, new, written, w, pipes, readers, readerVars>>
      /\ UNCHANGED <<b, outcome, r, waiting, ask, part, key, messages>>
    BY DEF vars, writerVars, sharedVars, readerVars
<1>2. ScriptKeys /\ OrderOK /\ WriterOK
    BY DEF FlowInv, Flow
<1>3. ScriptKeys'
    BY <1>1, <1>2 DEF ScriptKeys
<1>4. OrderOK'
    BY <1>1, <1>2 DEF OrderOK, Newest
<1>5. WriterOK'
    BY <1>1, <1>2 DEF WriterOK, Begun, KeyOf, KeyRead, KeyNow
<1>6. Len(pipes) <= Len(pipes')
    BY <1>1, InRoundFacts
<1>7. Bytes(written') = Bytes(written)
    BY <1>1
<1> QED
    BY <1>1, <1>3, <1>4, <1>5, <1>6, <1>7, WriterFlows

\* A step of the writer, in the round.
LEMMA WritingFlows ==
    ASSUME PipeInv, PipeInv', FlowInv, Ongoing, Writer
    PROVE  FlowInv'
<1>1. CASE NextPipe \/ LockReaders \/ SelectSend \/ SetWriter \/ WriteReturns
    BY <1>1, NextPipeFlows, LockReadersFlows, SelectSendFlows, SetWriterFlows, WriteReturnsFlows
<1>2. CASE SelectClosing \/ SelectPanics
    <2>1. a = "select" /\ (closing \/ ~open)
        BY <1>2 DEF SelectClosing, SelectPanics, A
    <2>2. a \notin InClose \cup {"over"}
        BY <2>1 DEF InClose
    <2>3. ~Ongoing
        <3>1. outcome # ""
            BY <2>1, <2>2, NotClosing
        <3> QED
            BY <3>1, Zenon DEF Ongoing
    <2> QED
        BY <2>3
<1>3. CASE WriteKey \/ Write
    BY <1>3, WriteFlows, FailedWriteFlows
<1>4. CASE BeginClose("writer") \/ EnsureWriter("writer") \/ CloseReaders("writer") \/ CloseWriter("writer")
    BY <1>4, CloseFlows
<1> QED
    BY <1>1, <1>2, <1>3, <1>4 DEF Writer

\* A step of the reader, in the round.
LEMMA ReadingFlows ==
    ASSUME PipeInv, PipeInv', FlowInv, Ongoing, ChunkReader \/ MessageFull \/ SendFails
    PROVE  FlowInv'
<1>1. CASE TakeReader \/ HaveKey \/ HaveChunk \/ MessageFull \/ ReadBytes \/ ReadMore \/ ReadWaits \/ Woken
    BY <1>1, TakeReaderFlows, HaveKeyFlows, HaveChunkFlows, MessageFullFlows, ReadBytesFlows, WaitingFlows
<1>2. CASE EndOfInfo \/ Break
    BY <1>2, EndFlows, LeavingFlows, Zenon DEF EndOfInfo, Reads, Ongoing
<1>3. CASE EndOfReaders \/ ReadFails \/ SendFails
    <2>1. outcome' \in {"eof", "error", "failed"}
        BY <1>3 DEF EndOfReaders, ReadFails, SendFails, Ends
    <2>2. ~Ongoing'
        BY <2>1, Zenon DEF Ongoing
    <2> QED
        BY <1>3, <2>2, EndFlows
<1>4. CASE CloseReader \/ BeginClose("TO2") \/ EnsureWriter("TO2") \/ CloseReaders("TO2") \/ CloseWriter("TO2")
    <2>1. b \in {"ended", "close"} \cup InClose
        BY <1>4 DEF CloseReader, BeginClose, EnsureWriter, CloseReaders, CloseWriter, At, B, InClose
    <2>2. b \in {"read", "key", "value"}
        BY InRoundFacts
    <2> QED
        BY <2>1, <2>2 DEF InClose
<1> QED
    BY <1>1, <1>2, <1>3, <1>4 DEF ChunkReader

\* Every step keeps it.
LEMMA NextFlow ==
    ASSUME PipeInv, FlowInv, [Next]_vars
    PROVE  FlowInv'
<1>1. PipeInv'
    BY NextPipeInv
<1>2. CASE ~Ongoing
    BY <1>1, <1>2, AfterRoundFlows
<1>3. CASE Ongoing /\ UNCHANGED vars
    BY <1>1, <1>3, IdleFlows
<1>4. CASE Ongoing /\ Next
    BY <1>1, <1>4, WritingFlows, ReadingFlows DEF Next
<1> QED
    BY <1>2, <1>3, <1>4

\* The invariant of what is written.
LEMMA FlowHolds == Spec => [](PipeInv /\ FlowInv)
<1>1. PipeInv /\ FlowInv /\ [Next]_vars => PipeInv' /\ FlowInv'
    BY NextPipeInv, NextFlow
<1>2. Init => PipeInv /\ FlowInv
    BY InitPipeInv, InitFlow
<1> QED
    BY <1>1, <1>2, PTL DEF Spec

\* Then what was read is a beginning of it.
LEMMA FlowInOrder == FlowInv => InOrder
<1> SUFFICES ASSUME FlowInv PROVE InOrder
    OBVIOUS
<1>1. /\ messages \in Seq(Seq(ChunkRecord)) /\ KeysKept(InfosOf(messages))
      /\ outcome = "eof" => Got = Bytes(written)
    BY DEF FlowInv, DataOK
<1>2. Infos = InfosOf(messages)
    BY DEF Infos, InfosOf
<1>3. FlattenSeq([i \in DOMAIN Infos |-> Infos[i].val]) = Got
    BY <1>2 DEF Got, Values
<1>4. PICK rest \in Seq(Element) : Bytes(written) = Got \o rest
    BY DEF FlowInv
<1>5. IsPrefix(Got, Bytes(written))
    <2> DEFINE s == Got
               t == s \o rest
    <2>1. s \in Seq(Element)
        BY <1>1, BytesGot DEF Got
    <2> HIDE DEF s
    <2>2. Len(s) <= Len(t) /\ SubSeq(s, 1, Len(s)) = SubSeq(t, 1, Len(s))
        BY <1>4, <2>1
    <2> QED
        BY <1>4, <2>2 DEF IsPrefix, s
<1>6. \A i \in DOMAIN Infos : \A j \in DOMAIN Infos[i].val : Infos[i].val[j].key = Infos[i].key
    BY <1>1, <1>2 DEF KeysKept, KeyKept
<1> QED
    BY <1>1, <1>3, <1>5, <1>6 DEF InOrder

\* What the owner service unchunks is a beginning of what was written, each byte once, in
\* the order and under the key it was written, and all of it when the reader meets the end
\* (UnchunkWriter, ChunkReader.ReadChunk, ChunkWriter): for all scripts, capacities, sizes
\* of chunks and messages, and interleavings of the two goroutines.
THEOREM ReadAsWritten == Spec => []InOrder
<1> QED
    BY FlowHolds, FlowInOrder, PTL
=============================================================================
