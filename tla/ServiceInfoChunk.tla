-------------------------- MODULE ServiceInfoChunk --------------------------
(***************************************************************************)
(* One turn of the device in the service info exchange: what a device      *)
(* module writes between two answers, cut by ChunkReader.ReadChunk into    *)
(* key-value pairs, packed into DeviceServiceInfo messages by              *)
(* exchangeServiceInfoRound, and unchunked message by message by the owner *)
(* service.                                                                *)
(*                                                                         *)
(* Bytes are counted, not kept: a service info is the length of its key    *)
(* and of its value, a key-value pair which bytes of which service info it *)
(* holds.  ReadChunk waits until a pipe has the bytes it asks for or is    *)
(* closed, so when they were written makes no difference and the pipes are *)
(* replaced by the list of what goes through them.                         *)
(***************************************************************************)
EXTENDS Naturals, Sequences

CONSTANTS
    Keys,         \* keys, "module:message"
    KeyLen,       \* key: length of its string
    Lengths,      \* lengths of values
    MaxInfos,     \* bound: service infos and yields of a turn
    Mtus,         \* maximum service info sizes the owner service may announce
    MaxBlocks,    \* bound: answers of the owner that block the device
    Nil           \* absent value

ASSUME KeysAssumption == Nil \notin Keys /\ \A k \in Keys : KeyLen[k] \in 1 .. 255
ASSUME LengthsAssumption == Lengths \subseteq Nat
ASSUME MtusAssumption == \A m \in Mtus : m \in Nat /\ m <= 65535
ASSUME BoundsAssumption == MaxInfos \in Nat /\ MaxBlocks \in Nat

\* What a module writes: a value under a key, or a yield.
Yield == [key |-> Nil, len |-> 0]
Info == [key : Keys, len : Lengths] \cup {Yield}

VARIABLES
    script,  \* what the module writes in this turn
    mtu,     \* the size the owner announced
    taken,   \* number of pipes taken from the queue (readers)
    cur,     \* whether the last one taken is still being read (r.r)
    left,    \* bytes of its value not yet read
    room,    \* maxRead: space left in the message
    msg,     \* key-value pairs of the message being filled
    size,    \* history: encoded size of these
    phase,   \* "fill", "sent" (the message is), or how the round ended
    more,    \* IsMoreServiceInfo of the message sent
    blocks,  \* answers so far that blocked the device
    got,     \* history: key-value pairs the owner service got
    rooms    \* history: room left in the messages that were sent

pipeVars == <<script, mtu, taken, cur, left>>
history == <<got, rooms>>
vars == <<pipeVars, room, msg, size, phase, more, blocks, history>>

------------------------------------------------------------------------------
(* Sizes in CBOR.                                                            *)

\* Bytes in front of a string of n bytes.
HeadLen(n) == IF n < 24 THEN 1 ELSE IF n < 256 THEN 2 ELSE 3

cborEncodedLen(n) == HeadLen(n) + n

KVSize(k, n) == 1 + cborEncodedLen(KeyLen[k]) + cborEncodedLen(n)

\* The size exchangeServiceInfo leaves to the key-value pairs of a message: less
\* two bytes for the message and three for the array, in 16 bits.  An announced size
\* is used as it is, and one below 5 wraps.
Limit_NoArray ==                         \* mutant: the head of the array is forgotten
    (mtu + 65536 - 2) % 65536

Limit == (mtu + 65536 - 5) % 65536

------------------------------------------------------------------------------
(* Device: ReadChunk and exchangeServiceInfoRound.                           *)

\* ReadChunk returned ErrSizeTooSmall: the message is sent, and more will follow
\* unless nothing fit into a whole message.
TooSmall_AlwaysMore ==                   \* mutant: more follows whatever room there was
    /\ phase' = "sent"
    /\ more' = TRUE
    /\ got' = got \o msg
    /\ rooms' = rooms \cup {room}

TooSmall ==
    /\ phase' = "sent"
    /\ more' = (room # Limit)
    /\ got' = got \o msg
    /\ rooms' = rooms \cup {room}

\* The limit on the bytes of a key, in 16 bits.
KeyLimit == (room + 65536 - 7) % 65536

\* The next service info: its key is read under the limit.
NextInfo ==
    /\ phase = "fill" /\ ~cur /\ taken < Len(script)
    /\ script[taken + 1] # Yield
    /\ LET key  == script[taken + 1].key
           head == HeadLen(KeyLen[key])
       IN  \/ /\ KeyLimit >= cborEncodedLen(KeyLen[key])
              /\ cur' = TRUE
              /\ left' = script[taken + 1].len
              /\ UNCHANGED <<phase, more, history>>
           \/ /\ KeyLimit <= head               \* nothing or its head only: io.EOF
              /\ TooSmall
              /\ UNCHANGED <<cur, left>>
           \/ /\ KeyLimit > head /\ KeyLimit < cborEncodedLen(KeyLen[key])
              /\ phase' = "failed"              \* cut off: io.ErrUnexpectedEOF
              /\ UNCHANGED <<cur, left, more, history>>
    /\ taken' = taken + 1
    /\ UNCHANGED <<script, mtu, room, msg, size, blocks>>

\* A yield is a pipe that ends at once.
TakeYield ==
    /\ phase = "fill" /\ ~cur /\ taken < Len(script)
    /\ script[taken + 1] = Yield
    /\ TooSmall
    /\ taken' = taken + 1
    /\ UNCHANGED <<script, mtu, cur, left, room, msg, size, blocks>>

\* The overhead of a pair whose key is read, for the longest value that fits.
MaxOverhead(k) ==
    LET o1 == 1 + cborEncodedLen(KeyLen[k]) + 1
        o2 == IF room >= o1 + 24 THEN o1 + 1 ELSE o1
    IN  IF room >= o2 + 256 THEN o2 + 1 ELSE o2

\* A chunk of the value, as much as fits; the pipe is done with only when it ends
\* before the space does.  An empty chunk is skipped.
ReadValue ==
    /\ phase = "fill" /\ cur /\ room > MaxOverhead(script[taken].key)
    /\ LET max == room - MaxOverhead(script[taken].key)
           n   == IF left < max THEN left ELSE max
       IN  /\ cur' = (left >= max)
           /\ left' = left - n
           /\ IF n = 0 THEN UNCHANGED <<msg, room, size>>
              ELSE /\ msg' = Append(msg, [id |-> taken, from |-> script[taken].len - left, n |-> n])
                   /\ room' = room - KVSize(script[taken].key, n)
                   /\ size' = size + KVSize(script[taken].key, n)
    /\ UNCHANGED <<script, mtu, taken, phase, more, blocks, history>>

NoSpace ==
    /\ phase = "fill" /\ cur /\ room <= MaxOverhead(script[taken].key)
    /\ TooSmall
    /\ UNCHANGED <<pipeVars, room, msg, size, blocks>>

\* The module has returned and everything was read: io.EOF.
EndOfInfo ==
    /\ phase = "fill" /\ ~cur /\ taken = Len(script)
    /\ phase' = "sent"
    /\ more' = FALSE
    /\ got' = got \o msg
    /\ rooms' = rooms \cup {room}
    /\ UNCHANGED <<pipeVars, room, msg, size, blocks>>

------------------------------------------------------------------------------
(* Owner service: ownerServiceInfo, and the device going on.                 *)

\* The owner unchunks each message on its own (got is what it gets), produces
\* nothing while the device has more, and may block the device.  The round goes
\* on while either has more, otherwise it ends and the reader is dropped.
Answer_IgnoreMore ==                     \* mutant: the round goes on only while the owner has more
    /\ phase = "sent"
    /\ \/ /\ ~more /\ blocks < MaxBlocks
          /\ blocks' = blocks + 1
          /\ phase' = "fill" /\ room' = Limit /\ msg' = <<>> /\ size' = 0
       \/ /\ phase' = "done"
          /\ UNCHANGED <<blocks, room, msg, size>>
    /\ UNCHANGED <<pipeVars, more, history>>

Answer_Resend ==                         \* mutant: the message is not emptied
    /\ phase = "sent"
    /\ \/ /\ more \/ blocks < MaxBlocks
          /\ blocks' = IF more THEN blocks ELSE blocks + 1
          /\ phase' = "fill" /\ room' = Limit /\ size' = 0
          /\ UNCHANGED msg
       \/ /\ ~more
          /\ phase' = "done"
          /\ UNCHANGED <<blocks, room, msg, size>>
    /\ UNCHANGED <<pipeVars, more, history>>

Answer ==
    /\ phase = "sent"
    /\ \/ /\ more \/ blocks < MaxBlocks
          /\ blocks' = IF more THEN blocks ELSE blocks + 1
          /\ phase' = "fill" /\ room' = Limit /\ msg' = <<>> /\ size' = 0
       \/ /\ ~more
          /\ phase' = "done"
          /\ UNCHANGED <<blocks, room, msg, size>>
    /\ UNCHANGED <<pipeVars, more, history>>

------------------------------------------------------------------------------
Init ==
    /\ \E n \in 0 .. MaxInfos : script \in [1 .. n -> Info]
    /\ mtu \in Mtus
    /\ taken = 0
    /\ cur = FALSE
    /\ left = 0
    /\ room = Limit
    /\ msg = <<>>
    /\ size = 0
    /\ phase = "fill"
    /\ more = FALSE
    /\ blocks = 0
    /\ got = <<>>
    /\ rooms = {}

Next == NextInfo \/ TakeYield \/ ReadValue \/ NoSpace \/ EndOfInfo \/ Answer

Spec == Init /\ [][Next]_vars

\* The device and the owner service keep running.
FairSpec == Spec /\ WF_vars(Next)

------------------------------------------------------------------------------
(* Properties.                                                               *)

Pair == [id : Nat, from : Nat, n : Nat]

\* Every variable has its type: the room left in a message never goes below zero,
\* where its 16 bits would wrap.
TypeOK ==
    /\ script \in Seq(Info)
    /\ mtu \in Mtus
    /\ taken \in 0 .. Len(script)
    /\ cur \in BOOLEAN
    /\ left \in Nat
    /\ room \in Nat
    /\ msg \in Seq(Pair)
    /\ size \in Nat
    /\ phase \in {"fill", "sent", "done", "failed"}
    /\ more \in BOOLEAN
    /\ blocks \in 0 .. MaxBlocks
    /\ got \in Seq(Pair)
    /\ rooms \subseteq Nat

\* A message is never larger than the owner announced, at whatever lengths the
\* heads of keys, values and arrays grow by a byte: two bytes for the message, at
\* most three for its array, and the pairs.  Where the owner announced less than
\* those five bytes the limit has wrapped, and only the 16 bits bound a message.
FitsMTU == IF mtu >= 5 THEN size + 5 <= mtu ELSE size <= 65535

Complete(p) == p.from + p.n = script[p.id].len

Follows(q, p) ==
    \/ p.id = q.id /\ p.from = q.from + q.n
    \/ p.id > q.id /\ p.from = 0 /\ Complete(q)

\* The pairs the owner got and those in the message being filled.
Pairs == IF phase = "fill" THEN got \o msg ELSE got

\* What reaches the owner is in order and complete up to whole service infos: a
\* pair goes on where the last one ended, or begins a later service info after the
\* one before it arrived to its last byte.
InOrder ==
    \A i \in 1 .. Len(Pairs) :
        \/ i = 1 /\ Pairs[1].from = 0
        \/ i > 1 /\ Follows(Pairs[i - 1], Pairs[i])

\* The owner has all of service info i.
Arrived(i) == \E j \in 1 .. Len(got) : got[j].id = i /\ Complete(got[j])

\* A message has room for any key, one byte and the head start ReadChunk wants.
KeysFit == \A k \in Keys : KVSize(k, 1) + 7 <= Limit

\* The owner has all of every service info with a value.
AllArrived == \A i \in 1 .. Len(script) : script[i] # Yield /\ script[i].len > 0 => Arrived(i)

NoYield == \A i \in 1 .. Len(script) : script[i] # Yield

\* No message was left with so little room (7 to 9 bytes) that the key of the next
\* service info reads as the end of its pipe.
NoKeyAsEnd == rooms \cap (7 .. 9) = {}

\* A round that ends without an error has delivered everything the module wrote,
\* if the module did not yield and no key was taken for the end of its pipe.
NothingLost == phase = "done" /\ KeysFit /\ NoKeyAsEnd /\ NoYield => AllArrived

\* "The yield callback will cause the next service info to be sent in a new
\* message": what follows a yield is sent.
SentAfterYield == phase = "done" /\ KeysFit /\ NoKeyAsEnd => AllArrived

\* Every round ends: a key for which a whole message has no room does not keep the
\* device sending empty messages.
RoundEnds == phase = "fill" ~> phase \in {"done", "failed"}

------------------------------------------------------------------------------
(* The inductive invariant of the proofs.                                    *)

\* The room left is what the size of the pairs leaves of the limit.
RoomOK == room + size = Limit

\* What is being read is a service info.
CurOK == cur => taken > 0 /\ script[taken] # Yield /\ left <= script[taken].len

\* The last pair is where reading stands: at the bytes left of the service info
\* being read, or at the end of an earlier one.
LastOK ==
    /\ \A i \in 1 .. Len(Pairs) : Pairs[i].id \in 1 .. taken
    /\ phase # "failed" /\ cur /\ left < script[taken].len =>
          Pairs # <<>> /\ Pairs[Len(Pairs)].id = taken
          /\ Pairs[Len(Pairs)].from + Pairs[Len(Pairs)].n = script[taken].len - left
    /\ phase # "failed" /\ cur /\ left = script[taken].len /\ Pairs # <<>> =>
          Pairs[Len(Pairs)].id < taken /\ Complete(Pairs[Len(Pairs)])
    /\ phase # "failed" /\ ~cur /\ Pairs # <<>> => Complete(Pairs[Len(Pairs)])

IndInv == TypeOK /\ RoomOK /\ CurOK /\ InOrder /\ LastOK
=============================================================================
