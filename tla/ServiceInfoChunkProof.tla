------------------------ MODULE ServiceInfoChunkProof ------------------------
(***************************************************************************)
(* Proofs about ServiceInfoChunk, for all keys, lengths, message sizes and *)
(* whatever a module writes.                                               *)
(***************************************************************************)
EXTENDS ServiceInfoChunk, TLAPS

\* The longest value ReadChunk reads into the room there is makes a pair that
\* fits: the two steps of MaxOverhead are where the head of a value grows.
LEMMA ChunkFits ==
    ASSUME NEW k \in Keys, room \in Nat, NEW n \in Nat, room > MaxOverhead(k), n <= room - MaxOverhead(k)
    PROVE  KVSize(k, n) \in Nat /\ KVSize(k, n) <= room /\ MaxOverhead(k) \in Nat
<1>1. KeyLen[k] \in Nat
    BY KeysAssumption
<1>2. cborEncodedLen(KeyLen[k]) \in Nat
    BY <1>1 DEF cborEncodedLen, HeadLen
<1> DEFINE e == cborEncodedLen(KeyLen[k])
<1> HIDE DEF e
<1>3. KVSize(k, n) = 1 + e + HeadLen(n) + n
    BY <1>2 DEF KVSize, cborEncodedLen, e, HeadLen
<1>4. e \in Nat
    BY <1>2 DEF e
<1>5. MaxOverhead(k) = LET o1 == 1 + e + 1
                           o2 == IF room >= o1 + 24 THEN o1 + 1 ELSE o1
                       IN  IF room >= o2 + 256 THEN o2 + 1 ELSE o2
    BY DEF MaxOverhead, e
<1>6. QED
    BY <1>3, <1>4, <1>5 DEF HeadLen

\* What a module writes is of the form it has.
LEMMA Script ==
    ASSUME TypeOK, NEW i \in 1 .. Len(script), script[i] # Yield
    PROVE  script[i].key \in Keys /\ script[i].len \in Nat
<1>1. script[i] \in Info
    BY DEF TypeOK
<1>2. QED
    BY <1>1, KeysAssumption, LengthsAssumption DEF Info, Yield

\* ReadValue, in terms of the chunk it reads.
LEMMA Chunk ==
    ASSUME TypeOK, CurOK, ReadValue
    PROVE  \E n \in Nat :
              /\ n <= left
              /\ cur' = (n < left \/ (n = left /\ room - MaxOverhead(script[taken].key) = left))
              /\ left' = left - n
              /\ n = 0 => UNCHANGED <<msg, room, size>>
              /\ n > 0 =>
                    /\ msg' = Append(msg, [id |-> taken, from |-> script[taken].len - left, n |-> n])
                    /\ KVSize(script[taken].key, n) \in Nat
                    /\ KVSize(script[taken].key, n) <= room
                    /\ room' = room - KVSize(script[taken].key, n)
                    /\ size' = size + KVSize(script[taken].key, n)
<1> DEFINE k == script[taken].key
           max == room - MaxOverhead(k)
           n == IF left < max THEN left ELSE max
<1>1. taken \in 1 .. Len(script) /\ script[taken] # Yield
    BY DEF CurOK, ReadValue, TypeOK
<1>2. k \in Keys
    BY <1>1, Script
<1>3. left \in Nat /\ room \in Nat /\ room > MaxOverhead(k)
    BY DEF TypeOK, ReadValue
<1>4. MaxOverhead(k) \in Nat
    BY <1>2, <1>3, KeysAssumption DEF MaxOverhead, cborEncodedLen, HeadLen
<1>5. max \in Nat /\ n \in Nat /\ n <= left /\ n <= max
    BY <1>3, <1>4
<1>6. KVSize(k, n) \in Nat /\ KVSize(k, n) <= room
    BY <1>2, <1>3, <1>5, ChunkFits
<1>7. /\ cur' = (left >= max)
      /\ left' = left - n
      /\ n = 0 => UNCHANGED <<msg, room, size>>
      /\ n > 0 => /\ msg' = Append(msg, [id |-> taken, from |-> script[taken].len - left, n |-> n])
                  /\ room' = room - KVSize(k, n)
                  /\ size' = size + KVSize(k, n)
    BY <1>5 DEF ReadValue
<1>8. (left >= max) = (n < left \/ (n = left /\ max = left))
    BY <1>3, <1>5
<1> HIDE DEF n
<1>9. QED
    BY <1>5, <1>6, <1>7, <1>8

\* Sending a message keeps the types of what was sent.
LEMMA SendType ==
    ASSUME TypeOK
    PROVE  got \o msg \in Seq(Pair) /\ rooms \cup {room} \subseteq Nat
<1>1. got \in Seq(Pair) /\ msg \in Seq(Pair)
    BY DEF TypeOK
<1>2. got \o msg \in Seq(Pair)
    BY <1>1
<1>3. QED
    BY <1>2 DEF TypeOK

\* The limit is a number of 16 bits: five bytes less than announced, or wrapped.
LEMMA LimitType ==
    ASSUME mtu \in Mtus
    PROVE  /\ mtu \in Nat /\ mtu <= 65535
           /\ Limit \in Nat /\ Limit <= 65535
           /\ mtu >= 5 => Limit = mtu - 5
<1>1. mtu \in Nat /\ mtu <= 65535
    BY MtusAssumption
<1>2. QED
    BY <1>1 DEF Limit

\* Every step keeps the types and the account of the room.
LEMMA NextType ==
    ASSUME TypeOK, RoomOK, CurOK, [Next]_vars
    PROVE  TypeOK' /\ RoomOK'
<1>0. Limit \in Nat /\ Limit' = Limit
    <2>1. mtu \in Mtus /\ mtu' = mtu
        BY DEF TypeOK, Next, NextInfo, TakeYield, ReadValue, NoSpace, EndOfInfo, Answer, vars, pipeVars
    <2>2. Limit' = Limit
        BY <2>1 DEF Limit
    <2>3. QED
        BY <2>1, <2>2, LimitType
<1>1. CASE UNCHANGED vars
    BY <1>0, <1>1 DEF TypeOK, RoomOK, vars, history, pipeVars
<1>2. CASE NextInfo
    <2>1. taken + 1 \in 1 .. Len(script) /\ taken' = taken + 1
        BY <1>2 DEF NextInfo, TypeOK
    <2>2. script[taken + 1].len \in Nat
        BY <1>2, <2>1, Script DEF NextInfo
    <2>3. taken' \in 0 .. Len(script)
        BY <2>1
    <2>4. cur' \in BOOLEAN /\ left' \in Nat /\ phase' \in {"fill", "sent", "done", "failed"} /\ more' \in BOOLEAN
        BY <1>2, <2>2, Zenon DEF NextInfo, TooSmall, TypeOK
    <2>5. got' \in Seq(Pair) /\ rooms' \subseteq Nat
        BY <1>2, SendType, Zenon DEF NextInfo, TooSmall, TypeOK, history
    <2>6. UNCHANGED <<script, mtu, room, msg, size, blocks>>
        BY <1>2 DEF NextInfo
    <2>7. QED
        BY <1>0, <2>3, <2>4, <2>5, <2>6 DEF TypeOK, RoomOK
<1>3. CASE TakeYield
    <2>1. taken' \in 0 .. Len(script)
        BY <1>3 DEF TakeYield, TypeOK
    <2>2. got' \in Seq(Pair) /\ rooms' \subseteq Nat /\ phase' = "sent" /\ more' \in BOOLEAN
        BY <1>3, SendType DEF TakeYield, TooSmall
    <2>3. UNCHANGED <<script, mtu, cur, left, room, msg, size, blocks>>
        BY <1>3 DEF TakeYield
    <2>4. QED
        BY <1>0, <2>1, <2>2, <2>3 DEF TypeOK, RoomOK
<1>4. CASE ReadValue
    <2>1. PICK n \in Nat :
              /\ n <= left
              /\ cur' \in BOOLEAN
              /\ left' = left - n
              /\ n = 0 => UNCHANGED <<msg, room, size>>
              /\ n > 0 =>
                    /\ msg' = Append(msg, [id |-> taken, from |-> script[taken].len - left, n |-> n])
                    /\ KVSize(script[taken].key, n) \in Nat
                    /\ KVSize(script[taken].key, n) <= room
                    /\ room' = room - KVSize(script[taken].key, n)
                    /\ size' = size + KVSize(script[taken].key, n)
        BY <1>4, Chunk
    <2>2. taken \in 1 .. Len(script) /\ script[taken].len \in Nat /\ left <= script[taken].len
        BY <1>4, Script DEF ReadValue, CurOK, TypeOK
    <2>3. left \in Nat /\ room \in Nat /\ size \in Nat /\ msg \in Seq(Pair)
        BY DEF TypeOK
    <2>4. UNCHANGED <<script, mtu, taken, phase, more, blocks, history>>
        BY <1>4 DEF ReadValue
    <2>5. room + size = Limit
        BY DEF RoomOK
    <2> DEFINE r == [id |-> taken, from |-> script[taken].len - left, n |-> n]
               kv == KVSize(script[taken].key, n)
    <2>6. r \in Pair
        BY <2>2, <2>3 DEF Pair
    <2>7. left' \in Nat
        BY <2>1, <2>3
    <2> HIDE DEF r, kv
    <2>8. msg' \in Seq(Pair)
        <3>1. msg' = msg \/ msg' = Append(msg, r)
            BY <2>1 DEF r
        <3>2. msg \in Seq(Pair) /\ Append(msg, r) \in Seq(Pair)
            BY <2>3, <2>6
        <3>3. QED
            BY <3>1, <3>2, Zenon
    <2>9. room' \in Nat /\ size' \in Nat /\ room' + size' = Limit
        BY <1>0, <2>1, <2>3, <2>5 DEF kv
    <2>10. QED
        <3>1. RoomOK'
            BY <1>0, <2>9, Zenon DEF RoomOK
        <3>2. TypeOK'
            BY <2>1, <2>4, <2>7, <2>8, <2>9 DEF TypeOK, history
        <3> QED
            BY <3>1, <3>2
<1>5. CASE NoSpace
    <2>1. got' \in Seq(Pair) /\ rooms' \subseteq Nat /\ phase' = "sent" /\ more' \in BOOLEAN
        BY <1>5, SendType DEF NoSpace, TooSmall
    <2>2. UNCHANGED <<pipeVars, room, msg, size, blocks>>
        BY <1>5 DEF NoSpace
    <2>3. QED
        BY <1>0, <2>1, <2>2 DEF TypeOK, RoomOK, pipeVars
<1>6. CASE EndOfInfo
    <2>1. got' \in Seq(Pair) /\ rooms' \subseteq Nat /\ phase' = "sent" /\ more' \in BOOLEAN
        BY <1>6, SendType DEF EndOfInfo
    <2>2. UNCHANGED <<pipeVars, room, msg, size, blocks>>
        BY <1>6 DEF EndOfInfo
    <2>3. QED
        BY <1>0, <2>1, <2>2 DEF TypeOK, RoomOK, pipeVars
<1>7. CASE Answer
    <2>1. UNCHANGED <<pipeVars, more, history>> /\ phase' \in {"fill", "done"}
        BY <1>7 DEF Answer
    <2>2. UNCHANGED <<room, msg, size>> \/ (room' = Limit /\ size' = 0 /\ msg' = <<>>)
        BY <1>7 DEF Answer
    <2>3. blocks' \in 0 .. MaxBlocks
        BY <1>7, BoundsAssumption DEF Answer, TypeOK
    <2>4. msg' \in Seq(Pair)
        <3>1. msg \in Seq(Pair) /\ <<>> \in Seq(Pair)
            BY DEF TypeOK
        <3>2. QED
            BY <2>2, <3>1, Zenon
    <2>5. room' \in Nat /\ size' \in Nat /\ room' + size' = Limit
        BY <1>0, <2>2 DEF TypeOK, RoomOK
    <2>6. QED
        <3>1. RoomOK'
            BY <1>0, <2>5, Zenon DEF RoomOK
        <3>2. TypeOK'
            BY <2>1, <2>3, <2>4, <2>5 DEF TypeOK, pipeVars, history
        <3> QED
            BY <3>1, <3>2
<1>8. QED
    BY <1>1, <1>2, <1>3, <1>4, <1>5, <1>6, <1>7 DEF Next

\* Every step keeps what is being read a service info.
LEMMA NextCur ==
    ASSUME TypeOK, CurOK, [Next]_vars
    PROVE  CurOK'
<1>1. CASE UNCHANGED vars
    BY <1>1 DEF CurOK, vars, pipeVars
<1>2. CASE NextInfo
    <2>1. taken' = taken + 1 /\ taken + 1 > 0 /\ script' = script
        BY <1>2 DEF NextInfo, TypeOK
    <2>2. script[taken + 1] # Yield /\ taken + 1 \in 1 .. Len(script) /\ ~cur
        BY <1>2 DEF NextInfo, TypeOK
    <2>3. script[taken + 1].len \in Nat
        BY <2>2, Script
    <2>4. cur' => left' = script[taken + 1].len
        BY <1>2, <2>2, Zenon DEF NextInfo
    <2>5. QED
        BY <2>1, <2>2, <2>3, <2>4 DEF CurOK
<1>3. CASE TakeYield
    BY <1>3 DEF TakeYield, CurOK
<1>4. CASE ReadValue
    <2>1. taken > 0 /\ script[taken] # Yield /\ left <= script[taken].len /\ taken \in 1 .. Len(script)
        BY <1>4 DEF ReadValue, CurOK, TypeOK
    <2>2. script[taken].len \in Nat /\ left \in Nat
        BY <2>1, Script DEF TypeOK
    <2>3. PICK n \in Nat : n <= left /\ left' = left - n
        BY <1>4, Chunk
    <2>4. UNCHANGED <<script, taken>>
        BY <1>4 DEF ReadValue
    <2>5. QED
        BY <2>1, <2>2, <2>3, <2>4 DEF CurOK
<1>5. CASE NoSpace
    BY <1>5 DEF NoSpace, CurOK, pipeVars
<1>6. CASE EndOfInfo
    BY <1>6 DEF EndOfInfo, CurOK, pipeVars
<1>7. CASE Answer
    BY <1>7 DEF Answer, CurOK, pipeVars
<1>8. QED
    BY <1>1, <1>2, <1>3, <1>4, <1>5, <1>6, <1>7 DEF Next

\* The initial states.
LEMMA InitType == Init => TypeOK /\ RoomOK /\ CurOK
<1> SUFFICES ASSUME Init PROVE TypeOK /\ RoomOK /\ CurOK
    OBVIOUS
<1>1. script \in Seq(Info)
    BY DEF Init
<1>2. mtu \in Mtus
    BY DEF Init
<1>4. Limit \in Nat
    BY <1>2, LimitType
<1>5. room = Limit /\ size = 0 /\ taken = 0 /\ left = 0 /\ blocks = 0 /\ cur = FALSE /\ more = FALSE /\ phase = "fill"
    BY DEF Init
<1>6. msg \in Seq(Pair) /\ got \in Seq(Pair) /\ rooms \subseteq Nat
    BY DEF Init
<1>7. Len(script) \in Nat
    BY <1>1
<1>8. TypeOK
    <2>1. taken \in 0 .. Len(script) /\ blocks \in 0 .. MaxBlocks
        BY <1>5, <1>7, BoundsAssumption
    <2>2. left \in Nat /\ size \in Nat /\ cur \in BOOLEAN /\ more \in BOOLEAN
        BY <1>5
    <2>3. room \in Nat
        BY <1>4, <1>5, Zenon
    <2>4. QED
        BY <1>1, <1>2, <1>5, <1>6, <2>1, <2>2, <2>3 DEF TypeOK
<1>9. QED
    BY <1>4, <1>5, <1>8 DEF RoomOK, CurOK

\* What was sent and is to be sent is a sequence of pairs.
LEMMA PairsType == TypeOK => Pairs \in Seq(Pair) /\ got \in Seq(Pair) /\ msg \in Seq(Pair)
<1> SUFFICES ASSUME TypeOK PROVE Pairs \in Seq(Pair) /\ got \in Seq(Pair) /\ msg \in Seq(Pair)
    OBVIOUS
<1>1. got \in Seq(Pair) /\ msg \in Seq(Pair)
    BY DEF TypeOK
<1>2. got \o msg \in Seq(Pair)
    BY <1>1
<1>3. QED
    BY <1>1, <1>2 DEF Pairs

\* Sending a message, and going on after the answer to it, keep these.
LEMMA Sent ==
    ASSUME TypeOK, phase = "fill", TooSmall \/ EndOfInfo
    PROVE  Pairs' = Pairs /\ phase' = "sent"
BY DEF TooSmall, EndOfInfo, Pairs

\* The owner's answer delivers nothing, and the pipes stay as they are.
LEMMA Answered ==
    ASSUME TypeOK, Answer
    PROVE  Pairs' = Pairs /\ phase' # "failed" /\ phase = "sent" /\ UNCHANGED pipeVars
<1>1. got' = got /\ phase = "sent" /\ UNCHANGED pipeVars
    BY DEF Answer, history
<1>2. (phase' = "fill" /\ msg' = <<>>) \/ phase' = "done"
    BY DEF Answer
<1>3. got \o <<>> = got
    BY DEF TypeOK
<1>4. QED
    BY <1>1, <1>2, <1>3 DEF Pairs

\* When a round fails the message being filled is lost.
LEMMA Failed ==
    ASSUME TypeOK, phase = "fill", phase' = "failed", got' = got
    PROVE  Len(Pairs') <= Len(Pairs) /\ \A i \in 1 .. Len(Pairs') : Pairs'[i] = Pairs[i]
<1>1. Pairs' = got /\ Pairs = got \o msg
    BY DEF Pairs
<1>2. got \in Seq(Pair) /\ msg \in Seq(Pair)
    BY PairsType
<1>3. QED
    BY <1>1, <1>2

\* A chunk is the last pair.
LEMMA Appended ==
    ASSUME TypeOK, phase = "fill", phase' = "fill", got' = got, NEW r \in Pair, msg' = Append(msg, r)
    PROVE  Pairs' = Append(Pairs, r)
<1>1. Pairs' = got \o Append(msg, r) /\ Pairs = got \o msg
    BY DEF Pairs
<1>2. got \in Seq(Pair) /\ msg \in Seq(Pair)
    BY PairsType
<1>3. got \o Append(msg, r) = Append(got \o msg, r)
    BY <1>2
<1>4. QED
    BY <1>1, <1>3

\* The order and the last pair do not change with what is not read.
LEMMA SameOrder ==
    ASSUME InOrder, Pairs' = Pairs, script' = script
    PROVE  InOrder'
BY DEF InOrder, Follows, Complete

\* A chunk goes on where the last pair ended, or begins a service info after the
\* one before it is complete.
LEMMA ReadOrder ==
    ASSUME TypeOK, CurOK, InOrder, LastOK, ReadValue
    PROVE  InOrder' /\ LastOK'
<1> DEFINE k == script[taken].key
           len == script[taken].len
<1>0. left \in Nat
    BY DEF TypeOK
<1>1. PICK n \in Nat :
          /\ n <= left
          /\ cur' = (n < left \/ (n = left /\ room - MaxOverhead(script[taken].key) = left))
          /\ left' = left - n
          /\ n = 0 => UNCHANGED <<msg, room, size>>
          /\ n > 0 => msg' = Append(msg, [id |-> taken, from |-> script[taken].len - left, n |-> n])
    BY Chunk
<1>2. taken \in 1 .. Len(script) /\ script[taken] # Yield /\ left <= len
    BY DEF ReadValue, CurOK, TypeOK
<1>3. len \in Nat /\ left \in Nat /\ taken \in Nat
    BY <1>2, Script DEF TypeOK
<1>4. phase = "fill" /\ cur /\ UNCHANGED <<script, taken, phase, got>> /\ (~cur' => n = left)
    <2>1. ~cur' => ~(n < left)
        BY <1>1, Zenon
    <2>2. QED
        BY <1>0, <1>1, <2>1 DEF ReadValue, history
<1>5. Pairs \in Seq(Pair)
    BY PairsType
<1>6. \A i \in 1 .. Len(Pairs) : Pairs[i].id \in 1 .. taken
    BY DEF LastOK
<1>7. left < len => Pairs # <<>> /\ Pairs[Len(Pairs)].id = taken
                    /\ Pairs[Len(Pairs)].from + Pairs[Len(Pairs)].n = len - left
    BY <1>4 DEF LastOK
<1>8. left = len /\ Pairs # <<>> => Pairs[Len(Pairs)].id < taken /\ Complete(Pairs[Len(Pairs)])
    BY <1>4 DEF LastOK
<1>9. CASE n = 0
    <2>1. Pairs' = Pairs /\ left' = left
        BY <1>1, <1>3, <1>4, <1>9 DEF Pairs
    <2>2. InOrder'
        BY <2>1, <1>4, SameOrder
    <2>3. ~cur' /\ Pairs # <<>> => Complete(Pairs[Len(Pairs)])
        BY <1>2, <1>3, <1>4, <1>7, <1>8, <1>9 DEF Complete
    <2>4. QED
        BY <2>1, <2>2, <2>3, <1>4, <1>6, <1>7, <1>8 DEF LastOK, Complete
<1>10. CASE n > 0
    <2> DEFINE r == [id |-> taken, from |-> len - left, n |-> n]
    <2>1. r \in Pair /\ r.id = taken /\ r.from = len - left /\ r.n = n
        BY <1>1, <1>2, <1>3 DEF Pair
    <2>2. msg' = Append(msg, r)
        BY <1>1, <1>10
    <2> HIDE DEF r
    <2>3. Pairs' = Append(Pairs, r)
        BY <2>1, <2>2, <1>4, Appended
    <2>4. /\ Len(Pairs') = Len(Pairs) + 1
          /\ \A i \in 1 .. Len(Pairs) : Pairs'[i] = Pairs[i]
          /\ Pairs'[Len(Pairs')] = r /\ Pairs' # <<>>
        BY <2>1, <2>3, <1>5
    <2>5. Pairs = <<>> => r.from = 0
        BY <2>1, <1>2, <1>3, <1>7
    <2>6. Pairs # <<>> => Follows(Pairs[Len(Pairs)], r)
        BY <2>1, <1>2, <1>3, <1>7, <1>8 DEF Follows
    <2>7. Len(Pairs) \in Nat /\ (Pairs = <<>> <=> Len(Pairs) = 0)
        BY <1>5
    <2>8. InOrder'
        <3>1. ASSUME NEW i \in 1 .. Len(Pairs')
              PROVE  \/ i = 1 /\ Pairs'[1].from = 0
                     \/ i > 1 /\ Follows(Pairs'[i - 1], Pairs'[i])
            <4>1. CASE i <= Len(Pairs)
                <5>1. i \in 1 .. Len(Pairs)
                    BY <4>1, <2>7, <2>4
                <5>2. \/ i = 1 /\ Pairs[1].from = 0
                      \/ i > 1 /\ Follows(Pairs[i - 1], Pairs[i])
                    BY <5>1 DEF InOrder
                <5>3. Pairs'[i] = Pairs[i] /\ (i > 1 => Pairs'[i - 1] = Pairs[i - 1])
                    BY <5>1, <2>4, <2>7
                <5>4. QED
                    BY <5>2, <5>3
            <4>2. CASE i = Len(Pairs) + 1
                <5>1. Pairs'[i] = r
                    BY <4>2, <2>4
                <5>2. CASE Len(Pairs) = 0
                    BY <5>1, <5>2, <4>2, <2>5, <2>7
                <5>3. CASE Len(Pairs) > 0
                    <6>1. i > 1 /\ i - 1 = Len(Pairs) /\ Pairs'[i - 1] = Pairs[Len(Pairs)]
                        BY <5>3, <4>2, <2>4, <2>7
                    <6>2. QED
                        BY <6>1, <5>1, <5>3, <2>6, <2>7
                <5>4. QED
                    BY <5>2, <5>3, <2>7
            <4>3. QED
                BY <4>1, <4>2, <2>4, <2>7
        <3>2. QED
            BY <3>1, <1>4 DEF InOrder, Follows, Complete
    <2>9. \A i \in 1 .. Len(Pairs') : Pairs'[i].id \in 1 .. taken
        BY <1>2, <1>6, <2>1, <2>4, <2>7
    <2>10. left' < len /\ r.from + r.n = len - left' /\ (~cur' => Complete(r))
        <3>1. left' = left - n /\ n \in Nat
            BY <1>1
        <3>2. left' < len /\ r.from + r.n = len - left'
            BY <3>1, <1>2, <1>3, <1>10, <2>1
        <3>3. ~cur' => r.from + r.n = script[r.id].len
            BY <1>2, <1>3, <1>4, <2>1
        <3>4. QED
            BY <3>2, <3>3 DEF Complete
    <2>11. QED
        BY <2>1, <2>4, <2>8, <2>9, <2>10, <1>3, <1>4 DEF LastOK, Complete
<1>11. QED
    BY <1>1, <1>9, <1>10

\* Every step keeps the order.
LEMMA NextOrder ==
    ASSUME TypeOK, CurOK, InOrder, LastOK, [Next]_vars
    PROVE  InOrder' /\ LastOK'
<1>0. taken \in Nat /\ Pairs \in Seq(Pair)
    BY PairsType DEF TypeOK
<1>1. CASE UNCHANGED vars
    <2>1. Pairs' = Pairs
        BY <1>1 DEF vars, history, Pairs
    <2>2. QED
        BY <1>1, <2>1, SameOrder DEF LastOK, Complete, vars, pipeVars
<1>2. CASE NextInfo
    <2>1. phase = "fill" /\ ~cur /\ script' = script /\ taken' = taken + 1 /\ taken + 1 \in 1 .. Len(script)
        BY <1>2 DEF NextInfo, TypeOK
    <2>2. script[taken + 1] # Yield /\ msg' = msg
        BY <1>2 DEF NextInfo
    <2>3. script[taken + 1].len \in Nat
        BY <2>1, <2>2, Script
    <2>4. \A i \in 1 .. Len(Pairs) : Pairs[i].id \in 1 .. taken
        BY DEF LastOK
    <2>5. Pairs # <<>> => Complete(Pairs[Len(Pairs)])
        BY <2>1 DEF LastOK
    <2>6. \/ cur' /\ left' = script[taken + 1].len /\ phase' = phase /\ got' = got
          \/ ~cur' /\ TooSmall
          \/ ~cur' /\ phase' = "failed" /\ got' = got
        BY <1>2, Zenon DEF NextInfo, history
    <2>7. CASE cur' /\ left' = script[taken + 1].len /\ phase' = phase /\ got' = got
        <3>1. Pairs' = Pairs
            BY <2>2, <2>7 DEF Pairs
        <3>2. Len(Pairs) \in Nat /\ (Pairs # <<>> => Len(Pairs) \in 1 .. Len(Pairs))
            BY <1>0
        <3>3. Pairs # <<>> => Pairs[Len(Pairs)].id < taken + 1
            BY <1>0, <2>4, <3>2
        <3>4. \A i \in 1 .. Len(Pairs) : Pairs[i].id \in 1 .. taken + 1
            BY <1>0, <2>4
        <3>5. QED
            BY <2>1, <2>3, <2>5, <2>7, <3>1, <3>3, <3>4, SameOrder DEF LastOK, Complete
    <2>8. CASE ~cur' /\ TooSmall
        <3>1. Pairs' = Pairs
            BY <2>1, <2>8, Sent
        <3>2. \A i \in 1 .. Len(Pairs) : Pairs[i].id \in 1 .. taken + 1
            BY <1>0, <2>4
        <3>3. QED
            BY <2>1, <2>5, <2>8, <3>1, <3>2, SameOrder DEF LastOK, Complete
    <2>9. CASE ~cur' /\ phase' = "failed" /\ got' = got
        <3>1. Len(Pairs') <= Len(Pairs) /\ \A i \in 1 .. Len(Pairs') : Pairs'[i] = Pairs[i]
            BY <2>1, <2>9, Failed
        <3>2. Len(Pairs) \in Nat /\ Len(Pairs') \in Nat
            BY <1>0, <2>9, PairsType DEF Pairs
        <3>3. LastOK'
            BY <1>0, <2>1, <2>4, <2>9, <3>1, <3>2 DEF LastOK
        <3>4. ASSUME NEW i \in 1 .. Len(Pairs')
              PROVE  \/ i = 1 /\ Pairs'[1].from = 0
                     \/ i > 1 /\ Follows(Pairs'[i - 1], Pairs'[i])
            <4>1. i \in 1 .. Len(Pairs) /\ Pairs'[i] = Pairs[i] /\ (i > 1 => Pairs'[i - 1] = Pairs[i - 1])
                BY <3>1, <3>2
            <4>2. \/ i = 1 /\ Pairs[1].from = 0
                  \/ i > 1 /\ Follows(Pairs[i - 1], Pairs[i])
                BY <4>1 DEF InOrder
            <4>3. QED
                BY <4>1, <4>2
        <3>5. QED
            BY <2>1, <3>3, <3>4 DEF InOrder, Follows, Complete
    <2>10. QED
        BY <2>6, <2>7, <2>8, <2>9
<1>3. CASE TakeYield
    <2>1. phase = "fill" /\ ~cur /\ TooSmall /\ taken' = taken + 1 /\ UNCHANGED <<script, cur>>
        BY <1>3 DEF TakeYield
    <2>2. Pairs' = Pairs
        BY <2>1, Sent
    <2>3. \A i \in 1 .. Len(Pairs) : Pairs[i].id \in 1 .. taken + 1
        BY <1>0 DEF LastOK
    <2>4. Pairs # <<>> => Complete(Pairs[Len(Pairs)])
        BY <2>1 DEF LastOK
    <2>5. QED
        BY <2>1, <2>2, <2>3, <2>4, SameOrder DEF LastOK, Complete
<1>4. CASE ReadValue
    BY <1>4, ReadOrder
<1>5. CASE NoSpace \/ EndOfInfo
    <2>1. phase = "fill" /\ (TooSmall \/ EndOfInfo) /\ UNCHANGED pipeVars
        BY <1>5, Zenon DEF NoSpace, EndOfInfo
    <2>2. Pairs' = Pairs
        BY <2>1, Sent
    <2>3. QED
        BY <2>1, <2>2, SameOrder DEF LastOK, Complete, pipeVars
<1>6. CASE Answer
    BY <1>6, Answered, SameOrder DEF LastOK, Complete, pipeVars
<1>7. QED
    BY <1>1, <1>2, <1>3, <1>4, <1>5, <1>6, Zenon DEF Next

\* The inductive invariant.
LEMMA Invariant == Spec => []IndInv
<1>1. Init => IndInv
    <2>1. Init => InOrder /\ LastOK
        BY DEF Init, InOrder, LastOK, Pairs
    <2>2. QED
        BY <2>1, InitType DEF IndInv
<1>2. IndInv /\ [Next]_vars => IndInv'
    BY NextType, NextCur, NextOrder DEF IndInv
<1>3. QED
    BY <1>1, <1>2, PTL DEF Spec

\* The variables always have their types: whatever size was announced, the room left in
\* a message keeps to its 16 bits and never falls below zero, so that only the
\* first subtraction can wrap.
THEOREM TypeCorrect == Spec => []TypeOK
<1>1. QED
    BY Invariant, PTL DEF IndInv

\* No message is larger than the owner service announced, if it announced the five
\* bytes of an empty message; if it announced less, 16 bits bound what is in it.
THEOREM MessagesFit == Spec => []FitsMTU
<1>1. TypeOK /\ RoomOK => FitsMTU
    <2> SUFFICES ASSUME TypeOK, RoomOK PROVE FitsMTU
        OBVIOUS
    <2>1. mtu \in Nat /\ Limit \in Nat /\ Limit <= 65535 /\ (mtu >= 5 => Limit = mtu - 5)
        BY LimitType DEF TypeOK
    <2>2. room \in Nat /\ size \in Nat
        BY DEF TypeOK
    <2>3. QED
        BY <2>1, <2>2 DEF RoomOK, FitsMTU
<1>2. QED
    BY Invariant, <1>1, PTL DEF IndInv

\* What reaches the owner is in order and complete up to whole service infos.
THEOREM OrderKept == Spec => []InOrder
<1>1. QED
    BY Invariant, PTL DEF IndInv

------------------------------------------------------------------------------
(* Nothing is lost.                                                          *)

\* Of the service infos taken, each with a value has its last pair on the way, but for
\* the one of which there is still something to read.
ReadOK ==
    \A i \in 1 .. taken :
        script[i].len > 0 /\ (i = taken /\ cur => left = 0) =>
            \E j \in 1 .. Len(Pairs) : Pairs[j].id = i /\ Complete(Pairs[j])

\* Unless there is more, everything was read.
MoreOK ==
    /\ ~cur => left = 0
    /\ phase = "done" => ~more
    /\ phase \in {"sent", "done"} /\ ~more => taken = Len(script) /\ ~cur

LossOK == KeysFit /\ NoKeyAsEnd /\ NoYield /\ phase # "failed" => ReadOK /\ MoreOK

\* Where every key fits, a key and the first byte of its value leave room to spare.
LEMMA KeysLeaveRoom ==
    ASSUME TypeOK, KeysFit, NEW k \in Keys
    PROVE  MaxOverhead(k) < Limit \/ room # Limit
<1>1. KeyLen[k] \in Nat /\ Limit \in Nat /\ room \in Nat
    <2>1. Limit \in Nat
        BY LimitType DEF TypeOK
    <2>2. KeyLen[k] \in Nat
        BY KeysAssumption
    <2> QED
        BY <2>1, <2>2 DEF TypeOK
<1> DEFINE e == cborEncodedLen(KeyLen[k])
<1>2. e \in Nat
    BY <1>1 DEF cborEncodedLen, HeadLen
<1>3. KVSize(k, 1) = e + 3 /\ KVSize(k, 1) + 7 <= Limit /\ Limit \in Nat
    BY <1>1, <1>2 DEF KVSize, KeysFit, cborEncodedLen, HeadLen
<1>4. MaxOverhead(k) <= e + 4 /\ MaxOverhead(k) \in Nat
    <2>1. MaxOverhead(k) = LET o1 == 1 + e + 1
                               o2 == IF room >= o1 + 24 THEN o1 + 1 ELSE o1
                           IN  IF room >= o2 + 256 THEN o2 + 1 ELSE o2
        BY DEF MaxOverhead
    <2> HIDE DEF e
    <2> QED
        BY <1>1, <1>2, <2>1
<1> HIDE DEF e
<1> QED
    BY <1>2, <1>3, <1>4

\* A key is taken for the end of its pipe only where 7 to 9 bytes are left, or where a
\* whole message has no room for it.
LEMMA KeyAsEnd ==
    ASSUME TypeOK, NEW k \in Keys, KeyLimit <= HeadLen(KeyLen[k])
    PROVE  room \in 7 .. 9 \/ 65536 <= room
<1>1. KeyLen[k] \in 1 .. 255 /\ room \in Nat
    BY KeysAssumption DEF TypeOK
<1>2. HeadLen(KeyLen[k]) <= 2 /\ HeadLen(KeyLen[k]) \in Nat
    BY <1>1 DEF HeadLen
<1>3. CASE room < 65536 /\ room >= 7
    <2>1. KeyLimit = room - 7
        BY <1>1, <1>3 DEF KeyLimit
    <2> QED
        BY <1>1, <1>2, <1>3, <2>1
<1>4. CASE room < 7
    <2>1. KeyLimit = room + 65529
        BY <1>1, <1>4 DEF KeyLimit
    <2> QED
        BY <1>1, <1>2, <1>4, <2>1
<1> QED
    BY <1>1, <1>3, <1>4

\* What was read stays read as long as the pairs are the same or one is added.
LEMMA SameRead ==
    ASSUME ReadOK, Pairs' = Pairs, script' = script, taken' = taken, cur' = cur, left' = left
    PROVE  ReadOK'
BY DEF ReadOK, Complete

\* A yield or a key that is taken for the end is a service info lost, else none is.
LEMMA NextLoss ==
    ASSUME IndInv, LossOK, [Next]_vars
    PROVE  LossOK'
<1> SUFFICES ASSUME KeysFit', NoKeyAsEnd', NoYield', phase' # "failed" PROVE ReadOK' /\ MoreOK'
    BY DEF LossOK
<1>0. TypeOK /\ RoomOK /\ CurOK /\ LastOK /\ taken \in Nat /\ Len(script) \in Nat /\ taken <= Len(script)
    BY DEF IndInv, TypeOK
<1>1. script' = script /\ mtu' = mtu /\ rooms \subseteq rooms' /\ phase # "failed"
    BY DEF Next, NextInfo, TakeYield, ReadValue, NoSpace, EndOfInfo, Answer, TooSmall, vars, pipeVars, history
<1>2. KeysFit /\ NoKeyAsEnd /\ NoYield
    BY <1>1 DEF KeysFit, NoKeyAsEnd, NoYield, Limit
<1>3. ReadOK /\ MoreOK
    BY <1>1, <1>2 DEF LossOK
<1>4. CASE UNCHANGED vars
    <2>1. Pairs' = Pairs
        BY <1>4 DEF Pairs, vars, history
    <2> QED
        BY <1>3, <1>4, <2>1, SameRead DEF MoreOK, vars, pipeVars
<1>5. CASE NextInfo
    <2>1. /\ phase = "fill" /\ ~cur /\ taken' = taken + 1 /\ taken + 1 \in 1 .. Len(script)
          /\ script[taken + 1] # Yield /\ msg' = msg /\ room' = room
        BY <1>0, <1>5 DEF NextInfo
    <2>2. script[taken + 1].key \in Keys /\ script[taken + 1].len \in Nat
        BY <1>0, <2>1, Script
    <2> DEFINE k == script[taken + 1].key
    <2>3. ~(KeyLimit <= HeadLen(KeyLen[k]) /\ TooSmall)
        <3> SUFFICES ASSUME KeyLimit <= HeadLen(KeyLen[k]), TooSmall PROVE FALSE
            OBVIOUS
        <3>1. room \in rooms'
            BY DEF TooSmall
        <3>2. room \notin 7 .. 9
            BY <3>1 DEF NoKeyAsEnd
        <3>3. room <= 65535
            <4>1. Limit \in Nat /\ Limit <= 65535
                BY <1>0, LimitType DEF TypeOK
            <4>2. room + size = Limit /\ room \in Nat /\ size \in Nat
                BY <1>0 DEF TypeOK, RoomOK
            <4> QED
                BY <4>1, <4>2
        <3> QED
            BY <1>0, <2>2, <3>2, <3>3, KeyAsEnd DEF TypeOK
    <2>4. cur' = TRUE /\ left' = script[taken + 1].len /\ phase' = phase /\ got' = got
        BY <1>5, <2>3, Zenon DEF NextInfo, history
    <2>5. Pairs' = Pairs
        BY <2>1, <2>4 DEF Pairs
    <2>6. ReadOK'
        <3> SUFFICES ASSUME NEW i \in 1 .. taken + 1, script[i].len > 0, i = taken + 1 => script[i].len = 0
                     PROVE  \E j \in 1 .. Len(Pairs) : Pairs[j].id = i /\ Complete(Pairs[j])
            BY <1>1, <2>1, <2>4, <2>5 DEF ReadOK, Complete
        <3>1. i \in 1 .. taken
            BY <1>0, <2>2
        <3> QED
            BY <1>3, <2>1, <3>1 DEF ReadOK
    <2> QED
        BY <2>1, <2>4, <2>6 DEF MoreOK
<1>6. CASE TakeYield
    BY <1>0, <1>2, <1>6 DEF TakeYield, NoYield
<1>7. CASE ReadValue
    <2>1. phase = "fill" /\ cur /\ UNCHANGED <<script, taken, phase, more, got>>
        BY <1>7 DEF ReadValue, history
    <2>2. taken \in 1 .. Len(script) /\ script[taken] # Yield /\ left <= script[taken].len
        BY <1>0, <2>1 DEF CurOK
    <2>3. script[taken].len \in Nat /\ left \in Nat
        BY <1>0, <2>2, Script DEF TypeOK
    <2>4. PICK n \in Nat :
              /\ n <= left /\ left' = left - n
              /\ cur' = (n < left \/ (n = left /\ room - MaxOverhead(script[taken].key) = left))
              /\ n = 0 => UNCHANGED <<msg, room, size>>
              /\ n > 0 => msg' = Append(msg, [id |-> taken, from |-> script[taken].len - left, n |-> n])
        BY <1>0, <1>7, Chunk
    <2>5. ~cur' => left' = 0
        <3>1. n < left => cur'
            BY <2>4
        <3> QED
            BY <2>3, <2>4, <3>1
    <2>6. CASE n = 0
        <3>1. Pairs' = Pairs /\ left' = left
            BY <2>1, <2>3, <2>4, <2>6 DEF Pairs
        <3>2. ~cur' => left = 0
            BY <2>5, <3>1
        <3>3. ReadOK'
            BY <1>3, <2>1, <3>1, <3>2 DEF ReadOK, Complete
        <3> QED
            BY <2>1, <2>5, <3>3 DEF MoreOK
    <2>7. CASE n > 0
        <3> DEFINE p == [id |-> taken, from |-> script[taken].len - left, n |-> n]
        <3>1. p \in Pair /\ p.id = taken /\ p.from = script[taken].len - left /\ p.n = n
            BY <1>0, <2>2, <2>3 DEF Pair
        <3> HIDE DEF p
        <3>2. Pairs' = Append(Pairs, p)
            BY <1>0, <2>1, <2>4, <2>7, <3>1, Appended DEF p
        <3>3. Pairs \in Seq(Pair)
            BY <1>0, PairsType
        <3>4. /\ Len(Pairs) \in Nat /\ Len(Pairs') = Len(Pairs) + 1 /\ Pairs'[Len(Pairs) + 1] = p
              /\ \A j \in 1 .. Len(Pairs) : Pairs'[j] = Pairs[j]
            BY <3>2, <3>3
        <3> DEFINE m == Len(Pairs)
        <3>5. ReadOK'
            <4> SUFFICES ASSUME NEW i \in 1 .. taken, script[i].len > 0, i = taken /\ cur' => left' = 0
                         PROVE  \E j \in 1 .. m + 1 : Pairs'[j].id = i /\ Pairs'[j].from + Pairs'[j].n = script[Pairs'[j].id].len
                BY <2>1, <3>4 DEF ReadOK, Complete
            <4>1. CASE i = taken
                <5>1. left' = 0
                    BY <2>5, <4>1
                <5>2. p.from + p.n = script[taken].len
                    BY <2>3, <2>4, <3>1, <5>1
                <5> QED
                    BY <3>1, <3>4, <4>1, <5>2
            <4>2. CASE i # taken
                <5>1. PICK j \in 1 .. m : Pairs[j].id = i /\ Complete(Pairs[j])
                    BY <1>3, <4>2 DEF ReadOK
                <5> QED
                    BY <3>4, <5>1 DEF Complete
            <4> QED
                BY <4>1, <4>2
        <3> QED
            BY <2>1, <2>5, <3>5 DEF MoreOK
    <2> QED
        BY <2>4, <2>6, <2>7
<1>8. CASE NoSpace
    <2>1. /\ phase = "fill" /\ cur /\ TooSmall /\ UNCHANGED <<script, taken, cur, left>>
          /\ room <= MaxOverhead(script[taken].key)
        BY <1>8 DEF NoSpace, pipeVars
    <2>2. Pairs' = Pairs
        BY <1>0, <2>1, Sent
    <2>3. taken \in 1 .. Len(script) /\ script[taken].key \in Keys
        BY <1>0, <2>1, Script DEF CurOK
    <2>4. more'
        <3>1. MaxOverhead(script[taken].key) \in Nat /\ room \in Nat /\ Limit \in Nat
            <4>0. KeyLen[script[taken].key] \in Nat
                <5>1. \A k \in Keys : KeyLen[k] \in Nat
                    BY KeysAssumption
                <5> QED
                    BY <2>3, <5>1
            <4>1. room \in Nat /\ KeyLen[script[taken].key] \in Nat
                BY <1>0, <4>0 DEF TypeOK
            <4>2. MaxOverhead(script[taken].key) \in Nat
                BY <4>1 DEF MaxOverhead, cborEncodedLen, HeadLen
            <4> QED
                BY <1>0, <4>1, <4>2, LimitType DEF TypeOK
        <3>2. room # Limit
            BY <1>0, <1>2, <2>1, <2>3, <3>1, KeysLeaveRoom
        <3> QED
            BY <2>1, <3>2 DEF TooSmall
    <2> QED
        BY <1>3, <2>1, <2>2, <2>4, SameRead DEF MoreOK, TooSmall
<1>9. CASE EndOfInfo
    <2>1. phase = "fill" /\ ~cur /\ taken = Len(script) /\ UNCHANGED pipeVars /\ phase' = "sent"
        BY <1>9 DEF EndOfInfo
    <2>2. Pairs' = Pairs
        BY <1>0, <1>9, <2>1, Sent
    <2> QED
        BY <1>3, <2>1, <2>2, SameRead DEF MoreOK, pipeVars
<1>10. CASE Answer
    <2>1. Pairs' = Pairs /\ phase = "sent" /\ UNCHANGED pipeVars
        BY <1>0, <1>10, Answered
    <2>2. phase' = "fill" \/ (phase' = "done" /\ ~more /\ more' = more)
        BY <1>10 DEF Answer
    <2> QED
        BY <1>3, <2>1, <2>2, SameRead DEF MoreOK, pipeVars
<1> QED
    BY <1>4, <1>5, <1>6, <1>7, <1>8, <1>9, <1>10 DEF Next

\* A round that ends without an error has delivered everything the module wrote, unless
\* it yielded or a key was taken for the end of its pipe.
THEOREM EverythingArrives == Spec => []NothingLost
<1>1. Init => LossOK
    <2> SUFFICES ASSUME Init PROVE LossOK
        OBVIOUS
    <2> QED
        BY DEF Init, LossOK, ReadOK, MoreOK
<1>2. IndInv /\ LossOK /\ [Next]_vars => LossOK'
    BY NextLoss
<1>3. IndInv /\ LossOK => NothingLost
    <2> SUFFICES ASSUME IndInv, LossOK, phase = "done", KeysFit, NoKeyAsEnd, NoYield,
                        NEW i \in 1 .. Len(script), script[i] # Yield, script[i].len > 0
                 PROVE  Arrived(i)
        BY DEF NothingLost, AllArrived
    <2>1. taken = Len(script) /\ ~cur /\ ReadOK /\ Pairs = got
        BY DEF LossOK, MoreOK, Pairs
    <2> QED
        BY <2>1 DEF ReadOK, Arrived
<1> QED
    BY <1>1, <1>2, <1>3, Invariant, PTL DEF Spec

=============================================================================
