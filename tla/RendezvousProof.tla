--------------------------- MODULE RendezvousProof ---------------------------
(***************************************************************************)
(* Proofs about Rendezvous, for any number of calls, owners and GUIDs, all *)
(* times to live and without a bound on the clock or on the length of      *)
(* chains.                                                                 *)
(***************************************************************************)
EXTENDS Rendezvous, TLAPS

------------------------------------------------------------------------------
(* Types.                                                                    *)

\* A call under way has its arguments; a lookup not begun has no message.
CallsOK ==
    /\ \A r \in Regs : reg[r].st # "idle" => reg[r].owner \in Owners /\ reg[r].guid \in Guids /\ reg[r].ttl \in TTLs
    /\ \A l \in Lookups : IF look[l].st = "idle" THEN net[l] = Quiet ELSE look[l].guid \in Guids

IndInv == TypeOK /\ CallsOK

\* Registrations expire after whole seconds: at most one second early.
LEMMA WholeSeconds ==
    ASSUME NEW t \in Nat
    PROVE  /\ t \div Ticks \in Nat
           /\ (t \div Ticks) * Ticks <= t
           /\ t < (t \div Ticks) * Ticks + Ticks
<1>1. Ticks \in Nat /\ Ticks > 0
    BY RendezvousAssumption
<1> QED
    BY <1>1

\* The time a registration is granted until.
LEMMA UntilType ==
    ASSUME TypeOK, NEW ttl \in TTLs
    PROVE  now + ttl * Ticks \in Nat /\ now <= now + ttl * Ticks
<1>1. now \in Nat /\ ttl \in Nat /\ Ticks \in Nat
    BY RendezvousAssumption DEF TypeOK
<1>2. ttl * Ticks \in Nat
    BY <1>1
<1> QED
    BY <1>1, <1>2

\* A call is a registration or a lookup.
LEMMA CallKinds == \A r \in Regs : r \in Calls /\ r \notin Lookups
BY RendezvousAssumption DEF Calls

\* Put changes one message.
LEMMA PutType ==
    ASSUME TypeOK, NEW c \in Calls, NEW m \in Message, Put(c, m)
    PROVE  /\ net' \in [Calls -> Message]
           /\ net'[c] = m
           /\ \A b \in Calls \ {c} : net'[b] = net[b]
BY DEF TypeOK, Put

\* So does Respond.
LEMMA RespondType ==
    ASSUME TypeOK, NEW c \in Calls, NEW m \in Message, Respond(c, m)
    PROVE  /\ net' \in [Calls -> Message]
           /\ net'[c] = IF Over(c) THEN Quiet ELSE m
           /\ \A b \in Calls \ {c} : net'[b] = net[b]
<1>1. Quiet \in Message
    BY DEF Quiet, Message
<1>2. CASE Over(c)
    BY <1>1, <1>2, PutType DEF Respond
<1>3. CASE ~Over(c)
    BY <1>3, PutType DEF Respond
<1> QED
    BY <1>2, <1>3

\* And an error response, which may end the session.
LEMMA RespondErrorType ==
    ASSUME TypeOK, NEW c \in Calls, RespondError(c)
    PROVE  /\ net' \in [Calls -> Message]
           /\ net'[c] \in {Quiet, ErrorMessage}
           /\ \A b \in Calls \ {c} : net'[b] = net[b]
           /\ sess' \in [Calls -> {"none", "live", "dead"}]
<1>1. ErrorMessage \in Message /\ Respond(c, ErrorMessage)
    BY DEF ErrorMessage, Message, RespondError
<1>2. sess' \in [Calls -> {"none", "live", "dead"}]
    BY DEF RespondError, TypeOK
<1> QED
    BY <1>1, <1>2, RespondType

\* The short messages.
LEMMA ShortMessages ==
    /\ Quiet \in Message /\ ErrorMessage \in Message
    /\ [t |-> "Hello"] \in Message /\ [t |-> "HelloAck"] \in Message
    /\ [t |-> "HelloRVAck"] \in Message /\ [t |-> "ProveToRV"] \in Message
BY DEF Quiet, ErrorMessage, Message

\* A registered blob.
LEMMA BlobType ==
    ASSUME TypeOK, NEW r \in Regs, net[r].t = "OwnerSign", NEW ttl \in TTLs
    PROVE  /\ [to0d |-> r, rv |-> net[r].rv, ov |-> net[r].ov, exp |-> (now + ttl * Ticks) \div Ticks] \in RVBlob
           /\ net[r].ov \in Voucher /\ net[r].ov.guid \in Guids
<1>1. net[r] \in Message
    BY CallKinds DEF TypeOK
<1>2. net[r].rv \in Owners /\ net[r].ov \in Voucher
    BY <1>1 DEF Message
<1>3. (now + ttl * Ticks) \div Ticks \in Nat
    BY UntilType, WholeSeconds
<1> QED
    BY <1>2, <1>3 DEF RVBlob, Voucher

\* Calls not begun.
LEMMA Idle == IdleReg \in RegState /\ IdleLook \in LookState /\ IdleReg.st = "idle" /\ IdleLook.st = "idle"
BY DEF IdleReg, RegState, IdleLook, LookState

\* A registration keeps its arguments once it has them.
SameArguments ==
    /\ reg' \in [Regs -> RegState]
    /\ \A q \in Regs :
          reg'[q].st # "idle" => /\ reg[q].st # "idle" /\ reg'[q].owner = reg[q].owner
                                /\ reg'[q].guid = reg[q].guid /\ reg'[q].ttl = reg[q].ttl

\* Such steps keep the types.
LEMMA RegisterKeeps ==
    ASSUME IndInv, SameArguments, net' \in [Calls -> Message],
           \A l \in Lookups : net'[l] \in {net[l], Quiet},
           UNCHANGED <<now, ownerVars, look, sess, blobs, log>>
    PROVE  IndInv'
<1>1. TypeOK'
    BY DEF IndInv, TypeOK, SameArguments, ownerVars
<1>2. \A r \in Regs : reg'[r].st # "idle" =>
          reg'[r].owner \in Owners /\ reg'[r].guid \in Guids /\ reg'[r].ttl \in TTLs
    BY DEF IndInv, CallsOK, SameArguments
<1>3. \A l \in Lookups : IF look'[l].st = "idle" THEN net'[l] = Quiet ELSE look'[l].guid \in Guids
    BY DEF IndInv, CallsOK
<1> QED
    BY <1>1, <1>2, <1>3 DEF IndInv, CallsOK

\* Every step of a registration keeps the types.
LEMMA RegisterTypes ==
    ASSUME IndInv, NEW r \in Regs, RegisterStep(r)
    PROVE  IndInv'
<1>0. TypeOK /\ CallsOK /\ r \in Calls /\ r \notin Lookups
    BY CallKinds DEF IndInv
<1>1. ASSUME NEW o \in Owners, NEW g \in Guids, NEW ttl \in TTLs, hello(r, o, g, ttl)
      PROVE  IndInv'
    <2>1. Put(r, [t |-> "Hello"]) /\ UNCHANGED <<now, ownerVars, look, sess, blobs, log>>
        BY <1>1 DEF hello
    <2>2. net' \in [Calls -> Message] /\ \A b \in Calls \ {r} : net'[b] = net[b]
        BY <1>0, <2>1, ShortMessages, PutType
    <2> DEFINE s == [IdleReg EXCEPT !.st = "hello", !.owner = o, !.guid = g, !.ttl = ttl]
    <2>3. s \in RegState /\ s.owner = o /\ s.guid = g /\ s.ttl = ttl
        BY Idle DEF RegState
    <2>4. reg' = [reg EXCEPT ![r] = s]
        BY <1>1 DEF hello
    <2> HIDE DEF s
    <2> QED
        BY <1>0, <2>1, <2>2, <2>3, <2>4 DEF IndInv, TypeOK, CallsOK, ownerVars, Calls
<1>2. CASE ownerSign(r)
    <2> DEFINE ov == held[reg[r].owner][reg[r].guid]
    <2>0. reg[r] \in RegState /\ reg[r].owner \in Owners /\ reg[r].guid \in Guids /\ reg[r].ttl \in TTLs
        BY <1>0, <1>2 DEF ownerSign, CallsOK, TypeOK
    <2>1. PICK st \in {"sign", "failed"} : reg' = [reg EXCEPT ![r].st = st]
        BY <1>2 DEF ownerSign
    <2>2. SameArguments
        BY <1>0, <1>2, <2>0, <2>1 DEF SameArguments, TypeOK, RegState, ownerSign
    <2>3. IsExtended(ov) => [t |-> "OwnerSign", rv |-> reg[r].owner, ov |-> ov, wait |-> reg[r].ttl] \in Message
        BY <1>0, <2>0 DEF TypeOK, IsExtended, Message
    <2>4. net' \in [Calls -> Message] /\ \A l \in Lookups : net'[l] = net[l]
        BY <1>0, <1>2, <2>3, ShortMessages, PutType DEF ownerSign, Calls
    <2>5. UNCHANGED <<now, ownerVars, look, sess, blobs, log>>
        BY <1>2 DEF ownerSign
    <2> QED
        BY <2>2, <2>4, <2>5, RegisterKeeps
<1>3. CASE recvAcceptOwner(r)
    <2>1. net[r] \in Message /\ net[r].wait \in TTLs
        BY <1>0, <1>3 DEF recvAcceptOwner, TypeOK, Message
    <2>2. reg[r] \in RegState /\ reg[r].st # "idle"
        BY <1>0, <1>3 DEF recvAcceptOwner, TypeOK
    <2>3. SameArguments
        <3> DEFINE s == [reg[r] EXCEPT !.st = "ok", !.refresh = net[r].wait]
        <3>1. s \in RegState /\ s.owner = reg[r].owner /\ s.guid = reg[r].guid /\ s.ttl = reg[r].ttl
            BY <2>1, <2>2 DEF RegState
        <3>2. reg' = [reg EXCEPT ![r] = s]
            BY <1>3 DEF recvAcceptOwner
        <3> HIDE DEF s
        <3> QED
            BY <1>0, <2>2, <3>1, <3>2 DEF SameArguments, TypeOK
    <2>4. net' \in [Calls -> Message] /\ \A l \in Lookups : net'[l] = net[l]
        BY <1>0, <1>3, ShortMessages, PutType DEF recvAcceptOwner, Calls
    <2>5. UNCHANGED <<now, ownerVars, look, sess, blobs, log>>
        BY <1>3 DEF recvAcceptOwner
    <2> QED
        BY <2>3, <2>4, <2>5, RegisterKeeps
<1>4. CASE helloAck(r)
    <2>1. net' \in [Calls -> Message] /\ \A b \in Calls \ {r} : net'[b] = net[b]
        BY <1>0, <1>4, ShortMessages, RespondType DEF helloAck
    <2> QED
        BY <1>0, <1>4, <2>1 DEF helloAck, IndInv, TypeOK, CallsOK, ownerVars, Calls
<1>5. CASE acceptOwner(r)
    <2>0. UNCHANGED <<now, ownerVars, reg, look>>
        BY <1>5 DEF acceptOwner
    <2>1. CASE RespondError(r) /\ UNCHANGED <<blobs, log>>
        BY <1>0, <2>0, <2>1, RespondErrorType DEF IndInv, TypeOK, CallsOK, ownerVars, Calls
    <2>2. ASSUME NEW ttl \in TTLs, SetRVBlob(r, net[r], ttl), Respond(r, [t |-> "AcceptOwner", wait |-> ttl]),
                 sess' = [sess EXCEPT ![r] = "dead"]
          PROVE  IndInv'
        <3>1. [t |-> "AcceptOwner", wait |-> ttl] \in Message
            BY DEF Message
        <3>2. net' \in [Calls -> Message] /\ \A b \in Calls \ {r} : net'[b] = net[b]
            BY <1>0, <2>2, <3>1, RespondType
        <3>3. net[r].t = "OwnerSign"
            BY <1>5 DEF acceptOwner
        <3>4. blobs' \in [Guids -> RVBlob \cup {Nil}]
            BY <1>0, <2>2, <3>3, BlobType DEF SetRVBlob, TypeOK
        <3>5. log' \in Seq([to0d : Regs, guid : Guids, until : Nat])
            <4>1. [to0d |-> r, guid |-> net[r].ov.guid, until |-> now + ttl * Ticks] \in [to0d : Regs, guid : Guids, until : Nat]
                BY <1>0, <3>3, BlobType, UntilType
            <4> QED
                BY <1>0, <2>2, <4>1 DEF SetRVBlob, TypeOK
        <3>6. sess' \in [Calls -> {"none", "live", "dead"}]
            BY <1>0, <2>2 DEF TypeOK
        <3> QED
            BY <1>0, <2>0, <3>2, <3>4, <3>5, <3>6 DEF IndInv, TypeOK, CallsOK, ownerVars, Calls
    <2> QED
        BY <1>5, <2>1, <2>2 DEF acceptOwner
<1> QED
    BY <1>1, <1>2, <1>3, <1>4, <1>5 DEF RegisterStep

\* What a step of a lookup may change.
LookupEffects(l) ==
    /\ net' \in [Calls -> Message]
    /\ \A b \in Calls \ {l} : net'[b] = net[b]
    /\ sess' \in [Calls -> {"none", "live", "dead"}]
    /\ look' \in [Lookups -> LookState]
    /\ \A k \in Lookups \ {l} : look'[k] = look[k]
    /\ look'[l].st # "idle" /\ look'[l].guid \in Guids
    /\ UNCHANGED <<now, ownerVars, reg, blobs, log>>

\* Every step of a lookup keeps the types.
LEMMA LookupTypes ==
    ASSUME IndInv, NEW l \in Lookups, LookupStep(l)
    PROVE  IndInv'
<1>0. TypeOK /\ CallsOK /\ l \in Calls
    BY DEF IndInv, Calls
<1>a. LookupEffects(l) => IndInv'
    BY <1>0 DEF LookupEffects, IndInv, TypeOK, CallsOK, ownerVars, Calls
<1>b. SUFFICES LookupEffects(l)
    BY <1>a
<1> USE DEF LookupEffects
<1>1. ASSUME NEW g \in Guids, helloRv(l, g)
      PROVE  LookupEffects(l)
    <2>1. [t |-> "HelloRV", guid |-> g] \in Message
        BY DEF Message
    <2>2. net' \in [Calls -> Message] /\ \A b \in Calls \ {l} : net'[b] = net[b]
        BY <1>0, <1>1, <2>1, PutType DEF helloRv
    <2> DEFINE s == [IdleLook EXCEPT !.st = "hello", !.guid = g, !.since = Len(log)]
    <2>3. s \in LookState /\ s.st = "hello" /\ s.guid = g
        <3>1. Len(log) \in Nat
            BY <1>0 DEF TypeOK
        <3> QED
            BY <3>1, Idle DEF LookState
    <2>4. look' = [look EXCEPT ![l] = s]
        BY <1>1 DEF helloRv
    <2>5. UNCHANGED <<now, ownerVars, reg, sess, blobs, log>>
        BY <1>1 DEF helloRv
    <2> HIDE DEF s
    <2> QED
        BY <1>0, <2>2, <2>3, <2>4, <2>5 DEF TypeOK
<1>2. CASE proveToRv(l)
    <2>1. net' \in [Calls -> Message] /\ \A b \in Calls \ {l} : net'[b] = net[b]
        BY <1>0, <1>2, ShortMessages, PutType DEF proveToRv
    <2>2. look[l] \in LookState /\ look[l].guid \in Guids
        BY <1>0, <1>2 DEF proveToRv, CallsOK, TypeOK
    <2> QED
        BY <1>0, <1>2, <2>1, <2>2 DEF proveToRv, TypeOK, LookState
<1>3. CASE recvRVRedirect(l)
    <2>1. net' \in [Calls -> Message] /\ \A b \in Calls \ {l} : net'[b] = net[b]
        BY <1>0, <1>3, ShortMessages, PutType DEF recvRVRedirect
    <2>2. look[l] \in LookState /\ look[l].guid \in Guids
        BY <1>0, <1>3 DEF recvRVRedirect, CallsOK, TypeOK
    <2>3. net[l] \in Message /\ net[l].blob \in RVBlob
        BY <1>0, <1>3 DEF recvRVRedirect, TypeOK, Message
    <2>4. look' = [look EXCEPT ![l] = [@ EXCEPT !.st = "ok", !.blob = net[l].blob]]
        BY <1>3 DEF recvRVRedirect
    <2>5. UNCHANGED <<now, ownerVars, reg, sess, blobs, log>>
        BY <1>3 DEF recvRVRedirect
    <2>6. look' \in [Lookups -> LookState] /\ look'[l].st # "idle" /\ look'[l].guid \in Guids
        BY <1>0, <2>2, <2>3, <2>4 DEF TypeOK, LookState
    <2> QED
        BY <1>0, <2>1, <2>4, <2>5, <2>6 DEF TypeOK
<1>4. CASE helloRVAck(l) \/ rvRedirect(l)
    <2>0. UNCHANGED <<now, ownerVars, reg, look, blobs, log>>
        BY <1>4 DEF helloRVAck, rvRedirect
    <2>1. net[l] # Quiet
        BY <1>4 DEF helloRVAck, rvRedirect, Quiet
    <2>2. look[l].st # "idle" /\ look[l].guid \in Guids
        BY <1>0, <2>1 DEF CallsOK
    <2>3. CASE RespondError(l)
        BY <1>0, <2>0, <2>2, <2>3, RespondErrorType DEF TypeOK
    <2>4. CASE sess' \in [Calls -> {"none", "live", "dead"}] /\ Respond(l, [t |-> "HelloRVAck"])
        BY <1>0, <2>0, <2>2, <2>4, ShortMessages, RespondType DEF TypeOK
    <2>5. CASE /\ sess' \in [Calls -> {"none", "live", "dead"}]
               /\ Found(look[l].guid) /\ Respond(l, [t |-> "RVRedirect", blob |-> blobs[look[l].guid]])
        <3>1. blobs[look[l].guid] \in RVBlob
            BY <1>0, <2>2, <2>5 DEF TypeOK, Found
        <3>2. [t |-> "RVRedirect", blob |-> blobs[look[l].guid]] \in Message
            BY <3>1 DEF Message
        <3> QED
            BY <1>0, <2>0, <2>2, <2>5, <3>2, RespondType DEF TypeOK
    <2>6. sess' = [sess EXCEPT ![l] = "live"] \/ sess' = [sess EXCEPT ![l] = "dead"] => sess' \in [Calls -> {"none", "live", "dead"}]
        BY <1>0 DEF TypeOK
    <2> QED
        BY <1>4, <2>3, <2>4, <2>5, <2>6, Zenon DEF helloRVAck, rvRedirect
<1> QED
    BY <1>1, <1>2, <1>3, <1>4, Zenon DEF LookupStep

\* So do failures, lost messages and the clock.
LEMMA FaultTypes ==
    ASSUME IndInv, Tick \/ \E c \in Calls : Fail(c) \/ Lose(c)
    PROVE  IndInv'
<1>0. TypeOK /\ CallsOK
    BY DEF IndInv
<1>1. CASE Tick
    BY <1>0, <1>1 DEF Tick, IndInv, TypeOK, CallsOK, ownerVars
<1>2. ASSUME NEW c \in Calls, Lose(c) PROVE IndInv'
    <2>1. net' \in [Calls -> Message] /\ net'[c] = Quiet /\ \A b \in Calls \ {c} : net'[b] = net[b]
        BY <1>0, <1>2, ShortMessages, PutType DEF Lose
    <2> QED
        BY <1>0, <1>2, <2>1 DEF Lose, IndInv, TypeOK, CallsOK, ownerVars, Calls
<1>3. ASSUME NEW c \in Calls, Fail(c) PROVE IndInv'
    <2>1. net' \in [Calls -> Message] /\ \A b \in Calls : net'[b] \in {net[b], Quiet}
        BY <1>0, <1>3, ShortMessages, PutType DEF Fail, TypeOK
    <2>2. UNCHANGED <<now, ownerVars, sess, blobs, log>>
        BY <1>3 DEF Fail
    <2>3. CASE c \in Regs
        <3>1. reg[c].st # "idle" /\ reg' = [reg EXCEPT ![c].st = "failed"] /\ look' = look
            BY <1>3, <2>3 DEF Fail
        <3>2. SameArguments
            BY <1>0, <2>3, <3>1 DEF SameArguments, TypeOK, RegState
        <3> QED
            BY <2>1, <2>2, <3>1, <3>2, RegisterKeeps DEF Calls
    <2>4. CASE c \in Lookups
        <3>1. look[c].st # "idle" /\ look' = [look EXCEPT ![c].st = "failed"] /\ reg' = reg
            BY <1>3, <2>4, CallKinds DEF Fail
        <3>2. look' \in [Lookups -> LookState] /\ \A k \in Lookups : /\ look'[k].guid = look[k].guid
                                                                      /\ look'[k].st = "idle" <=> look[k].st = "idle"
            BY <1>0, <2>4, <3>1 DEF TypeOK, LookState
        <3> QED
            BY <1>0, <2>1, <2>2, <3>1, <3>2 DEF IndInv, TypeOK, CallsOK, ownerVars, Calls
    <2> QED
        BY <2>3, <2>4 DEF Calls
<1> QED
    BY <1>1, <1>2, <1>3

\* A voucher extended with a key.
LEMMA ExtendedType ==
    ASSUME NEW ov \in Voucher, NEW next \in Owners
    PROVE  /\ [ov EXCEPT !.entries = Append(@, next)] \in Voucher
           /\ [ov EXCEPT !.entries = Append(@, next)].guid = ov.guid
           /\ [ov EXCEPT !.entries = Append(@, next)].mfg = ov.mfg
           /\ [ov EXCEPT !.entries = Append(@, next)].entries = Append(ov.entries, next)
<1>1. Append(ov.entries, next) \in Seq(Owners)
    BY DEF Voucher
<1> QED
    BY <1>1 DEF Voucher

\* And vouchers changing hands.
LEMMA OwnerTypes ==
    ASSUME IndInv, OwnerStep
    PROVE  IndInv'
<1>0. TypeOK /\ CallsOK
    BY DEF IndInv
<1>1. ASSUME NEW o \in Owners, NEW g \in Guids, NEW next \in Owners, Resell(o, g, next)
      PROVE  IndInv'
    <2> DEFINE ov == held[o][g]
    <2>1. ov \in Voucher
        BY <1>0, <1>1 DEF Resell, TypeOK
    <2>2. [ov EXCEPT !.entries = Append(@, next)] \in Voucher
        BY <2>1, ExtendedType
    <2>3. transit' \subseteq Voucher
        BY <1>0, <1>1, <2>1, <2>2 DEF Resell, TypeOK
    <2>4. held' \in [Owners -> [Guids -> Voucher \cup {Nil}]]
        BY <1>0, <1>1 DEF Resell, TypeOK
    <2> QED
        BY <1>0, <1>1, <2>3, <2>4 DEF Resell, IndInv, TypeOK, CallsOK
<1>2. ASSUME NEW o \in Owners, NEW ov \in transit, AddVoucher(o, ov)
      PROVE  IndInv'
    <2>1. ov \in Voucher /\ ov.guid \in Guids
        BY <1>0 DEF TypeOK, Voucher
    <2>2. held' \in [Owners -> [Guids -> Voucher \cup {Nil}]]
        BY <1>0, <1>2, <2>1 DEF AddVoucher, TypeOK
    <2> QED
        BY <1>0, <1>2, <2>2 DEF AddVoucher, IndInv, TypeOK, CallsOK
<1> QED
    BY <1>1, <1>2 DEF OwnerStep

\* The initial states.
LEMMA InitTypes == Init => IndInv
<1> SUFFICES ASSUME Init PROVE IndInv
    OBVIOUS
<1>1. held \in [Owners -> [Guids -> Voucher \cup {Nil}]]
    BY DEF Init, Voucher
<1> QED
    BY <1>1, Idle, ShortMessages DEF Init, IndInv, TypeOK, CallsOK, Calls

\* Every step keeps the types.
LEMMA NextTypes == IndInv /\ [Next]_vars => IndInv'
<1> SUFFICES ASSUME IndInv, [Next]_vars PROVE IndInv'
    OBVIOUS
<1>1. CASE UNCHANGED vars
    BY <1>1 DEF IndInv, TypeOK, CallsOK, vars, ownerVars
<1> QED
    BY <1>1, RegisterTypes, LookupTypes, FaultTypes, OwnerTypes DEF Next

\* Every variable of the rendezvous service has its type in every reachable state.
THEOREM TypeCorrect == Spec => []TypeOK
<1>1. IndInv => TypeOK
    BY DEF IndInv
<1> QED
    BY <1>1, InitTypes, NextTypes, PTL DEF Spec

------------------------------------------------------------------------------
(* The chains of vouchers.                                                   *)

\* A GUID has at most one voucher, at one place.
OnePlace ==
    /\ \A o \in Owners, g \in Guids : held[o][g] # Nil => held[o][g].guid = g
    /\ \A o, p \in Owners, g \in Guids : held[o][g] # Nil /\ held[p][g] # Nil => o = p
    /\ \A o \in Owners, g \in Guids, ov \in transit : held[o][g] # Nil => ov.guid # g
    /\ \A ov, ow \in transit : ov.guid = ow.guid => ov = ow

\* A voucher is an earlier state of another.
Earlier(old, ov) == old.guid = ov.guid /\ old.mfg = ov.mfg /\ Prefix(old.entries, ov.entries)

\* A voucher is an earlier state of itself.
LEMMA EarlierSame == \A ov \in Voucher : Earlier(ov, ov)
<1> SUFFICES ASSUME NEW ov \in Voucher PROVE Earlier(ov, ov)
    OBVIOUS
<1>1. ov.entries \in Seq(Owners)
    BY DEF Voucher
<1> QED
    BY <1>1 DEF Earlier, Prefix

\* Earlier states of an earlier state are earlier states.
LEMMA EarlierTransitive ==
    ASSUME NEW u \in Voucher, NEW v \in Voucher, NEW w \in Voucher, Earlier(u, v), Earlier(v, w)
    PROVE  Earlier(u, w)
<1>1. u.entries \in Seq(Owners) /\ v.entries \in Seq(Owners) /\ w.entries \in Seq(Owners)
    BY DEF Voucher
<1>2. Len(u.entries) \in Nat /\ Len(v.entries) \in Nat /\ Len(w.entries) \in Nat
    BY <1>1
<1>3. Len(u.entries) <= Len(v.entries) /\ Len(v.entries) <= Len(w.entries)
    BY DEF Earlier, Prefix
<1>4. \A i \in 1 .. Len(u.entries) : u.entries[i] = v.entries[i]
    BY DEF Earlier, Prefix
<1>5. \A i \in 1 .. Len(v.entries) : v.entries[i] = w.entries[i]
    BY DEF Earlier, Prefix
<1>6. Len(u.entries) <= Len(w.entries)
    BY <1>2, <1>3
<1>7. \A i \in 1 .. Len(u.entries) : u.entries[i] = w.entries[i]
    BY <1>2, <1>3, <1>4, <1>5
<1> QED
    BY <1>6, <1>7 DEF Earlier, Prefix

\* Extending a voucher makes a later state of it.
LEMMA EarlierExtended ==
    ASSUME NEW ov \in Voucher, NEW next \in Owners
    PROVE  Earlier(ov, [ov EXCEPT !.entries = Append(@, next)])
<1>1. ov.entries \in Seq(Owners)
    BY DEF Voucher
<1>2. Len(ov.entries) <= Len(Append(ov.entries, next)) /\ \A i \in 1 .. Len(ov.entries) : ov.entries[i] = Append(ov.entries, next)[i]
    BY <1>1
<1> QED
    BY <1>2, ExtendedType DEF Earlier, Prefix

\* What is in Vouchers.
LEMMA VouchersType ==
    ASSUME TypeOK
    PROVE  /\ \A ov : ov \in Vouchers <=> (\E o \in Owners, g \in Guids : ov = held[o][g] /\ ov # Nil) \/ ov \in transit
           /\ Vouchers \subseteq Voucher
<1>1. \A ov : ov \in Vouchers <=> (\E o \in Owners, g \in Guids : ov = held[o][g] /\ ov # Nil) \/ ov \in transit
    <2>1. \A ov \in transit : ov # Nil
        BY NilAssumption DEF TypeOK
    <2> QED
        BY <2>1 DEF Vouchers
<1> QED
    BY <1>1 DEF TypeOK

\* With its voucher at one place a GUID has one.
LEMMA OneVoucher ==
    ASSUME TypeOK, OnePlace, NEW ov \in Vouchers, NEW ow \in Vouchers, ov.guid = ow.guid
    PROVE  ov = ow
<1>1. CASE ov \in transit /\ ow \in transit
    BY <1>1 DEF OnePlace
<1>2. ASSUME NEW o \in Owners, NEW g \in Guids, ov = held[o][g], ov # Nil,
             NEW p \in Owners, NEW h \in Guids, ow = held[p][h], ow # Nil
      PROVE  ov = ow
    BY <1>2 DEF OnePlace
<1>3. ASSUME NEW o \in Owners, NEW g \in Guids, held[o][g] # Nil, NEW u \in transit
      PROVE  u.guid # held[o][g].guid
    BY <1>3 DEF OnePlace
<1> QED
    BY <1>1, <1>2, <1>3, VouchersType

\* The parties' vouchers change in these ways only: one is taken out of a store, to
\* go on as it is or extended, or added to one.
LEMMA Changes ==
    ASSUME TypeOK, [Next]_vars
    PROVE  \/ UNCHANGED ownerVars
           \/ \E o \in Owners, g \in Guids, next \in Owners : Resell(o, g, next)
           \/ \E o \in Owners : \E ov \in transit : AddVoucher(o, ov)
<1>1. CASE UNCHANGED vars
    BY <1>1 DEF vars
<1>2. ASSUME NEW r \in Regs, RegisterStep(r) PROVE UNCHANGED ownerVars
    BY <1>2 DEF RegisterStep, hello, ownerSign, recvAcceptOwner, helloAck, acceptOwner
<1>3. ASSUME NEW l \in Lookups, LookupStep(l) PROVE UNCHANGED ownerVars
    BY <1>3 DEF LookupStep, helloRv, proveToRv, recvRVRedirect, helloRVAck, rvRedirect
<1>4. ASSUME NEW c \in Calls, Fail(c) \/ Lose(c) PROVE UNCHANGED ownerVars
    BY <1>4 DEF Fail, Lose
<1>5. CASE Tick
    BY <1>5 DEF Tick
<1> QED
    BY <1>1, <1>2, <1>3, <1>4, <1>5 DEF Next, OwnerStep

\* Resell's voucher, in the two forms it takes.
LEMMA ResellForms ==
    ASSUME TypeOK, NEW o \in Owners, NEW g \in Guids, NEW next \in Owners, Resell(o, g, next)
    PROVE  \E ow \in Voucher :
              /\ held[o][g] \in Voucher /\ Earlier(held[o][g], ow)
              /\ transit' = transit \cup {ow}
              /\ held' = [held EXCEPT ![o] = [@ EXCEPT ![g] = Nil]]
<1>1. held[o][g] \in Voucher
    BY DEF Resell, TypeOK
<1>2. Earlier(held[o][g], held[o][g])
    BY <1>1, EarlierSame
<1> QED
    BY <1>1, <1>2, ExtendedType, EarlierExtended DEF Resell

\* The voucher of a GUID stays at one place.
LEMMA OnePlaceKept ==
    ASSUME TypeOK, OnePlace, [Next]_vars
    PROVE  OnePlace'
<1>1. CASE UNCHANGED ownerVars
    BY <1>1 DEF OnePlace, ownerVars
<1>2. ASSUME NEW o \in Owners, NEW g \in Guids, NEW next \in Owners, Resell(o, g, next)
      PROVE  OnePlace'
    <2>1. PICK ow \in Voucher : /\ held[o][g] \in Voucher /\ Earlier(held[o][g], ow)
                                /\ transit' = transit \cup {ow}
                                /\ held' = [held EXCEPT ![o] = [@ EXCEPT ![g] = Nil]]
        BY <1>2, ResellForms
    <2>2. held[o][g] # Nil /\ ow.guid = g
        BY <2>1, NilAssumption DEF OnePlace, Earlier
    <2>3. \A p \in Owners, h \in Guids : held'[p][h] = IF p = o /\ h = g THEN Nil ELSE held[p][h]
        BY <2>1 DEF TypeOK
    <2>4. \A p \in Owners : held'[p][g] = Nil
        BY <2>2, <2>3 DEF OnePlace
    <2>5. \A u \in transit : u.guid # g
        BY <2>2 DEF OnePlace
    <2> QED
        BY <2>1, <2>2, <2>3, <2>4, <2>5 DEF OnePlace
<1>3. ASSUME NEW o \in Owners, NEW ov \in transit, AddVoucher(o, ov)
      PROVE  OnePlace'
    <2>1. ov \in Voucher /\ ov.guid \in Guids
        BY DEF TypeOK, Voucher
    <2>2. transit' = transit \ {ov} /\ held' = [held EXCEPT ![o] = [@ EXCEPT ![ov.guid] = ov]]
        BY <1>3 DEF AddVoucher
    <2>3. \A p \in Owners, h \in Guids : held'[p][h] = IF p = o /\ h = ov.guid THEN ov ELSE held[p][h]
        BY <2>1, <2>2 DEF TypeOK
    <2>4. \A p \in Owners : held[p][ov.guid] = Nil
        BY <2>1 DEF OnePlace
    <2>5. \A u \in transit' : u.guid # ov.guid
        BY <2>2 DEF OnePlace
    <2> QED
        BY <2>2, <2>3, <2>4, <2>5 DEF OnePlace
<1> QED
    BY <1>1, <1>2, <1>3, Changes

\* A voucher of a step's end is a later state of one of its beginning.
LEMMA VouchersGrow ==
    ASSUME TypeOK, OnePlace, [Next]_vars, NEW ow \in Vouchers'
    PROVE  \E ov \in Vouchers : Earlier(ov, ow)
<1>1. CASE UNCHANGED ownerVars
    <2>1. ow \in Vouchers
        BY <1>1 DEF Vouchers, ownerVars
    <2> QED
        BY <2>1, VouchersType, EarlierSame
<1>2. ASSUME NEW o \in Owners, NEW g \in Guids, NEW next \in Owners, Resell(o, g, next)
      PROVE  \E ov \in Vouchers : Earlier(ov, ow)
    <2>1. PICK ox \in Voucher : /\ held[o][g] \in Voucher /\ Earlier(held[o][g], ox)
                                /\ transit' = transit \cup {ox}
                                /\ held' = [held EXCEPT ![o] = [@ EXCEPT ![g] = Nil]]
        BY <1>2, ResellForms
    <2>2. held[o][g] \in Vouchers
        BY <2>1, VouchersType, NilAssumption
    <2>3. \A p \in Owners, h \in Guids : held'[p][h] \in {held[p][h], Nil}
        BY <2>1 DEF TypeOK
    <2>4. ow = ox \/ ow \in Vouchers
        BY <2>1, <2>3, VouchersType DEF Vouchers
    <2> QED
        BY <2>1, <2>2, <2>4, VouchersType, EarlierSame
<1>3. ASSUME NEW o \in Owners, NEW ov \in transit, AddVoucher(o, ov)
      PROVE  ow \in Vouchers
    <2>1. transit' = transit \ {ov} /\ held' = [held EXCEPT ![o] = [@ EXCEPT ![ov.guid] = ov]]
        BY <1>3 DEF AddVoucher
    <2>2. \A p \in Owners, h \in Guids : held'[p][h] \in {held[p][h], ov}
        BY <2>1 DEF TypeOK
    <2> QED
        BY <2>1, <2>2, VouchersType DEF Vouchers
<1> QED
    BY <1>1, <1>2, <1>3, Changes, VouchersType, EarlierSame

\* Copies are of vouchers that were copied before, or of one an owner holds.
Copied(v) ==
    \/ \E g \in Guids : blobs[g] # Nil /\ v = blobs[g].ov
    \/ \E r \in Regs : net[r].t = "OwnerSign" /\ v = net[r].ov
    \/ \E l \in Lookups : net[l].t = "RVRedirect" /\ v = net[l].blob.ov
    \/ \E l \in Lookups : look[l].blob # Nil /\ v = look[l].blob.ov

\* Copied says what is in CopiedVouchers.
LEMMA CopiedIs == \A v : v \in CopiedVouchers <=> Copied(v)
BY DEF CopiedVouchers, Copied

\* What is copied is a voucher.
LEMMA CopiedType == TypeOK => CopiedVouchers \subseteq Voucher
<1> SUFFICES ASSUME TypeOK, NEW v, Copied(v) PROVE v \in Voucher
    BY CopiedIs
<1>1. \A b \in RVBlob : b.ov \in Voucher
    BY DEF RVBlob
<1>2. \A r \in Regs : net[r].t = "OwnerSign" => net[r].ov \in Voucher
    <2> SUFFICES ASSUME NEW r \in Regs, net[r].t = "OwnerSign" PROVE net[r].ov \in Voucher
        OBVIOUS
    <2>1. net[r] \in Message
        BY CallKinds DEF TypeOK
    <2> QED
        BY <2>1 DEF Message
<1>3. \A l \in Lookups : net[l].t = "RVRedirect" => net[l].blob \in RVBlob
    <2> SUFFICES ASSUME NEW l \in Lookups, net[l].t = "RVRedirect" PROVE net[l].blob \in RVBlob
        OBVIOUS
    <2>1. net[l] \in Message
        BY DEF TypeOK, Calls
    <2> QED
        BY <2>1 DEF Message
<1>4. \A l \in Lookups : look[l].blob # Nil => look[l].blob \in RVBlob
    BY DEF TypeOK, LookState
<1> QED
    BY <1>1, <1>2, <1>3, <1>4 DEF Copied, TypeOK

\* Who puts what into the messages that carry a voucher.
LEMMA MessageEffects ==
    ASSUME IndInv, [Next]_vars, NEW c \in Calls
    PROVE  \/ net'[c] = net[c]
           \/ net'[c].t \notin {"OwnerSign", "RVRedirect"}
           \/ /\ c \in Regs /\ reg[c].owner \in Owners /\ reg[c].guid \in Guids
              /\ IsExtended(held[reg[c].owner][reg[c].guid])
              /\ net'[c].t = "OwnerSign" /\ net'[c].ov = held[reg[c].owner][reg[c].guid]
           \/ /\ c \in Lookups /\ look[c].guid \in Guids /\ Found(look[c].guid) /\ UNCHANGED <<look, now, log, blobs>>
              /\ net'[c].t = "RVRedirect" /\ net'[c].blob = blobs[look[c].guid]
<1> USE DEF IndInv
<1> DEFINE Harmless == net'[c] = net[c] \/ net'[c].t \notin {"OwnerSign", "RVRedirect"}
           Signs == /\ c \in Regs /\ reg[c].owner \in Owners /\ reg[c].guid \in Guids
                    /\ IsExtended(held[reg[c].owner][reg[c].guid])
                    /\ net'[c].t = "OwnerSign" /\ net'[c].ov = held[reg[c].owner][reg[c].guid]
           Redirects == /\ c \in Lookups /\ look[c].guid \in Guids /\ Found(look[c].guid) /\ UNCHANGED <<look, now, log, blobs>>
                        /\ net'[c].t = "RVRedirect" /\ net'[c].blob = blobs[look[c].guid]
<1>1. CASE UNCHANGED vars
    BY <1>1 DEF vars
<1>2. ASSUME NEW b \in Calls, NEW m, m.t \notin {"OwnerSign", "RVRedirect"}, Put(b, m)
      PROVE  Harmless
    BY <1>2 DEF Put, TypeOK
<1>3. ASSUME NEW b \in Calls, NEW m, m.t \notin {"OwnerSign", "RVRedirect"}, Respond(b, m)
      PROVE  Harmless
    BY <1>2, <1>3 DEF Respond, Quiet
<1>4. ASSUME NEW b \in Calls, RespondError(b) PROVE Harmless
    BY <1>3, <1>4 DEF RespondError, ErrorMessage
<1>5. ASSUME NEW r \in Regs, RegisterStep(r) PROVE Harmless \/ Signs
    <2>0. r \in Calls
        BY CallKinds
    <2>1. ASSUME NEW o \in Owners, NEW g \in Guids, NEW ttl \in TTLs, hello(r, o, g, ttl) PROVE Harmless
        BY <1>2, <2>0, <2>1 DEF hello
    <2>2. CASE ownerSign(r)
        <3> DEFINE ov == held[reg[r].owner][reg[r].guid]
        <3>1. reg[r].owner \in Owners /\ reg[r].guid \in Guids
            BY <2>2 DEF ownerSign, CallsOK
        <3>2. \/ IsExtended(ov) /\ Put(r, [t |-> "OwnerSign", rv |-> reg[r].owner, ov |-> ov, wait |-> reg[r].ttl])
              \/ Put(r, Quiet)
            BY <2>2 DEF ownerSign
        <3>3. CASE Put(r, Quiet)
            BY <1>2, <2>0, <3>3 DEF Quiet
        <3>4. CASE IsExtended(ov) /\ Put(r, [t |-> "OwnerSign", rv |-> reg[r].owner, ov |-> ov, wait |-> reg[r].ttl])
            BY <2>0, <3>1, <3>4 DEF Put, TypeOK
        <3> QED
            BY <3>2, <3>3, <3>4
    <2>3. CASE recvAcceptOwner(r)
        BY <1>2, <2>0, <2>3 DEF recvAcceptOwner, Quiet
    <2>4. CASE helloAck(r)
        BY <1>3, <2>0, <2>4 DEF helloAck
    <2>5. CASE acceptOwner(r)
        <3>1. RespondError(r) \/ \E ttl \in TTLs : Respond(r, [t |-> "AcceptOwner", wait |-> ttl])
            BY <2>5 DEF acceptOwner
        <3>2. \A ttl \in TTLs : Respond(r, [t |-> "AcceptOwner", wait |-> ttl]) => Harmless
            BY <1>3, <2>0
        <3> QED
            BY <1>4, <2>0, <3>1, <3>2
    <2> QED
        BY <1>5, <2>1, <2>2, <2>3, <2>4, <2>5 DEF RegisterStep
<1>6. ASSUME NEW l \in Lookups, LookupStep(l) PROVE Harmless \/ Redirects
    <2>0. l \in Calls
        BY DEF Calls
    <2>1. ASSUME NEW g \in Guids, helloRv(l, g) PROVE Harmless
        BY <1>2, <2>0, <2>1 DEF helloRv
    <2>2. CASE proveToRv(l)
        BY <1>2, <2>0, <2>2 DEF proveToRv
    <2>3. CASE recvRVRedirect(l)
        BY <1>2, <2>0, <2>3 DEF recvRVRedirect, Quiet
    <2>4. CASE helloRVAck(l)
        BY <1>3, <1>4, <2>0, <2>4 DEF helloRVAck
    <2>5. CASE rvRedirect(l)
        <3>1. net[l] # Quiet
            BY <2>5 DEF rvRedirect, Quiet
        <3>2. look[l].guid \in Guids /\ UNCHANGED <<look, now, log, blobs>>
            BY <2>5, <3>1 DEF CallsOK, rvRedirect
        <3>3. CASE RespondError(l)
            BY <1>4, <2>0, <3>3
        <3>4. CASE Found(look[l].guid) /\ Respond(l, [t |-> "RVRedirect", blob |-> blobs[look[l].guid]])
            <4>1. CASE Over(l)
                BY <1>2, <2>0, <3>4, <4>1 DEF Respond, Quiet
            <4>2. CASE ~Over(l)
                BY <2>0, <3>2, <3>4, <4>2 DEF Respond, Put, TypeOK
            <4> QED
                BY <4>1, <4>2
        <3> QED
            BY <2>5, <3>3, <3>4 DEF rvRedirect
    <2> QED
        BY <1>6, <2>1, <2>2, <2>3, <2>4, <2>5 DEF LookupStep
<1>7. ASSUME NEW b \in Calls, Fail(b) \/ Lose(b) PROVE Harmless
    BY <1>2, <1>7 DEF Fail, Lose, Quiet
<1>8. CASE OwnerStep \/ Tick
    BY <1>8 DEF OwnerStep, Resell, AddVoucher, Tick
<1> QED
    BY <1>1, <1>5, <1>6, <1>7, <1>8 DEF Next

\* Only SetRVBlob changes the registrations.
LEMMA BlobEffects ==
    ASSUME [Next]_vars
    PROVE  \/ UNCHANGED <<blobs, log>>
           \/ \E r \in Regs, ttl \in TTLs : net[r].t = "OwnerSign" /\ SetRVBlob(r, net[r], ttl) /\ UNCHANGED <<look, now>>
<1>1. CASE UNCHANGED vars
    BY <1>1 DEF vars
<1>2. ASSUME NEW r \in Regs, acceptOwner(r)
      PROVE  UNCHANGED <<blobs, log>> \/ \E ttl \in TTLs : net[r].t = "OwnerSign" /\ SetRVBlob(r, net[r], ttl) /\ UNCHANGED <<look, now>>
    BY <1>2 DEF acceptOwner
<1>3. ASSUME NEW r \in Regs, RegisterStep(r), ~acceptOwner(r) PROVE UNCHANGED <<blobs, log>>
    BY <1>3 DEF RegisterStep, hello, ownerSign, recvAcceptOwner, helloAck
<1>4. ASSUME NEW l \in Lookups, LookupStep(l) PROVE UNCHANGED <<blobs, log>>
    BY <1>4 DEF LookupStep, helloRv, proveToRv, recvRVRedirect, helloRVAck, rvRedirect
<1>5. CASE OwnerStep \/ Tick \/ \E c \in Calls : Fail(c) \/ Lose(c)
    BY <1>5 DEF OwnerStep, Resell, AddVoucher, Tick, Fail, Lose
<1> QED
    BY <1>1, <1>2, <1>3, <1>4, <1>5 DEF Next

\* What a lookup knows: where it began in the log, and what it was redirected to.
LEMMA LookEffects ==
    ASSUME IndInv, [Next]_vars, NEW l \in Lookups
    PROVE  /\ look'[l].since \in {look[l].since, Len(log)}
           /\ \/ look'[l].blob \in {look[l].blob, Nil}
              \/ net[l].t = "RVRedirect" /\ look'[l].blob = net[l].blob
<1>0. look \in [Lookups -> LookState]
    BY DEF IndInv, TypeOK
<1>1. CASE look'[l] = look[l]
    BY <1>1
<1>2. ASSUME NEW k \in Lookups, NEW g \in Guids, helloRv(k, g) PROVE look'[l] = look[l] \/ (look'[l].since = Len(log) /\ look'[l].blob = Nil)
    <2> DEFINE s == [IdleLook EXCEPT !.st = "hello", !.guid = g, !.since = Len(log)]
    <2>1. s.since = Len(log) /\ s.blob = Nil
        BY DEF IdleLook
    <2>2. look' = [look EXCEPT ![k] = s]
        BY <1>2 DEF helloRv
    <2> HIDE DEF s
    <2> QED
        BY <1>0, <2>1, <2>2
<1>3. ASSUME NEW k \in Lookups, proveToRv(k) PROVE look'[l].since = look[l].since /\ look'[l].blob = look[l].blob
    BY <1>0, <1>3 DEF proveToRv, LookState
<1>4. ASSUME NEW k \in Lookups, recvRVRedirect(k)
      PROVE  look'[l] = look[l] \/ (look'[l].since = look[l].since /\ net[l].t = "RVRedirect" /\ look'[l].blob = net[l].blob)
    <2> DEFINE s == [look[k] EXCEPT !.st = "ok", !.blob = net[k].blob]
    <2>1. s.since = look[k].since /\ s.blob = net[k].blob
        BY <1>0 DEF LookState
    <2>2. look' = [look EXCEPT ![k] = s] /\ net[k].t = "RVRedirect"
        BY <1>4 DEF recvRVRedirect
    <2> HIDE DEF s
    <2> QED
        BY <1>0, <2>1, <2>2
<1>5. ASSUME NEW c \in Calls, Fail(c) PROVE look'[l].since = look[l].since /\ look'[l].blob = look[l].blob
    BY <1>0, <1>5 DEF Fail, LookState
<1>6. CASE UNCHANGED vars
    BY <1>1, <1>6 DEF vars
<1>7. ASSUME NEW r \in Regs, RegisterStep(r) PROVE look' = look
    BY <1>7 DEF RegisterStep, hello, ownerSign, recvAcceptOwner, helloAck, acceptOwner
<1>8. CASE OwnerStep \/ Tick \/ \E c \in Calls : Lose(c)
    BY <1>1, <1>8 DEF OwnerStep, Resell, AddVoucher, Tick, Lose
<1>9. ASSUME NEW k \in Lookups, helloRVAck(k) \/ rvRedirect(k) PROVE look' = look
    BY <1>9 DEF helloRVAck, rvRedirect
<1> QED
    BY <1>1, <1>2, <1>3, <1>4, <1>5, <1>6, <1>7, <1>8, <1>9 DEF Next, LookupStep

\* A copy of a step's end was one before, or is of a voucher an owner holds.
LEMMA NewCopies ==
    ASSUME IndInv, [Next]_vars, NEW v, Copied(v)'
    PROVE  Copied(v) \/ v \in Vouchers
<1>0. TypeOK
    BY DEF IndInv
<1>1. ASSUME NEW g \in Guids, blobs'[g] # Nil, v = blobs'[g].ov PROVE Copied(v)
    <2>1. CASE blobs'[g] = blobs[g]
        BY <1>1, <2>1 DEF Copied
    <2>2. CASE blobs'[g] # blobs[g]
        <3>1. PICK r \in Regs, ttl \in TTLs : net[r].t = "OwnerSign" /\ SetRVBlob(r, net[r], ttl)
            BY <2>2, BlobEffects
        <3>2. blobs'[g].ov = net[r].ov
            BY <1>0, <2>2, <3>1 DEF SetRVBlob, TypeOK
        <3> QED
            BY <1>1, <3>1, <3>2 DEF Copied
    <2> QED
        BY <2>1, <2>2
<1>2. ASSUME NEW r \in Regs, net'[r].t = "OwnerSign", v = net'[r].ov PROVE Copied(v) \/ v \in Vouchers
    <2>1. CASE net'[r] = net[r]
        BY <1>2, <2>1 DEF Copied
    <2>2. CASE net'[r] # net[r]
        <3>1. reg[r].owner \in Owners /\ reg[r].guid \in Guids /\ IsExtended(held[reg[r].owner][reg[r].guid])
              /\ net'[r].ov = held[reg[r].owner][reg[r].guid]
            BY <1>2, <2>2, MessageEffects, CallKinds
        <3> QED
            BY <1>0, <1>2, <3>1, VouchersType DEF IsExtended
    <2> QED
        BY <2>1, <2>2
<1>3. ASSUME NEW l \in Lookups, net'[l].t = "RVRedirect", v = net'[l].blob.ov PROVE Copied(v)
    <2>1. CASE net'[l] = net[l]
        BY <1>3, <2>1 DEF Copied
    <2>2. CASE net'[l] # net[l]
        <3>1. l \in Calls
            BY DEF Calls
        <3>2. look[l].guid \in Guids /\ Found(look[l].guid) /\ net'[l].blob = blobs[look[l].guid]
            BY <1>3, <2>2, <3>1, MessageEffects
        <3> QED
            BY <1>3, <3>2 DEF Copied, Found
    <2> QED
        BY <2>1, <2>2
<1>4. ASSUME NEW l \in Lookups, look'[l].blob # Nil, v = look'[l].blob.ov PROVE Copied(v)
    BY <1>4, LookEffects DEF Copied
<1> QED
    BY <1>1, <1>2, <1>3, <1>4 DEF Copied

Unique == \A ov, ow \in Vouchers : ov.guid = ow.guid => ov = ow

AreVouchers == Vouchers \subseteq Voucher /\ CopiedVouchers \subseteq Voucher

\* What follows from types and places.
LEMMA ChainTypes == TypeOK /\ OnePlace => Unique /\ AreVouchers
BY VouchersType, CopiedType, OneVoucher DEF Unique, AreVouchers

ChainInv == IndInv /\ OnePlace /\ OneChain

\* The invariant of chains is inductive.
LEMMA NextChain == ChainInv /\ [Next]_vars => ChainInv'
<1> SUFFICES ASSUME ChainInv, [Next]_vars PROVE ChainInv'
    OBVIOUS
<1>0. IndInv /\ TypeOK /\ OnePlace /\ OneChain
    BY DEF ChainInv, IndInv
<1>1. IndInv' /\ TypeOK'
    BY <1>0, NextTypes DEF IndInv
<1>2. OnePlace'
    BY <1>0, OnePlaceKept
<1>3. Unique' /\ AreVouchers'
    <2>1. TypeOK' /\ OnePlace'
        BY <1>1, <1>2
    <2> QED
        BY <2>1, ChainTypes, PTL
<1>4. ASSUME NEW old \in CopiedVouchers', NEW ow \in Vouchers', old.guid = ow.guid
      PROVE  old.mfg = ow.mfg /\ Prefix(old.entries, ow.entries)
    <2>1. PICK ov \in Vouchers : Earlier(ov, ow)
        BY <1>0, VouchersGrow
    <2>2. ov \in Voucher /\ ow \in Voucher /\ old \in Voucher
        BY <1>0, <1>3, VouchersType DEF AreVouchers
    <2>3. Copied(old)'
        BY DEF CopiedVouchers, Copied
    <2>4. old.guid = ov.guid
        BY <1>4, <2>1 DEF Earlier
    <2>5. Earlier(old, ov)
        <3>1. CASE Copied(old)
            BY <1>0, <2>4, <3>1, CopiedIs DEF OneChain, Earlier
        <3>2. CASE old \in Vouchers
            BY <1>0, <2>2, <2>4, <3>2, OneVoucher, EarlierSame
        <3> QED
            BY <1>0, <2>3, <3>1, <3>2, NewCopies
    <2> QED
        BY <2>1, <2>2, <2>5, EarlierTransitive DEF Earlier
<1> QED
    BY <1>1, <1>2, <1>3, <1>4 DEF ChainInv, OneChain, Unique

\* The initial states.
LEMMA InitChain == Init => ChainInv
<1> SUFFICES ASSUME Init PROVE ChainInv
    OBVIOUS
<1>1. PICK mfg \in [Guids -> Owners], ext \in [Guids -> BOOLEAN] :
          held = [o \in Owners |-> [g \in Guids |->
                    IF mfg[g] = o
                    THEN [guid |-> g, mfg |-> o, entries |-> IF ext[g] THEN <<o>> ELSE <<>>]
                    ELSE Nil]]
    BY DEF Init
<1>2. IndInv /\ TypeOK
    BY InitTypes DEF IndInv
<1>3. OnePlace
    BY <1>1 DEF OnePlace, Init
<1>4. \A v : ~Copied(v)
    <2>1. \A l \in Lookups : look[l].blob = Nil
        BY DEF Init, IdleLook
    <2>2. \A c \in Calls : net[c].t = "none"
        BY DEF Init, Quiet
    <2>3. \A g \in Guids : blobs[g] = Nil
        BY DEF Init
    <2> QED
        BY <2>1, <2>2, <2>3 DEF Copied, Calls
<1>5. CopiedVouchers = {}
    BY <1>4, CopiedIs
<1> QED
    BY <1>2, <1>3, <1>5, OneVoucher DEF ChainInv, OneChain

\* However registrations, lookups, resales and lost messages interleave, a GUID has
\* one voucher and what is registered for it is an earlier state of that voucher.
THEOREM ChainsLeadToTheOwner == Spec => []OneChain
<1>1. ChainInv => OneChain
    BY DEF ChainInv
<1> QED
    BY <1>1, InitChain, NextChain, PTL DEF Spec

------------------------------------------------------------------------------
(* The registrations.                                                        *)

\* The row of a GUID is the last registration accepted for it.
RowIs(g, i) ==
    /\ log[i].guid = g /\ \A j \in i + 1 .. Len(log) : log[j].guid # g
    /\ blobs[g] # Nil /\ blobs[g].to0d = log[i].to0d /\ blobs[g].exp = log[i].until \div Ticks

RowsOK ==
    \A g \in Guids :
        \/ \A i \in 1 .. Len(log) : log[i].guid # g
        \/ \E i \in 1 .. Len(log) : RowIs(g, i)

\* The registrations of the log.
LEMMA LogType == TypeOK => \A i \in 1 .. Len(log) : log[i] \in [to0d : Regs, guid : Guids, until : Nat]
<1> DEFINE S == [to0d : Regs, guid : Guids, until : Nat]
<1>1. TypeOK => log \in Seq(S)
    BY DEF TypeOK
<1> HIDE DEF S
<1>2. log \in Seq(S) => \A i \in 1 .. Len(log) : log[i] \in S
    OBVIOUS
<1> QED
    BY <1>1, <1>2 DEF S

\* A lookup began at some time.
SinceOK == \A l \in Lookups : look[l].since <= Len(log)

\* A row without registrations is not there.
NoRow == \A g \in Guids : (\A i \in 1 .. Len(log) : log[i].guid # g) => blobs[g] = Nil

RowsInv == IndInv /\ RowsOK /\ NoRow /\ SinceOK

\* The invariant of rows is inductive.
LEMMA NextRows == RowsInv /\ [Next]_vars => RowsInv'
<1> SUFFICES ASSUME RowsInv, [Next]_vars PROVE RowsInv'
    OBVIOUS
<1>0. IndInv /\ TypeOK /\ RowsOK /\ NoRow /\ SinceOK
    BY DEF RowsInv, IndInv
<1>1. IndInv'
    BY <1>0, NextTypes
<1>2. log \in Seq([to0d : Regs, guid : Guids, until : Nat]) /\ Len(log) \in Nat
    BY <1>0 DEF TypeOK
<1>3. CASE UNCHANGED <<blobs, log>>
    <2>1. RowsOK' /\ NoRow'
        BY <1>0, <1>3 DEF RowsOK, NoRow, RowIs
    <2>2. SinceOK'
        BY <1>0, <1>2, <1>3, LookEffects DEF SinceOK
    <2> QED
        BY <1>1, <2>1, <2>2 DEF RowsInv
<1>4. ASSUME NEW r \in Regs, NEW ttl \in TTLs, net[r].t = "OwnerSign", SetRVBlob(r, net[r], ttl), look' = look
      PROVE  RowsInv'
    <2>a. PICK h, e, b :
              /\ h = net[r].ov.guid
              /\ e = [to0d |-> r, guid |-> h, until |-> now + ttl * Ticks]
              /\ b = [to0d |-> r, rv |-> net[r].rv, ov |-> net[r].ov, exp |-> (now + ttl * Ticks) \div Ticks]
        OBVIOUS
    <2>1. h \in Guids /\ b \in RVBlob /\ b # Nil
        BY <1>0, <1>4, <2>a, BlobType, NilAssumption
    <2>2. blobs' = [blobs EXCEPT ![h] = b] /\ log' = Append(log, e)
        BY <1>4, <2>a DEF SetRVBlob
    <2>3. e.guid = h /\ b.to0d = e.to0d /\ b.exp = e.until \div Ticks
        BY <2>a
    <2>b. PICK n : n = Len(log) + 1
        OBVIOUS
    <2>4. Len(log') = n /\ log'[n] = e /\ \A i \in 1 .. Len(log) : log'[i] = log[i]
        BY <1>2, <2>2, <2>b
    <2>5. \A g \in Guids : blobs'[g] = IF g = h THEN b ELSE blobs[g]
        BY <1>0, <2>1, <2>2 DEF TypeOK
    <2>6. ASSUME NEW g \in Guids, g # h
          PROVE  \/ (\A i \in 1 .. Len(log') : log'[i].guid # g) /\ blobs'[g] = Nil
                 \/ \E i \in 1 .. Len(log') : RowIs(g, i)'
        <3>1. CASE \A i \in 1 .. Len(log) : log[i].guid # g
            <4>1. blobs'[g] = Nil
                BY <1>0, <2>5, <2>6, <3>1 DEF NoRow
            <4>2. ASSUME NEW i \in 1 .. Len(log') PROVE log'[i].guid # g
                <5>1. i \in 1 .. Len(log) \/ i = n
                    BY <1>2, <2>4, <2>b
                <5> QED
                    BY <2>3, <2>4, <2>6, <3>1, <5>1
            <4> QED
                BY <4>1, <4>2
        <3>2. ASSUME NEW i \in 1 .. Len(log), RowIs(g, i)
              PROVE  i \in 1 .. Len(log') /\ RowIs(g, i)'
            <4>1. i \in 1 .. Len(log')
                BY <1>2, <2>4, <2>b
            <4>2. ASSUME NEW j \in i + 1 .. Len(log') PROVE log'[j].guid # g
                <5>1. j \in i + 1 .. Len(log) \/ j = n
                    BY <1>2, <2>4, <2>b
                <5>2. CASE j \in i + 1 .. Len(log)
                    BY <1>2, <2>4, <3>2, <5>2 DEF RowIs
                <5>3. CASE j = n
                    BY <2>3, <2>4, <2>6, <5>3
                <5> QED
                    BY <5>1, <5>2, <5>3
            <4> QED
                BY <2>4, <2>5, <2>6, <3>2, <4>1, <4>2 DEF RowIs
        <3> QED
            BY <1>0, <3>1, <3>2 DEF RowsOK
    <2>7. n \in 1 .. Len(log') /\ RowIs(h, n)'
        <3>1. n \in 1 .. Len(log') /\ \A j \in n + 1 .. Len(log') : FALSE
            BY <1>2, <2>4, <2>b
        <3>2. log'[n].guid = h /\ blobs'[h] = b
            BY <2>1, <2>3, <2>4, <2>5
        <3>3. blobs'[h] # Nil /\ blobs'[h].to0d = log'[n].to0d /\ blobs'[h].exp = log'[n].until \div Ticks
            BY <2>1, <2>3, <2>4, <3>2
        <3> QED
            BY <3>1, <3>2, <3>3 DEF RowIs
    <2>9. RowsOK' /\ NoRow'
        <3>1. ASSUME NEW g \in Guids
              PROVE  \/ (\A i \in 1 .. Len(log') : log'[i].guid # g) /\ blobs'[g] = Nil
                     \/ \E i \in 1 .. Len(log') : RowIs(g, i)'
            BY <2>6, <2>7
        <3>2. \A g \in Guids, i \in 1 .. Len(log') : RowIs(g, i)' => log'[i].guid = g
            BY DEF RowIs
        <3> QED
            BY <3>1, <3>2 DEF RowsOK, NoRow
    <2>10. SinceOK'
        BY <1>0, <1>2, <1>4, <2>4, <2>b DEF SinceOK, TypeOK, LookState
    <2> QED
        BY <1>1, <2>9, <2>10 DEF RowsInv
<1> QED
    BY <1>3, <1>4, BlobEffects

\* The initial states.
LEMMA InitRows == Init => RowsInv
<1> SUFFICES ASSUME Init PROVE RowsInv
    OBVIOUS
<1>1. Len(log) = 0 /\ \A g \in Guids : blobs[g] = Nil
    BY DEF Init
<1>2. \A l \in Lookups : look[l].since = 0
    BY DEF Init, IdleLook
<1> QED
    BY <1>1, <1>2, InitTypes DEF RowsInv, RowsOK, NoRow, SinceOK

\* The invariant of rows holds.
LEMMA RowsInvariant == Spec => []RowsInv
BY InitRows, NextRows, PTL DEF Spec

\* A registration is found for the time that was granted, less a second, unless
\* another one is accepted for the GUID.
THEOREM RegistrationsStay == Spec => []AcceptedStays
<1>1. RowsInv => AcceptedStays
    <2> SUFFICES ASSUME RowsInv, NEW g \in Guids, NEW i \in Last(g)
                 PROVE  /\ blobs[g].to0d = log[i].to0d
                        /\ now + Ticks <= log[i].until => Found(g)
        BY DEF AcceptedStays
    <2>0. TypeOK /\ Len(log) \in Nat
        BY DEF RowsInv, IndInv, TypeOK
    <2>1. i \in 1 .. Len(log) /\ log[i].guid = g /\ \A j \in i + 1 .. Len(log) : log[j].guid # g
        BY DEF Last
    <2>2. PICK k \in 1 .. Len(log) : RowIs(g, k)
        BY <2>1 DEF RowsInv, RowsOK
    <2>3. k = i
        <3>1. ~(k \in i + 1 .. Len(log)) /\ ~(i \in k + 1 .. Len(log))
            BY <2>1, <2>2 DEF RowIs
        <3> QED
            BY <2>0, <2>1, <3>1
    <2>4. log[i].until \in Nat /\ now \in Nat /\ Ticks \in Nat
        <3>1. log[i] \in [to0d : Regs, guid : Guids, until : Nat]
            BY <2>0, <2>1, LogType
        <3> QED
            BY <2>0, <3>1, RendezvousAssumption DEF TypeOK
    <2>5. blobs[g].exp = log[i].until \div Ticks /\ blobs[g].to0d = log[i].to0d /\ blobs[g] # Nil
        BY <2>2, <2>3 DEF RowIs
    <2>6. log[i].until < (log[i].until \div Ticks) * Ticks + Ticks /\ log[i].until \div Ticks \in Nat
        BY <2>4, WholeSeconds
    <2> DEFINE x == (log[i].until \div Ticks) * Ticks
    <2>7. x \in Nat
        BY <2>4, <2>6
    <2>8. blobs[g].exp * Ticks = x /\ log[i].until < x + Ticks
        BY <2>5, <2>6
    <2> HIDE DEF x
    <2> QED
        BY <2>4, <2>5, <2>7, <2>8 DEF Found, Expired
<1> QED
    BY <1>1, RowsInvariant, PTL

\* A device is redirected to a registration that was accepted for its GUID, has not
\* expired, and was not replaced before the device called TO1.
THEOREM RedirectsCurrent == Spec => RedirectsAreCurrent
<1>1. RowsInv /\ [Next]_vars =>
          [\A l \in Lookups :
              net'[l].t = "RVRedirect" /\ net[l].t # "RVRedirect" =>
                  \E i \in 1 .. Len(log) :
                      /\ log[i].to0d = net'[l].blob.to0d
                      /\ log[i].guid = look[l].guid
                      /\ now <= log[i].until
                      /\ \A j \in i + 1 .. look[l].since : log[j].guid # log[i].guid]_vars
    <2> SUFFICES ASSUME RowsInv, [Next]_vars, NEW l \in Lookups,
                        net'[l].t = "RVRedirect", net[l].t # "RVRedirect"
                 PROVE  \E i \in 1 .. Len(log) :
                            /\ log[i].to0d = net'[l].blob.to0d
                            /\ log[i].guid = look[l].guid
                            /\ now <= log[i].until
                            /\ \A j \in i + 1 .. look[l].since : log[j].guid # log[i].guid
        OBVIOUS
    <2>0. IndInv /\ TypeOK /\ RowsOK /\ NoRow /\ l \in Calls /\ Len(log) \in Nat
        BY DEF RowsInv, IndInv, TypeOK, Calls
    <2>1. look[l].guid \in Guids /\ Found(look[l].guid) /\ net'[l].blob = blobs[look[l].guid]
        BY <2>0, MessageEffects
    <2> DEFINE g == look[l].guid
    <2>2. blobs[g] # Nil /\ ~Expired(blobs[g])
        BY <2>1 DEF Found
    <2>3. PICK i \in 1 .. Len(log) : RowIs(g, i)
        BY <2>0, <2>1, <2>2 DEF RowsOK, NoRow
    <2>4. log[i].until \in Nat /\ now \in Nat /\ Ticks \in Nat /\ look[l].since \in Nat /\ look[l].since <= Len(log)
        <3>1. log[i] \in [to0d : Regs, guid : Guids, until : Nat]
            BY <2>0, <2>3, LogType
        <3>2. look[l] \in LookState
            BY <2>0 DEF TypeOK
        <3> QED
            BY <2>0, <3>1, <3>2, RendezvousAssumption DEF TypeOK, LookState, RowsInv, SinceOK
    <2>5. blobs[g].exp = log[i].until \div Ticks
        BY <2>3 DEF RowIs
    <2>6. now <= log[i].until
        <3>1. (log[i].until \div Ticks) * Ticks <= log[i].until /\ log[i].until \div Ticks \in Nat
            BY <2>4, WholeSeconds
        <3> DEFINE x == (log[i].until \div Ticks) * Ticks
        <3>2. x \in Nat
            BY <2>4, <3>1
        <3>3. ~(now > x)
            BY <2>2, <2>5 DEF Expired
        <3>4. x <= log[i].until
            BY <3>1
        <3> HIDE DEF x
        <3> QED
            BY <2>4, <3>2, <3>3, <3>4
    <2>7. \A j \in i + 1 .. look[l].since : log[j].guid # log[i].guid
        BY <2>0, <2>3, <2>4 DEF RowIs
    <2> QED
        BY <2>1, <2>3, <2>6, <2>7 DEF RowIs
<1> QED
    BY <1>1, RowsInvariant, PTL DEF RedirectsAreCurrent, Spec

=============================================================================
