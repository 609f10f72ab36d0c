------------------------------ MODULE DIProof ------------------------------
(***************************************************************************)
(* Proofs about DI, for every number of calls, devices and GUIDs.          *)
(***************************************************************************)
EXTENDS DI, TLAPS

\* A response to a call in progress changes its message only.
LEMMA RespondType ==
    ASSUME TypeOK, NEW a \in Calls, NEW m \in Message, Respond(a, m)
    PROVE  net' \in [Calls -> Message] /\ net' = [net EXCEPT ![a] = IF Over(a) THEN Quiet ELSE m]
BY DEF TypeOK, Respond, Put, Message, Quiet

\* An error response ends the session or leaves it as it is.
LEMMA RespondErrorType ==
    ASSUME TypeOK, NEW a \in Calls, RespondError(a)
    PROVE  /\ net' = [net EXCEPT ![a] = IF Over(a) THEN Quiet ELSE ErrorMessage]
           /\ net' \in [Calls -> Message]
           /\ sess' \in [Calls -> {"none", "live", "dead"}]
           /\ \/ chain' = [chain EXCEPT ![a] = Nil] /\ header' = [header EXCEPT ![a] = Nil]
              \/ UNCHANGED <<chain, header>>
BY DEF TypeOK, RespondError, InvalidateToken, Respond, Put, Message, Quiet, ErrorMessage

\* A voucher diDone makes out of a session is a voucher.
LEMMA NewVoucherType ==
    ASSUME TypeOK, NEW a \in Calls, net[a].t = "SetHMAC", header[a] # Nil, chain[a] # Nil
    PROVE  /\ NewVoucher(a) \in Voucher
           /\ NewVoucher(a) # Nil
           /\ NewVoucher(a).hdr = header[a]
           /\ NewVoucher(a).hmac = net[a].hmac
           /\ NewVoucher(a).certs = chain[a]
           /\ header[a] \in VoucherHeader
<1>1. net[a] \in Message /\ header[a] \in VoucherHeader /\ chain[a] \in Devices
    BY DEF TypeOK
<1>2. net[a].hmac \in Hmac
    BY <1>1 DEF Message
<1>3. QED
    BY <1>1, <1>2, NilAssumption DEF NewVoucher, Voucher

\* Every step keeps the types.
LEMMA NextType ==
    ASSUME TypeOK, CallsOK, [Next]_vars
    PROVE  TypeOK'
<1>1. CASE UNCHANGED vars
    BY <1>1 DEF TypeOK, vars, deviceVars, tables
<1>2. ASSUME NEW a \in Calls, NEW d \in Devices, appStart(a, d) PROVE TypeOK'
    <2>1. [t |-> "AppStart", csr |-> d] \in Message
        BY DEF Message
    <2>2. QED
        BY <1>2, <2>1 DEF appStart, Put, TypeOK, tables, Waiting
<1>3. ASSUME NEW a \in Calls, setHmac(a) PROVE TypeOK'
    <2>1. net[a] \in Message /\ dev[a] \in Devices
        BY <1>3 DEF TypeOK, CallsOK, CallOK, setHmac
    <2>2. net[a].hdr \in VoucherHeader
        BY <1>3, <2>1 DEF setHmac, Message
    <2>3. [t |-> "SetHMAC", hmac |-> HmacOf(dev[a], net[a].hdr)] \in Message
        BY <2>1, <2>2 DEF Message, Hmac, HmacOf
    <2>4. QED
        BY <1>3, <2>2, <2>3 DEF setHmac, TypeOK, Put, tables, Waiting
<1>4. ASSUME NEW a \in Calls, recvDone(a) PROVE TypeOK'
    <2>1. ovh[a] \in VoucherHeader /\ dev[a] \in Devices
        BY <1>4 DEF TypeOK, CallsOK, CallOK, recvDone
    <2>2. [guid |-> ovh[a].guid, rv |-> ovh[a].rv, mfg |-> ovh[a].mfg] \in DeviceCredential
        BY <2>1 DEF VoucherHeader, DeviceCredential
    <2>3. QED
        BY <1>4, <2>1, <2>2 DEF recvDone, Put, Quiet, Message, TypeOK, tables
<1>5. ASSUME NEW a \in Calls, Fail(a) PROVE TypeOK'
    BY <1>5 DEF Fail, Put, Quiet, Message, TypeOK, tables, Waiting
<1>6. ASSUME NEW a \in Calls, setCredentials(a) PROVE TypeOK'
    <2>1. net[a] \in Message /\ net[a].csr \in Devices
        BY <1>6 DEF TypeOK, setCredentials, Message
    <2>2. CASE RespondError(a) /\ UNCHANGED used
        BY <1>6, <2>2, RespondErrorType DEF setCredentials, TypeOK, deviceVars
    <2>3. ASSUME NEW g \in Guids \ used, NEW rv \in Rvs,
                 LET hdr == [guid |-> g, rv |-> rv, mfg |-> MfgKey, dev |-> net[a].csr]
                 IN  /\ used' = used \cup {g}
                     /\ sess' = [sess EXCEPT ![a] = "live"]
                     /\ chain' = [chain EXCEPT ![a] = net[a].csr]
                     /\ header' = [header EXCEPT ![a] = hdr]
                     /\ Respond(a, [t |-> "SetCredentials", hdr |-> hdr])
          PROVE  TypeOK'
        <3> DEFINE hdr == [guid |-> g, rv |-> rv, mfg |-> MfgKey, dev |-> net[a].csr]
        <3>1. hdr \in VoucherHeader
            BY <2>1 DEF VoucherHeader
        <3>2. [t |-> "SetCredentials", hdr |-> hdr] \in Message
            BY <3>1 DEF Message
        <3>3. net' \in [Calls -> Message]
            BY <2>3, <3>2, RespondType
        <3>4. QED
            BY <1>6, <2>1, <2>3, <3>1, <3>3 DEF setCredentials, TypeOK, deviceVars
    <2>4. QED
        BY <1>6, <2>2, <2>3 DEF setCredentials
<1>7. ASSUME NEW a \in Calls, diDone(a) PROVE TypeOK'
    <2>1. CASE RespondError(a) /\ UNCHANGED <<vouchers, job>>
        BY <1>7, <2>1, RespondErrorType DEF diDone, TypeOK, deviceVars
    <2>2. CASE ~(RespondError(a) /\ UNCHANGED <<vouchers, job>>)
        <3>1. NewVoucher(a) \in Voucher /\ header[a] \in VoucherHeader
            BY <1>7, <2>2, NewVoucherType DEF diDone
        <3>2. header[a].guid \in Guids
            BY <3>1 DEF VoucherHeader
        <3>3. QED
            BY <1>7, <2>2, <3>1, <3>2 DEF diDone, TypeOK, deviceVars
    <2>3. QED
        BY <2>1, <2>2
<1>8. ASSUME NEW a \in Calls, AfterVoucherPersist(a) PROVE TypeOK'
    <2>1. job[a] \in Voucher
        BY <1>8 DEF TypeOK, AfterVoucherPersist
    <2>2. job[a].hdr.guid \in Guids
        BY <2>1 DEF Voucher, VoucherHeader
    <2>3. CASE RespondError(a) /\ UNCHANGED blobs
        BY <1>8, <2>3, RespondErrorType DEF AfterVoucherPersist, TypeOK, deviceVars
    <2>4. CASE Respond(a, [t |-> "Done"]) /\ InvalidateToken(a)
        <3>1. net' \in [Calls -> Message]
            BY <2>4, RespondType DEF Message
        <3>2. blobs' \in [Guids -> Voucher \cup {Nil}]
            BY <1>8, <2>1, <2>2 DEF AfterVoucherPersist, TypeOK
        <3>3. QED
            BY <1>8, <2>4, <3>1, <3>2 DEF AfterVoucherPersist, InvalidateToken, TypeOK, deviceVars
    <2>5. QED
        BY <1>8, <2>3, <2>4 DEF AfterVoucherPersist
<1>9. ASSUME NEW a \in Calls, Lose(a) PROVE TypeOK'
    BY <1>9 DEF Lose, Put, Quiet, Message, TypeOK, tables, deviceVars
<1>10. ASSUME NEW a \in Calls, Crash(a) PROVE TypeOK'
    BY <1>10 DEF Crash, Put, Quiet, Message, TypeOK, tables, deviceVars
<1>11. QED
    BY <1>1, <1>2, <1>3, <1>4, <1>5, <1>6, <1>7, <1>8, <1>9, <1>10 DEF Next, DeviceStep, ServerStep

\* A step of call a.
Step(a) ==
    \/ \E d \in Devices : appStart(a, d)
    \/ DeviceStep(a) \/ ServerStep(a) \/ Lose(a) \/ Crash(a)

\* A persisted voucher is never overwritten.
LEMMA VouchersKept ==
    ASSUME TypeOK, NEW a \in Calls, Step(a)
    PROVE  \A g \in Guids : vouchers[g] # Nil => vouchers'[g] = vouchers[g]
<1>1. CASE diDone(a)
    BY <1>1 DEF diDone, TypeOK
<1>2. CASE ~diDone(a)
    BY <1>2 DEF Step, DeviceStep, ServerStep, appStart, setHmac, recvDone, Fail, setCredentials,
        AfterVoucherPersist, Lose, Crash, tables
<1>3. QED
    BY <1>1, <1>2

\* A step of one call leaves the others alone.
LEMMA OtherCalls ==
    ASSUME TypeOK, NEW a \in Calls, Step(a), NEW b \in Calls \ {a}
    PROVE  /\ pc'[b] = pc[b] /\ dev'[b] = dev[b] /\ ovh'[b] = ovh[b] /\ net'[b] = net[b]
           /\ chain'[b] = chain[b] /\ header'[b] = header[b] /\ job'[b] = job[b]
<1>1. CASE \E d \in Devices : appStart(a, d)
    BY <1>1 DEF appStart, Put, TypeOK
<1>2. CASE setHmac(a) \/ recvDone(a) \/ Fail(a) \/ Lose(a) \/ Crash(a)
    BY <1>2 DEF setHmac, recvDone, Fail, Lose, Crash, Put, TypeOK, deviceVars
<1>3. CASE setCredentials(a)
    BY <1>3 DEF setCredentials, RespondError, InvalidateToken, Respond, Put, TypeOK, deviceVars
<1>4. CASE diDone(a)
    BY <1>4 DEF diDone, RespondError, InvalidateToken, Respond, Put, TypeOK, deviceVars
<1>5. CASE AfterVoucherPersist(a)
    BY <1>5 DEF AfterVoucherPersist, RespondError, InvalidateToken, Respond, Put, TypeOK, deviceVars
<1>6. QED
    BY <1>1, <1>2, <1>3, <1>4, <1>5 DEF Step, DeviceStep, ServerStep

\* So they stay in order.
LEMMA OthersOK ==
    ASSUME TypeOK, CallsOK, NEW a \in Calls, Step(a), NEW b \in Calls \ {a}
    PROVE  CallOK(b)'
<1>1. CallOK(b)
    BY DEF CallsOK
<1>2. Persisted(b) /\ ovh[b] # Nil => Persisted(b)'
    <2>1. ovh[b] # Nil => ovh[b].guid \in Guids
        BY DEF TypeOK, VoucherHeader
    <2>2. QED
        BY <2>1, VouchersKept, OtherCalls DEF Persisted
<1>3. job[b] # Nil \/ net[b].t = "Done" => ovh[b] # Nil
    BY <1>1 DEF CallOK
<1>4. QED
    BY <1>1, <1>2, <1>3, OtherCalls DEF CallOK

\* An error response keeps its call in order.
LEMMA ErrorOK ==
    ASSUME TypeOK, NEW a \in Calls, CallOK(a), RespondError(a), pc[a] # "idle",
           UNCHANGED <<pc, dev, ovh>>, job'[a] = Nil
    PROVE  CallOK(a)'
<1>1. net'[a] = Quiet \/ net'[a] = ErrorMessage
    BY RespondErrorType DEF TypeOK
<1>2. header'[a] = Nil \/ (header'[a] = header[a] /\ chain'[a] = chain[a])
    BY RespondErrorType DEF TypeOK
<1>3. QED
    BY <1>1, <1>2 DEF CallOK, Quiet, ErrorMessage

\* A step keeps its own call in order.
LEMMA OwnOK ==
    ASSUME TypeOK, CallsOK, NEW a \in Calls, Step(a)
    PROVE  CallOK(a)'
<1> USE DEF CallOK
<1>1. CallOK(a)
    BY DEF CallsOK
<1>2. ASSUME NEW d \in Devices, appStart(a, d) PROVE CallOK(a)'
    BY <1>1, <1>2 DEF appStart, Put, TypeOK, Quiet
<1>3. CASE setHmac(a)
    <2>1. net[a].hdr \in VoucherHeader
        BY <1>3 DEF setHmac, TypeOK, Message
    <2>2. QED
        BY <1>1, <1>3, <2>1, NilAssumption DEF setHmac, Put, TypeOK
<1>4. CASE recvDone(a)
    BY <1>1, <1>4 DEF recvDone, Put, TypeOK, Quiet
<1>5. CASE Fail(a)
    <2>1. vouchers' = vouchers /\ dev' = dev /\ ovh' = ovh /\ header' = header /\ chain' = chain /\ job' = job
        BY <1>5 DEF Fail, tables
    <2>2. net'[a] \in {net[a], Quiet} /\ pc'[a] = "failed" /\ pc[a] # "idle"
        BY <1>5 DEF Fail, Put, TypeOK, Waiting
    <2>3. job[a] # Nil => net'[a] = net[a]
        BY <1>1, <1>5 DEF Fail, Requests
    <2>4. QED
        BY <1>1, <2>1, <2>2, <2>3 DEF Persisted, Quiet
<1>6. CASE Lose(a) \/ Crash(a)
    BY <1>1, <1>6 DEF Lose, Crash, Put, TypeOK, deviceVars, Quiet
<1>7. CASE setCredentials(a)
    <2>1. /\ net[a].t = "AppStart" /\ net[a].csr = dev[a] /\ pc[a] # "idle" /\ job[a] = Nil
          /\ pc' = pc /\ dev' = dev /\ ovh' = ovh /\ job' = job
        BY <1>1, <1>7 DEF setCredentials, deviceVars, Quiet
    <2>2. CASE RespondError(a)
        BY <1>1, <2>1, <2>2, ErrorOK
    <2>3. ASSUME NEW g \in Guids \ used, NEW rv \in Rvs,
                 LET hdr == [guid |-> g, rv |-> rv, mfg |-> MfgKey, dev |-> net[a].csr]
                 IN  /\ chain' = [chain EXCEPT ![a] = net[a].csr]
                     /\ header' = [header EXCEPT ![a] = hdr]
                     /\ Respond(a, [t |-> "SetCredentials", hdr |-> hdr])
          PROVE  CallOK(a)'
        <3> DEFINE hdr == [guid |-> g, rv |-> rv, mfg |-> MfgKey, dev |-> net[a].csr]
        <3>1. chain'[a] = dev[a] /\ header'[a] = hdr /\ hdr.dev = dev[a]
            BY <2>1, <2>3 DEF TypeOK
        <3>2. net'[a] = Quiet \/ net'[a] = [t |-> "SetCredentials", hdr |-> hdr]
            BY <2>3 DEF Respond, Put, TypeOK
        <3> HIDE DEF hdr
        <3>3. QED
            BY <1>1, <2>1, <3>1, <3>2 DEF Quiet
    <2>4. QED
        BY <1>7, <2>2, <2>3 DEF setCredentials
<1>8. CASE diDone(a)
    <2>1. /\ net[a].t = "SetHMAC" /\ pc[a] # "idle" /\ job[a] = Nil
          /\ pc' = pc /\ dev' = dev /\ ovh' = ovh
        BY <1>1, <1>8 DEF diDone, deviceVars, Quiet
    <2>2. CASE RespondError(a) /\ UNCHANGED <<vouchers, job>>
        BY <1>1, <2>1, <2>2, ErrorOK
    <2>3. CASE ~(RespondError(a) /\ UNCHANGED <<vouchers, job>>)
        <3>1. /\ header[a] # Nil /\ chain[a] # Nil
              /\ vouchers' = [vouchers EXCEPT ![header[a].guid] = NewVoucher(a)]
              /\ job' = [job EXCEPT ![a] = NewVoucher(a)]
              /\ net' = net /\ chain' = chain /\ header' = header
            BY <1>8, <2>3 DEF diDone
        <3>2. /\ NewVoucher(a) # Nil /\ NewVoucher(a).hdr = header[a]
              /\ NewVoucher(a).hmac = net[a].hmac /\ NewVoucher(a).certs = chain[a]
              /\ header[a] \in VoucherHeader
            BY <2>1, <3>1, NewVoucherType
        <3>3. header[a] = ovh[a] /\ ovh[a].dev = dev[a] /\ chain[a] = dev[a] /\ net[a].hmac = HmacOf(dev[a], ovh[a])
            BY <1>1, <2>1, <3>1
        <3>4. vouchers'[ovh[a].guid] = NewVoucher(a) /\ job'[a] = NewVoucher(a)
            BY <3>1, <3>2, <3>3 DEF TypeOK, VoucherHeader
        <3> HIDE DEF CallOK
        <3>5. Persisted(a)'
            BY <2>1, <3>2, <3>3, <3>4 DEF Persisted, Matches
        <3> USE DEF CallOK
        <3>6. QED
            BY <1>1, <2>1, <3>1, <3>2, <3>3, <3>4, <3>5
    <2>4. QED
        BY <2>2, <2>3
<1>9. CASE AfterVoucherPersist(a)
    <2>1. /\ net[a].t = "SetHMAC" /\ pc[a] # "idle" /\ Persisted(a) /\ ovh[a] # Nil
          /\ pc' = pc /\ dev' = dev /\ ovh' = ovh /\ vouchers' = vouchers
        BY <1>1, <1>9 DEF AfterVoucherPersist, deviceVars, Quiet
    <2>2. job'[a] = Nil
        BY <1>9 DEF AfterVoucherPersist, TypeOK
    <2>3. CASE RespondError(a)
        BY <1>1, <2>1, <2>2, <2>3, ErrorOK
    <2>4. CASE Respond(a, [t |-> "Done"]) /\ InvalidateToken(a)
        <3>1. net'[a] = Quiet \/ net'[a] = [t |-> "Done"]
            BY <2>4 DEF Respond, Put, TypeOK
        <3>2. header'[a] = Nil
            BY <2>4 DEF InvalidateToken, TypeOK
        <3>3. Persisted(a)'
            BY <2>1 DEF Persisted
        <3>4. QED
            BY <1>1, <2>1, <2>2, <3>1, <3>2, <3>3 DEF Quiet
    <2>5. QED
        BY <1>9, <2>3, <2>4 DEF AfterVoucherPersist
<1>10. QED
    BY <1>2, <1>3, <1>4, <1>5, <1>6, <1>7, <1>8, <1>9 DEF Step, DeviceStep, ServerStep

\* A device that has a credential keeps its voucher, and one that stores a new
\* credential does so on an answer that came after the voucher was persisted.
LEMMA BackedKept ==
    ASSUME TypeOK, CallsOK, CredentialBacked, NEW a \in Calls, Step(a)
    PROVE  CredentialBacked'
<1>1. SUFFICES ASSUME NEW d \in Devices, cred'[d] # Nil
               PROVE  /\ vouchers'[cred'[d].guid] # Nil
                      /\ Matches(vouchers'[cred'[d].guid], d, cred'[d])
    BY DEF CredentialBacked, Matches
<1>2. CASE cred'[d] = cred[d]
    <2>1. cred[d] \in DeviceCredential
        BY <1>1, <1>2 DEF TypeOK
    <2>2. vouchers'[cred[d].guid] = vouchers[cred[d].guid] /\ vouchers[cred[d].guid] # Nil
        BY <1>1, <1>2, <2>1, VouchersKept DEF CredentialBacked, DeviceCredential
    <2>3. QED
        BY <1>1, <1>2, <2>2 DEF CredentialBacked
<1>3. CASE cred'[d] # cred[d]
    <2>1. recvDone(a)
        BY <1>3 DEF Step, DeviceStep, ServerStep, appStart, setHmac, Fail, setCredentials, diDone,
            AfterVoucherPersist, Lose, Crash, deviceVars
    <2>2. d = dev[a] /\ cred'[d] = [guid |-> ovh[a].guid, rv |-> ovh[a].rv, mfg |-> ovh[a].mfg] /\ vouchers' = vouchers
        BY <1>3, <2>1 DEF recvDone, TypeOK, tables
    <2>3. Persisted(a) /\ net[a].t = "Done"
        BY <2>1 DEF recvDone, CallsOK, CallOK
    <2>4. QED
        BY <2>2, <2>3 DEF Persisted, Matches
<1>4. QED
    BY <1>2, <1>3

\* The inductive invariant holds at first.
LEMMA InitIndInv == Init => IndInv
BY DEF Init, IndInv, TypeOK, CallsOK, CallOK, CredentialBacked, Waiting, Message, Quiet

\* Every step keeps it.
LEMMA NextIndInv == IndInv /\ [Next]_vars => IndInv'
<1>1. SUFFICES ASSUME IndInv, [Next]_vars PROVE IndInv'
    OBVIOUS
<1>2. TypeOK /\ CallsOK /\ CredentialBacked
    BY <1>1 DEF IndInv
<1>3. TypeOK'
    BY <1>1, <1>2, NextType
<1>4. CASE UNCHANGED vars
    BY <1>2, <1>3, <1>4 DEF IndInv, CallsOK, CallOK, Persisted, CredentialBacked, vars, deviceVars, tables
<1>5. ASSUME NEW a \in Calls, Step(a) PROVE CallsOK' /\ CredentialBacked'
    BY <1>2, <1>5, OwnOK, OthersOK, BackedKept DEF CallsOK
<1>6. Next => \E a \in Calls : Step(a)
    BY DEF Next, Step
<1>7. QED
    BY <1>1, <1>3, <1>4, <1>5, <1>6 DEF IndInv

\* Every variable of DI has its type in every reachable state.
THEOREM TypeCorrect == Spec => []TypeOK
<1>1. IndInv => TypeOK
    BY DEF IndInv
<1>2. QED
    BY InitIndInv, NextIndInv, <1>1, PTL DEF Spec

\* A device that stored a credential has its voucher with the manufacturer,
\* whatever calls interleave, messages are lost, callbacks fail or handlers stop.
THEOREM CredentialsBacked == Spec => []CredentialBacked
<1>1. IndInv => CredentialBacked
    BY DEF IndInv
<1>2. QED
    BY InitIndInv, NextIndInv, <1>1, PTL DEF Spec

------------------------------------------------------------------------------
(* Registration for rendezvous.                                              *)

\* The voucher a handler is at work on after AddVoucher is the persisted one.
JobsPersisted == \A a \in Calls : job[a] # Nil => vouchers[job[a].hdr.guid] = job[a]

\* The blob registered for a GUID is the persisted voucher.
Registered(g) == vouchers[g] # Nil /\ blobs[g] = vouchers[g]
RegisteredNext(g) == vouchers'[g] # Nil /\ blobs'[g] = vouchers'[g]

\* A device is told it is done only after its voucher is registered.
DoneRegistered == AutoTO0 => \A a \in Calls : net[a].t = "Done" => Registered(ovh[a].guid)

RegisteredInv == IndInv /\ JobsPersisted /\ DoneRegistered /\ InitializedIsRegistered

\* Only AfterVoucherPersist registers, and what it registers is persisted.
LEMMA RegisteredKept ==
    ASSUME TypeOK, JobsPersisted, NEW a \in Calls, Step(a), NEW g \in Guids, Registered(g)
    PROVE  RegisteredNext(g)
<1>1. vouchers'[g] = vouchers[g]
    BY VouchersKept DEF Registered, RegisteredNext
<1>2. CASE blobs'[g] = blobs[g]
    BY <1>1, <1>2 DEF Registered, RegisteredNext
<1>3. CASE blobs'[g] # blobs[g]
    <2>1. AfterVoucherPersist(a)
        BY <1>3 DEF Step, DeviceStep, ServerStep, appStart, setHmac, recvDone, Fail, setCredentials,
            diDone, Lose, Crash, tables
    <2>2. job[a] # Nil /\ blobs' = [blobs EXCEPT ![job[a].hdr.guid] = job[a]]
        BY <1>3, <2>1 DEF AfterVoucherPersist
    <2>3. g = job[a].hdr.guid /\ blobs'[g] = job[a]
        BY <1>3, <2>2 DEF TypeOK
    <2>4. vouchers[g] = job[a]
        BY <2>2, <2>3 DEF JobsPersisted
    <2> QED
        BY <1>1, <2>3, <2>4 DEF Registered, RegisteredNext
<1> QED
    BY <1>2, <1>3

\* The handler stays at work on the persisted voucher.
LEMMA JobsKept ==
    ASSUME TypeOK, CallsOK, JobsPersisted, NEW a \in Calls, Step(a)
    PROVE  JobsPersisted'
<1> SUFFICES ASSUME NEW b \in Calls, job'[b] # Nil PROVE vouchers'[job'[b].hdr.guid] = job'[b]
    BY DEF JobsPersisted
<1>1. CASE job'[b] = job[b]
    <2>1. job[b] \in Voucher /\ job[b].hdr.guid \in Guids
        BY <1>1 DEF TypeOK, Voucher, VoucherHeader
    <2>2. vouchers[job[b].hdr.guid] = job[b]
        BY <1>1 DEF JobsPersisted
    <2> QED
        BY <1>1, <2>1, <2>2, VouchersKept
<1>2. CASE job'[b] # job[b]
    <2>1. b = a
        BY <1>2, OtherCalls
    <2>2. diDone(a)
        BY <1>2, <2>1 DEF Step, DeviceStep, ServerStep, appStart, setHmac, recvDone, Fail, setCredentials,
            AfterVoucherPersist, Lose, Crash, tables, TypeOK
    <2>3. /\ net[a].t = "SetHMAC" /\ header[a] # Nil /\ chain[a] # Nil
          /\ vouchers' = [vouchers EXCEPT ![header[a].guid] = NewVoucher(a)]
          /\ job' = [job EXCEPT ![a] = NewVoucher(a)]
        BY <1>2, <2>1, <2>2 DEF diDone
    <2>4. NewVoucher(a).hdr = header[a] /\ header[a].guid \in Guids
        BY <2>3, NewVoucherType DEF VoucherHeader
    <2> QED
        BY <2>1, <2>3, <2>4 DEF TypeOK
<1> QED
    BY <1>1, <1>2

\* A device is told so only after AfterVoucherPersist has registered its voucher.
LEMMA DoneKept ==
    ASSUME TypeOK, CallsOK, JobsPersisted, DoneRegistered, AutoTO0, NEW a \in Calls, Step(a),
           NEW b \in Calls, net'[b].t = "Done"
    PROVE  RegisteredNext(ovh'[b].guid)
<1>1. CASE b # a
    <2>1. net[b].t = "Done" /\ ovh'[b] = ovh[b]
        BY <1>1, OtherCalls
    <2>2. Registered(ovh[b].guid) /\ ovh[b].guid \in Guids
        BY <2>1 DEF DoneRegistered, CallsOK, CallOK, TypeOK, VoucherHeader
    <2> QED
        BY <2>1, <2>2, RegisteredKept DEF RegisteredNext
<1>2. CASE b = a /\ net'[a] = net[a]
    <2>1. net[a].t = "Done"
        BY <1>2
    <2>2. ovh'[a] = ovh[a]
        BY <2>1 DEF Step, DeviceStep, ServerStep, appStart, setHmac, recvDone, Fail, setCredentials,
            diDone, AfterVoucherPersist, Lose, Crash, deviceVars, CallsOK, CallOK, Quiet
    <2>3. Registered(ovh[a].guid) /\ ovh[a].guid \in Guids
        BY <2>1 DEF DoneRegistered, CallsOK, CallOK, TypeOK, VoucherHeader
    <2> QED
        BY <1>2, <2>2, <2>3, RegisteredKept DEF RegisteredNext
<1>3. CASE b = a /\ net'[a] # net[a]
    <2>1. AfterVoucherPersist(a)
        <3>1. ~(\E d \in Devices : appStart(a, d)) /\ ~setHmac(a) /\ ~recvDone(a) /\ ~Fail(a) /\ ~Lose(a) /\ ~Crash(a)
            BY <1>3 DEF appStart, setHmac, recvDone, Fail, Lose, Crash, Put, TypeOK, Quiet
        <3>2. ~RespondError(a) \/ AfterVoucherPersist(a)
            BY <1>3, RespondErrorType DEF TypeOK, Quiet, ErrorMessage
        <3>3. ~setCredentials(a)
            BY <1>3, <3>2 DEF setCredentials, Respond, Put, TypeOK, Quiet, AfterVoucherPersist, CallsOK, CallOK
        <3>4. ~diDone(a)
            BY <1>3, <3>2 DEF diDone, AfterVoucherPersist
        <3> QED
            BY <3>1, <3>3, <3>4 DEF Step, DeviceStep, ServerStep
    <2>2. /\ job[a] # Nil /\ blobs' = [blobs EXCEPT ![job[a].hdr.guid] = job[a]]
          /\ vouchers' = vouchers /\ ovh' = ovh
        BY <1>3, <2>1, RespondErrorType DEF AfterVoucherPersist, deviceVars, TypeOK, Quiet, ErrorMessage
    <2>3. vouchers[job[a].hdr.guid] = job[a] /\ job[a].hdr = ovh[a] /\ job[a].hdr.guid \in Guids
        BY <2>2 DEF JobsPersisted, CallsOK, CallOK, TypeOK, Voucher, VoucherHeader
    <2> QED
        BY <1>3, <2>2, <2>3 DEF RegisteredNext, TypeOK
<1> QED
    BY <1>1, <1>2, <1>3

\* The credential a step stores is the one of an answer.
LEMMA CredChange ==
    ASSUME TypeOK, NEW a \in Calls, Step(a), NEW d \in Devices, cred'[d] # cred[d]
    PROVE  /\ recvDone(a) /\ d = dev[a] /\ net[a].t = "Done"
           /\ cred'[d] = [guid |-> ovh[a].guid, rv |-> ovh[a].rv, mfg |-> ovh[a].mfg]
<1>1. recvDone(a)
    BY DEF Step, DeviceStep, ServerStep, appStart, setHmac, Fail, setCredentials, diDone,
        AfterVoucherPersist, Lose, Crash, deviceVars
<1> QED
    BY <1>1 DEF recvDone, TypeOK

\* The invariant is inductive.
LEMMA NextRegistered == RegisteredInv /\ [Next]_vars => RegisteredInv'
<1> SUFFICES ASSUME RegisteredInv, [Next]_vars PROVE RegisteredInv'
    OBVIOUS
<1>1. IndInv'
    BY NextIndInv DEF RegisteredInv
<1>2. CASE UNCHANGED vars
    BY <1>1, <1>2 DEF RegisteredInv, JobsPersisted, DoneRegistered, Registered, InitializedIsRegistered,
        vars, deviceVars, tables
<1>3. ASSUME NEW a \in Calls, Step(a) PROVE RegisteredInv'
    <2>0. TypeOK /\ CallsOK /\ CredentialBacked /\ JobsPersisted /\ DoneRegistered /\ InitializedIsRegistered
        BY DEF RegisteredInv, IndInv
    <2>1. JobsPersisted'
        BY <1>3, <2>0, JobsKept
    <2>2. DoneRegistered'
        BY <1>3, <2>0, DoneKept DEF DoneRegistered, Registered, RegisteredNext
    <2>3. ASSUME AutoTO0, NEW d \in Devices, cred'[d] # Nil
          PROVE  blobs'[cred'[d].guid] = vouchers'[cred'[d].guid]
        <3>1. CASE cred'[d] = cred[d]
            <4>1. Registered(cred[d].guid) /\ cred[d].guid \in Guids
                BY <2>0, <2>3, <3>1 DEF InitializedIsRegistered, CredentialBacked, Registered, TypeOK, DeviceCredential
            <4> QED
                BY <1>3, <2>0, <3>1, <4>1, RegisteredKept DEF RegisteredNext
        <3>2. CASE cred'[d] # cred[d]
            <4>1. net[a].t = "Done" /\ cred'[d].guid = ovh[a].guid
                <5>1. cred'[d] = [guid |-> ovh[a].guid, rv |-> ovh[a].rv, mfg |-> ovh[a].mfg]
                    BY <1>3, <2>0, <3>2, CredChange, Zenon
                <5>2. net[a].t = "Done"
                    BY <1>3, <2>0, <3>2, CredChange, Zenon
                <5> QED
                    BY <5>1, <5>2
            <4>2. Registered(ovh[a].guid) /\ ovh[a].guid \in Guids
                BY <2>0, <2>3, <4>1 DEF DoneRegistered, CallsOK, CallOK, TypeOK, VoucherHeader
            <4> QED
                BY <1>3, <2>0, <4>1, <4>2, RegisteredKept DEF RegisteredNext
        <3> QED
            BY <3>1, <3>2
    <2> QED
        BY <1>1, <2>1, <2>2, <2>3 DEF RegisteredInv, InitializedIsRegistered
<1> QED
    BY <1>2, <1>3 DEF Next, Step

\* With AllInOne.RegisterOwnerAddr a device that stored a credential is registered
\* for rendezvous, with the voucher that is persisted for it, however calls
\* interleave and whichever callbacks fail.
THEOREM DevicesAreRegistered == Spec => []InitializedIsRegistered
<1>1. Init => RegisteredInv
    <2>1. Init => JobsPersisted /\ DoneRegistered /\ InitializedIsRegistered
        BY DEF Init, JobsPersisted, DoneRegistered, InitializedIsRegistered, Quiet
    <2> QED
        BY <2>1, InitIndInv DEF RegisteredInv
<1>2. RegisteredInv => InitializedIsRegistered
    BY DEF RegisteredInv
<1> QED
    BY <1>1, <1>2, NextRegistered, PTL DEF Spec

------------------------------------------------------------------------------
(* Vouchers no device goes by.                                               *)

\* What a device has of a call follows the request it waits on, and a call whose
\* device has been answered has no message.
StagesOK ==
    \A a \in Calls :
        /\ ovh[a] # Nil => pc[a] \in {"setHmac", "ok", "failed"}
        /\ pc[a] = "ok" => net[a] = Quiet

\* The call whose voucher is g's, and what has become of its device.
Uses(d, g) == cred[d] # Nil /\ cred[d].guid = g
Again(a) == \E b \in Calls \ {a} : dev[b] = dev[a] /\ pc[b] = "ok"
MadeBy(g, a) ==
    /\ dev[a] = vouchers[g].hdr.dev
    /\ ovh[a] = vouchers[g].hdr
    /\ pc[a] = "ok" => Uses(dev[a], g) \/ Again(a)

\* Every persisted voucher is there under its GUID and was made by a call.
MadeOK ==
    \A g \in Guids : vouchers[g] # Nil =>
        /\ vouchers[g].hdr.guid = g
        /\ \E a \in Calls : MadeBy(g, a)

OrphansInv == IndInv /\ StagesOK /\ MadeOK

\* Every step keeps the stages.
LEMMA StagesKept ==
    ASSUME TypeOK, CallsOK, StagesOK, NEW a \in Calls, Step(a)
    PROVE  StagesOK'
<1> SUFFICES ASSUME NEW b \in Calls
             PROVE  /\ ovh'[b] # Nil => pc'[b] \in {"setHmac", "ok", "failed"}
                    /\ pc'[b] = "ok" => net'[b] = Quiet
    BY DEF StagesOK
<1>0. /\ ovh[b] # Nil => pc[b] \in {"setHmac", "ok", "failed"}
      /\ pc[b] = "ok" => net[b] = Quiet
    BY DEF StagesOK
<1>1. CASE b # a
    BY <1>0, <1>1, OtherCalls
<1>2. CASE b = a /\ (\E d \in Devices : appStart(a, d))
    BY <1>0, <1>2 DEF appStart, TypeOK
<1>3. CASE b = a /\ (setHmac(a) \/ recvDone(a) \/ Fail(a))
    BY <1>0, <1>3 DEF setHmac, recvDone, Fail, Put, TypeOK, Waiting
<1>4. CASE b = a /\ (Lose(a) \/ Crash(a))
    BY <1>0, <1>4 DEF Lose, Crash, deviceVars, Put, TypeOK
<1>5. CASE b = a /\ ServerStep(a)
    <2>1. UNCHANGED <<pc, ovh>> /\ net[a].t \in {"AppStart", "SetHMAC"}
        BY <1>5 DEF ServerStep, setCredentials, diDone, AfterVoucherPersist, deviceVars, CallsOK, CallOK
    <2> QED
        BY <1>0, <1>5, <2>1 DEF Quiet
<1> QED
    BY <1>1, <1>2, <1>3, <1>4, <1>5 DEF Step, DeviceStep

\* A voucher stays the one a call made, whatever becomes of its device.
LEMMA MadeKept ==
    ASSUME TypeOK, StagesOK, NEW a \in Calls, Step(a),
           NEW g \in Guids, vouchers[g] # Nil, vouchers[g].hdr.guid = g, NEW b \in Calls, MadeBy(g, b)
    PROVE  MadeBy(g, b)'
<1>1. vouchers'[g] = vouchers[g] /\ vouchers[g] \in Voucher
    BY VouchersKept DEF TypeOK
<1>2. ovh[b] # Nil /\ pc[b] \in {"setHmac", "ok", "failed"} /\ ovh[b].guid = g /\ dev[b] \in Devices
    BY <1>1, NilAssumption DEF MadeBy, StagesOK, Voucher, VoucherHeader
<1>3. \A c \in Calls : pc[c] \in {"setHmac", "ok", "failed"} => dev'[c] = dev[c] /\ ovh'[c] = ovh[c]
    <2> SUFFICES ASSUME NEW c \in Calls, pc[c] \in {"setHmac", "ok", "failed"}
                 PROVE  dev'[c] = dev[c] /\ ovh'[c] = ovh[c]
        OBVIOUS
    <2>1. CASE c # a
        BY <2>1, OtherCalls
    <2>2. CASE c = a /\ (\E d \in Devices : appStart(a, d))
        BY <2>2 DEF appStart
    <2>3. CASE c = a /\ (DeviceStep(a) \/ Lose(a) \/ Crash(a))
        BY <2>3 DEF DeviceStep, setHmac, recvDone, Fail, Lose, Crash, deviceVars
    <2>4. CASE c = a /\ ServerStep(a)
        BY <2>4 DEF ServerStep, setCredentials, diDone, AfterVoucherPersist, deviceVars
    <2> QED
        BY <2>1, <2>2, <2>3, <2>4 DEF Step
<1>4. \A c \in Calls : pc[c] = "ok" => pc'[c] = "ok"
    <2>1. pc[a] = "ok" => pc'[a] = "ok"
        BY DEF Step, DeviceStep, ServerStep, appStart, setHmac, recvDone, Fail, setCredentials, diDone,
            AfterVoucherPersist, Lose, Crash, deviceVars, Waiting, TypeOK
    <2> QED
        BY <2>1, OtherCalls
<1>5. Again(b) => Again(b)'
    <2>1. ASSUME NEW c \in Calls \ {b}, dev[c] = dev[b], pc[c] = "ok"
          PROVE  dev'[c] = dev'[b] /\ pc'[c] = "ok"
        BY <1>2, <1>3, <1>4, <2>1
    <2> QED
        BY <2>1 DEF Again
<1>6. CASE cred'[dev[b]] = cred[dev[b]] /\ (pc'[b] = "ok" => pc[b] = "ok")
    BY <1>1, <1>2, <1>3, <1>5, <1>6 DEF MadeBy, Uses
<1>7. CASE recvDone(a) /\ dev[a] = dev[b] /\ a = b
    <2>1. cred'[dev[b]] = [guid |-> ovh[b].guid, rv |-> ovh[b].rv, mfg |-> ovh[b].mfg]
        BY <1>2, <1>7 DEF recvDone, TypeOK
    <2>2. cred'[dev[b]] # Nil
        <3>1. ovh[b] \in VoucherHeader
            BY <1>2 DEF TypeOK
        <3>2. cred'[dev[b]] \in DeviceCredential
            BY <2>1, <3>1 DEF DeviceCredential, VoucherHeader
        <3> QED
            BY <3>2, NilAssumption
    <2>3. cred'[dev[b]].guid = g
        BY <1>2, <2>1
    <2> QED
        BY <1>1, <1>2, <1>3, <2>2, <2>3 DEF MadeBy, Uses
<1>8. CASE recvDone(a) /\ dev[a] = dev[b] /\ a # b
    <2>1. pc'[a] = "ok" /\ dev'[a] = dev'[b]
        BY <1>2, <1>3, <1>8 DEF recvDone, TypeOK
    <2>2. Again(b)'
        BY <1>8, <2>1 DEF Again
    <2> QED
        BY <1>1, <1>2, <1>3, <2>2 DEF MadeBy
<1>9. cred'[dev[b]] # cred[dev[b]] => recvDone(a) /\ dev[b] = dev[a]
    BY <1>2, CredChange, Zenon
<1>10. pc'[b] = "ok" /\ pc[b] # "ok" => recvDone(a) /\ a = b
    <2>1. pc'[b] # pc[b] => a = b
        BY OtherCalls
    <2>2. pc'[a] = "ok" /\ pc[a] # "ok" => recvDone(a)
        BY DEF Step, DeviceStep, ServerStep, appStart, setHmac, recvDone, Fail, setCredentials, diDone,
            AfterVoucherPersist, Lose, Crash, deviceVars, TypeOK
    <2> QED
        BY <2>1, <2>2
<1> QED
    BY <1>6, <1>7, <1>8, <1>9, <1>10

\* A voucher diDone persists is made by its call, which has not been answered.
LEMMA NewMade ==
    ASSUME TypeOK, CallsOK, StagesOK, NEW a \in Calls, Step(a),
           NEW g \in Guids, vouchers[g] = Nil, vouchers'[g] # Nil
    PROVE  vouchers'[g].hdr.guid = g /\ MadeBy(g, a)'
<1>1. diDone(a)
    BY DEF Step, DeviceStep, ServerStep, appStart, setHmac, recvDone, Fail, setCredentials,
        AfterVoucherPersist, Lose, Crash, tables
<1>2. /\ net[a].t = "SetHMAC" /\ header[a] # Nil /\ chain[a] # Nil
      /\ vouchers' = [vouchers EXCEPT ![header[a].guid] = NewVoucher(a)]
      /\ pc' = pc /\ dev' = dev /\ ovh' = ovh
    BY <1>1 DEF diDone, deviceVars
<1>3. NewVoucher(a).hdr = header[a] /\ header[a].guid \in Guids
    BY <1>2, NewVoucherType DEF VoucherHeader
<1>4. g = header[a].guid /\ vouchers'[g] = NewVoucher(a)
    BY <1>2, <1>3 DEF TypeOK
<1>5. ovh[a] = header[a] /\ ovh[a].dev = dev[a] /\ pc[a] # "ok"
    BY <1>2 DEF CallsOK, CallOK, StagesOK, Quiet
<1> QED
    BY <1>2, <1>3, <1>4, <1>5 DEF MadeBy

\* The invariant is inductive.
LEMMA NextOrphans == OrphansInv /\ [Next]_vars => OrphansInv'
<1> SUFFICES ASSUME OrphansInv, [Next]_vars PROVE OrphansInv'
    OBVIOUS
<1>1. IndInv'
    BY NextIndInv DEF OrphansInv
<1>2. CASE UNCHANGED vars
    BY <1>1, <1>2 DEF OrphansInv, StagesOK, MadeOK, MadeBy, Uses, Again, vars, deviceVars, tables
<1>3. ASSUME NEW a \in Calls, Step(a) PROVE OrphansInv'
    <2>0. TypeOK /\ CallsOK /\ StagesOK /\ MadeOK
        BY DEF OrphansInv, IndInv
    <2>1. StagesOK'
        BY <1>3, <2>0, StagesKept
    <2>2. ASSUME NEW g \in Guids, vouchers'[g] # Nil
          PROVE  vouchers'[g].hdr.guid = g /\ \E b \in Calls : MadeBy(g, b)'
        <3>1. CASE vouchers[g] = Nil
            BY <1>3, <2>0, <2>2, <3>1, NewMade
        <3>2. CASE vouchers[g] # Nil
            <4>1. PICK b \in Calls : MadeBy(g, b)
                BY <2>0, <3>2 DEF MadeOK
            <4>2. vouchers[g].hdr.guid = g /\ vouchers'[g] = vouchers[g]
                BY <1>3, <2>0, <3>2, VouchersKept DEF MadeOK
            <4>3. MadeBy(g, b)'
                BY <1>3, <2>0, <3>2, <4>1, <4>2, MadeKept
            <4> QED
                BY <4>2, <4>3
        <3> QED
            BY <3>1, <3>2
    <2> QED
        BY <1>1, <2>1, <2>2 DEF OrphansInv, MadeOK
<1> QED
    BY <1>2, <1>3 DEF Next, Step

\* A persisted voucher that no device goes by is left by a call that failed, is not
\* answered yet, or whose device was initialized again: nothing else orphans one.
THEOREM OrphansHaveACause == Spec => []OrphansExplained
<1>1. Init => OrphansInv
    <2>1. Init => StagesOK /\ MadeOK
        BY DEF Init, StagesOK, MadeOK
    <2> QED
        BY <2>1, InitIndInv DEF OrphansInv
<1>2. OrphansInv => OrphansExplained
    <2> SUFFICES ASSUME OrphansInv, NEW g \in Guids, vouchers[g] # Nil,
                        \A d \in Devices : cred[d] = Nil \/ cred[d].guid # g
                 PROVE  \E a \in Calls :
                            /\ dev[a] = vouchers[g].hdr.dev
                            /\ ovh[a] = vouchers[g].hdr
                            /\ \/ pc[a] \in Waiting \cup {"failed"}
                               \/ pc[a] = "ok" /\ \E b \in Calls \ {a} : dev[b] = dev[a] /\ pc[b] = "ok"
        BY DEF OrphansExplained
    <2>0. vouchers[g] \in Voucher
        BY DEF OrphansInv, IndInv, TypeOK
    <2>1. PICK a \in Calls : MadeBy(g, a)
        BY DEF OrphansInv, MadeOK
    <2>2. ovh[a] # Nil /\ dev[a] \in Devices
        BY <2>0, <2>1, NilAssumption DEF MadeBy, Voucher, VoucherHeader
    <2>3. pc[a] \in {"setHmac", "ok", "failed"}
        BY <2>2 DEF OrphansInv, StagesOK
    <2>4. pc[a] = "ok" => Again(a)
        BY <2>1, <2>2 DEF MadeBy, Uses
    <2> QED
        BY <2>1, <2>3, <2>4 DEF MadeBy, Again, Waiting
<1> QED
    BY <1>1, <1>2, NextOrphans, PTL DEF Spec

=============================================================================
