------------------------ MODULE TO2OwnershipProof ------------------------
(***************************************************************************)
(* Proofs that TO2 and TO2v200 implement Ownership, and of what device and *)
(* owner keep of each other's vouchers: for every value of the constants.  *)
(***************************************************************************)
EXTENDS TO2Proof

------------------------------------------------------------------------------
(* The inductive invariant: IndInv and the following.                        *)

\* The requests the device may have sent before it waits, and their responses.
Ask == [hello |-> {"HelloDevice", "HelloDeviceProbe"}, entry |-> {"GetOVNextEntry", "GetOVNextEntry20"},
        prove |-> {"ProveDevice", "ProveDevice20"}, ready |-> {"DeviceReady", "DeviceSvcInfoRdy20"},
        more |-> {"DeviceInfo"}, info |-> {"DeviceInfo", "DeviceSvcInfo20"}, done |-> {"Done", "Done20"}]
Answer == [hello |-> {"ProveOVHdr", "HelloDeviceAck20"}, entry |-> {"OVNextEntry", "OVNextEntry20"},
           prove |-> {"SetupDevice", "ProveOVHdr20"}, ready |-> {"OwnerReady", "SetupDevice20"},
           more |-> {"OwnerInfo"}, info |-> {"OwnerInfo", "OwnerSvcInfo20"}, done |-> {"Done2"}]

\* What is in flight is the request the device sent last or its response; only
\* the request outlives the call.
InFlightOK(a) ==
    \/ net[a].t = "none"
    \/ pc[a] \in Waiting /\ net[a].t \in Ask[pc[a]] \cup Answer[pc[a]] \cup {"Error"}
    \/ pc[a] = "failed" /\ failedAt[a] \in Waiting /\ net[a].t \in Ask[failedAt[a]]

\* The last request of a session was the last of the call, or one of service info.
At(a, p) == pc[a] = p \/ (pc[a] = "failed" /\ failedAt[a] = p)

\* Device and owner agree on whether there is a replacement: the HMAC the owner
\* has or is about to get says so.
HmacTells(a) ==
    /\ pc[a] = "ready" /\ net[a].t = "DeviceReady" => (net[a].hmac = Nil <=> repl[a] = Nil)
    /\ ~Over(a) /\ net[a].t \in {"OwnerReady", "DeviceInfo", "OwnerInfo", "Done"} =>
          (row[a].hmac = Nil <=> repl[a] = Nil)
    /\ pc[a] = "done" /\ net[a].t = "Done20" => (net[a].hmac = Nil <=> repl[a] = Nil)

\* A replacement is under way only for the last request of a call; device and
\* session agree on whether there is one, and on its GUID.
CallOK(a) ==
    /\ InFlightOK(a)
    /\ HmacTells(a)
    /\ job[a] # NoJob => net[a].t \in {"Done", "Done20"} /\ row[a].replGuid # Nil /\ LastHmac(a) # Nil
    /\ pc[a] \in {"hello", "entry", "prove"} \/ net[a].t = "DeviceReady" => row[a].hmac = Nil
    /\ row[a].replGuid # Nil =>
          /\ repl[a] # Nil => repl[a].guid = row[a].replGuid
          /\ net[a].t \in {"SetupDevice", "SetupDevice20"} => net[a].guid \in {Nil, row[a].replGuid}

CallsOK == \A a \in Attempts : CallOK(a)

\* An owner module runs in a session that is live or that the handler cut off,
\* between its first DeviceServiceInfo and its TO2.Done.
ModuleOK(a) ==
    running[a] =>
        /\ sess[a] \in {"live", "cut"} /\ row[a].xsession = "complete" /\ job[a] = NoJob
        /\ net[a].t # "Done2"
        /\ At(a, "more") \/ At(a, "info") \/ At(a, "done")

ModulesOK == \A a \in Attempts : ModuleOK(a)

\* A device goes by the GUID it was made with or one a finished call gave it.
GoesBy(d, g) ==
    \/ d \in Devices /\ InitGuid[d] = g
    \/ \E a \in Attempts : dev[a] = d /\ pc[a] = "ok" /\ row[a].replGuid = g

NamesOK ==
    /\ \A d \in Devices : GoesBy(d, cred[d].guid)
    /\ \A a \in Attempts :
          /\ net[a].t \in Ask["hello"] => GoesBy(dev[a], net[a].guid)
          /\ row[a].guid # Nil => GoesBy(dev[a], row[a].guid)

Headers == {ov.hdr : ov \in HeldVouchers}

\* A voucher is in one place.
OnePlace ==
    /\ \A ov \in transit : vouchers[ov.hdr.guid] = Nil
    /\ \A ov, ow \in transit : ov.hdr.guid = ow.hdr.guid => ov = ow

\* The replacement of a session is held only once ReplaceVoucher has inserted it,
\* and is held when it is about to remove the old voucher and when the device is
\* told that it is done.
Finished(a) == job[a] = NoJob /\ pc[a] \in {"done", "ok", "failed"} /\ net[a].t \in {"none", "Done2", "Error"}
Pending(a) == job[a].st \in {"remove", "undo"}

ReplacedOK(a) ==
    /\ row[a].replGuid # Nil /\ Held(row[a].replGuid) => Pending(a) \/ Finished(a)
    /\ job[a].st = "remove" \/ (net[a].t = "Done2" /\ repl[a] # Nil) =>
          row[a].replGuid # Nil /\ Held(row[a].replGuid)

ReplacementsOK == \A a \in Attempts : ReplacedOK(a)

\* Every device has a voucher that no handler may still take back.
SettledOK ==
    \A d \in Devices : \E h \in Headers :
        h.dev = d /\ \A a \in Attempts : Pending(a) => row[a].replGuid # h.guid

\* A call whose last request may have replaced the voucher of device d, or will
\* give d the replacement.
DoneFor(a, d) ==
    /\ dev[a] = d /\ row[a].guid = cred[d].guid
    /\ \/ pc[a] = "done" /\ repl[a] # Nil
       \/ pc[a] = "failed" /\ failedAt[a] = "done"

\* A device without a voucher under its GUID was replaced by a last request it has
\* no answer to.
StrandedOK == \A d \in Devices : Held(cred[d].guid) \/ \E a \in Attempts : DoneFor(a, d)

\* Header, replacement and credential are the same thing on both sides.
JobAgrees(a) == job[a] # NoJob => job[a].ov.hdr = AgreedHeader(a)
HeldAgrees(a) ==
    row[a].replGuid # Nil => \A h \in Headers : h.guid = row[a].replGuid => h = AgreedHeader(a)
CredAgrees(d) == \A h \in Headers : h.guid = cred[d].guid => h.mfg = cred[d].mfg /\ h.rv = cred[d].rv

AcceptOK ==
    rotations = 0 =>
        /\ \A a \in Attempts : JobAgrees(a) /\ HeldAgrees(a)
        /\ \A d \in Devices : CredAgrees(d)

\* A device runs one call at a time, and its session is about the GUID the device
\* goes by.
OneCall ==
    \A a \in Attempts : pc[a] \in Waiting =>
        /\ net[a].t \in Ask["hello"] => net[a].guid = cred[dev[a]].guid
        /\ row[a].guid # Nil => row[a].guid = cred[dev[a]].guid
        /\ \A b \in Attempts : pc[b] \in Waiting /\ dev[b] = dev[a] => b = a

\* A session with a replacement GUID has a device that knows of it: in 1.01 from
\* SetupDevice on, in 2.0 from the first service info on.
Outcome(a) ==
    /\ row[a].replGuid # Nil =>
          /\ pc[a] \in {"more", "info", "done"} \/ (pc[a] = "ready" /\ net[a].t \in {"DeviceReady", "OwnerReady"})
                => repl[a] # Nil
          /\ net[a].t = "SetupDevice20" => net[a].guid # Nil
    /\ net[a].t = "Done2" => row[a].guid # Nil

OutcomeOK == \A a \in Attempts : Outcome(a)

OwnInv ==
    /\ IndInv
    /\ CallsOK /\ ModulesOK /\ NamesOK /\ OnePlace
    /\ ReplacementsOK /\ SettledOK /\ StrandedOK /\ AcceptOK /\ OneCall /\ OutcomeOK

------------------------------------------------------------------------------
(* The headers of the vouchers held.                                         *)

USE ConstantsAssumption, NilAssumption

\* A header held is one of a stored voucher or of one that is being sold.
LEMMA InHeaders ==
    ASSUME NEW h
    PROVE  h \in Headers <=> \/ \E g \in Guids : vouchers[g] # Nil /\ vouchers[g].hdr = h
                             \/ \E ov \in transit : ov.hdr = h
BY DEF Headers, HeldVouchers, Stored

\* It names the device its GUID was given to.
LEMMA HeaderFacts ==
    ASSUME TypesOK, VouchersOK, NEW h \in Headers
    PROVE  h \in VoucherHeader /\ Belongs(h.guid, h.dev)
<1>1. ASSUME NEW g \in Guids, vouchers[g] # Nil, vouchers[g].hdr = h
      PROVE  h \in VoucherHeader /\ Belongs(h.guid, h.dev)
    <2>1. vouchers[g] \in Voucher
        BY <1>1 DEF TypesOK, Types, OptVoucher
    <2> QED
        BY <1>1, <2>1 DEF VouchersOK, Voucher
<1>2. ASSUME NEW ov \in transit, ov.hdr = h
      PROVE  h \in VoucherHeader /\ Belongs(h.guid, h.dev)
    <2>1. ov \in Voucher
        BY <1>2 DEF TypesOK, Types
    <2> QED
        BY <1>2, <2>1 DEF VouchersOK, Voucher
<1> QED
    BY <1>1, <1>2, InHeaders

\* A GUID is held when a header held has it.
LEMMA HeldHeader ==
    ASSUME NEW g
    PROVE  Held(g) <=> \E h \in Headers : h.guid = g
BY DEF Held, Headers

\* There is one header per GUID.
LEMMA OneHeader ==
    ASSUME TypesOK, VouchersOK, OnePlace, NEW h \in Headers, NEW k \in Headers, h.guid = k.guid
    PROVE  h = k
BY InHeaders DEF OnePlace, VouchersOK

\* The owner's own operations keep the headers: a voucher that is sold is held,
\* in one place, until it is back.
LEMMA OwnerHeaders ==
    ASSUME TypesOK, VouchersOK, OnePlace, OwnerStep
    PROVE  Headers' = Headers /\ OnePlace'
<1>1. ASSUME NEW g \in Guids, NEW k \in Keys, Resell(g, k)
      PROVE  Headers' = Headers /\ OnePlace'
    <2> DEFINE e == [vouchers[g] EXCEPT !.entries = Append(vouchers[g].entries, k)]
    <2>0. vouchers[g] \in Voucher /\ vouchers[g] # Nil /\ vouchers[g].hdr.guid = g
        BY <1>1 DEF Resell, TypesOK, Types, OptVoucher, VouchersOK
    <2>1. e.hdr = vouchers[g].hdr
        BY <2>0 DEF Voucher
    <2>2. transit' = transit \cup {e} \/ transit' = transit \cup {vouchers[g]}
        BY <1>1, Zenon DEF Resell
    <2>3. vouchers' = [vouchers EXCEPT ![g] = Nil] /\ vouchers \in [Guids -> OptVoucher]
        BY <1>1 DEF Resell, TypesOK, Types
    <2> HIDE DEF e
    <2>4. PICK w : transit' = transit \cup {w} /\ w.hdr = vouchers[g].hdr
        BY <2>1, <2>2
    <2>5. ASSUME NEW h PROVE h \in Headers' <=> h \in Headers
        <3>1. h \in Headers' <=> \/ \E i \in Guids : vouchers'[i] # Nil /\ vouchers'[i].hdr = h
                                 \/ \E ov \in transit' : ov.hdr = h
            BY DEF Headers, HeldVouchers, Stored
        <3> QED
            BY <2>0, <2>3, <2>4, <3>1, InHeaders
    <2>6. OnePlace'
        BY <2>0, <2>3, <2>4 DEF OnePlace
    <2> QED
        BY <2>5, <2>6
<1>2. ASSUME NEW ov \in transit, AddVoucher(ov)
      PROVE  Headers' = Headers /\ OnePlace'
    <2>1. /\ ov \in Voucher /\ ov # Nil /\ ov.hdr.guid \in Guids /\ vouchers[ov.hdr.guid] = Nil
          /\ vouchers' = [vouchers EXCEPT ![ov.hdr.guid] = ov] /\ transit' = transit \ {ov}
          /\ vouchers \in [Guids -> OptVoucher]
        BY <1>2 DEF AddVoucher, TypesOK, Types, Voucher, VoucherHeader
    <2>2. ASSUME NEW h PROVE h \in Headers' <=> h \in Headers
        <3>1. h \in Headers' <=> \/ \E i \in Guids : vouchers'[i] # Nil /\ vouchers'[i].hdr = h
                                 \/ \E w \in transit' : w.hdr = h
            BY DEF Headers, HeldVouchers, Stored
        <3> QED
            BY <2>1, <3>1, InHeaders
    <2>3. OnePlace'
        BY <2>1 DEF OnePlace
    <2> QED
        BY <2>2, <2>3
<1>3. ASSUME NEW k \in Keys, ReplaceOwnerKey(k)
      PROVE  Headers' = Headers /\ OnePlace'
    BY <1>3 DEF ReplaceOwnerKey, Headers, HeldVouchers, Stored, OnePlace
<1> QED
    BY <1>1, <1>2, <1>3 DEF OwnerStep

\* Inserting a voucher under a GUID that is not held adds its header.
LEMMA InsertHeaders ==
    ASSUME TypesOK, VouchersOK, OnePlace, NEW w \in Voucher, ~Held(w.hdr.guid), transit' = transit,
           vouchers' = [vouchers EXCEPT ![w.hdr.guid] = w]
    PROVE  Headers' = Headers \cup {w.hdr} /\ OnePlace'
<1>1. w.hdr.guid \in Guids /\ w # Nil /\ vouchers \in [Guids -> OptVoucher]
    BY DEF Voucher, VoucherHeader, TypesOK, Types
<1>2. ASSUME NEW h PROVE h \in Headers' <=> h \in Headers \cup {w.hdr}
    <2>1. h \in Headers' <=> \/ \E i \in Guids : vouchers'[i] # Nil /\ vouchers'[i].hdr = h
                             \/ \E ov \in transit : ov.hdr = h
        BY DEF Headers, HeldVouchers, Stored
    <2>2. vouchers[w.hdr.guid] = Nil
        BY <1>1 DEF Held, HeldVouchers, Stored, VouchersOK
    <2> QED
        BY <1>1, <2>1, <2>2, InHeaders
<1>3. OnePlace'
    <2>1. \A ov \in transit : ov.hdr.guid # w.hdr.guid
        BY DEF Held, HeldVouchers
    <2> QED
        BY <1>1, <2>1 DEF OnePlace
<1> QED
    BY <1>2, <1>3

\* Removing a stored voucher removes its header.
LEMMA RemoveHeaders ==
    ASSUME TypesOK, VouchersOK, OnePlace, NEW g \in Guids, vouchers[g] # Nil, transit' = transit,
           vouchers' = [vouchers EXCEPT ![g] = Nil]
    PROVE  Headers' = Headers \ {vouchers[g].hdr} /\ OnePlace' /\ vouchers[g].hdr.guid = g
           /\ vouchers[g].hdr \in Headers
<1>1. vouchers \in [Guids -> OptVoucher]
    BY DEF TypesOK, Types
<1>2. ASSUME NEW h PROVE h \in Headers' <=> h \in Headers \ {vouchers[g].hdr}
    <2>1. h \in Headers' <=> \/ \E i \in Guids : vouchers'[i] # Nil /\ vouchers'[i].hdr = h
                             \/ \E ov \in transit : ov.hdr = h
        BY DEF Headers, HeldVouchers, Stored
    <2> QED
        BY <1>1, <2>1, InHeaders DEF OnePlace, VouchersOK
<1>3. OnePlace'
    BY <1>1 DEF OnePlace
<1> QED
    BY <1>2, <1>3, InHeaders DEF VouchersOK

------------------------------------------------------------------------------
(* What a step does to its own call, and that it leaves the others alone.    *)

Kept(b) ==
    /\ pc'[b] = pc[b] /\ failedAt'[b] = failedAt[b] /\ dev'[b] = dev[b] /\ repl'[b] = repl[b]
    /\ net'[b] = net[b] /\ row'[b] = row[b] /\ job'[b] = job[b]
    /\ sess'[b] = sess[b] /\ running'[b] = running[b]

StepOf(a) == ClientStep(a) \/ HandlerStep(a) \/ FaultStep(a)

\* The device's answer to what it received, by what becomes of the call.
Gives(a, p) == pc'[a] = p /\ net'[a].t \in Ask[p] /\ failedAt'[a] = failedAt[a] /\ cred' = cred

DeviceFails(a) ==
    /\ pc[a] \in Waiting /\ pc'[a] = "failed" /\ failedAt'[a] = pc[a]
    /\ repl'[a] = Nil /\ cred' = cred
    /\ \/ net'[a] = Quiet /\ net[a].t \notin Requests
       \/ net'[a] = net[a] /\ net[a].t \in Requests

DeviceAsks(a) ==
    /\ pc[a] \in {"hello", "entry", "prove"} /\ repl'[a] = repl[a]
    /\ \/ Gives(a, "entry") \/ Gives(a, "prove")
       \/ Gives(a, "ready") /\ net'[a].t = "DeviceSvcInfoRdy20"

DeviceSetsUp(a) ==
    /\ pc[a] = "prove" /\ net[a].t = "SetupDevice" /\ Gives(a, "ready") /\ net'[a].t = "DeviceReady"
    /\ \/ repl'[a] = repl[a] /\ net'[a].hmac = Nil /\ net[a].guid = cred[dev[a]].guid
       \/ /\ repl'[a] = ReplacementOVH(a, net[a])
          /\ net'[a].hmac = HmacOf(dev[a], ReplacementOVH(a, net[a]))

DeviceSetsUp20(a) ==
    /\ pc[a] = "ready" /\ net[a].t = "SetupDevice20" /\ Gives(a, "info") /\ net'[a].t = "DeviceSvcInfo20"
    /\ repl'[a] = IF net[a].guid = Nil THEN repl[a] ELSE ReplacementOVH20(a, net[a])

DeviceInforms(a) ==
    /\ repl'[a] = repl[a]
    /\ \/ /\ pc[a] = "ready" /\ net[a].t = "OwnerReady"
          /\ Gives(a, "more") \/ Gives(a, "info")
          /\ net'[a].t = "DeviceInfo"
       \/ /\ pc[a] \in {"more", "info"} /\ net[a].t = "OwnerInfo"
          /\ Gives(a, "more") \/ Gives(a, "info") \/ Gives(a, "done")
          /\ net'[a].t \in {"DeviceInfo", "Done"}
       \/ pc[a] = "info" /\ net[a].t = "OwnerSvcInfo20" /\ Gives(a, "info") /\ net'[a].t = "DeviceSvcInfo20"
       \/ /\ pc[a] = "info" /\ net[a].t = "OwnerSvcInfo20" /\ Gives(a, "done") /\ net'[a].t = "Done20"
          /\ net'[a].hmac = IF repl[a] = Nil THEN Nil ELSE HmacOf(dev[a], repl[a])

DeviceFinishes(a) ==
    /\ pc[a] = "done" /\ net[a].t = "Done2" /\ pc'[a] = "ok" /\ net'[a] = Quiet
    /\ repl'[a] = Nil /\ failedAt'[a] = failedAt[a]
    /\ cred' = IF repl[a] = Nil THEN cred
               ELSE [cred EXCEPT ![dev[a]] = [guid |-> repl[a].guid, rv |-> repl[a].rv, mfg |-> repl[a].mfg]]

DeviceEffect(a) ==
    \/ DeviceFails(a) \/ DeviceAsks(a) \/ DeviceSetsUp(a) \/ DeviceSetsUp20(a)
    \/ DeviceInforms(a) \/ DeviceFinishes(a)

\* The steps of TO2 and TO2v200, by what becomes of the call.
LEMMA DeviceEffects ==
    ASSUME TypesOK, NEW a \in Attempts, Receive(a)
    PROVE  dev' = dev /\ DeviceEffect(a)
<1> SUFFICES DeviceEffect(a)
    BY DeviceKeepsDev
<1>0. /\ pc \in [Attempts -> Waiting \cup {"idle", "ok", "failed"}] /\ net \in [Attempts -> Message20]
      /\ failedAt \in [Attempts -> Waiting \cup {"idle"}] /\ repl \in [Attempts -> VoucherHeader \cup {Nil}]
    BY DEF TypesOK, Types
<1>1. ASSUME NEW h, Fail(a, h), pc[a] \in Waiting,
             \/ net' = [net EXCEPT ![a] = Quiet] /\ net[a].t \notin Requests
             \/ net' = net /\ net[a].t \in Requests
      PROVE  DeviceEffect(a)
    BY <1>0, <1>1 DEF Fail, Return, DeviceFails, DeviceEffect
<1>2. ASSUME NEW p \in Waiting, NEW m, Send(a, p, m), m.t \in Ask[p], UNCHANGED <<cred, failedAt>>
      PROVE  Gives(a, p) /\ net'[a] = m
    BY <1>0, <1>2 DEF Send, Gives
<1>3. /\ "hello" \in Waiting /\ "entry" \in Waiting /\ "prove" \in Waiting
      /\ "ready" \in Waiting /\ "more" \in Waiting /\ "info" \in Waiting /\ "done" \in Waiting
      /\ Ask["more"] = {"DeviceInfo"}
      /\ Ask["entry"] = {"GetOVNextEntry", "GetOVNextEntry20"} /\ Ask["prove"] = {"ProveDevice", "ProveDevice20"}
      /\ Ask["ready"] = {"DeviceReady", "DeviceSvcInfoRdy20"} /\ Ask["info"] = {"DeviceInfo", "DeviceSvcInfo20"}
      /\ Ask["done"] = {"Done", "Done20"}
    BY DEF Waiting, Ask
<1>4. ASSUME NEW i, NEW keys, verifyVoucher(a, i, keys), pc[a] \in {"hello", "entry"},
             net[a].t \notin Requests
      PROVE  DeviceEffect(a)
    <2> DEFINE m1 == [t |-> "GetOVNextEntry", i |-> Len(keys)]
               m2 == [t |-> "ProveDevice"]
    <2>1. \/ Fail(a, TRUE) /\ net' = [net EXCEPT ![a] = Quiet]
          \/ UNCHANGED <<cred, failedAt, repl>> /\ (Send(a, "entry", m1) \/ Send(a, "prove", m2))
        BY <1>4, Zenon DEF verifyVoucher
    <2>2. m1.t \in Ask["entry"] /\ m2.t \in Ask["prove"]
        BY <1>3
    <2> HIDE DEF m1, m2
    <2>3. UNCHANGED <<cred, failedAt, repl>> /\ Send(a, "entry", m1) => Gives(a, "entry")
        BY <1>2, <1>3, <2>2
    <2>4. UNCHANGED <<cred, failedAt, repl>> /\ Send(a, "prove", m2) => Gives(a, "prove")
        BY <1>2, <1>3, <2>2
    <2> QED
        BY <1>1, <1>4, <1>3, <2>1, <2>3, <2>4 DEF DeviceAsks, DeviceEffect
<1>5. ASSUME NEW i, NEW keys, verifyOwner20(a, i, keys), pc[a] \in {"prove", "entry"},
             net[a].t \notin Requests
      PROVE  DeviceEffect(a)
    <2> DEFINE m1 == [t |-> "GetOVNextEntry20", i |-> Len(keys)]
               m2 == [t |-> "DeviceSvcInfoRdy20"]
    <2>1. \/ Fail(a, TRUE) /\ net' = [net EXCEPT ![a] = Quiet]
          \/ UNCHANGED <<cred, failedAt, repl>> /\ (Send(a, "entry", m1) \/ Send(a, "ready", m2))
        BY <1>5, Zenon DEF verifyOwner20
    <2>2. m1.t \in Ask["entry"] /\ m2.t \in Ask["ready"] /\ m2.t = "DeviceSvcInfoRdy20"
        BY <1>3
    <2> HIDE DEF m1, m2
    <2>3. UNCHANGED <<cred, failedAt, repl>> /\ Send(a, "entry", m1) => Gives(a, "entry")
        BY <1>2, <1>3, <2>2
    <2>4. UNCHANGED <<cred, failedAt, repl>> /\ Send(a, "ready", m2) => Gives(a, "ready") /\ net'[a] = m2
        BY <1>2, <1>3, <2>2
    <2> QED
        BY <1>1, <1>5, <1>3, <2>1, <2>2, <2>3, <2>4 DEF DeviceAsks, DeviceEffect
<1>6. CASE recvProveOVHdr(a) \/ recvOVNextEntry(a)
    BY <1>4, <1>6 DEF recvProveOVHdr, recvOVNextEntry, Requests
<1>7. CASE recvProveOVHdr20(a) \/ recvOVNextEntry20(a)
    BY <1>5, <1>7 DEF recvProveOVHdr20, recvOVNextEntry20, Requests
<1>8. CASE recvHelloDeviceAck20(a)
    <2> DEFINE m1 == [t |-> "ProveDevice20"]
    <2>1. pc[a] = "hello" /\ Send(a, "prove", m1) /\ UNCHANGED <<cred, failedAt, repl>>
        BY <1>8 DEF recvHelloDeviceAck20
    <2>2. m1.t \in Ask["prove"]
        BY <1>3
    <2> HIDE DEF m1
    <2>3. Gives(a, "prove")
        BY <1>2, <1>3, <2>1, <2>2
    <2> QED
        BY <2>1, <2>3 DEF DeviceAsks, DeviceEffect
<1>9. CASE recvSetupDevice(a)
    <2> DEFINE ovh == ReplacementOVH(a, net[a])
               m1 == [t |-> "DeviceReady", hmac |-> Nil]
               m2 == [t |-> "DeviceReady", hmac |-> HmacOf(dev[a], ovh)]
    <2>1. \/ Fail(a, TRUE) /\ net' = [net EXCEPT ![a] = Quiet]
          \/ IsReuse(a, net[a]) /\ Send(a, "ready", m1) /\ UNCHANGED <<cred, failedAt, repl>>
          \/ Send(a, "ready", m2) /\ UNCHANGED <<cred, failedAt>> /\ repl' = [repl EXCEPT ![a] = ovh]
        BY <1>9, Zenon DEF recvSetupDevice
    <2>2. /\ m1.t = "DeviceReady" /\ m2.t = "DeviceReady" /\ m1.t \in Ask["ready"] /\ m2.t \in Ask["ready"]
          /\ m1.hmac = Nil /\ m2.hmac = HmacOf(dev[a], ovh)
        BY <1>3
    <2>3. pc[a] = "prove" /\ net[a].t = "SetupDevice"
        BY <1>9 DEF recvSetupDevice
    <2> HIDE DEF ovh, m1, m2
    <2>4. CASE IsReuse(a, net[a]) /\ Send(a, "ready", m1) /\ UNCHANGED <<cred, failedAt, repl>>
        <3>1. Gives(a, "ready") /\ net'[a] = m1
            BY <1>2, <1>3, <2>2, <2>4
        <3>2. net[a].guid = cred[dev[a]].guid
            BY <2>4 DEF IsReuse
        <3> QED
            BY <2>2, <2>3, <2>4, <3>1, <3>2 DEF DeviceSetsUp, DeviceEffect
    <2>5. CASE Send(a, "ready", m2) /\ UNCHANGED <<cred, failedAt>> /\ repl' = [repl EXCEPT ![a] = ovh]
        <3>1. repl'[a] = ovh /\ Gives(a, "ready") /\ net'[a] = m2
            BY <1>0, <1>2, <1>3, <2>2, <2>5
        <3> QED
            BY <2>2, <2>3, <3>1 DEF DeviceSetsUp, DeviceEffect, ovh
    <2> QED
        BY <1>1, <2>1, <2>3, <2>4, <2>5 DEF Waiting, Requests
<1>10. CASE recvSetupDevice20(a)
    <2> DEFINE ovh == ReplacementOVH20(a, net[a])
    <2>1. \/ \E h : Fail(a, h) /\ net' = [net EXCEPT ![a] = Quiet]
          \/ /\ sendDeviceSvcInfo20(a) /\ UNCHANGED <<cred, failedAt>>
             /\ \/ net[a].guid = Nil /\ UNCHANGED repl
                \/ net[a].guid # Nil /\ repl' = [repl EXCEPT ![a] = ovh]
        BY <1>10, Zenon DEF recvSetupDevice20
    <2>2. pc[a] = "ready" /\ net[a].t = "SetupDevice20"
        BY <1>10 DEF recvSetupDevice20
    <2>3. ASSUME sendDeviceSvcInfo20(a), UNCHANGED <<cred, failedAt>>
          PROVE  Gives(a, "info") /\ net'[a].t = "DeviceSvcInfo20"
        <3>1. PICK more \in BOOLEAN : Send(a, "info", [t |-> "DeviceSvcInfo20", more |-> more])
            BY <2>3, Zenon DEF sendDeviceSvcInfo20
        <3> QED
            BY <1>2, <1>3, <2>3, <3>1
    <2> HIDE DEF ovh
    <2>4. CASE /\ sendDeviceSvcInfo20(a) /\ UNCHANGED <<cred, failedAt>>
               /\ \/ net[a].guid = Nil /\ UNCHANGED repl
                  \/ net[a].guid # Nil /\ repl' = [repl EXCEPT ![a] = ovh]
        <3>1. repl'[a] = IF net[a].guid = Nil THEN repl[a] ELSE ovh
            BY <1>0, <2>4
        <3> QED
            BY <2>2, <2>3, <2>4, <3>1 DEF DeviceSetsUp20, DeviceEffect, ovh
    <2> QED
        BY <1>1, <2>1, <2>2, <2>4 DEF Waiting, Requests
<1>11. CASE recvOwnerReady(a)
    <2>1. pc[a] = "ready" /\ net[a].t = "OwnerReady" /\ UNCHANGED <<cred, failedAt, repl>>
        BY <1>11 DEF recvOwnerReady
    <2>2. PICK p \in {"more", "info"}, h \in BOOLEAN : Send(a, p, [t |-> "DeviceInfo", more |-> h])
        BY <1>11, InfoSent DEF recvOwnerReady
    <2>3. Gives(a, p) /\ net'[a].t = "DeviceInfo"
        BY <1>2, <1>3, <2>1, <2>2
    <2> QED
        BY <2>1, <2>3 DEF DeviceInforms, DeviceEffect
<1>12. CASE recvOwnerInfo(a)
    <2>1. \/ Fail(a, TRUE) /\ net' = [net EXCEPT ![a] = Quiet]
          \/ UNCHANGED <<cred, failedAt, repl>>
             /\ (sendDeviceServiceInfo(a) \/ Send(a, "done", [t |-> "Done"]))
        BY <1>12, Zenon DEF recvOwnerInfo
    <2>2. pc[a] \in {"more", "info"} /\ net[a].t = "OwnerInfo"
        BY <1>12 DEF recvOwnerInfo
    <2>3. ASSUME UNCHANGED <<cred, failedAt, repl>>, sendDeviceServiceInfo(a)
          PROVE  DeviceEffect(a)
        <3>1. PICK p \in {"more", "info"}, h \in BOOLEAN : Send(a, p, [t |-> "DeviceInfo", more |-> h])
            BY <2>3, InfoSent
        <3>2. Gives(a, p) /\ net'[a].t = "DeviceInfo"
            BY <1>2, <1>3, <2>3, <3>1
        <3> QED
            BY <2>2, <2>3, <3>2 DEF DeviceInforms, DeviceEffect
    <2>4. ASSUME UNCHANGED <<cred, failedAt, repl>>, Send(a, "done", [t |-> "Done"])
          PROVE  DeviceEffect(a)
        <3>1. Gives(a, "done") /\ net'[a].t = "Done"
            BY <1>2, <1>3, <2>4
        <3> QED
            BY <2>2, <2>4, <3>1 DEF DeviceInforms, DeviceEffect
    <2>5. pc[a] \in Waiting /\ net[a].t \notin Requests
        BY <1>3, <2>2 DEF Requests
    <2> QED
        BY <1>1, <2>1, <2>3, <2>4, <2>5
<1>13. CASE recvOwnerSvcInfo20(a)
    <2> DEFINE h == IF repl[a] = Nil THEN Nil ELSE HmacOf(dev[a], repl[a])
               m1 == [t |-> "Done20", hmac |-> h]
    <2>1. /\ pc[a] = "info" /\ net[a].t = "OwnerSvcInfo20" /\ UNCHANGED <<cred, failedAt, repl>>
          /\ Send(a, "done", m1) \/ sendDeviceSvcInfo20(a)
        BY <1>13, Zenon DEF recvOwnerSvcInfo20
    <2>2. ASSUME sendDeviceSvcInfo20(a) PROVE DeviceEffect(a)
        <3>1. PICK more \in BOOLEAN : Send(a, "info", [t |-> "DeviceSvcInfo20", more |-> more])
            BY <2>2, Zenon DEF sendDeviceSvcInfo20
        <3>2. Gives(a, "info") /\ net'[a].t = "DeviceSvcInfo20"
            BY <1>2, <1>3, <2>1, <3>1
        <3> QED
            BY <2>1, <3>2 DEF DeviceInforms, DeviceEffect
    <2>3. m1.t = "Done20" /\ m1.t \in Ask["done"] /\ m1.hmac = h
        BY <1>3
    <2> HIDE DEF m1
    <2>4. Send(a, "done", m1) => Gives(a, "done") /\ net'[a] = m1
        BY <1>2, <1>3, <2>1, <2>3
    <2> QED
        BY <2>1, <2>2, <2>3, <2>4 DEF DeviceInforms, DeviceEffect
<1>14. CASE recvDone2(a)
    BY <1>0, <1>14 DEF recvDone2, Send, Return, DeviceFinishes, DeviceEffect
<1>15. CASE recvError(a) \/ Timeout(a)
    BY <1>1, <1>15 DEF recvError, Timeout, Requests
<1> QED
    BY <1>6, <1>7, <1>8, <1>9, <1>10, <1>11, <1>12, <1>13, <1>14, <1>15
    DEF Receive, DeviceStep, DeviceStep20, recvDoneAck20

\* A step of one call leaves what belongs to the others.
LEMMA OthersKept ==
    ASSUME TypesOK, NEW a \in Attempts, StepOf(a), NEW b \in Attempts \ {a}
    PROVE  Kept(b)
<1>0. /\ pc \in [Attempts -> Waiting \cup {"idle", "ok", "failed"}] /\ net \in [Attempts -> Message20]
      /\ failedAt \in [Attempts -> Waiting \cup {"idle"}] /\ repl \in [Attempts -> VoucherHeader \cup {Nil}]
      /\ sess \in [Attempts -> {"none", "live", "dead", "cut"}] /\ running \in [Attempts -> BOOLEAN]
      /\ dev \in [Attempts -> Devices \cup {Nil}]
      /\ job \in [Attempts -> {NoJob} \cup [st : {"add", "remove", "undo"}, ov : Voucher]]
    BY DEF TypesOK, Types
<1>1. ASSUME Receive(a) PROVE failedAt'[b] = failedAt[b]
    <2>1. ASSUME NEW h, Fail(a, h) PROVE failedAt'[b] = failedAt[b]
        BY <1>0, <2>1 DEF Fail
    <2>2. ASSUME NEW i, NEW keys, verifyVoucher(a, i, keys) \/ verifyOwner20(a, i, keys)
          PROVE  failedAt'[b] = failedAt[b]
        <3>1. Fail(a, TRUE) \/ UNCHANGED failedAt
            BY <2>2, Zenon DEF verifyVoucher, verifyOwner20
        <3> QED
            BY <2>1, <3>1
    <2>3. CASE recvProveOVHdr(a) \/ recvOVNextEntry(a) \/ recvProveOVHdr20(a) \/ recvOVNextEntry20(a)
        BY <2>2, <2>3 DEF recvProveOVHdr, recvOVNextEntry, recvProveOVHdr20, recvOVNextEntry20
    <2>4. CASE recvSetupDevice(a) \/ recvSetupDevice20(a)
        <3>1. (\E h : Fail(a, h)) \/ UNCHANGED failedAt
            BY <2>4, Zenon DEF recvSetupDevice, recvSetupDevice20
        <3> QED
            BY <2>1, <3>1
    <2>5. CASE recvOwnerReady(a) \/ recvOwnerInfo(a) \/ recvHelloDeviceAck20(a) \/ recvOwnerSvcInfo20(a)
        <3>1. Fail(a, TRUE) \/ UNCHANGED failedAt
            BY <2>5, Zenon DEF recvOwnerReady, recvOwnerInfo, recvHelloDeviceAck20, recvOwnerSvcInfo20
        <3> QED
            BY <2>1, <3>1
    <2>6. CASE recvDone2(a)
        BY <2>6 DEF recvDone2
    <2>7. CASE recvError(a) \/ Timeout(a)
        BY <2>1, <2>7 DEF recvError, Timeout
    <2> QED
        BY <1>1, <2>3, <2>4, <2>5, <2>6, <2>7 DEF Receive, DeviceStep, DeviceStep20, recvDoneAck20
<1>2. CASE ClientStep(a)
    <2>1. UNCHANGED <<sess, row, running, job>>
        BY <1>2, DeviceFrame
    <2>2. CASE Receive(a)
        <3>1. /\ pc'[b] = pc[b] /\ net'[b] = net[b] /\ repl'[b] = repl[b] /\ dev'[b] = dev[b]
              /\ failedAt'[b] = failedAt[b]
            BY <1>1, <2>2, DeviceMoves, DeviceKeepsDev
        <3> QED
            BY <2>1, <3>1 DEF Kept
    <2>3. CASE Hello(a)
        BY <1>0, <2>1, <2>3 DEF Hello, sendHelloDevice, sendHelloDeviceProbe, Send, Kept
    <2> QED
        BY <1>2, <2>2, <2>3 DEF ClientStep
<1>3. CASE HandlerStep(a)
    <2>1. UNCHANGED clientVars /\ row'[b] = row[b] /\ net'[b] = net[b] /\ job'[b] = job[b]
        BY <1>3, ServerClient, ServerFrame
    <2>2. ASSUME RespondError(a) \/ CutOff(a) \/ \E m, s : Respond(a, m, s) PROVE sess'[b] = sess[b]
        BY <1>0, <2>2 DEF RespondError, Respond, CutOff
    <2>3. sess'[b] = sess[b] /\ running'[b] = running[b]
        <3>1. CASE proveOVHdr(a) \/ ovNextEntry(a) \/ setupDevice(a) \/ ownerServiceInfoReady(a)
            BY <1>0, <2>2, <3>1 DEF proveOVHdr, ovNextEntry, setupDevice, ownerServiceInfoReady
        <3>2. CASE ownerServiceInfo(a)
            <4>1. RespondError(a) \/ \E m, s : Respond(a, m, s)
                BY <3>2, Zenon DEF ownerServiceInfo, ServiceInfoFails, produceOwnerServiceInfo
            <4>2. running' = running \/ running' = [running EXCEPT ![a] = TRUE]
                  \/ running' = [running EXCEPT ![a] = FALSE]
                BY <3>2, Zenon DEF ownerServiceInfo, ServiceInfoFails, produceOwnerServiceInfo
            <4> QED
                BY <1>0, <2>2, <4>1, <4>2
        <3>3. CASE to2Done2(a)
            <4>1. RespondError(a) \/ sess' = sess \/ \E m, s : Respond(a, m, s)
                BY <3>3, Zenon DEF to2Done2
            <4>2. running' = running \/ running' = [running EXCEPT ![a] = FALSE]
                BY <3>3 DEF to2Done2
            <4> QED
                BY <1>0, <2>2, <4>1, <4>2
        <3>4. CASE ReplaceAdd(a) \/ ReplaceRemove(a) \/ ReplaceUndo(a)
            <4>1. RespondError(a) \/ sess' = sess \/ \E m, s : Respond(a, m, s)
                BY <3>4, Zenon DEF ReplaceAdd, ReplaceRemove, ReplaceUndo
            <4> QED
                BY <1>0, <2>2, <3>4, <4>1 DEF ReplaceAdd, ReplaceRemove, ReplaceUndo
        <3>5. CASE HandleError(a)
            BY <1>0, <3>5 DEF HandleError
        <3>6. CASE helloDeviceAck20(a) \/ proveOVHdr20(a) \/ ovNextEntry20(a) \/ setupDevice20(a)
            BY <1>0, <2>2, <3>6 DEF helloDeviceAck20, proveOVHdr20, ovNextEntry20, setupDevice20
        <3>7. CASE ownerSvcInfo20(a)
            BY <1>0, <2>2, <3>7 DEF ownerSvcInfo20
        <3>8. CASE doneAck20(a)
            <4>1. RespondError(a) \/ sess' = sess \/ \E m, s : Respond(a, m, s)
                BY <3>8, Zenon DEF doneAck20
            <4>2. running' = running \/ running' = [running EXCEPT ![a] = FALSE]
                BY <3>8 DEF doneAck20
            <4> QED
                BY <1>0, <2>2, <4>1, <4>2
        <3>9. CASE RefuseRequest(a)
            BY <2>2, <3>9 DEF RefuseRequest
        <3> QED
            BY <1>3, <3>1, <3>2, <3>3, <3>4, <3>5, <3>6, <3>7, <3>8, <3>9
            DEF HandlerStep, Serve, ServerStep, ServerStep20
    <2> QED
        BY <2>1, <2>3 DEF Kept, clientVars
<1>4. CASE FaultStep(a)
    BY <1>0, <1>4 DEF FaultStep, Lose, Crash, clientVars, sessionVars, Kept
<1> QED
    BY <1>2, <1>3, <1>4 DEF StepOf

------------------------------------------------------------------------------
(* What a handler does, by what becomes of its session.                      *)

\* A response of one of the types T or an error, unless the device has hung up.
Answers(a, T) == net'[a] = Quiet \/ (~Over(a) /\ net'[a].t \in T \cup {"Error"})

\* The session does not end for its responder.
KeepsToken(a) == sess[a] \in {"live", "cut"} => sess'[a] \in {"live", "cut"}

\* The requests that find no owner module running.
EarlyRequests == Ask["hello"] \cup Ask["entry"] \cup Ask["prove"] \cup Ask["ready"]

Rejects(a) ==
    /\ Answers(a, {"Error"})
    /\ job'[a] = NoJob
    /\ SameCore(row'[a], row[a]) \/ (net[a].t \in Ask["hello"] /\ row'[a] = EmptyRow)
    /\ job[a] # NoJob \/ net[a].t \in Requests
    /\ \/ UNCHANGED vouchers
       \/ job[a].st = "undo" /\ vouchers' = [vouchers EXCEPT ![job[a].ov.hdr.guid] = Nil]
    /\ sess[a] = "cut" => sess'[a] = "cut"
    /\ running'[a] => /\ running[a]
                      /\ KeepsToken(a) \/ net[a].t \in EarlyRequests \/ ~Decrypts(a) \/ job[a] # NoJob

StaysPut(a) == job'[a] = job[a] /\ running'[a] = running[a] /\ UNCHANGED vouchers

Greets(a) ==
    /\ net[a].t \in Ask["hello"] /\ Answers(a, Answer["hello"]) /\ StaysPut(a)
    /\ row'[a].guid = net[a].guid /\ row'[a].replGuid = Nil /\ row'[a].hmac = Nil

SendsEntry(a) ==
    /\ net[a].t \in Ask["entry"] /\ Answers(a, Answer["entry"]) /\ StaysPut(a)
    /\ row' = row

ProvesOwner(a) ==
    /\ net[a].t = "ProveDevice20" /\ Answers(a, {"ProveOVHdr20"}) /\ StaysPut(a)
    /\ row'[a].guid = row[a].guid /\ row'[a].replGuid = row[a].replGuid /\ row'[a].hmac = row[a].hmac

SetsUp(a) ==
    /\ net[a].t = "ProveDevice" /\ Answers(a, {"SetupDevice"}) /\ StaysPut(a)
    /\ row[a].xsession = "begun" /\ row'[a].guid = row[a].guid /\ row'[a].hmac = row[a].hmac
    /\ \/ row'[a].replGuid = row[a].replGuid
       \/ /\ row'[a].replGuid \in Guids \ used
          /\ net'[a].t \in {"none", "Error"} \/ net'[a].guid = row'[a].replGuid

SetsUp20(a) ==
    /\ net[a].t = "DeviceSvcInfoRdy20" /\ Answers(a, {"SetupDevice20"}) /\ StaysPut(a)
    /\ row'[a].guid = row[a].guid /\ row'[a].hmac = row[a].hmac
    /\ \/ row'[a].replGuid = row[a].replGuid /\ (net'[a].t \in {"none", "Error"} \/ net'[a].guid = Nil)
       \/ /\ row'[a].replGuid \in Guids \ used
          /\ net'[a].t \in {"none", "Error"} \/ net'[a].guid = row'[a].replGuid

TakesHmac(a) ==
    /\ net[a].t = "DeviceReady" /\ Answers(a, {"OwnerReady"}) /\ StaysPut(a)
    /\ row'[a].guid = row[a].guid /\ row'[a].replGuid = row[a].replGuid /\ row'[a].rv = row[a].rv
    /\ row'[a].xsession = row[a].xsession
    /\ row'[a].hmac = IF net[a].hmac = Nil THEN row[a].hmac ELSE net[a].hmac

AnswersInfo(a) ==
    /\ Decrypts(a) /\ SameCore(row'[a], row[a]) /\ KeepsToken(a) /\ job'[a] = job[a] /\ UNCHANGED vouchers
    /\ \/ net[a].t = "DeviceInfo" /\ Answers(a, {"OwnerInfo"})
       \/ net[a].t = "DeviceSvcInfo20" /\ Answers(a, {"OwnerSvcInfo20"}) /\ running'[a] = running[a]

Reuses(a) ==
    /\ net[a].t \in Ask["done"] /\ job[a] = NoJob /\ LastHmac(a) = Nil /\ Decrypts(a)
    /\ Answers(a, {"Done2"}) /\ row' = row /\ job'[a] = NoJob /\ ~running'[a] /\ UNCHANGED vouchers

StartsReplace(a) ==
    /\ net[a].t \in Ask["done"] /\ job[a] = NoJob /\ Decrypts(a)
    /\ LastHmac(a) # Nil /\ row[a].replGuid # Nil /\ SessionVoucher(a) # Nil
    /\ job'[a] = [st |-> "add", ov |-> [ReplacementVoucher(a) EXCEPT !.hmac = LastHmac(a)]]
    /\ net' = net /\ row' = row /\ ~running'[a] /\ UNCHANGED vouchers

Inserts(a) ==
    /\ job[a].st = "add" /\ vouchers[job[a].ov.hdr.guid] = Nil
    /\ vouchers' = [vouchers EXCEPT ![job[a].ov.hdr.guid] = job[a].ov]
    /\ job'[a].st = "remove" /\ job'[a].ov = job[a].ov
    /\ net' = net /\ row' = row /\ running' = running

Removes(a) ==
    /\ job[a].st = "remove" /\ vouchers[row[a].guid] # Nil
    /\ vouchers' = [vouchers EXCEPT ![row[a].guid] = Nil]
    /\ job'[a] = NoJob /\ Answers(a, {"Done2"}) /\ row' = row /\ running' = running

KeepsOld(a) ==
    /\ job[a].st = "remove" /\ job'[a].st = "undo" /\ job'[a].ov = job[a].ov
    /\ net' = net /\ row' = row /\ running' = running /\ UNCHANGED vouchers

CleansUp(a) ==
    /\ net' = net /\ row' = row /\ job' = job /\ UNCHANGED vouchers
    /\ ~running'[a] \/ (ModulesBusy(a) /\ sess'[a] = "cut")

HandlerEffect(a) ==
    \/ Rejects(a) \/ Greets(a) \/ SendsEntry(a) \/ ProvesOwner(a) \/ SetsUp(a) \/ SetsUp20(a)
    \/ TakesHmac(a) \/ AnswersInfo(a) \/ Reuses(a) \/ StartsReplace(a) \/ Inserts(a) \/ Removes(a)
    \/ KeepsOld(a) \/ CleansUp(a)

\* Every handler step has one of these effects.
LEMMA HandlerEffects ==
    ASSUME TypesOK, NEW a \in Attempts, HandlerStep(a), job[a] # NoJob => net[a].t \in Ask["done"]
    PROVE  HandlerEffect(a)
<1>0. /\ net \in [Attempts -> Message20] /\ row \in [Attempts -> SessionRow]
      /\ running \in [Attempts -> BOOLEAN] /\ sess \in [Attempts -> {"none", "live", "dead", "cut"}]
      /\ job \in [Attempts -> {NoJob} \cup [st : {"add", "remove", "undo"}, ov : Voucher]]
    BY DEF TypesOK, Types
<1>1. ASSUME NEW m, NEW s, Respond(a, m, s)
      PROVE  net'[a] = Quiet \/ (~Over(a) /\ (net'[a] = m \/ net'[a].t = "Error"))
    BY <1>0, <1>1 DEF Respond, CutOff, Reply, ErrorMessage
<1>2. /\ RespondError(a) \/ CutOff(a) => Answers(a, {"Error"}) /\ (sess[a] = "cut" => sess'[a] = "cut")
      /\ CutOff(a) => KeepsToken(a)
    BY <1>0 DEF RespondError, CutOff, Reply, Answers, KeepsToken, ErrorMessage
<1>22. ASSUME NEW m, Respond(a, m, "live") PROVE KeepsToken(a)
    BY <1>0, <1>2, <1>22 DEF Respond, KeepsToken
<1>3. NoJob.st = "none"
    BY DEF NoJob
<1>4. ASSUME NEW r \in SessionRow PROVE SameCore(r, r)
    BY DEF SameCore
<1>21. /\ Ask["hello"] = {"HelloDevice", "HelloDeviceProbe"} /\ Answer["hello"] = {"ProveOVHdr", "HelloDeviceAck20"}
       /\ Ask["entry"] = {"GetOVNextEntry", "GetOVNextEntry20"} /\ Answer["entry"] = {"OVNextEntry", "OVNextEntry20"}
       /\ Ask["done"] = {"Done", "Done20"}
       /\ EarlyRequests = {"HelloDevice", "HelloDeviceProbe", "GetOVNextEntry", "GetOVNextEntry20",
                           "ProveDevice", "ProveDevice20", "DeviceReady", "DeviceSvcInfoRdy20"}
    BY DEF Ask, Answer, EarlyRequests
<1>5. CASE proveOVHdr(a)
    <2> DEFINE g == net[a].guid
               ov == vouchers[g]
               m1 == [t |-> "ProveOVHdr", hdr |-> ov.hdr, hmac |-> ov.hmac, owner |-> ownerKey, n |-> Len(ov.entries)]
               r1 == [EmptyRow EXCEPT !.guid = g, !.proveDv = TRUE, !.xsession = "begun"]
    <2>1. net[a].t = "HelloDevice" /\ UNCHANGED <<vouchers, running, job>>
        BY <1>5 DEF proveOVHdr, ownerVars
    <2>2. \/ row' = [row EXCEPT ![a] = r1] /\ Respond(a, m1, "live")
          \/ row' = [row EXCEPT ![a] = EmptyRow] /\ RespondError(a)
        BY <1>5, Zenon DEF proveOVHdr
    <2>3. m1.t = "ProveOVHdr" /\ r1.guid = g /\ r1.replGuid = Nil /\ r1.hmac = Nil
        BY DEF EmptyRow
    <2> HIDE DEF m1, r1
    <2>4. CASE row' = [row EXCEPT ![a] = r1] /\ Respond(a, m1, "live")
        <3>1. Answers(a, {"ProveOVHdr"}) /\ row'[a] = r1
            BY <1>0, <1>1, <2>3, <2>4 DEF Answers
        <3> QED
            BY <1>21, <2>1, <2>3, <3>1 DEF HandlerEffect, Greets, StaysPut, Answers
    <2>5. CASE row' = [row EXCEPT ![a] = EmptyRow] /\ RespondError(a)
        BY <1>0, <1>2, <1>21, <2>1, <2>5 DEF HandlerEffect, Rejects, Requests
    <2> QED
        BY <2>2, <2>4, <2>5
<1>6. CASE ovNextEntry(a)
    <2> DEFINE m1 == [t |-> "OVNextEntry", key |-> SessionVoucher(a).entries[net[a].i + 1]]
    <2>1. net[a].t = "GetOVNextEntry" /\ UNCHANGED <<vouchers, running, job, row>>
        BY <1>6 DEF ovNextEntry, ownerVars
    <2>2. RespondError(a) \/ (Respond(a, m1, "live"))
        BY <1>6, Zenon DEF ovNextEntry
    <2>3. m1.t = "OVNextEntry"
        OBVIOUS
    <2> HIDE DEF m1
    <2>4. CASE RespondError(a)
        BY <1>0, <1>2, <1>4, <1>21, <2>1, <2>4 DEF HandlerEffect, Rejects, Requests
    <2>5. CASE Respond(a, m1, "live")
        <3>1. Answers(a, {"OVNextEntry"})
            BY <1>1, <2>3, <2>5 DEF Answers
        <3> QED
            BY <1>21, <2>1, <2>5, <3>1 DEF HandlerEffect, SendsEntry, StaysPut, Answers
    <2> QED
        BY <2>2, <2>4, <2>5
<1>7. CASE setupDevice(a)
    <2>1. net[a].t = "ProveDevice" /\ UNCHANGED <<vouchers, running, job>>
        BY <1>7 DEF setupDevice
    <2>2. \/ /\ row[a].xsession = "begun"
             /\ \E g \in Guids, rv \in Rvs :
                   /\ replacementCredential(a, SessionVoucher(a), g, rv)
                   /\ Respond(a, [t |-> "SetupDevice", guid |-> g, rv |-> rv, owner2 |-> ownerKey], "live")
          \/ /\ RespondError(a)
             /\ row' = row \/ row' = [row EXCEPT ![a] = [@ EXCEPT !.setupDv = TRUE]]
        BY <1>7, Zenon DEF setupDevice
    <2>3. ASSUME row[a].xsession = "begun", NEW g \in Guids, NEW rv \in Rvs,
                 replacementCredential(a, SessionVoucher(a), g, rv),
                 Respond(a, [t |-> "SetupDevice", guid |-> g, rv |-> rv, owner2 |-> ownerKey], "live")
          PROVE  SetsUp(a)
        <3> DEFINE m1 == [t |-> "SetupDevice", guid |-> g, rv |-> rv, owner2 |-> ownerKey]
                   r1 == [row[a] EXCEPT !.setupDv = TRUE, !.xsession = "complete"]
                   r2 == [row[a] EXCEPT !.setupDv = TRUE, !.xsession = "complete", !.replGuid = g, !.rv = rv]
        <3>1. \/ row' = [row EXCEPT ![a] = r1]
              \/ g \in Guids \ used /\ row' = [row EXCEPT ![a] = r2]
            BY <2>3 DEF replacementCredential
        <3>2. /\ r1.guid = row[a].guid /\ r1.hmac = row[a].hmac /\ r1.replGuid = row[a].replGuid
              /\ r2.guid = row[a].guid /\ r2.hmac = row[a].hmac /\ r2.replGuid = g
            BY <1>0 DEF SessionRow
        <3>3. m1.t = "SetupDevice" /\ m1.guid = g
            OBVIOUS
        <3> HIDE DEF m1, r1, r2
        <3>4. net'[a] = Quiet \/ (~Over(a) /\ (net'[a] = m1 \/ net'[a].t = "Error"))
            BY <1>1, <2>3 DEF m1
        <3>5. row'[a] = r1 \/ (g \in Guids \ used /\ row'[a] = r2)
            BY <1>0, <3>1
        <3> QED
            BY <2>1, <2>3, <3>2, <3>3, <3>4, <3>5 DEF SetsUp, StaysPut, Answers, Quiet
    <2>4. ASSUME RespondError(a), row' = row \/ row' = [row EXCEPT ![a] = [@ EXCEPT !.setupDv = TRUE]]
          PROVE  Rejects(a)
        <3>1. SameCore(row'[a], row[a])
            BY <1>0, <1>4, <2>4 DEF SameCore, SessionRow
        <3> QED
            BY <1>2, <1>21, <2>1, <2>4, <3>1 DEF Rejects, Requests
    <2> QED
        BY <2>2, <2>3, <2>4 DEF HandlerEffect
<1>8. CASE ownerServiceInfoReady(a)
    <2> DEFINE m1 == [t |-> "OwnerReady"]
    <2>1. net[a].t = "DeviceReady" /\ UNCHANGED <<vouchers, running, job>>
        BY <1>8 DEF ownerServiceInfoReady, ownerVars
    <2>2. \/ (Respond(a, m1, "live") \/ RespondError(a))
             /\ row' = IF net[a].hmac = Nil THEN row ELSE [row EXCEPT ![a] = [@ EXCEPT !.hmac = net[a].hmac]]
          \/ RespondError(a) /\ UNCHANGED row
        BY <1>8, Zenon DEF ownerServiceInfoReady
    <2>3. m1.t = "OwnerReady"
        OBVIOUS
    <2> HIDE DEF m1
    <2>4. CASE RespondError(a) /\ UNCHANGED row
        BY <1>0, <1>2, <1>4, <1>21, <2>1, <2>4 DEF HandlerEffect, Rejects, Requests
    <2>5. CASE (Respond(a, m1, "live") \/ RespondError(a))
               /\ row' = IF net[a].hmac = Nil THEN row ELSE [row EXCEPT ![a] = [@ EXCEPT !.hmac = net[a].hmac]]
        <3>1. Answers(a, {"OwnerReady"})
            BY <1>1, <1>2, <2>3, <2>5 DEF Answers
        <3>2. /\ row'[a].guid = row[a].guid /\ row'[a].replGuid = row[a].replGuid /\ row'[a].rv = row[a].rv
              /\ row'[a].xsession = row[a].xsession
              /\ row'[a].hmac = IF net[a].hmac = Nil THEN row[a].hmac ELSE net[a].hmac
            BY <1>0, <2>5 DEF SessionRow
        <3> QED
            BY <2>1, <2>5, <3>1, <3>2 DEF HandlerEffect, TakesHmac, StaysPut
    <2> QED
        BY <2>2, <2>4, <2>5
<1>9. CASE ownerServiceInfo(a)
    <2>1. net[a].t = "DeviceInfo" /\ UNCHANGED <<vouchers, job>>
        BY <1>9 DEF ownerServiceInfo, ownerVars
    <2>2. SameCore(row'[a], row[a])
        <3> DEFINE r1 == [row[a] EXCEPT !.devmod = DevmodState(a)]
                   r2 == [row[a] EXCEPT !.devmod = "complete", !.modules = row[a].modules + 1]
                   r3 == [row[a] EXCEPT !.devmod = "complete"]
        <3>1. row' = row \/ \E r \in {r1, r2, r3} : row' = [row EXCEPT ![a] = r]
            BY <1>9 DEF ownerServiceInfo, ServiceInfoFails, produceOwnerServiceInfo
        <3>2. SameCore(r1, row[a]) /\ SameCore(r2, row[a]) /\ SameCore(r3, row[a])
            BY <1>0 DEF SameCore, SessionRow
        <3> HIDE DEF r1, r2, r3
        <3> QED
            BY <1>0, <1>4, <3>1, <3>2
    <2> DEFINE Said == \E m : Respond(a, m, "live") /\ m.t = "OwnerInfo"
               Cleaned == running' = [running EXCEPT ![a] = FALSE] \/ (~Decrypts(a) /\ UNCHANGED running)
    <2>3. (Decrypts(a) /\ Said) \/ (RespondError(a) /\ Cleaned)
        <3>1. ASSUME NEW b, NEW c, Respond(a, [t |-> "OwnerInfo", more |-> b, done |-> c], "live")
              PROVE  Said
            BY <3>1
        <3> HIDE DEF Said
        <3>2. produceOwnerServiceInfo(a) => Said
            BY <3>1, Zenon DEF produceOwnerServiceInfo
        <3> QED
            BY <1>9, <3>1, <3>2, Zenon DEF ownerServiceInfo, ServiceInfoFails
    <2>4. ASSUME RespondError(a), Cleaned
          PROVE  Rejects(a)
        <3>1. running'[a] => running[a] /\ ~Decrypts(a)
            BY <1>0, <2>4
        <3> QED
            BY <1>2, <1>21, <2>1, <2>2, <2>4, <3>1 DEF Rejects, Requests
    <2>5. ASSUME Decrypts(a), NEW m, Respond(a, m, "live"), m.t = "OwnerInfo"
          PROVE  AnswersInfo(a)
        BY <1>1, <1>22, <2>1, <2>2, <2>5 DEF AnswersInfo, Answers
    <2> QED
        BY <2>3, <2>4, <2>5 DEF HandlerEffect
<1>10. CASE to2Done2(a)
    <2> DEFINE m1 == [t |-> "Done2"]
               j1 == [st |-> "add", ov |-> ReplacementVoucher(a)]
    <2>1. net[a].t = "Done" /\ job[a] = NoJob /\ UNCHANGED <<vouchers, row>>
        BY <1>10 DEF to2Done2, ownerVars
    <2>2. \/ /\ running' = [running EXCEPT ![a] = FALSE] /\ row[a].hmac = Nil /\ Decrypts(a)
             /\ Respond(a, m1, "dead") /\ UNCHANGED job
          \/ /\ running' = [running EXCEPT ![a] = FALSE] /\ row[a].hmac # Nil /\ Decrypts(a)
             /\ HasEntries(SessionVoucher(a)) /\ row[a].replGuid # Nil
             /\ job' = [job EXCEPT ![a] = j1] /\ UNCHANGED net
          \/ /\ RespondError(a) /\ UNCHANGED job
             /\ running' = [running EXCEPT ![a] = FALSE] \/ (~Decrypts(a) /\ UNCHANGED running)
        BY <1>10, Zenon DEF to2Done2
    <2>3. m1.t = "Done2"
        OBVIOUS
    <2>7. LastHmac(a) = row[a].hmac /\ j1 = [st |-> "add", ov |-> [ReplacementVoucher(a) EXCEPT !.hmac = LastHmac(a)]]
        BY <2>1 DEF LastHmac, ReplacementVoucher
    <2> HIDE DEF m1, j1
    <2>4. CASE /\ running' = [running EXCEPT ![a] = FALSE] /\ row[a].hmac = Nil /\ Decrypts(a)
               /\ Respond(a, m1, "dead") /\ UNCHANGED job
        <3>1. Answers(a, {"Done2"})
            BY <1>1, <2>3, <2>4 DEF Answers
        <3> QED
            BY <1>0, <1>21, <2>1, <2>4, <2>7, <3>1 DEF HandlerEffect, Reuses
    <2>5. CASE /\ running' = [running EXCEPT ![a] = FALSE] /\ row[a].hmac # Nil /\ Decrypts(a)
               /\ HasEntries(SessionVoucher(a)) /\ row[a].replGuid # Nil
               /\ job' = [job EXCEPT ![a] = j1] /\ UNCHANGED net
        BY <1>0, <1>21, <2>1, <2>5, <2>7 DEF HandlerEffect, StartsReplace, HasEntries
    <2>6. CASE /\ RespondError(a) /\ UNCHANGED job
               /\ running' = [running EXCEPT ![a] = FALSE] \/ (~Decrypts(a) /\ UNCHANGED running)
        <3>1. running'[a] => running[a] /\ ~Decrypts(a)
            BY <1>0, <2>6
        <3> QED
            BY <1>0, <1>2, <1>4, <2>1, <2>6, <3>1 DEF HandlerEffect, Rejects, Requests
    <2> QED
        BY <2>2, <2>4, <2>5, <2>6
<1>11. CASE ReplaceAdd(a)
    <2> DEFINE j1 == [job[a] EXCEPT !.st = "remove"]
               g == job[a].ov.hdr.guid
    <2>1. job[a].st = "add" /\ job[a] # NoJob /\ UNCHANGED <<row, running>>
        BY <1>3, <1>11 DEF ReplaceAdd
    <2>2. \/ vouchers[g] = Nil /\ vouchers' = [vouchers EXCEPT ![g] = job[a].ov]
             /\ job' = [job EXCEPT ![a] = j1] /\ UNCHANGED <<net, sess>>
          \/ job' = [job EXCEPT ![a] = NoJob] /\ RespondError(a) /\ UNCHANGED vouchers
        BY <1>11, Zenon DEF ReplaceAdd
    <2>3. j1.st = "remove" /\ j1.ov = job[a].ov
        BY <1>0, <2>1
    <2> HIDE DEF j1
    <2>4. CASE vouchers[g] = Nil /\ vouchers' = [vouchers EXCEPT ![g] = job[a].ov]
               /\ job' = [job EXCEPT ![a] = j1] /\ UNCHANGED <<net, sess>>
        BY <1>0, <2>1, <2>3, <2>4 DEF HandlerEffect, Inserts
    <2>5. CASE job' = [job EXCEPT ![a] = NoJob] /\ RespondError(a) /\ UNCHANGED vouchers
        BY <1>0, <1>2, <1>4, <2>1, <2>5 DEF HandlerEffect, Rejects
    <2> QED
        BY <2>2, <2>4, <2>5
<1>12. CASE ReplaceRemove(a)
    <2> DEFINE j1 == [job[a] EXCEPT !.st = "undo"]
               m1 == [t |-> "Done2"]
    <2>1. job[a].st = "remove" /\ job[a] # NoJob /\ UNCHANGED <<row, running>>
        BY <1>3, <1>12 DEF ReplaceRemove
    <2>2. \/ vouchers[row[a].guid] # Nil /\ vouchers' = [vouchers EXCEPT ![row[a].guid] = Nil]
             /\ job' = [job EXCEPT ![a] = NoJob] /\ Respond(a, m1, "dead")
          \/ job' = [job EXCEPT ![a] = j1] /\ UNCHANGED <<vouchers, net, sess>>
        BY <1>12, Zenon DEF ReplaceRemove
    <2>3. j1.st = "undo" /\ j1.ov = job[a].ov /\ m1.t = "Done2"
        BY <1>0, <2>1
    <2> HIDE DEF j1, m1
    <2>4. CASE vouchers[row[a].guid] # Nil /\ vouchers' = [vouchers EXCEPT ![row[a].guid] = Nil]
               /\ job' = [job EXCEPT ![a] = NoJob] /\ Respond(a, m1, "dead")
        <3>1. Answers(a, {"Done2"})
            BY <1>1, <2>3, <2>4 DEF Answers
        <3> QED
            BY <1>0, <2>1, <2>4, <3>1 DEF HandlerEffect, Removes
    <2>5. CASE job' = [job EXCEPT ![a] = j1] /\ UNCHANGED <<vouchers, net, sess>>
        BY <1>0, <2>1, <2>3, <2>5 DEF HandlerEffect, KeepsOld
    <2> QED
        BY <2>2, <2>4, <2>5
<1>13. CASE ReplaceUndo(a)
    BY <1>0, <1>2, <1>3, <1>4, <1>13 DEF ReplaceUndo, HandlerEffect, Rejects
<1>14. CASE HandleError(a)
    BY <1>0, <1>14 DEF HandleError, HandlerEffect, CleansUp, ownerVars
<1>15. CASE helloDeviceAck20(a)
    <2> DEFINE m1 == [t |-> "HelloDeviceAck20"]
               r1 == [EmptyRow EXCEPT !.guid = net[a].guid, !.proveDv = TRUE]
    <2>1. net[a].t = "HelloDeviceProbe" /\ UNCHANGED <<vouchers, running, job>>
        BY <1>15 DEF helloDeviceAck20, ownerVars
    <2>2. \/ row' = [row EXCEPT ![a] = r1] /\ Respond(a, m1, "live")
          \/ row' = [row EXCEPT ![a] = EmptyRow] /\ RespondError(a)
        BY <1>15, Zenon DEF helloDeviceAck20
    <2>3. m1.t = "HelloDeviceAck20" /\ r1.guid = net[a].guid /\ r1.replGuid = Nil /\ r1.hmac = Nil
        BY DEF EmptyRow
    <2> HIDE DEF m1, r1
    <2>4. CASE row' = [row EXCEPT ![a] = r1] /\ Respond(a, m1, "live")
        <3>1. Answers(a, {"HelloDeviceAck20"}) /\ row'[a] = r1
            BY <1>0, <1>1, <2>3, <2>4 DEF Answers
        <3> QED
            BY <1>21, <2>1, <2>3, <3>1 DEF HandlerEffect, Greets, StaysPut, Answers
    <2>5. CASE row' = [row EXCEPT ![a] = EmptyRow] /\ RespondError(a)
        BY <1>0, <1>2, <1>21, <2>1, <2>5 DEF HandlerEffect, Rejects, Requests
    <2> QED
        BY <2>2, <2>4, <2>5
<1>16. CASE proveOVHdr20(a)
    <2> DEFINE ov == SessionVoucher(a)
               m1 == [t |-> "ProveOVHdr20", hdr |-> ov.hdr, hmac |-> ov.hmac,
                      owner |-> ownerKey, n |-> Len(ov.entries) % 256]
               r1 == [row[a] EXCEPT !.xsession = "complete"]
    <2>1. net[a].t = "ProveDevice20" /\ UNCHANGED <<vouchers, running, job>>
        BY <1>16 DEF proveOVHdr20, ownerVars
    <2>2. \/ row' = [row EXCEPT ![a] = r1] /\ Respond(a, m1, "live")
          \/ RespondError(a) /\ UNCHANGED row
        BY <1>16, Zenon DEF proveOVHdr20
    <2>3. m1.t = "ProveOVHdr20"
        OBVIOUS
    <2>4. r1.guid = row[a].guid /\ r1.replGuid = row[a].replGuid /\ r1.hmac = row[a].hmac
        BY <1>0 DEF SessionRow
    <2> HIDE DEF m1, r1
    <2>5. CASE row' = [row EXCEPT ![a] = r1] /\ Respond(a, m1, "live")
        <3>1. Answers(a, {"ProveOVHdr20"}) /\ row'[a] = r1
            BY <1>0, <1>1, <2>3, <2>5 DEF Answers
        <3> QED
            BY <2>1, <2>4, <2>5, <3>1 DEF HandlerEffect, ProvesOwner, StaysPut
    <2>6. CASE RespondError(a) /\ UNCHANGED row
        BY <1>0, <1>2, <1>4, <1>21, <2>1, <2>6 DEF HandlerEffect, Rejects, Requests
    <2> QED
        BY <2>2, <2>5, <2>6
<1>17. CASE ovNextEntry20(a)
    <2> DEFINE m1 == [t |-> "OVNextEntry20", key |-> SessionVoucher(a).entries[net[a].i + 1]]
    <2>1. net[a].t = "GetOVNextEntry20" /\ UNCHANGED <<vouchers, running, job, row>>
        BY <1>17 DEF ovNextEntry20, ownerVars
    <2>2. RespondError(a) \/ (Respond(a, m1, "live"))
        BY <1>17, Zenon DEF ovNextEntry20
    <2>3. m1.t = "OVNextEntry20"
        OBVIOUS
    <2> HIDE DEF m1
    <2>4. CASE RespondError(a)
        BY <1>0, <1>2, <1>4, <1>21, <2>1, <2>4 DEF HandlerEffect, Rejects, Requests
    <2>5. CASE Respond(a, m1, "live")
        <3>1. Answers(a, {"OVNextEntry20"})
            BY <1>1, <2>3, <2>5 DEF Answers
        <3> QED
            BY <1>21, <2>1, <2>5, <3>1 DEF HandlerEffect, SendsEntry, StaysPut, Answers
    <2> QED
        BY <2>2, <2>4, <2>5
<1>18. CASE setupDevice20(a)
    <2> DEFINE m1 == [t |-> "SetupDevice20", guid |-> Nil, rv |-> Nil]
               m2(g, rv) == [t |-> "SetupDevice20", guid |-> g, rv |-> rv]
               r1 == [row[a] EXCEPT !.setupDv = TRUE]
               r2(g, rv) == [row[a] EXCEPT !.setupDv = TRUE, !.replGuid = g, !.rv = rv]
    <2>1. net[a].t = "DeviceSvcInfoRdy20" /\ UNCHANGED <<vouchers, running, job>>
        BY <1>18 DEF setupDevice20
    <2>2. \/ row' = [row EXCEPT ![a] = r1] /\ Respond(a, m1, "live")
          \/ \E g \in Guids \ used, rv \in Rvs :
                row' = [row EXCEPT ![a] = r2(g, rv)] /\ Respond(a, m2(g, rv), "live")
          \/ RespondError(a) /\ UNCHANGED row
        BY <1>18, Zenon DEF setupDevice20
    <2>3. CASE row' = [row EXCEPT ![a] = r1] /\ Respond(a, m1, "live")
        <3>1. r1.guid = row[a].guid /\ r1.hmac = row[a].hmac /\ r1.replGuid = row[a].replGuid
            BY <1>0 DEF SessionRow
        <3>2. m1.t = "SetupDevice20" /\ m1.guid = Nil
            OBVIOUS
        <3> HIDE DEF m1, r1
        <3>3. /\ net'[a] = Quiet \/ (~Over(a) /\ (net'[a] = m1 \/ net'[a].t = "Error"))
              /\ row'[a] = r1
            BY <1>0, <1>1, <2>3
        <3> QED
            BY <2>1, <2>3, <3>1, <3>2, <3>3 DEF HandlerEffect, SetsUp20, StaysPut, Answers, Quiet
    <2>4. ASSUME NEW g \in Guids \ used, NEW rv \in Rvs,
                 row' = [row EXCEPT ![a] = r2(g, rv)], Respond(a, m2(g, rv), "live")
          PROVE  HandlerEffect(a)
        <3>1. /\ r2(g, rv).guid = row[a].guid /\ r2(g, rv).hmac = row[a].hmac /\ r2(g, rv).replGuid = g
              /\ m2(g, rv).t = "SetupDevice20" /\ m2(g, rv).guid = g
            BY <1>0 DEF SessionRow
        <3> HIDE DEF m2, r2
        <3>2. /\ net'[a] = Quiet \/ (~Over(a) /\ (net'[a] = m2(g, rv) \/ net'[a].t = "Error"))
              /\ row'[a] = r2(g, rv)
            BY <1>0, <1>1, <2>4
        <3> QED
            BY <2>1, <2>4, <3>1, <3>2 DEF HandlerEffect, SetsUp20, StaysPut, Answers, Quiet
    <2>5. CASE RespondError(a) /\ UNCHANGED row
        BY <1>0, <1>2, <1>4, <1>21, <2>1, <2>5 DEF HandlerEffect, Rejects, Requests
    <2> QED
        BY <2>2, <2>3, <2>4, <2>5
<1>19. CASE ownerSvcInfo20(a)
    <2> DEFINE m1 == [t |-> "OwnerSvcInfo20"]
    <2>1. net[a].t = "DeviceSvcInfo20" /\ UNCHANGED <<vouchers, job, row>>
        BY <1>19 DEF ownerSvcInfo20, ownerVars
    <2>2. \/ Decrypts(a) /\ Respond(a, m1, "live") /\ UNCHANGED running
          \/ RespondError(a) /\ running' = [running EXCEPT ![a] = FALSE]
        BY <1>19, Zenon DEF ownerSvcInfo20
    <2>3. m1.t = "OwnerSvcInfo20" /\ SameCore(row'[a], row[a])
        BY <1>0, <1>4, <2>1
    <2> HIDE DEF m1
    <2>4. CASE Decrypts(a) /\ Respond(a, m1, "live") /\ UNCHANGED running
        <3>1. Answers(a, {"OwnerSvcInfo20"}) /\ KeepsToken(a)
            BY <1>1, <1>22, <2>3, <2>4 DEF Answers
        <3> QED
            BY <2>1, <2>3, <2>4, <3>1 DEF HandlerEffect, AnswersInfo
    <2>5. CASE RespondError(a) /\ running' = [running EXCEPT ![a] = FALSE]
        <3>1. ~running'[a] /\ job[a] = NoJob
            BY <1>0, <1>21, <2>1, <2>5
        <3> QED
            BY <1>2, <2>1, <2>3, <2>5, <3>1 DEF HandlerEffect, Rejects, Requests
    <2> QED
        BY <2>2, <2>4, <2>5
<1>20. CASE doneAck20(a)
    <2> DEFINE m1 == [t |-> "Done2"]
               j1 == [st |-> "add", ov |-> ReplacementVoucher20(a)]
    <2>1. net[a].t = "Done20" /\ job[a] = NoJob /\ UNCHANGED <<vouchers, row>>
        BY <1>20 DEF doneAck20, ownerVars
    <2>2. /\ running' = IF Decrypts(a) THEN [running EXCEPT ![a] = FALSE] ELSE running
          /\ \/ net[a].hmac = Nil /\ Decrypts(a) /\ Respond(a, m1, "dead") /\ UNCHANGED job
             \/ /\ net[a].hmac # Nil /\ Decrypts(a)
                /\ HasEntries(SessionVoucher(a)) /\ row[a].replGuid # Nil
                /\ job' = [job EXCEPT ![a] = j1] /\ UNCHANGED net
             \/ RespondError(a) /\ UNCHANGED job
        BY <1>20, Zenon DEF doneAck20
    <2>3. m1.t = "Done2"
        OBVIOUS
    <2>4. LastHmac(a) = net[a].hmac /\ j1 = [st |-> "add", ov |-> [ReplacementVoucher(a) EXCEPT !.hmac = LastHmac(a)]]
        BY <2>1 DEF LastHmac, ReplacementVoucher20
    <2>5. running'[a] => running[a] /\ ~Decrypts(a)
        BY <1>0, <2>2
    <2> HIDE DEF m1, j1
    <2>6. CASE net[a].hmac = Nil /\ Decrypts(a) /\ Respond(a, m1, "dead") /\ UNCHANGED job
        <3>1. Answers(a, {"Done2"})
            BY <1>1, <2>3, <2>6 DEF Answers
        <3> QED
            BY <1>21, <2>1, <2>4, <2>5, <2>6, <3>1 DEF HandlerEffect, Reuses
    <2>7. CASE /\ net[a].hmac # Nil /\ Decrypts(a)
               /\ HasEntries(SessionVoucher(a)) /\ row[a].replGuid # Nil
               /\ job' = [job EXCEPT ![a] = j1] /\ UNCHANGED net
        BY <1>0, <1>21, <2>1, <2>4, <2>5, <2>7 DEF HandlerEffect, StartsReplace, HasEntries
    <2>8. CASE RespondError(a) /\ UNCHANGED job
        BY <1>0, <1>2, <1>4, <2>1, <2>5, <2>8 DEF HandlerEffect, Rejects, Requests
    <2> QED
        BY <2>2, <2>6, <2>7, <2>8
<1>23. CASE RefuseRequest(a)
    BY <1>0, <1>2, <1>4, <1>23 DEF RefuseRequest, ownerVars, HandlerEffect, Rejects
<1> QED
    BY <1>5, <1>6, <1>7, <1>8, <1>9, <1>10, <1>11, <1>12, <1>13, <1>14, <1>15, <1>16, <1>17, <1>18, <1>19, <1>20, <1>23
    DEF HandlerStep, Serve, ServerStep, ServerStep20

------------------------------------------------------------------------------
(* Steps by what they leave alone.                                           *)

\* Faults take the message and the job of a call.
LEMMA FaultEffects ==
    ASSUME TypesOK, NEW a \in Attempts, FaultStep(a)
    PROVE  /\ net'[a] = Quiet /\ job'[a] = NoJob
           /\ UNCHANGED <<clientVars, sess, row, running, ownerVars>>
BY DEF FaultStep, Lose, Crash, TypesOK, Types, sessionVars

\* A call starts with HelloDevice or HelloDeviceProbe, as the only one of its device.
LEMMA HelloEffects ==
    ASSUME TypesOK, NEW a \in Attempts, Hello(a)
    PROVE  /\ Idle(a) /\ pc'[a] = "hello" /\ dev'[a] \in Devices
           /\ net'[a].t \in Ask["hello"] /\ net'[a].guid = cred[dev'[a]].guid
           /\ \A b \in Attempts : dev[b] = dev'[a] => Over(b)
           /\ UNCHANGED <<cred, failedAt, repl, sess, row, running, job, ownerVars>>
<1>1. PICK d \in Devices : sendHelloDevice(a, d) \/ sendHelloDeviceProbe(a, d)
    BY DEF Hello
<1>2. dev'[a] = d /\ pc'[a] = "hello" /\ net'[a].t \in {"HelloDevice", "HelloDeviceProbe"}
      /\ net'[a].guid = cred[d].guid
    BY <1>1 DEF sendHelloDevice, sendHelloDeviceProbe, Send, TypesOK, Types
<1>3. /\ Idle(a) /\ \A b \in Attempts : dev[b] = d => Over(b)
      /\ UNCHANGED <<cred, failedAt, repl, sess, row, running, job, ownerVars>>
    BY <1>1 DEF sendHelloDevice, sendHelloDeviceProbe, sessionVars
<1> QED
    BY <1>2, <1>3 DEF Ask

\* A call is left alone by every step but its own.
LEMMA KeptOrStep ==
    ASSUME TypesOK, AnyStep, NEW b \in Attempts
    PROVE  Kept(b) \/ StepOf(b)
<1>1. CASE OwnerStep
    BY <1>1 DEF OwnerStep, Resell, AddVoucher, ReplaceOwnerKey, clientVars, sessionVars, Kept
<1>2. CASE UNCHANGED vars
    BY <1>2 DEF vars, clientVars, sessionVars, Kept
<1>3. ASSUME NEW a \in Attempts, StepOf(a) PROVE Kept(b) \/ StepOf(b)
    BY <1>3, OthersKept
<1> QED
    BY <1>1, <1>2, <1>3 DEF AnyStep, StepOf

------------------------------------------------------------------------------
(* Messages, jobs and replacements of a call agree.                          *)

\* Requests and responses, phase by phase.
LEMMA Phases ==
    /\ Ask["hello"] = {"HelloDevice", "HelloDeviceProbe"} /\ Answer["hello"] = {"ProveOVHdr", "HelloDeviceAck20"}
    /\ Ask["entry"] = {"GetOVNextEntry", "GetOVNextEntry20"} /\ Answer["entry"] = {"OVNextEntry", "OVNextEntry20"}
    /\ Ask["prove"] = {"ProveDevice", "ProveDevice20"} /\ Answer["prove"] = {"SetupDevice", "ProveOVHdr20"}
    /\ Ask["ready"] = {"DeviceReady", "DeviceSvcInfoRdy20"} /\ Answer["ready"] = {"OwnerReady", "SetupDevice20"}
    /\ Ask["info"] = {"DeviceInfo", "DeviceSvcInfo20"} /\ Answer["info"] = {"OwnerInfo", "OwnerSvcInfo20"}
    /\ Ask["done"] = {"Done", "Done20"} /\ Answer["done"] = {"Done2"}
    /\ Ask["more"] = {"DeviceInfo"} /\ Answer["more"] = {"OwnerInfo"}
    /\ Waiting = {"hello", "entry", "prove", "ready", "more", "info", "done"}
    /\ Requests = Ask["hello"] \cup Ask["entry"] \cup Ask["prove"] \cup Ask["ready"] \cup Ask["info"] \cup Ask["done"]
BY DEF Ask, Answer, Waiting, Requests

\* The header a device puts together, and its HMAC.
LEMMA DeviceHalf ==
    ASSUME TypesOK, LocalsOK, NEW a \in Attempts, net[a].guid # Nil,
           (pc[a] = "prove" /\ net[a].t = "SetupDevice") \/ (pc[a] = "ready" /\ net[a].t = "SetupDevice20")
    PROVE  /\ net[a].t = "SetupDevice" => /\ ReplacementOVH(a, net[a]) \in VoucherHeader
                                          /\ HmacOf(dev[a], ReplacementOVH(a, net[a])) \in Hmac
           /\ net[a].t = "SetupDevice20" => ReplacementOVH20(a, net[a]) \in VoucherHeader
<1>1. net[a].guid \in Guids /\ net[a].rv \in Rvs /\ (net[a].t = "SetupDevice" => net[a].owner2 \in Keys)
    <2>1. net[a] \in Message20
        BY DEF TypesOK, Types
    <2> QED
        BY <2>1, MessageFields
<1>2. dev[a] \in Devices /\ info[a] \in Info
    BY DEF LocalsOK, KnowsVoucher, Waiting
<1>3. info[a].hdr \in VoucherHeader /\ info[a].owner \in Keys
    BY <1>2 DEF Info
<1>4. net[a].t = "SetupDevice" => ReplacementOVH(a, net[a]) \in VoucherHeader
    BY <1>1, <1>3 DEF ReplacementOVH, VoucherHeader
<1>5. ReplacementOVH20(a, net[a]) \in VoucherHeader
    BY <1>1, <1>3 DEF ReplacementOVH20, VoucherHeader
<1> QED
    BY <1>2, <1>4, <1>5 DEF HmacOf, Hmac

\* What the device answers.
LEMMA DeviceCallOK ==
    ASSUME IndInv, NEW b \in Attempts, CallOK(b), Receive(b)
    PROVE  CallOK(b)'
<1> USE DEF IndInv, Agreed
<1>0. /\ InFlightOK(b) /\ HmacTells(b) /\ SessionOK(b)
      /\ pc[b] \in Waiting \cup {"idle", "ok", "failed"} /\ net[b] \in Message20
    BY DEF CallOK, SessionsOK, TypesOK, Types
<1>1. row' = row /\ job' = job /\ dev' = dev
    BY DeviceFrame, DeviceKeepsDev DEF ClientStep
<1>2. pc[b] \notin {"ready", "more", "info", "done"} => repl[b] = Nil
    BY DEF ReplsOK
<1>3. Nil \notin VoucherHeader /\ Nil \notin Hmac /\ Nil \notin Guids
    BY NilAssumption, ConstantsAssumption
<1>4. ASSUME NEW p \in Waiting, pc'[b] = p, net'[b].t \in Ask[p]
      PROVE  InFlightOK(b)'
    BY <1>4 DEF InFlightOK
<1>5. job[b] # NoJob => net[b].t \in {"Done", "Done20"}
    BY DEF CallOK
<1>6. CASE DeviceFails(b)
    <2>1. InFlightOK(b)'
        BY <1>0, <1>6, Phases DEF DeviceFails, InFlightOK, Quiet
    <2>2. HmacTells(b)'
        BY <1>6, Phases DEF DeviceFails, HmacTells, Over
    <2> QED
        BY <1>0, <1>1, <1>6, <2>1, <2>2, Phases DEF DeviceFails, CallOK, Quiet, LastHmac
<1>7. CASE DeviceAsks(b)
    <2>1. PICK p \in {"entry", "prove", "ready"} :
              Gives(b, p) /\ (p = "ready" => net'[b].t = "DeviceSvcInfoRdy20")
        BY <1>7 DEF DeviceAsks
    <2>2. InFlightOK(b)'
        BY <1>4, <2>1, Phases DEF Gives
    <2>3. net[b].t \notin {"Done", "Done20"} /\ row[b].hmac = Nil /\ repl'[b] = Nil
        BY <1>0, <1>2, <1>7, Phases DEF DeviceAsks, InFlightOK, CallOK
    <2>4. net'[b].t \in {"GetOVNextEntry", "GetOVNextEntry20", "ProveDevice", "ProveDevice20", "DeviceSvcInfoRdy20"}
        BY <2>1, Phases DEF Gives
    <2> QED
        BY <1>1, <1>5, <2>2, <2>3, <2>4 DEF HmacTells, CallOK
<1>8. CASE DeviceSetsUp(b)
    <2>1. /\ pc[b] = "prove" /\ net[b].t = "SetupDevice" /\ Gives(b, "ready") /\ net'[b].t = "DeviceReady"
          /\ net[b].guid # Nil
        BY <1>0, <1>3, <1>8, MessageFields DEF DeviceSetsUp
    <2>2. InFlightOK(b)'
        BY <1>4, <2>1, Phases DEF Gives
    <2>3. row[b].hmac = Nil /\ job[b] = NoJob /\ repl[b] = Nil
        BY <1>2, <1>5, <2>1 DEF CallOK
    <2>4. row[b].replGuid # Nil => net[b].guid = row[b].replGuid
        BY <2>1 DEF CallOK
    <2>5. ReplacementOVH(b, net[b]) # Nil /\ HmacOf(dev[b], ReplacementOVH(b, net[b])) # Nil
          /\ ReplacementOVH(b, net[b]).guid = net[b].guid
        <3>1. /\ ReplacementOVH(b, net[b]) \in VoucherHeader
              /\ HmacOf(dev[b], ReplacementOVH(b, net[b])) \in Hmac
            <4>1. TypesOK /\ LocalsOK
                OBVIOUS
            <4> QED
                BY <2>1, <4>1, DeviceHalf
        <3>2. ReplacementOVH(b, net[b]).guid = net[b].guid
            BY DEF ReplacementOVH
        <3> QED
            BY <1>3, <3>1, <3>2
    <2>6. HmacTells(b)' /\ (repl'[b] # Nil => repl'[b].guid = net[b].guid)
        BY <1>8, <2>1, <2>3, <2>5 DEF DeviceSetsUp, HmacTells
    <2> QED
        BY <1>1, <2>1, <2>2, <2>3, <2>4, <2>6 DEF CallOK
<1>9. CASE DeviceSetsUp20(b)
    <2>1. /\ pc[b] = "ready" /\ net[b].t = "SetupDevice20" /\ Gives(b, "info") /\ net'[b].t = "DeviceSvcInfo20"
          /\ repl'[b] = IF net[b].guid = Nil THEN repl[b] ELSE ReplacementOVH20(b, net[b])
        BY <1>9 DEF DeviceSetsUp20
    <2>2. InFlightOK(b)'
        BY <1>4, <2>1, Phases DEF Gives
    <2>3. job[b] = NoJob
        BY <1>5, <2>1
    <2>4. row[b].replGuid # Nil /\ repl'[b] # Nil => repl'[b].guid = row[b].replGuid
        BY <2>1 DEF CallOK, ReplacementOVH20
    <2> QED
        BY <1>1, <2>1, <2>2, <2>3, <2>4 DEF Gives, HmacTells, CallOK
<1>10. CASE DeviceInforms(b)
    <2>1. PICK p \in {"more", "info", "done"} : Gives(b, p)
        BY <1>10 DEF DeviceInforms
    <2>2. InFlightOK(b)'
        BY <1>4, <2>1, Phases DEF Gives
    <2>3. job[b] = NoJob /\ repl'[b] = repl[b] /\ pc[b] \in {"ready", "more", "info"}
        BY <1>5, <1>10 DEF DeviceInforms
    <2>4. HmacTells(b)'
        <3>1. dev[b] \in Devices /\ repl[b] \in VoucherHeader \cup {Nil}
            BY <2>3 DEF LocalsOK, Waiting, TypesOK, Types
        <3>2. repl[b] # Nil => HmacOf(dev[b], repl[b]) \in Hmac
            BY <3>1 DEF HmacOf, Hmac
        <3>3. net[b].t \in {"OwnerReady", "OwnerInfo"} => (row[b].hmac = Nil <=> repl[b] = Nil)
            BY <1>0, <2>3 DEF HmacTells, Over
        <3>4. CASE net[b].t \in {"OwnerReady", "OwnerInfo"} /\ net'[b].t \in {"DeviceInfo", "Done"}
            BY <1>1, <2>3, <3>3, <3>4 DEF HmacTells
        <3>5. CASE net'[b].t = "DeviceSvcInfo20"
            BY <3>5 DEF HmacTells
        <3>6. CASE net'[b].t = "Done20" /\ net'[b].hmac = IF repl[b] = Nil THEN Nil ELSE HmacOf(dev[b], repl[b])
            BY <1>3, <2>3, <3>2, <3>6 DEF HmacTells
        <3> QED
            BY <1>10, <3>4, <3>5, <3>6 DEF DeviceInforms
    <2>5. net'[b].t \in {"DeviceInfo", "DeviceSvcInfo20", "Done", "Done20"} /\ pc'[b] \in {"more", "info", "done"}
        BY <2>1, Phases DEF Gives
    <2> QED
        BY <1>1, <2>2, <2>3, <2>4, <2>5 DEF CallOK
<1>11. CASE DeviceFinishes(b)
    BY <1>1, <1>5, <1>11 DEF DeviceFinishes, CallOK, InFlightOK, HmacTells, Quiet
<1> QED
    BY <1>6, <1>7, <1>8, <1>9, <1>10, <1>11, DeviceEffects DEF DeviceEffect

\* What a handler answers.
LEMMA HandlerCallOK ==
    ASSUME IndInv, NEW b \in Attempts, CallOK(b), HandlerStep(b)
    PROVE  CallOK(b)'
<1> USE DEF IndInv, Agreed
<1>0. /\ InFlightOK(b) /\ HmacTells(b) /\ SessionOK(b)
      /\ pc[b] \in Waiting \cup {"idle", "ok", "failed"} /\ net[b] \in Message20
    BY DEF CallOK, SessionsOK, TypesOK, Types
<1>1. pc' = pc /\ failedAt' = failedAt /\ repl' = repl
    BY ServerClient DEF clientVars
<1>2. HandlerEffect(b)
    BY HandlerEffects, Phases DEF CallOK
<1>3. pc[b] \notin {"ready", "more", "info", "done"} \/ net[b].t \in {"ProveDevice", "DeviceSvcInfoRdy20"} => repl[b] = Nil
    BY DEF ReplsOK
<1>4. job[b] # NoJob => net[b].t \in {"Done", "Done20"}
    BY DEF CallOK
<1>5. ASSUME NEW T, Answers(b, T), net[b].t \in Requests,
             T = {"Error"} \/ \A p \in Waiting : net[b].t \in Ask[p] => T \subseteq Answer[p]
      PROVE  InFlightOK(b)' /\ net'[b].t \in {"none", "Error"} \cup T
    <2>1. ~Over(b) => pc[b] \in Waiting /\ net[b].t \in Ask[pc[b]]
        BY <1>0, <1>5, Phases DEF InFlightOK, Over
    <2>2. ~Over(b) => T \subseteq Answer[pc[b]] \cup {"Error"}
        BY <1>5, <2>1
    <2> QED
        BY <1>1, <1>5, <2>1, <2>2 DEF Answers, InFlightOK, Quiet
<1>6. CASE Rejects(b)
    <2>1. net[b].t \in Requests
        BY <1>4, <1>6, Phases DEF Rejects
    <2>2. InFlightOK(b)' /\ net'[b].t \in {"none", "Error"}
        BY <1>5, <1>6, <2>1 DEF Rejects
    <2>3. CASE SameCore(row'[b], row[b])
        BY <1>1, <1>6, <2>2, <2>3 DEF Rejects, SameCore, HmacTells, CallOK
    <2>4. CASE net[b].t \in Ask["hello"] /\ row'[b] = EmptyRow
        BY <1>1, <1>6, <2>2, <2>4 DEF Rejects, HmacTells, CallOK, EmptyRow
    <2> QED
        BY <1>6, <2>3, <2>4 DEF Rejects
<1>7. CASE Greets(b)
    <2>1. InFlightOK(b)' /\ net'[b].t \in {"none", "Error", "ProveOVHdr", "HelloDeviceAck20"}
        BY <1>5, <1>7, Phases DEF Greets
    <2>2. job'[b] = NoJob
        BY <1>4, <1>7, Phases DEF Greets, StaysPut
    <2> QED
        BY <1>1, <1>7, <2>1, <2>2 DEF Greets, HmacTells, CallOK
<1>8. CASE SendsEntry(b)
    <2>1. InFlightOK(b)' /\ net'[b].t \in {"none", "Error", "OVNextEntry", "OVNextEntry20"}
        BY <1>5, <1>8, Phases DEF SendsEntry
    <2>2. job'[b] = NoJob
        BY <1>4, <1>8, Phases DEF SendsEntry, StaysPut
    <2> QED
        BY <1>1, <1>8, <2>1, <2>2 DEF SendsEntry, HmacTells, CallOK
<1>9. CASE ProvesOwner(b)
    <2>1. InFlightOK(b)' /\ net'[b].t \in {"none", "Error", "ProveOVHdr20"}
        BY <1>5, <1>9, Phases DEF ProvesOwner
    <2>2. job'[b] = NoJob
        BY <1>4, <1>9 DEF ProvesOwner, StaysPut
    <2> QED
        BY <1>1, <1>9, <2>1, <2>2 DEF ProvesOwner, HmacTells, CallOK
<1>10. CASE SetsUp(b) \/ SetsUp20(b)
    <2>1. InFlightOK(b)' /\ net'[b].t \in {"none", "Error", "SetupDevice", "SetupDevice20"}
        BY <1>5, <1>10, Phases DEF SetsUp, SetsUp20
    <2>2. job'[b] = NoJob /\ repl[b] = Nil /\ row'[b].hmac = row[b].hmac
        BY <1>3, <1>4, <1>10 DEF SetsUp, SetsUp20, StaysPut
    <2>3. row[b].replGuid = Nil
        BY <1>0, <1>10 DEF SetsUp, SetsUp20, SessionOK, BeforeSetup20
    <2>4. row'[b].replGuid # Nil => net'[b].t \in {"none", "Error"} \/ net'[b].guid = row'[b].replGuid
        BY <1>10, <2>3 DEF SetsUp, SetsUp20, Quiet
    <2> QED
        BY <1>1, <2>1, <2>2, <2>4 DEF HmacTells, CallOK
<1>11. CASE TakesHmac(b)
    <2>1. InFlightOK(b)' /\ net'[b].t \in {"none", "Error", "OwnerReady"}
        BY <1>5, <1>11, Phases DEF TakesHmac
    <2>2. pc[b] \in {"ready", "failed"} /\ row[b].hmac = Nil /\ job'[b] = NoJob
        BY <1>0, <1>4, <1>11, Phases DEF TakesHmac, StaysPut, CallOK, InFlightOK
    <2>3. HmacTells(b)'
        BY <1>0, <1>1, <1>11, <2>1, <2>2 DEF TakesHmac, HmacTells, Answers, Over, Quiet
    <2> QED
        BY <1>1, <1>11, <2>1, <2>2, <2>3 DEF TakesHmac, CallOK
<1>12. CASE AnswersInfo(b)
    <2>1. /\ InFlightOK(b)' /\ net'[b].t \in {"none", "Error", "OwnerInfo", "OwnerSvcInfo20"}
          /\ net'[b].t = "OwnerInfo" => net[b].t = "DeviceInfo"
        BY <1>5, <1>12, Phases DEF AnswersInfo
    <2>2. job'[b] = NoJob
        BY <1>4, <1>12 DEF AnswersInfo
    <2>3. HmacTells(b)'
        BY <1>0, <1>1, <1>12, <2>1 DEF AnswersInfo, SameCore, HmacTells, Over
    <2> QED
        BY <1>1, <1>12, <2>1, <2>2, <2>3 DEF AnswersInfo, SameCore, CallOK
<1>13. CASE Reuses(b)
    <2>1. InFlightOK(b)' /\ net'[b].t \in {"none", "Error", "Done2"}
        BY <1>5, <1>13, Phases DEF Reuses
    <2> QED
        BY <1>1, <1>13, <2>1 DEF Reuses, HmacTells, CallOK
<1>14. CASE StartsReplace(b) \/ Inserts(b) \/ KeepsOld(b)
    <2>1. net' = net /\ row' = row /\ net[b].t \in {"Done", "Done20"} /\ LastHmac(b) # Nil /\ row[b].replGuid # Nil
        BY <1>14, Phases DEF StartsReplace, Inserts, KeepsOld, CallOK, NoJob
    <2> QED
        BY <1>0, <1>1, <2>1 DEF HmacTells, CallOK, InFlightOK, LastHmac, Over
<1>15. CASE Removes(b)
    <2>1. net[b].t \in {"Done", "Done20"}
        BY <1>4, <1>15 DEF Removes, NoJob
    <2>2. InFlightOK(b)' /\ net'[b].t \in {"none", "Error", "Done2"}
        BY <1>5, <1>15, <2>1, Phases DEF Removes
    <2> QED
        BY <1>1, <1>15, <2>2 DEF Removes, HmacTells, CallOK
<1>16. CASE CleansUp(b)
    BY <1>0, <1>1, <1>16 DEF CleansUp, HmacTells, CallOK, InFlightOK, LastHmac, Over
<1> QED
    BY <1>2, <1>6, <1>7, <1>8, <1>9, <1>10, <1>11, <1>12, <1>13, <1>14, <1>15, <1>16 DEF HandlerEffect

\* Every step keeps them so.
LEMMA NextCallsOK == IndInv /\ CallsOK /\ AnyStep => CallsOK'
<1> SUFFICES ASSUME IndInv, CallsOK, AnyStep, NEW b \in Attempts
             PROVE  CallOK(b)'
    BY DEF CallsOK
<1> USE DEF IndInv, Agreed
<1>0. CallOK(b) /\ SessionOK(b)
    BY DEF CallsOK, SessionsOK
<1>1. CASE Kept(b)
    BY <1>0, <1>1 DEF Kept, CallOK, InFlightOK, HmacTells, LastHmac, Over
<1>2. CASE Hello(b)
    <2>1. /\ pc'[b] = "hello" /\ net'[b].t \in {"HelloDevice", "HelloDeviceProbe"}
          /\ row'[b] = EmptyRow /\ job'[b] = NoJob
        BY <1>0, <1>2, HelloEffects, Phases DEF SessionOK
    <2> QED
        BY <2>1, Phases DEF CallOK, InFlightOK, HmacTells, EmptyRow
<1>3. CASE FaultStep(b)
    BY <1>0, <1>3, FaultEffects DEF clientVars, CallOK, InFlightOK, HmacTells, Quiet
<1> QED
    BY <1>0, <1>1, <1>2, <1>3, DeviceCallOK, HandlerCallOK, KeptOrStep DEF StepOf, ClientStep

\* Every step keeps owner modules to their sessions.
LEMMA NextModulesOK == IndInv /\ CallsOK /\ ModulesOK /\ AnyStep => ModulesOK'
<1> SUFFICES ASSUME IndInv, CallsOK, ModulesOK, AnyStep, NEW b \in Attempts
             PROVE  ModuleOK(b)'
    BY DEF ModulesOK
<1> USE DEF IndInv, Agreed
<1>0. CallOK(b) /\ InFlightOK(b) /\ ModuleOK(b) /\ SessionOK(b)
    BY DEF CallsOK, CallOK, ModulesOK, SessionsOK
<1>1. CASE Kept(b)
    BY <1>0, <1>1 DEF Kept, ModuleOK, At
<1>2. ASSUME Hello(b)
      PROVE  ModuleOK(b)'
    <2>1. Idle(b) /\ running'[b] = running[b]
        BY <1>2, HelloEffects
    <2> QED
        BY <1>0, <2>1 DEF ModuleOK, At, Idle
<1>3. ASSUME Receive(b)
      PROVE  ModuleOK(b)'
    <2>1. UNCHANGED <<sess, row, running, job>>
        BY <1>3, DeviceFrame DEF ClientStep
    <2>2. CASE DeviceFails(b)
        BY <1>0, <2>1, <2>2 DEF DeviceFails, ModuleOK, At, Quiet, Waiting
    <2>3. CASE DeviceAsks(b) \/ DeviceSetsUp(b) \/ DeviceSetsUp20(b)
        <3>1. pc[b] \in {"hello", "entry", "prove", "ready"}
            BY <2>3 DEF DeviceAsks, DeviceSetsUp, DeviceSetsUp20
        <3> QED
            BY <1>0, <2>1, <3>1 DEF ModuleOK, At
    <2>5. CASE DeviceInforms(b)
        <3>1. pc'[b] \in {"more", "info", "done"} /\ net'[b].t # "Done2"
            BY <2>5, Phases DEF DeviceInforms, Gives
        <3> QED
            BY <1>0, <2>1, <3>1 DEF ModuleOK, At
    <2>4. CASE DeviceFinishes(b)
        BY <1>0, <2>1, <2>4 DEF DeviceFinishes, ModuleOK
    <2> QED
        BY <1>3, <2>2, <2>3, <2>4, <2>5, DeviceEffects DEF DeviceEffect
<1>4. ASSUME HandlerStep(b)
      PROVE  ModuleOK(b)'
    <2>1. UNCHANGED <<pc, failedAt>>
        BY <1>4, ServerClient DEF clientVars
    <2>2. HandlerEffect(b)
        BY <1>0, <1>4, HandlerEffects, Phases DEF CallOK
    <2>3. running[b] => net[b].t \notin EarlyRequests
        <3>1. running[b] => \E p \in {"more", "info", "done"} : pc[b] = p \/ (pc[b] = "failed" /\ failedAt[b] = p)
            BY <1>0 DEF ModuleOK, At
        <3> QED
            BY <1>0, <3>1, Phases DEF InFlightOK, EarlyRequests
    <2>4. CASE Rejects(b)
        <3>1. running'[b] => running[b] /\ (KeepsToken(b) \/ ~Decrypts(b) \/ job[b] # NoJob)
            BY <2>3, <2>4 DEF Rejects
        <3>2. running'[b] => sess'[b] \in {"live", "cut"} /\ row[b].xsession = "complete" /\ job[b] = NoJob
            BY <1>0, <2>4, <3>1 DEF ModuleOK, Decrypts, KeepsToken, Rejects
        <3>3. net'[b].t # "Done2"
            BY <2>4 DEF Rejects, Answers, Quiet
        <3>4. running'[b] => net[b].t \notin Ask["hello"]
            BY <2>3, <3>1 DEF EarlyRequests
        <3> QED
            BY <1>0, <2>1, <2>4, <3>1, <3>2, <3>3, <3>4 DEF ModuleOK, At, Rejects, SameCore
    <2>5. CASE Greets(b) \/ SendsEntry(b) \/ ProvesOwner(b) \/ SetsUp(b) \/ SetsUp20(b) \/ TakesHmac(b)
        <3>1. net[b].t \in EarlyRequests /\ running'[b] = running[b]
            BY <2>5, Phases DEF Greets, SendsEntry, ProvesOwner, SetsUp, SetsUp20, TakesHmac, StaysPut, EarlyRequests
        <3> QED
            BY <2>3, <3>1 DEF ModuleOK
    <2>6. CASE AnswersInfo(b)
        <3>1. (At(b, "more") \/ At(b, "info")) /\ job[b] = NoJob
            BY <1>0, <2>6, Phases DEF AnswersInfo, CallOK, InFlightOK, At
        <3>2. net'[b].t # "Done2"
            BY <2>6 DEF AnswersInfo, Answers, Quiet
        <3> QED
            BY <2>1, <2>6, <3>1, <3>2 DEF AnswersInfo, ModuleOK, At, Decrypts, SameCore, KeepsToken
    <2>7. CASE Reuses(b) \/ StartsReplace(b)
        BY <2>7 DEF Reuses, StartsReplace, ModuleOK
    <2>9. CASE CleansUp(b)
        <3>1. ModulesBusy(b) => job[b] = NoJob /\ row[b].xsession = "complete" /\ net[b].t # "Done2"
                                /\ (At(b, "more") \/ At(b, "info"))
            BY <1>0, Phases DEF ModulesBusy, Decrypts, CallOK, InFlightOK, At
        <3> QED
            BY <2>1, <2>9, <3>1 DEF CleansUp, ModuleOK, At
    <2>8. CASE Inserts(b) \/ Removes(b) \/ KeepsOld(b)
        BY <1>0, <2>8 DEF Inserts, Removes, KeepsOld, ModuleOK, NoJob
    <2> QED
        BY <2>2, <2>4, <2>5, <2>6, <2>7, <2>8, <2>9 DEF HandlerEffect
<1>5. ASSUME FaultStep(b)
      PROVE  ModuleOK(b)'
    BY <1>0, <1>5, FaultEffects DEF clientVars, ModuleOK, At, Quiet
<1> QED
    BY <1>1, <1>2, <1>3, <1>4, <1>5, KeptOrStep DEF StepOf, ClientStep

------------------------------------------------------------------------------
(* The names of devices.                                                     *)

\* A call that succeeded is over.
LEMMA OkStays ==
    ASSUME TypesOK, AnyStep, NEW b \in Attempts, pc[b] = "ok"
    PROVE  pc'[b] = "ok"
<1>1. ASSUME ClientStep(b) PROVE FALSE
    BY <1>1, HelloEffects, DeviceEffects
       DEF ClientStep, Idle, DeviceEffect, DeviceFails, DeviceAsks, DeviceSetsUp, DeviceSetsUp20,
           DeviceInforms, DeviceFinishes, Waiting
<1>2. HandlerStep(b) \/ FaultStep(b) => pc' = pc
    BY ServerClient, FaultEffects DEF clientVars
<1> QED
    BY <1>1, <1>2, KeptOrStep DEF StepOf, Kept

GoesByNext(d, g) ==
    \/ d \in Devices /\ InitGuid[d] = g
    \/ \E a \in Attempts : dev'[a] = d /\ pc'[a] = "ok" /\ row'[a].replGuid = g

\* A GUID a device went by stays one.
LEMMA GoesByStable ==
    ASSUME TypesOK, SessionsOK, AnyStep, NEW d, NEW g \in Guids, GoesBy(d, g)
    PROVE  GoesByNext(d, g)
<1>1. CASE d \in Devices /\ InitGuid[d] = g
    BY <1>1 DEF GoesByNext
<1>2. ASSUME NEW a \in Attempts, dev[a] = d, pc[a] = "ok", row[a].replGuid = g
      PROVE  GoesByNext(d, g)
    BY <1>2, OkStays, Stable DEF GoesByNext
<1> QED
    BY <1>1, <1>2 DEF GoesBy

\* It belongs to the device.
LEMMA GoesByBelongs ==
    ASSUME NEW d, NEW g, GoesBy(d, g)
    PROVE  Belongs(g, d)
BY DEF GoesBy, Belongs

\* No device goes by the replacement of a call that has not succeeded.
LEMMA NotAName ==
    ASSUME GuidsOK, NEW a \in Attempts, row[a].replGuid # Nil, pc[a] # "ok", NEW d, GoesBy(d, row[a].replGuid)
    PROVE  FALSE
BY DEF GuidsOK, GoesBy

\* Credentials change when a call succeeds with a replacement.
LEMMA CredChanges ==
    ASSUME TypesOK, AnyStep
    PROVE  \/ cred' = cred
           \/ \E a \in Attempts : /\ Receive(a)
                                  /\ DeviceFinishes(a) /\ repl[a] # Nil
<1>1. ASSUME NEW a \in Attempts, Receive(a)
      PROVE  cred' = cred \/ (DeviceFinishes(a) /\ repl[a] # Nil)
    BY <1>1, DeviceEffects
       DEF DeviceEffect, DeviceFails, DeviceAsks, DeviceSetsUp, DeviceSetsUp20, DeviceInforms, Gives,
           DeviceFinishes
<1>2. ASSUME NEW a \in Attempts, Hello(a)
      PROVE  cred' = cred
    BY <1>2, HelloEffects
<1>3. ASSUME NEW a \in Attempts, HandlerStep(a) \/ FaultStep(a)
      PROVE  cred' = cred
    BY <1>3, ServerClient, FaultEffects DEF clientVars
<1>4. OwnerStep => cred' = cred
    BY OwnerFrame DEF clientVars
<1>5. UNCHANGED vars => cred' = cred
    BY DEF vars, clientVars
<1> QED
    BY <1>1, <1>2, <1>3, <1>4, <1>5 DEF AnyStep, ClientStep

\* Only the first handler gives a session its GUID, and none sends a HelloDevice.
LEMMA HandlerNames ==
    ASSUME TypesOK, CallsOK, NEW b \in Attempts, HandlerStep(b)
    PROVE  /\ net'[b] = net[b] \/ net'[b].t \notin Ask["hello"]
           /\ \/ row'[b].guid \in {row[b].guid, Nil}
              \/ net[b].t \in Ask["hello"] /\ row'[b].guid = net[b].guid
<1>1. HandlerEffect(b)
    BY HandlerEffects, Phases DEF CallsOK, CallOK
<1>2. net'[b] = net[b] \/ net'[b].t \notin Ask["hello"]
    BY <1>1, Phases DEF HandlerEffect, Rejects, Greets, SendsEntry, ProvesOwner, SetsUp, SetsUp20,
       TakesHmac, AnswersInfo, Reuses, StartsReplace, Inserts, Removes, KeepsOld, CleansUp, Answers, Quiet
<1>3. \/ row'[b].guid \in {row[b].guid, Nil}
      \/ net[b].t \in Ask["hello"] /\ row'[b].guid = net[b].guid
    BY <1>1 DEF HandlerEffect, Rejects, Greets, SendsEntry, ProvesOwner, SetsUp, SetsUp20, TakesHmac,
       AnswersInfo, Reuses, StartsReplace, Inserts, Removes, KeepsOld, CleansUp, SameCore, EmptyRow
<1> QED
    BY <1>2, <1>3

\* Every step keeps the names of devices and sessions.
LEMMA NextNamesOK == IndInv /\ CallsOK /\ NamesOK /\ ReplacementsOK /\ AnyStep => NamesOK'
<1> SUFFICES ASSUME IndInv, CallsOK, NamesOK, ReplacementsOK, AnyStep PROVE NamesOK'
    OBVIOUS
<1> USE DEF IndInv, Agreed
<1>1. ASSUME NEW d, NEW g \in Guids, GoesBy(d, g) PROVE GoesByNext(d, g)
    BY <1>1, GoesByStable
<1>2. ASSUME NEW d \in Devices PROVE GoesByNext(d, cred'[d].guid)
    <2>1. GoesByNext(d, cred[d].guid)
        <3>1. cred[d].guid \in Guids
            BY DEF TypesOK, Types, DeviceCredential
        <3>2. GoesBy(d, cred[d].guid)
            BY DEF NamesOK
        <3> QED
            BY <3>1, <3>2, GoesByStable
    <2>2. ASSUME NEW a \in Attempts, Receive(a), DeviceFinishes(a), repl[a] # Nil
          PROVE  cred'[d].guid = cred[d].guid \/ GoesByNext(d, cred'[d].guid)
        <3>1. row' = row /\ dev' = dev
            BY <2>2, DeviceFrame, DeviceKeepsDev DEF ClientStep
        <3>2. cred'[dev[a]].guid = repl[a].guid \/ dev[a] \notin Devices
            BY <2>2 DEF DeviceFinishes, TypesOK, Types
        <3>3. repl[a].guid = row[a].replGuid
            BY <2>2 DEF DeviceFinishes, CallsOK, CallOK, ReplacementsOK, ReplacedOK
        <3>4. d # dev[a] => cred'[d] = cred[d]
            BY <2>2 DEF DeviceFinishes, TypesOK, Types
        <3> QED
            BY <2>2, <3>1, <3>2, <3>3, <3>4 DEF DeviceFinishes, GoesByNext
    <2> QED
        BY <2>1, <2>2, CredChanges
<1>3. ASSUME NEW b \in Attempts
      PROVE  /\ net'[b].t \in Ask["hello"] => GoesByNext(dev'[b], net'[b].guid)
             /\ row'[b].guid # Nil => GoesByNext(dev'[b], row'[b].guid)
    <2>0. /\ row[b] \in SessionRow /\ net[b] \in Message20
          /\ net[b].t \in Ask["hello"] => GoesBy(dev[b], net[b].guid) /\ net[b].guid \in Guids
          /\ row[b].guid # Nil => GoesBy(dev[b], row[b].guid) /\ row[b].guid \in Guids
        BY MessageFields, Phases DEF NamesOK, TypesOK, Types, SessionRow
    <2>1. CASE /\ dev'[b] = dev[b]
               /\ net'[b] = net[b] \/ net'[b].t \notin Ask["hello"]
               /\ \/ row'[b].guid \in {row[b].guid, Nil}
                  \/ net[b].t \in Ask["hello"] /\ row'[b].guid = net[b].guid
        BY <1>1, <2>0, <2>1
    <2>2. CASE Kept(b)
        BY <2>1, <2>2 DEF Kept
    <2>3. ASSUME Hello(b)
          PROVE  /\ net'[b].t \in Ask["hello"] => GoesByNext(dev'[b], net'[b].guid)
                 /\ row'[b].guid # Nil => GoesByNext(dev'[b], row'[b].guid)
        <3>1. row'[b].guid = Nil
            BY <2>3, HelloEffects DEF SessionsOK, SessionOK, EmptyRow
        <3>2. \A d \in Devices : GoesBy(d, cred[d].guid) /\ cred[d].guid \in Guids
            BY DEF NamesOK, TypesOK, Types, DeviceCredential
        <3>3. dev'[b] \in Devices /\ net'[b].guid = cred[dev'[b]].guid
            BY <2>3, HelloEffects
        <3> QED
            BY <1>1, <3>1, <3>2, <3>3
    <2>4. CASE Receive(b)
        <3>1. dev' = dev /\ row' = row
            BY <2>4, DeviceFrame, DeviceKeepsDev DEF ClientStep
        <3>2. net'[b] = net[b] \/ net'[b].t \notin Ask["hello"]
            BY <2>4, DeviceMoves, Phases
        <3> QED
            BY <2>1, <3>1, <3>2
    <2>5. CASE HandlerStep(b)
        <3>1. dev' = dev
            BY <2>5, ServerClient DEF clientVars
        <3> QED
            BY <2>1, <2>5, <3>1, HandlerNames
    <2>6. CASE FaultStep(b)
        BY <2>1, <2>6, FaultEffects, Phases DEF clientVars, Quiet
    <2> QED
        BY <2>2, <2>3, <2>4, <2>5, <2>6, KeptOrStep DEF StepOf, ClientStep
<1> QED
    BY <1>2, <1>3 DEF NamesOK, GoesBy, GoesByNext

------------------------------------------------------------------------------
(* Which vouchers a step adds and removes.                                   *)

\* A GUID not drawn yet names no voucher.
LEMMA FreshNotHeld ==
    ASSUME TypesOK, GuidsOK, VouchersOK, NEW g \in Guids \ used
    PROVE  ~Held(g)
<1> SUFFICES ASSUME NEW h \in Headers, h.guid = g PROVE FALSE
    BY HeldHeader
<1> QED
    BY HeaderFacts DEF Belongs, GuidsOK

\* ReplaceVoucher, seen from the vouchers held.
Adds(a) ==
    /\ job[a] # NoJob /\ ~Pending(a) /\ ~Held(row[a].replGuid)
    /\ Inserts(a) /\ Headers' = Headers \cup {job[a].ov.hdr}
Replaces(a) ==
    /\ job[a].st = "remove" /\ Removes(a)
    /\ \E h \in Headers : h.guid = row[a].guid /\ Headers' = Headers \ {h}
Undoes(a) ==
    /\ job[a].st = "undo" /\ Rejects(a)
    /\ \E h \in Headers : h.guid = row[a].replGuid /\ Headers' = Headers \ {h}

\* A handler changes the vouchers held in these ways only.
LEMMA HandlerHeaders ==
    ASSUME IndInv, CallsOK, OnePlace, ReplacementsOK, NEW a \in Attempts, HandlerStep(a)
    PROVE  /\ OnePlace'
           /\ \/ Headers' = Headers /\ ~Inserts(a) /\ ~Removes(a)
              \/ Adds(a) \/ Replaces(a) \/ Undoes(a)
<1> USE DEF IndInv, Agreed
<1>0. /\ transit' = transit
      /\ vouchers \in [Guids -> OptVoucher] /\ row[a] \in SessionRow
      /\ job[a] \in {NoJob} \cup [st : {"add", "remove", "undo"}, ov : Voucher]
      /\ NoJob.st = "none"
    BY ServerClient DEF TypesOK, Types, NoJob
<1>1. UNCHANGED vouchers => OnePlace' /\ Headers' = Headers
    BY <1>0 DEF OnePlace, Headers, HeldVouchers, Stored
<1>2. ASSUME job[a] # NoJob
      PROVE  /\ job[a].ov \in Voucher /\ job[a].ov.hdr.guid = row[a].replGuid
             /\ row[a].replGuid \in Guids /\ row[a].guid \in Guids
    <2>1. row[a].replGuid # Nil /\ row[a].guid # Nil
        BY <1>2 DEF CallsOK, CallOK, SessionsOK, SessionOK
    <2> QED
        BY <1>0, <1>2, <2>1 DEF VouchersOK, SessionRow
<1>3. ASSUME NEW g \in Guids, vouchers' = [vouchers EXCEPT ![g] = Nil]
      PROVE  OnePlace' /\ (Headers' = Headers \/ \E h \in Headers : h.guid = g /\ Headers' = Headers \ {h})
    <2>1. CASE vouchers[g] = Nil
        BY <1>0, <1>1, <1>3, <2>1
    <2>2. CASE vouchers[g] # Nil
        BY <1>0, <1>3, <2>2, RemoveHeaders
    <2> QED
        BY <2>1, <2>2
<1>4. CASE Inserts(a)
    <2>1. job[a] # NoJob /\ ~Pending(a) /\ vouchers' = [vouchers EXCEPT ![job[a].ov.hdr.guid] = job[a].ov]
        BY <1>0, <1>4 DEF Inserts, Pending
    <2>2. ~Held(row[a].replGuid)
        BY <1>2, <2>1 DEF ReplacementsOK, ReplacedOK, Finished
    <2>3. Headers' = Headers \cup {job[a].ov.hdr} /\ OnePlace'
        BY <1>0, <1>2, <2>1, <2>2, InsertHeaders
    <2> QED
        BY <1>4, <2>1, <2>2, <2>3 DEF Adds
<1>5. CASE Removes(a)
    <2>1. job[a].st = "remove" /\ job[a] # NoJob /\ vouchers[row[a].guid] # Nil
          /\ vouchers' = [vouchers EXCEPT ![row[a].guid] = Nil]
        BY <1>0, <1>5 DEF Removes
    <2>2. /\ Headers' = Headers \ {vouchers[row[a].guid].hdr} /\ OnePlace'
          /\ vouchers[row[a].guid].hdr.guid = row[a].guid /\ vouchers[row[a].guid].hdr \in Headers
        BY <1>0, <1>2, <2>1, RemoveHeaders
    <2> QED
        BY <1>5, <2>1, <2>2 DEF Replaces
<1>6. CASE Rejects(a) /\ job[a].st = "undo" /\ ~Inserts(a) /\ ~Removes(a)
    <2>1. job[a] # NoJob
        BY <1>0, <1>6
    <2>2. UNCHANGED vouchers \/ vouchers' = [vouchers EXCEPT ![row[a].replGuid] = Nil]
        BY <1>2, <1>6, <2>1 DEF Rejects
    <2> QED
        BY <1>1, <1>2, <1>3, <1>6, <2>1, <2>2 DEF Undoes
<1>7. HandlerEffect(a)
    BY HandlerEffects, Phases DEF CallsOK, CallOK
<1>8. CASE UNCHANGED vouchers /\ ~Inserts(a) /\ ~Removes(a)
    BY <1>1, <1>8
<1> QED
    BY <1>4, <1>5, <1>6, <1>7, <1>8
       DEF HandlerEffect, Rejects, Greets, SendsEntry, ProvesOwner, SetsUp, SetsUp20, TakesHmac,
           AnswersInfo, Reuses, StartsReplace, KeepsOld, CleansUp, StaysPut

\* No other step changes the vouchers held, and none splits one.
LEMMA HeadersChange ==
    ASSUME IndInv, CallsOK, OnePlace, ReplacementsOK, AnyStep
    PROVE  /\ OnePlace'
           /\ \/ Headers' = Headers
              \/ \E a \in Attempts : HandlerStep(a) /\ (Adds(a) \/ Replaces(a) \/ Undoes(a))
<1> USE DEF IndInv, Agreed
<1>1. ASSUME UNCHANGED <<vouchers, transit>>
      PROVE  OnePlace' /\ Headers' = Headers
    BY <1>1 DEF OnePlace, Headers, HeldVouchers, Stored
<1>2. ASSUME NEW a \in Attempts, ClientStep(a) \/ FaultStep(a) PROVE UNCHANGED <<vouchers, transit>>
    BY <1>2, DeviceFrame, FaultFrame
<1>3. UNCHANGED vars => UNCHANGED <<vouchers, transit>>
    BY DEF vars, ownerVars
<1> QED
    BY <1>1, <1>2, <1>3, HandlerHeaders, OwnerHeaders DEF AnyStep

\* A replacement that may be taken back, or of a call that is not done, is not
\* what another session removes.
LEMMA NotRemoved ==
    ASSUME IndInv, NamesOK, NEW a \in Attempts, row[a].guid # Nil,
           NEW b \in Attempts, row[b].replGuid # Nil, pc[b] # "ok"
    PROVE  row[a].guid # row[b].replGuid
BY NotAName DEF IndInv, Agreed, NamesOK

\* While ReplaceVoucher is at work its device waits or has given up.
LEMMA JobCall ==
    ASSUME IndInv, CallsOK, NEW a \in Attempts, job[a] # NoJob
    PROVE  /\ net[a].t \in {"Done", "Done20"} /\ pc[a] \in {"done", "failed"} /\ At(a, "done")
           /\ row[a].replGuid \in Guids /\ row[a].guid \in Guids /\ LastHmac(a) # Nil
           /\ Belongs(row[a].guid, dev[a])
           /\ pc[a] = "done" => repl[a] # Nil
<1>1. net[a].t \in {"Done", "Done20"} /\ row[a].replGuid # Nil /\ LastHmac(a) # Nil /\ InFlightOK(a) /\ HmacTells(a)
    BY DEF CallsOK, CallOK
<1>2. row[a].guid # Nil /\ Belongs(row[a].guid, dev[a])
    BY <1>1 DEF IndInv, Agreed, SessionsOK, SessionOK
<1>3. pc[a] \in {"done", "failed"} /\ At(a, "done")
    BY <1>1, Phases DEF InFlightOK, At
<1>4. pc[a] = "done" => repl[a] # Nil
    BY <1>1 DEF HmacTells, LastHmac, Over
<1> QED
    BY <1>1, <1>2, <1>3, <1>4 DEF IndInv, Agreed, TypesOK, Types, SessionRow

\* Held in the next state, for a GUID of this one.
HeldNext(g) == \E h \in Headers' : h.guid = g

\* The replacement of a session is added by its own ReplaceVoucher, and taken
\* away only by it unless the device goes by it.
LEMMA HeldReplacement ==
    ASSUME IndInv, CallsOK, NamesOK, OnePlace, ReplacementsOK, AnyStep,
           NEW b \in Attempts, row[b].replGuid # Nil
    PROVE  /\ HeldNext(row[b].replGuid) => Held(row[b].replGuid) \/ Adds(b)
           /\ Held(row[b].replGuid) /\ pc[b] # "ok" => HeldNext(row[b].replGuid) \/ Undoes(b)
<1>1. Held(row[b].replGuid) <=> \E h \in Headers : h.guid = row[b].replGuid
    BY HeldHeader
<1>2. CASE Headers' = Headers
    BY <1>1, <1>2 DEF HeldNext
<1>3. ASSUME NEW a \in Attempts, HandlerStep(a), Adds(a)
      PROVE  /\ HeldNext(row[b].replGuid) => Held(row[b].replGuid) \/ Adds(b)
             /\ Held(row[b].replGuid) => HeldNext(row[b].replGuid)
    <2>1. job[a].ov.hdr.guid = row[a].replGuid /\ Headers' = Headers \cup {job[a].ov.hdr}
        BY <1>3 DEF Adds, IndInv, Agreed, VouchersOK
    <2>2. row[a].replGuid = row[b].replGuid => a = b
        BY DEF IndInv, Agreed, GuidsOK
    <2> QED
        BY <1>1, <1>3, <2>1, <2>2 DEF HeldNext
<1>4. ASSUME NEW a \in Attempts, HandlerStep(a), Replaces(a)
      PROVE  /\ HeldNext(row[b].replGuid) => Held(row[b].replGuid)
             /\ Held(row[b].replGuid) /\ pc[b] # "ok" => HeldNext(row[b].replGuid)
    <2>1. PICK h \in Headers : h.guid = row[a].guid /\ Headers' = Headers \ {h}
        BY <1>4 DEF Replaces
    <2>2. row[a].guid # Nil
        BY <1>4, JobCall DEF Replaces, NoJob
    <2>3. pc[b] # "ok" => row[a].guid # row[b].replGuid
        BY <2>2, NotRemoved
    <2> QED
        BY <1>1, <2>1, <2>3 DEF HeldNext
<1>5. ASSUME NEW a \in Attempts, HandlerStep(a), Undoes(a)
      PROVE  /\ HeldNext(row[b].replGuid) => Held(row[b].replGuid)
             /\ Held(row[b].replGuid) => HeldNext(row[b].replGuid) \/ Undoes(b)
    <2>1. PICK h \in Headers : h.guid = row[a].replGuid /\ Headers' = Headers \ {h}
        BY <1>5 DEF Undoes
    <2>2. row[a].replGuid = row[b].replGuid => a = b
        BY DEF IndInv, Agreed, GuidsOK
    <2> QED
        BY <1>1, <1>5, <2>1, <2>2 DEF HeldNext
<1> QED
    BY <1>2, <1>3, <1>4, <1>5, HeadersChange

\* Every step keeps the replacements where they should be.
LEMMA NextReplacementsOK ==
    IndInv /\ CallsOK /\ NamesOK /\ OnePlace /\ ReplacementsOK /\ AnyStep => ReplacementsOK'
<1> SUFFICES ASSUME IndInv, CallsOK, NamesOK, OnePlace, ReplacementsOK, AnyStep, NEW b \in Attempts
             PROVE  ReplacedOK(b)'
    BY DEF ReplacementsOK
<1> DEFINE g == row[b].replGuid
           Told == net'[b].t = "Done2" /\ repl'[b] # Nil
           Goal1 == row'[b].replGuid # Nil /\ HeldNext(row'[b].replGuid) => (Pending(b) \/ Finished(b))'
           Goal2 == job'[b].st = "remove" \/ Told => row'[b].replGuid # Nil /\ HeldNext(row'[b].replGuid)
<1> SUFFICES Goal1 /\ Goal2
    BY DEF ReplacedOK, Held, Headers, HeldNext
<1>0. /\ TypesOK /\ CallOK(b) /\ InFlightOK(b) /\ SessionOK(b) /\ ReplacedOK(b)
      /\ NoJob.st = "none"
    BY DEF IndInv, Agreed, CallsOK, CallOK, SessionsOK, ReplacementsOK, NoJob
<1>1. g # Nil => /\ HeldNext(g) => Held(g) \/ Adds(b)
                 /\ Held(g) /\ pc[b] # "ok" => HeldNext(g) \/ Undoes(b)
    BY HeldReplacement
<1>2. job[b] # NoJob => net[b].t \in {"Done", "Done20"} /\ pc[b] \in {"done", "failed"}
    BY JobCall
<1>3. /\ Adds(b) => Inserts(b) /\ job[b].st = "add" /\ job'[b].st = "remove"
      /\ Undoes(b) => job[b].st = "undo" /\ job'[b] = NoJob
    BY DEF Adds, Inserts, Undoes, Rejects
<1>4. repl[b] # Nil => pc[b] # "ok"
    BY DEF IndInv, Agreed, ReplsOK
<1> HIDE DEF Goal1, Goal2
<1>5. CASE Kept(b)
    <2>1. Goal1
        BY <1>0, <1>1, <1>3, <1>5 DEF Goal1, Kept, ReplacedOK, Pending, Finished
    <2>2. Goal2
        BY <1>0, <1>1, <1>2, <1>3, <1>4, <1>5 DEF Goal2, Kept, ReplacedOK
    <2> QED
        BY <2>1, <2>2
<1>6. ASSUME Hello(b)
      PROVE  Goal1 /\ Goal2
    <2>1. /\ Idle(b) /\ net'[b].t \in {"HelloDevice", "HelloDeviceProbe"} /\ row' = row /\ job' = job
        BY <1>0, <1>6, HelloEffects, Phases
    <2> QED
        BY <1>0, <2>1 DEF SessionOK, EmptyRow, Goal1, Goal2
<1>7. ASSUME UNCHANGED <<vouchers, transit>> PROVE HeldNext(g) => Held(g)
    BY <1>7 DEF HeldNext, Held, Headers, HeldVouchers, Stored
<1>8. CASE Receive(b)
    <2>1. UNCHANGED <<row, job, vouchers, transit>>
        BY <1>8, DeviceFrame DEF ClientStep
    <2>2. DeviceEffect(b)
        BY <1>0, <1>8, DeviceEffects
    <2>3. Goal1
        <3>1. CASE DeviceFails(b) \/ DeviceFinishes(b)
            BY <1>0, <1>2, <1>7, <2>1, <3>1, Phases
               DEF Goal1, ReplacedOK, Pending, Finished, DeviceFails, DeviceFinishes, Quiet
        <3>2. CASE DeviceAsks(b) \/ DeviceSetsUp(b) \/ DeviceSetsUp20(b) \/ DeviceInforms(b)
            <4>1. pc[b] \in {"hello", "entry", "prove", "ready", "more", "info"}
                BY <3>2 DEF DeviceAsks, DeviceSetsUp, DeviceSetsUp20, DeviceInforms
            <4>2. ~Pending(b) /\ ~Finished(b)
                BY <1>0, <1>2, <4>1 DEF Pending, Finished
            <4> QED
                BY <1>0, <1>7, <2>1, <4>2 DEF Goal1, ReplacedOK
        <3> QED
            BY <2>2, <3>1, <3>2 DEF DeviceEffect
    <2>4. ~Told
        <3>1. CASE DeviceFails(b) \/ DeviceFinishes(b)
            BY <3>1 DEF DeviceFails, DeviceFinishes
        <3>2. CASE DeviceAsks(b) \/ DeviceSetsUp(b) \/ DeviceSetsUp20(b) \/ DeviceInforms(b)
            BY <3>2, Phases DEF DeviceAsks, DeviceSetsUp, DeviceSetsUp20, DeviceInforms, Gives
        <3> QED
            BY <2>2, <3>1, <3>2 DEF DeviceEffect
    <2>5. Goal2
        BY <1>0, <1>1, <1>2, <1>3, <2>1, <2>4 DEF Goal2, ReplacedOK
    <2> QED
        BY <2>3, <2>5
<1>9. CASE HandlerStep(b)
    <2>1. UNCHANGED <<pc, repl>>
        BY <1>9, ServerClient DEF clientVars
    <2>2. HandlerEffect(b)
        BY <1>0, <1>9, HandlerEffects, Phases DEF CallOK
    <2>3. CASE Rejects(b)
        <3>1. job'[b].st = "none" /\ ~Told /\ net'[b].t \in {"none", "Error"} /\ ~Adds(b)
            BY <1>0, <1>3, <2>3 DEF Rejects, Answers, Quiet
        <3>2. CASE row'[b] = EmptyRow
            BY <3>1, <3>2 DEF EmptyRow, Goal1, Goal2
        <3>3. CASE SameCore(row'[b], row[b])
            BY <1>0, <1>1, <1>2, <2>1, <2>3, <3>1, <3>3
               DEF Rejects, SameCore, Goal1, Goal2, ReplacedOK, Pending, Finished
        <3> QED
            BY <2>3, <3>2, <3>3 DEF Rejects
    <2>4. CASE Greets(b)
        BY <1>0, <1>2, <2>4, Phases DEF Greets, StaysPut, Answers, Quiet, Goal1, Goal2
    <2>5. CASE SendsEntry(b) \/ ProvesOwner(b) \/ TakesHmac(b) \/ AnswersInfo(b)
        <3>1. /\ row'[b].replGuid = g /\ job'[b] = job[b] /\ net'[b].t # "Done2"
              /\ net[b].t \notin {"Done", "Done20", "none", "Done2", "Error"}
            BY <2>5, Phases DEF SendsEntry, ProvesOwner, TakesHmac, AnswersInfo, StaysPut, Answers, Quiet, SameCore
        <3> QED
            BY <1>0, <1>1, <1>2, <1>3, <3>1 DEF Goal1, Goal2, ReplacedOK, Pending, Finished
    <2>6. CASE SetsUp(b) \/ SetsUp20(b)
        <3>1. job[b] = NoJob /\ job'[b] = NoJob /\ ~Told /\ g = Nil
            BY <1>0, <1>2, <2>6 DEF SetsUp, SetsUp20, StaysPut, Answers, Quiet, SessionOK, BeforeSetup20
        <3>2. ASSUME row'[b].replGuid \in Guids \ used PROVE ~HeldNext(row'[b].replGuid)
            <4>1. ~Held(row'[b].replGuid)
                BY <3>2, FreshNotHeld DEF IndInv, Agreed
            <4>2. UNCHANGED <<vouchers, transit>>
                BY <1>9, <2>6, ServerClient DEF SetsUp, SetsUp20, StaysPut
            <4> QED
                BY <4>1, <4>2 DEF HeldNext, Held, Headers, HeldVouchers, Stored
        <3> QED
            BY <1>0, <2>6, <3>1, <3>2 DEF SetsUp, SetsUp20, Goal1, Goal2
    <2>7. CASE Reuses(b)
        <3>1. ~Told
            <4>1. ~Over(b) => pc[b] = "done"
                BY <1>0, <2>7, Phases DEF Reuses, InFlightOK, Over
            <4>2. HmacTells(b) /\ LastHmac(b) = Nil /\ net[b].t \in {"Done", "Done20"}
                BY <1>0, <2>7, Phases DEF Reuses, CallOK
            <4>3. ~Over(b) => repl[b] = Nil
                BY <4>1, <4>2 DEF HmacTells, LastHmac
            <4> QED
                BY <2>1, <2>7, <4>3 DEF Reuses, Answers, Quiet
        <3> QED
            BY <1>0, <1>1, <1>3, <2>7, <3>1, Phases DEF Reuses, Goal1, Goal2, ReplacedOK, Pending, Finished
    <2>8. CASE StartsReplace(b)
        BY <1>0, <1>1, <1>3, <2>8, Phases DEF StartsReplace, Goal1, Goal2, ReplacedOK, Pending, Finished
    <2>9. CASE Inserts(b)
        <3>1. Adds(b)
            <4>1. ~Replaces(b) /\ ~Undoes(b)
                BY <2>9 DEF Inserts, Replaces, Undoes
            <4> QED
                BY <1>9, <2>9, <4>1, HandlerHeaders
        <3>2. g # Nil /\ HeldNext(g)
            <4>1. job[b].ov.hdr.guid = g /\ g # Nil
                BY <1>0, <3>1 DEF Adds, IndInv, Agreed, VouchersOK, CallOK
            <4> QED
                BY <3>1, <4>1 DEF Adds, HeldNext
        <3> QED
            BY <2>9, <3>2 DEF Inserts, Goal1, Goal2, Pending
    <2>10. CASE Removes(b)
        <3>1. job[b] # NoJob /\ job'[b] = NoJob /\ net'[b].t \in {"none", "Error", "Done2"} /\ row' = row
              /\ job[b].st = "remove"
            BY <1>0, <2>10 DEF Removes, Answers, Quiet
        <3>2. Goal1
            BY <1>2, <2>1, <3>1 DEF Goal1, Finished
        <3>3. g # Nil /\ HeldNext(g)
            BY <1>0, <1>1, <1>2, <1>3, <3>1 DEF ReplacedOK
        <3> QED
            BY <3>1, <3>2, <3>3 DEF Goal2
    <2>11. CASE KeepsOld(b)
        BY <1>0, <1>2, <2>11 DEF KeepsOld, Goal1, Goal2, Pending
    <2>12. CASE CleansUp(b)
        <3>1. HeldNext(g) => Held(g)
            BY <1>7, <1>9, <2>12, ServerClient DEF CleansUp
        <3>2. Goal1
            BY <1>0, <2>1, <2>12, <3>1 DEF CleansUp, Goal1, ReplacedOK, Pending, Finished
        <3>3. Goal2
            BY <1>0, <1>1, <1>2, <1>3, <1>4, <2>1, <2>12 DEF CleansUp, Goal2, ReplacedOK
        <3> QED
            BY <3>2, <3>3
    <2> QED
        BY <2>2, <2>3, <2>4, <2>5, <2>6, <2>7, <2>8, <2>9, <2>10, <2>11, <2>12 DEF HandlerEffect
<1>10. CASE FaultStep(b)
    <2>1. /\ net'[b] = Quiet /\ job'[b] = NoJob /\ UNCHANGED <<row, pc, vouchers, transit>>
        BY <1>0, <1>10, FaultEffects DEF clientVars, ownerVars
    <2> QED
        BY <1>0, <1>2, <1>7, <2>1 DEF Goal1, Goal2, Quiet, ReplacedOK, Pending, Finished
<1> QED
    BY <1>0, <1>5, <1>6, <1>8, <1>9, <1>10, KeptOrStep DEF StepOf, ClientStep

------------------------------------------------------------------------------
(* No device is left without a voucher, or with one it does not accept.      *)

\* A job that may still take its voucher back keeps the GUID it was given.
LEMMA PendingKept ==
    ASSUME IndInv, CallsOK, AnyStep, NEW a \in Attempts, Pending(a)'
    PROVE  /\ row'[a].replGuid = row[a].replGuid
           /\ Pending(a) \/ (HandlerStep(a) /\ Inserts(a))
<1>0. TypesOK /\ NoJob.st = "none" /\ Quiet.t = "none"
    BY DEF IndInv, Agreed, NoJob, Quiet
<1>1. CASE Kept(a)
    BY <1>1 DEF Kept, Pending
<1>2. CASE ClientStep(a)
    BY <1>2, DeviceFrame DEF Pending
<1>3. CASE FaultStep(a)
    BY <1>0, <1>3, FaultEffects DEF Pending
<1>4. CASE HandlerStep(a)
    <2>1. HandlerEffect(a)
        BY <1>0, <1>4, HandlerEffects, Phases DEF CallsOK, CallOK
    <2>2. job[a].st \in {"remove", "undo"} => net[a].t \in {"Done", "Done20"}
        BY <1>0, JobCall
    <2> QED
        BY <1>0, <1>4, <2>1, <2>2, Phases
           DEF HandlerEffect, Rejects, Greets, SendsEntry, ProvesOwner, SetsUp, SetsUp20, TakesHmac, AnswersInfo,
               Reuses, StartsReplace, Inserts, Removes, KeepsOld, CleansUp, StaysPut, Pending, SameCore
<1> QED
    BY <1>0, <1>1, <1>2, <1>3, <1>4, KeptOrStep DEF StepOf

\* Every step leaves every device a voucher nobody takes back.
LEMMA NextSettledOK ==
    IndInv /\ CallsOK /\ NamesOK /\ OnePlace /\ ReplacementsOK /\ SettledOK /\ AnyStep => SettledOK'
<1> SUFFICES ASSUME IndInv, CallsOK, NamesOK, OnePlace, ReplacementsOK, SettledOK, AnyStep,
                    NEW d \in Devices
             PROVE  \E h \in Headers' : /\ h.dev = d
                                        /\ \A a \in Attempts : Pending(a)' => row'[a].replGuid # h.guid
    BY DEF SettledOK
<1>0. /\ TypesOK /\ GuidsOK /\ VouchersOK /\ NoJob.st = "none"
    BY DEF IndInv, Agreed, NoJob
<1>1. PICK h \in Headers : h.dev = d /\ \A a \in Attempts : Pending(a) => row[a].replGuid # h.guid
    BY DEF SettledOK
<1>2. \A a \in Attempts : Pending(a)' => row'[a].replGuid # h.guid
    <2> SUFFICES ASSUME NEW a \in Attempts, Pending(a)', row[a].replGuid = h.guid PROVE FALSE
        BY PendingKept
    <2>1. HandlerStep(a) /\ Inserts(a)
        BY <1>1, PendingKept
    <2>2. Adds(a)
        <3>1. ~Replaces(a) /\ ~Undoes(a)
            BY <2>1 DEF Inserts, Replaces, Undoes
        <3> QED
            BY <2>1, <3>1, HandlerHeaders
    <2>3. ~Held(row[a].replGuid)
        BY <2>2 DEF Adds
    <2> QED
        BY <1>1, <2>3, HeldHeader
<1>3. CASE h \in Headers'
    BY <1>1, <1>2, <1>3
<1>4. ASSUME NEW a \in Attempts, HandlerStep(a), Undoes(a)
      PROVE  h \in Headers'
    BY <1>1, <1>4 DEF Undoes, Pending
<1>5. ASSUME NEW a \in Attempts, HandlerStep(a), Replaces(a), h \notin Headers'
      PROVE  \E k \in Headers' : /\ k.dev = d
                                 /\ \A b \in Attempts : Pending(b)' => row'[b].replGuid # k.guid
    <2>1. h.guid = row[a].guid /\ Headers' = Headers \ {h} /\ job[a].st = "remove" /\ job'[a] = NoJob
        BY <1>1, <1>5 DEF Replaces, Removes
    <2>2. /\ row[a].replGuid \in Guids /\ row[a].guid \in Guids /\ row[a].replGuid # Nil /\ row[a].guid # Nil
          /\ Belongs(row[a].guid, dev[a]) /\ pc[a] # "ok"
        BY <1>0, <2>1, JobCall
    <2>3. PICK k \in Headers : k.guid = row[a].replGuid
        BY <2>1, HeldHeader DEF ReplacementsOK, ReplacedOK
    <2>4. dev[a] = d
        BY <1>0, <1>1, <2>1, <2>2, HeaderFacts, BelongsUnique
    <2>5. k.dev = d
        <3>1. Belongs(row[a].replGuid, dev[a])
            BY DEF Belongs
        <3> QED
            BY <1>0, <2>2, <2>3, <2>4, <3>1, HeaderFacts, BelongsUnique
    <2>6. k.guid # h.guid
        BY <2>1, <2>2, <2>3, NotRemoved
    <2>7. ASSUME NEW b \in Attempts, Pending(b)' PROVE row'[b].replGuid # k.guid
        <3>1. b # a
            BY <1>0, <2>1, <2>7 DEF Pending
        <3>2. row'[b].replGuid = row[b].replGuid
            BY <2>7, PendingKept
        <3> QED
            BY <1>0, <2>2, <2>3, <3>1, <3>2 DEF GuidsOK
    <2> QED
        BY <2>1, <2>3, <2>5, <2>6, <2>7
<1>6. \A a \in Attempts : Adds(a) => h \in Headers'
    BY DEF Adds
<1> QED
    BY <1>1, <1>3, <1>4, <1>5, <1>6, HeadersChange

\* A last request that was sent stays so until the call succeeds.
LEMMA DoneForKept ==
    ASSUME IndInv, CallsOK, AnyStep, NEW a \in Attempts, NEW d \in Devices, DoneFor(a, d),
           cred'[d] = cred[d], pc'[a] # "ok"
    PROVE  DoneFor(a, d)'
<1>0. TypesOK /\ CallOK(a) /\ InFlightOK(a) /\ Quiet.t = "none" /\ pc[a] \in {"done", "failed"}
    BY DEF IndInv, Agreed, CallsOK, CallOK, Quiet, DoneFor
<1>1. CASE Kept(a)
    BY <1>1 DEF Kept, DoneFor
<1>2. CASE Receive(a)
    <2>1. row' = row /\ dev' = dev
        BY <1>2, DeviceFrame, DeviceKeepsDev DEF ClientStep
    <2>2. DeviceFails(a)
        BY <1>0, <1>2, DeviceEffects
           DEF DeviceEffect, DeviceAsks, DeviceSetsUp, DeviceSetsUp20, DeviceInforms, DeviceFinishes, Waiting
    <2> QED
        BY <1>0, <2>1, <2>2 DEF DeviceFails, DoneFor, Waiting
<1>3. ASSUME Hello(a) PROVE FALSE
    BY <1>0, <1>3, HelloEffects DEF Idle
<1>4. CASE HandlerStep(a)
    <2>1. pc' = pc /\ dev' = dev /\ failedAt' = failedAt /\ repl' = repl /\ cred' = cred
        BY <1>4, ServerClient DEF clientVars
    <2>2. net[a].t \in {"none", "Done", "Done20", "Done2", "Error"}
        BY <1>0, Phases DEF DoneFor, InFlightOK
    <2>3. row'[a].guid = row[a].guid
        <3>1. HandlerEffect(a)
            BY <1>0, <1>4, HandlerEffects, Phases DEF CallOK
        <3> QED
            BY <2>2, <3>1, Phases
               DEF HandlerEffect, Rejects, Greets, SendsEntry, ProvesOwner, SetsUp, SetsUp20, TakesHmac,
                   AnswersInfo, Reuses, StartsReplace, Inserts, Removes, KeepsOld, CleansUp, SameCore
    <2> QED
        BY <2>1, <2>3 DEF DoneFor
<1>5. CASE FaultStep(a)
    BY <1>0, <1>5, FaultEffects DEF clientVars, DoneFor
<1> QED
    BY <1>0, <1>1, <1>2, <1>3, <1>4, <1>5, KeptOrStep DEF StepOf, ClientStep

\* Every step keeps the reason why a device may be stranded.
LEMMA NextStrandedOK ==
    IndInv /\ CallsOK /\ NamesOK /\ OnePlace /\ ReplacementsOK /\ StrandedOK /\ AnyStep => StrandedOK'
<1> SUFFICES ASSUME IndInv, CallsOK, NamesOK, OnePlace, ReplacementsOK, StrandedOK, AnyStep,
                    NEW d \in Devices
             PROVE  HeldNext(cred'[d].guid) \/ \E a \in Attempts : DoneFor(a, d)'
    BY DEF StrandedOK, DoneFor, HeldNext, Held, Headers
<1>0. /\ TypesOK /\ GuidsOK /\ VouchersOK /\ NoJob.st = "none"
    BY DEF IndInv, Agreed, NoJob
<1>1. (\E h \in Headers : h.guid = cred[d].guid) \/ \E a \in Attempts : DoneFor(a, d)
    BY HeldHeader DEF StrandedOK, DoneFor
<1>2. GoesBy(d, cred[d].guid) /\ Belongs(cred[d].guid, d) /\ cred[d].guid \in Guids
    BY <1>0, GoesByBelongs DEF NamesOK, TypesOK, Types, DeviceCredential
<1>3. ASSUME NEW a \in Attempts, Receive(a), DeviceFinishes(a), dev[a] = d, repl[a] # Nil
      PROVE  HeldNext(cred'[d].guid)
    <2>1. row[a].replGuid # Nil /\ Held(row[a].replGuid) /\ repl[a].guid = row[a].replGuid
        BY <1>3 DEF DeviceFinishes, ReplacementsOK, ReplacedOK, CallsOK, CallOK
    <2>2. cred'[d].guid = row[a].replGuid
        BY <1>0, <1>3, <2>1 DEF DeviceFinishes, TypesOK, Types
    <2>3. ~Undoes(a)
        <3>1. job' = job
            BY <1>3, DeviceFrame DEF ClientStep
        <3> QED
            BY <1>0, <3>1 DEF Undoes, Rejects
    <2>4. pc[a] # "ok"
        BY <1>3 DEF DeviceFinishes
    <2> QED
        BY <2>1, <2>2, <2>3, <2>4, HeldReplacement
<1>4. CASE cred'[d] = cred[d]
    <2>1. ASSUME NEW a \in Attempts, DoneFor(a, d)
          PROVE  DoneFor(a, d)'
        <3> SUFFICES ASSUME pc'[a] = "ok" PROVE FALSE
            BY <1>4, <2>1, DoneForKept
        <3>1. pc[a] \in {"done", "failed"} /\ dev[a] = d /\ (pc[a] = "done" => repl[a] # Nil)
            BY <2>1 DEF DoneFor
        <3>2. pc'[a] # pc[a]
            BY <3>1
        <3>3. Receive(a)
            <4>1. HandlerStep(a) \/ FaultStep(a) => pc' = pc
                BY <1>0, ServerClient, FaultEffects DEF clientVars
            <4>2. ASSUME Hello(a) PROVE FALSE
                BY <1>0, <3>1, <4>2, HelloEffects DEF Idle
            <4> QED
                BY <1>0, <3>2, <4>1, <4>2, KeptOrStep DEF StepOf, ClientStep, Kept
        <3>4. DeviceFinishes(a)
            BY <1>0, <3>3, DeviceEffects
               DEF DeviceEffect, DeviceFails, DeviceAsks, DeviceSetsUp, DeviceSetsUp20, DeviceInforms, Gives,
                   DeviceFinishes
        <3>5. repl[a] # Nil
            BY <3>1, <3>4 DEF DeviceFinishes
        <3>6. cred'[d].guid = row[a].replGuid /\ row[a].replGuid # Nil
            BY <1>0, <3>1, <3>4, <3>5 DEF DeviceFinishes, ReplacementsOK, ReplacedOK, CallsOK, CallOK, TypesOK, Types
        <3>7. pc[a] # "ok"
            BY <3>1
        <3> QED
            BY <1>0, <1>2, <1>4, <3>6, <3>7, NotAName
    <2>2. ASSUME NEW h \in Headers, h.guid = cred[d].guid, ~HeldNext(cred'[d].guid)
          PROVE  \E a \in Attempts : DoneFor(a, d)'
        <3>1. h \notin Headers'
            BY <1>4, <2>2 DEF HeldNext
        <3>2. ASSUME NEW a \in Attempts, HandlerStep(a), Undoes(a) PROVE FALSE
            <4>1. h.guid = row[a].replGuid /\ job[a] # NoJob
                BY <1>0, <3>1, <3>2 DEF Undoes
            <4>2. row[a].replGuid # Nil /\ pc[a] # "ok"
                BY <4>1, JobCall
            <4> QED
                BY <1>0, <1>2, <2>2, <4>1, <4>2, NotAName
        <3>3. ASSUME NEW a \in Attempts, HandlerStep(a), Replaces(a) PROVE DoneFor(a, d)'
            <4>1. h.guid = row[a].guid /\ job[a] # NoJob
                BY <1>0, <3>1, <3>3 DEF Replaces
            <4>2. dev[a] = d
                BY <1>0, <1>2, <2>2, <4>1, JobCall, BelongsUnique
            <4>3. DoneFor(a, d)
                BY <2>2, <4>1, <4>2, JobCall DEF DoneFor, At
            <4> QED
                BY <2>1, <4>3
        <3> QED
            BY <3>1, <3>2, <3>3, HeadersChange DEF Adds
    <2> QED
        BY <1>1, <2>1, <2>2
<1>5. CASE cred'[d] # cred[d]
    <2>1. PICK a \in Attempts : /\ Receive(a)
                                /\ DeviceFinishes(a) /\ repl[a] # Nil
        BY <1>0, <1>5, CredChanges
    <2>2. dev[a] = d
        BY <1>0, <1>5, <2>1 DEF DeviceFinishes, TypesOK, Types
    <2> QED
        BY <1>3, <2>1, <2>2
<1> QED
    BY <1>4, <1>5

\* As long as no owner key is replaced, the owner key stays.
LEMMA NoRotation ==
    ASSUME TypesOK, AnyStep, rotations' = 0
    PROVE  rotations = 0 /\ ownerKey' = ownerKey
<1>1. ASSUME NEW a \in Attempts, ClientStep(a) \/ HandlerStep(a) \/ FaultStep(a)
      PROVE  rotations' = rotations /\ ownerKey' = ownerKey
    BY <1>1, DeviceFrame, ServerClient, FaultFrame
<1>2. OwnerStep => rotations' = rotations + 1 \/ (rotations' = rotations /\ ownerKey' = ownerKey)
    BY DEF OwnerStep, Resell, AddVoucher, ReplaceOwnerKey
<1>3. UNCHANGED vars => rotations' = rotations /\ ownerKey' = ownerKey
    BY DEF vars, ownerVars
<1>4. rotations \in Nat
    BY DEF TypesOK, Types
<1> QED
    BY <1>1, <1>2, <1>3, <1>4 DEF AnyStep

\* A session is given a replacement GUID by setupDevice or setupDevice20, which draws it.
LEMMA NewReplacement ==
    ASSUME IndInv, CallsOK, AnyStep, NEW b \in Attempts, row[b].replGuid = Nil, row'[b].replGuid # Nil
    PROVE  /\ HandlerStep(b) /\ (SetsUp(b) \/ SetsUp20(b)) /\ UNCHANGED <<vouchers, transit>>
           /\ row'[b].replGuid \in Guids \ used /\ Headers' = Headers
<1>0. TypesOK
    BY DEF IndInv, Agreed
<1>1. HandlerStep(b)
    <2>1. ClientStep(b) \/ FaultStep(b) => row' = row
        BY <1>0, DeviceFrame, FaultFrame
    <2> QED
        BY <1>0, <2>1, KeptOrStep DEF StepOf, Kept
<1>2. SetsUp(b) \/ SetsUp20(b)
    <2>1. HandlerEffect(b)
        BY <1>0, <1>1, HandlerEffects, Phases DEF CallsOK, CallOK
    <2> QED
        BY <2>1
           DEF HandlerEffect, Rejects, Greets, SendsEntry, ProvesOwner, TakesHmac, AnswersInfo, Reuses,
               StartsReplace, Inserts, Removes, KeepsOld, CleansUp, SameCore, EmptyRow
<1>3. UNCHANGED <<vouchers, transit>>
    BY <1>1, <1>2, ServerClient DEF SetsUp, SetsUp20, StaysPut
<1> QED
    BY <1>1, <1>2, <1>3 DEF SetsUp, SetsUp20, Headers, HeldVouchers, Stored

\* Every step keeps header, replacement and credential the same on both sides.
LEMMA NextAcceptOK ==
    IndInv /\ CallsOK /\ NamesOK /\ OnePlace /\ ReplacementsOK /\ AcceptOK /\ AnyStep => AcceptOK'
<1> SUFFICES ASSUME IndInv, CallsOK, NamesOK, OnePlace, ReplacementsOK, AcceptOK, AnyStep, rotations' = 0
             PROVE  /\ \A b \in Attempts : JobAgrees(b)' /\ HeldAgrees(b)'
                    /\ \A d \in Devices : CredAgrees(d)'
    BY DEF AcceptOK
<1>0. /\ TypesOK /\ GuidsOK /\ VouchersOK /\ SessionsOK /\ NoJob.st = "none"
      /\ rotations = 0 /\ ownerKey' = ownerKey
      /\ \A b \in Attempts : JobAgrees(b) /\ HeldAgrees(b)
      /\ \A d \in Devices : CredAgrees(d)
    BY NoRotation DEF IndInv, Agreed, NoJob, AcceptOK
<1>1. ASSUME NEW b \in Attempts, row[b].replGuid # Nil
      PROVE  row'[b].replGuid = row[b].replGuid /\ AgreedHeader(b)' = AgreedHeader(b)
    BY <1>0, <1>1, Stable DEF AgreedHeader
<1>2. ASSUME NEW h \in Headers', h \notin Headers
      PROVE  \E a \in Attempts : /\ h = AgreedHeader(a) /\ h.guid = row[a].replGuid
                                 /\ row[a].replGuid # Nil /\ pc[a] # "ok"
    <2>1. PICK a \in Attempts : HandlerStep(a) /\ Adds(a) /\ h = job[a].ov.hdr
        BY <1>2, HeadersChange DEF Adds, Replaces, Undoes
    <2>2. job[a] # NoJob
        BY <2>1 DEF Adds
    <2>3. h = AgreedHeader(a) /\ h.guid = row[a].replGuid
        BY <1>0, <2>1, <2>2 DEF JobAgrees, VouchersOK
    <2> QED
        BY <2>2, <2>3, JobCall
<1>3. ASSUME NEW b \in Attempts PROVE JobAgrees(b)'
    <2>1. CASE job[b] # NoJob /\ job'[b].ov = job[b].ov
        <3>1. row[b].replGuid # Nil
            BY <2>1, JobCall
        <3> QED
            BY <1>0, <1>1, <2>1, <3>1 DEF JobAgrees
    <2>2. CASE HandlerStep(b) /\ StartsReplace(b)
        <3>1. job'[b].ov.hdr = AgreedHeader(b)
            <4>1. [ReplacementVoucher(b) EXCEPT !.hmac = LastHmac(b)]
                      = [hdr |-> AgreedHeader(b), hmac |-> LastHmac(b), entries |-> <<>>]
                BY <1>0, <2>2, ReplacementDevice DEF StartsReplace
            <4>2. job'[b].ov = [ReplacementVoucher(b) EXCEPT !.hmac = LastHmac(b)]
                BY <2>2 DEF StartsReplace
            <4> QED
                BY <4>1, <4>2
        <3>2. row[b].replGuid # Nil
            BY <2>2 DEF StartsReplace
        <3> QED
            BY <1>1, <3>1, <3>2 DEF JobAgrees
    <2>3. \/ job'[b] = NoJob
          \/ job[b] # NoJob /\ job'[b].ov = job[b].ov
          \/ HandlerStep(b) /\ StartsReplace(b)
        <3>1. CASE Kept(b)
            BY <3>1 DEF Kept
        <3>2. CASE ClientStep(b)
            BY <3>2, DeviceFrame
        <3>3. CASE FaultStep(b)
            BY <1>0, <3>3, FaultEffects
        <3>4. CASE HandlerStep(b)
            <4>1. HandlerEffect(b)
                BY <1>0, <3>4, HandlerEffects, Phases DEF CallsOK, CallOK
            <4> QED
                BY <1>0, <3>4, <4>1
                   DEF HandlerEffect, Rejects, Greets, SendsEntry, ProvesOwner, SetsUp, SetsUp20, TakesHmac,
                       AnswersInfo, Reuses, Inserts, Removes, KeepsOld, CleansUp, StaysPut
        <3> QED
            BY <1>0, <3>1, <3>2, <3>3, <3>4, KeptOrStep DEF StepOf
    <2> QED
        BY <2>1, <2>2, <2>3 DEF JobAgrees
<1>5. ASSUME NEW b \in Attempts PROVE HeldAgrees(b)'
    <2> SUFFICES ASSUME row'[b].replGuid # Nil, NEW h \in Headers', h.guid = row'[b].replGuid
                 PROVE  h = AgreedHeader(b)'
        BY DEF HeldAgrees
    <2>1. CASE row[b].replGuid = Nil
        <3>1. row'[b].replGuid \in Guids \ used /\ h \in Headers
            BY <2>1, NewReplacement
        <3> QED
            BY <1>0, <3>1, FreshNotHeld, HeldHeader
    <2>2. CASE row[b].replGuid # Nil /\ h \in Headers
        BY <1>0, <1>1, <2>2 DEF HeldAgrees
    <2>3. CASE row[b].replGuid # Nil /\ h \notin Headers
        <3>1. PICK a \in Attempts : h = AgreedHeader(a) /\ h.guid = row[a].replGuid /\ row[a].replGuid # Nil
            BY <1>2, <2>3
        <3>2. a = b
            BY <1>0, <1>1, <2>3, <3>1 DEF GuidsOK
        <3> QED
            BY <1>1, <2>3, <3>1, <3>2
    <2> QED
        BY <2>1, <2>2, <2>3
<1>6. ASSUME NEW d \in Devices PROVE CredAgrees(d)'
    <2> SUFFICES ASSUME NEW h \in Headers', h.guid = cred'[d].guid
                 PROVE  h.mfg = cred'[d].mfg /\ h.rv = cred'[d].rv
        BY DEF CredAgrees
    <2>1. CASE cred'[d] = cred[d] /\ h \in Headers
        BY <1>0, <2>1 DEF CredAgrees
    <2>2. CASE cred'[d] = cred[d] /\ h \notin Headers
        <3>1. PICK a \in Attempts : h.guid = row[a].replGuid /\ row[a].replGuid # Nil /\ pc[a] # "ok"
            BY <1>2, <2>2
        <3> QED
            BY <1>0, <2>2, <3>1, NotAName DEF NamesOK
    <2>3. CASE cred'[d] # cred[d]
        <3>1. PICK a \in Attempts : /\ Receive(a)
                                    /\ DeviceFinishes(a) /\ repl[a] # Nil
            BY <1>0, <2>3, CredChanges
        <3>2. dev[a] = d /\ cred'[d] = [guid |-> repl[a].guid, rv |-> repl[a].rv, mfg |-> repl[a].mfg]
            BY <1>0, <2>3, <3>1 DEF DeviceFinishes, TypesOK, Types
        <3>3. row[a].replGuid # Nil
            BY <3>1 DEF DeviceFinishes, ReplacementsOK, ReplacedOK
        <3>4. repl[a] = AgreedHeader(a) /\ repl[a].guid = row[a].replGuid
            <4>1. HmacOK(a)
                BY <1>0 DEF IndInv, Agreed, HmacsOK
            <4>2. repl[a] = AgreedHeader(a)
                BY <3>1, <3>3, <4>1 DEF HmacOK
            <4> QED
                BY <4>2 DEF AgreedHeader
        <3>5. h \in Headers
            BY <3>1, DeviceFrame DEF ClientStep, Headers, HeldVouchers, Stored
        <3>6. h = AgreedHeader(a)
            BY <1>0, <3>2, <3>3, <3>4, <3>5 DEF HeldAgrees
        <3> QED
            BY <3>2, <3>4, <3>6
    <2> QED
        BY <2>1, <2>2, <2>3
<1> QED
    BY <1>3, <1>5, <1>6

------------------------------------------------------------------------------
(* One call at a time, and how it ends.                                      *)

\* A call that runs after a step ran before it, or was started by it.
LEMMA RunsOn ==
    ASSUME TypesOK, AnyStep, NEW a \in Attempts, pc'[a] \in Waiting
    PROVE  (pc[a] \in Waiting /\ dev'[a] = dev[a]) \/ Hello(a)
<1>1. CASE Kept(a)
    BY <1>1 DEF Kept
<1>2. CASE Receive(a)
    BY <1>2, DeviceMoves, DeviceKeepsDev
<1>3. CASE HandlerStep(a)
    BY <1>3, ServerClient DEF clientVars
<1>4. CASE FaultStep(a)
    BY <1>4, FaultEffects DEF clientVars
<1> QED
    BY <1>1, <1>2, <1>3, <1>4, KeptOrStep DEF StepOf, ClientStep

\* Every step keeps the calls of a device apart and its sessions about its GUID.
LEMMA NextOneCall == IndInv /\ CallsOK /\ OneCall /\ AnyStep => OneCall'
<1> SUFFICES ASSUME IndInv, CallsOK, OneCall, AnyStep, NEW a \in Attempts, pc'[a] \in Waiting
             PROVE  /\ net'[a].t \in Ask["hello"] => net'[a].guid = cred'[dev'[a]].guid
                    /\ row'[a].guid # Nil => row'[a].guid = cred'[dev'[a]].guid
                    /\ \A b \in Attempts : pc'[b] \in Waiting /\ dev'[b] = dev'[a] => b = a
    BY DEF OneCall
<1>0. TypesOK /\ SessionOK(a)
    BY DEF IndInv, Agreed, SessionsOK
<1>1. ASSUME NEW b \in Attempts \ {a}, Hello(b)
      PROVE  Kept(a)
    BY <1>0, <1>1, OthersKept DEF StepOf, ClientStep
<1>2. ASSUME NEW b \in Attempts \ {a}, Hello(a)
      PROVE  Kept(b)
    BY <1>0, <1>2, OthersKept DEF StepOf, ClientStep
<1>3. Hello(a) => ~(pc[a] \in Waiting)
    BY <1>0, HelloEffects, Phases DEF Idle
<1>4. ASSUME NEW b \in Attempts, pc'[b] \in Waiting, dev'[b] = dev'[a], b # a
      PROVE  FALSE
    <2>1. CASE Hello(a)
        <3>1. pc[b] \in Waiting /\ dev[b] = dev'[a]
            BY <1>2, <1>4, <2>1 DEF Kept
        <3>2. Over(b)
            BY <1>0, <2>1, <3>1, HelloEffects
        <3> QED
            BY <3>1, <3>2, Phases DEF Over
    <2>2. CASE Hello(b)
        <3>1. pc[a] \in Waiting /\ dev[a] = dev'[b]
            BY <1>1, <1>4, <2>2 DEF Kept
        <3>2. Over(a)
            BY <1>0, <2>2, <3>1, HelloEffects
        <3> QED
            BY <3>1, <3>2, Phases DEF Over
    <2>3. CASE ~Hello(a) /\ ~Hello(b)
        <3>1. pc[a] \in Waiting /\ pc[b] \in Waiting /\ dev[b] = dev[a]
            BY <1>0, <1>4, <2>3, RunsOn
        <3> QED
            BY <1>4, <3>1 DEF OneCall
    <2> QED
        BY <2>1, <2>2, <2>3
<1>5. cred'[dev'[a]].guid = cred[dev'[a]].guid
    <2> SUFFICES ASSUME NEW c \in Attempts, Receive(c), DeviceFinishes(c), repl[c] # Nil
                 PROVE  cred'[dev'[a]] = cred[dev'[a]]
        BY <1>0, CredChanges
    <2>1. pc[c] \in Waiting /\ pc'[c] = "ok" /\ c # a
        BY Phases DEF DeviceFinishes
    <2>2. Kept(a)
        BY <1>0, <2>1, OthersKept DEF StepOf, ClientStep
    <2>3. dev[c] # dev[a] /\ dev'[a] = dev[a]
        BY <2>1, <2>2 DEF Kept, OneCall
    <2>4. cred' = [cred EXCEPT ![dev[c]] = [guid |-> repl[c].guid, rv |-> repl[c].rv, mfg |-> repl[c].mfg]]
        BY DEF DeviceFinishes
    <2>5. dev[a] \in Devices
        BY <2>1, <2>2 DEF Kept, IndInv, Agreed, LocalsOK
    <2> QED
        BY <1>0, <2>3, <2>4, <2>5 DEF TypesOK, Types
<1>6. CASE Hello(a)
    <2>1. row'[a].guid = Nil /\ net'[a].guid = cred[dev'[a]].guid
        BY <1>0, <1>6, HelloEffects DEF SessionOK, EmptyRow
    <2> QED
        BY <1>4, <1>5, <2>1
<1>7. CASE /\ ~Hello(a)
           /\ net'[a] = net[a] \/ net'[a].t \notin Ask["hello"]
           /\ \/ row'[a].guid \in {row[a].guid, Nil}
              \/ net[a].t \in Ask["hello"] /\ row'[a].guid = net[a].guid
    <2>1. pc[a] \in Waiting /\ dev'[a] = dev[a]
        BY <1>0, <1>7, RunsOn
    <2>2. /\ net[a].t \in Ask["hello"] => net[a].guid = cred[dev[a]].guid
          /\ row[a].guid # Nil => row[a].guid = cred[dev[a]].guid
        BY <2>1 DEF OneCall
    <2> QED
        BY <1>4, <1>5, <1>7, <2>1, <2>2
<1>8. CASE Kept(a) /\ ~Hello(a)
    BY <1>7, <1>8 DEF Kept
<1>9. CASE Receive(a) /\ ~Hello(a)
    <2>1. row' = row
        BY <1>9, DeviceFrame DEF ClientStep
    <2>2. net'[a] = net[a] \/ net'[a].t \notin Ask["hello"]
        BY <1>0, <1>9, DeviceMoves, Phases
    <2> QED
        BY <1>7, <1>9, <2>1, <2>2
<1>10. CASE HandlerStep(a) /\ ~Hello(a)
    BY <1>0, <1>7, <1>10, HandlerNames
<1>11. CASE FaultStep(a) /\ ~Hello(a)
    BY <1>0, <1>7, <1>11, FaultEffects, Phases DEF Quiet
<1> QED
    BY <1>0, <1>6, <1>8, <1>9, <1>10, <1>11, KeptOrStep DEF StepOf, ClientStep

\* Every step keeps a session with a replacement GUID and its device together.
LEMMA NextOutcomeOK == IndInv /\ CallsOK /\ NamesOK /\ OutcomeOK /\ AnyStep => OutcomeOK'
<1> SUFFICES ASSUME IndInv, CallsOK, NamesOK, OutcomeOK, AnyStep, NEW b \in Attempts
             PROVE  Outcome(b)'
    BY DEF OutcomeOK
<1>0. /\ TypesOK /\ LocalsOK /\ GuidsOK /\ SessionOK(b) /\ CallOK(b) /\ InFlightOK(b) /\ Outcome(b)
      /\ Nil \notin Guids /\ Nil \notin VoucherHeader
    BY ConstantsAssumption, NilAssumption DEF IndInv, Agreed, SessionsOK, CallsOK, CallOK, OutcomeOK
<1>1. CASE Kept(b)
    BY <1>0, <1>1 DEF Kept, Outcome
<1>2. CASE Hello(b)
    <2>1. row'[b].replGuid = Nil /\ net'[b].t \in {"HelloDevice", "HelloDeviceProbe"}
        BY <1>0, <1>2, HelloEffects, Phases DEF SessionOK, EmptyRow
    <2> QED
        BY <2>1 DEF Outcome
<1>3. CASE Receive(b)
    <2>1. row' = row
        BY <1>3, DeviceFrame DEF ClientStep
    <2>2. CASE DeviceFails(b)
        BY <2>2, Phases DEF DeviceFails, Outcome, Quiet
    <2>3. CASE DeviceAsks(b)
        BY <2>3, Phases DEF DeviceAsks, Gives, Outcome
    <2>4. CASE DeviceSetsUp(b)
        <3>1. /\ pc[b] = "prove" /\ net[b].t = "SetupDevice" /\ pc'[b] = "ready" /\ net'[b].t = "DeviceReady"
              /\ net[b].guid # Nil
            BY <1>0, <2>4, MessageFields DEF DeviceSetsUp, Gives, TypesOK, Types
        <3>2. ASSUME row[b].replGuid # Nil PROVE repl'[b] # Nil
            <4>1. net[b].guid = row[b].replGuid
                BY <1>0, <3>1, <3>2 DEF CallOK
            <4>2. ASSUME net[b].guid = cred[dev[b]].guid PROVE FALSE
                <5>1. dev[b] \in Devices
                    BY <1>0, <3>1 DEF LocalsOK, Waiting
                <5>2. GoesBy(dev[b], row[b].replGuid)
                    BY <4>1, <4>2, <5>1 DEF NamesOK
                <5> QED
                    BY <1>0, <3>1, <3>2, <5>2, NotAName
            <4>3. repl'[b] = ReplacementOVH(b, net[b])
                BY <2>4, <4>2 DEF DeviceSetsUp
            <4>4. ReplacementOVH(b, net[b]) \in VoucherHeader
                BY <1>0, <3>1, DeviceHalf
            <4> QED
                BY <1>0, <4>3, <4>4
        <3> QED
            BY <2>1, <3>1, <3>2 DEF Outcome
    <2>5. CASE DeviceSetsUp20(b)
        <3>1. /\ pc[b] = "ready" /\ net[b].t = "SetupDevice20" /\ net'[b].t = "DeviceSvcInfo20"
              /\ repl'[b] = IF net[b].guid = Nil THEN repl[b] ELSE ReplacementOVH20(b, net[b])
            BY <2>5 DEF DeviceSetsUp20
        <3>2. ASSUME row[b].replGuid # Nil PROVE repl'[b] # Nil
            <4>1. net[b].guid # Nil
                BY <1>0, <3>1, <3>2 DEF Outcome
            <4>2. ReplacementOVH20(b, net[b]) \in VoucherHeader
                BY <1>0, <3>1, <4>1, DeviceHalf
            <4> QED
                BY <1>0, <3>1, <4>1, <4>2
        <3> QED
            BY <2>1, <3>1, <3>2 DEF Outcome
    <2>6. CASE DeviceInforms(b)
        <3>1. /\ net'[b].t \in {"DeviceInfo", "DeviceSvcInfo20", "Done", "Done20"} /\ repl'[b] = repl[b]
              /\ pc[b] \in {"more", "info"} \/ (pc[b] = "ready" /\ net[b].t = "OwnerReady")
            BY <2>6 DEF DeviceInforms
        <3> QED
            BY <1>0, <2>1, <3>1 DEF Outcome
    <2>7. CASE DeviceFinishes(b)
        BY <2>7 DEF DeviceFinishes, Outcome, Quiet
    <2> QED
        BY <1>0, <1>3, <2>2, <2>3, <2>4, <2>5, <2>6, <2>7, DeviceEffects DEF DeviceEffect
<1>4. CASE HandlerStep(b)
    <2>1. pc' = pc /\ repl' = repl
        BY <1>4, ServerClient DEF clientVars
    <2>2. HandlerEffect(b)
        BY <1>0, <1>4, HandlerEffects, Phases DEF CallOK
    <2>3. CASE Rejects(b)
        <3>1. net'[b].t \in {"none", "Error"}
            BY <2>3 DEF Rejects, Answers, Quiet
        <3>2. row'[b].replGuid \in {row[b].replGuid, Nil}
            BY <2>3 DEF Rejects, SameCore, EmptyRow
        <3> QED
            BY <1>0, <2>1, <3>1, <3>2 DEF Outcome
    <2>4. CASE Greets(b)
        BY <2>4, Phases DEF Greets, Answers, Quiet, Outcome
    <2>5. CASE SendsEntry(b) \/ ProvesOwner(b) \/ TakesHmac(b) \/ AnswersInfo(b)
        <3>1. /\ row'[b].replGuid = row[b].replGuid /\ net'[b].t \notin {"Done2", "SetupDevice20", "DeviceReady"}
              /\ net'[b].t = "OwnerReady" => net[b].t = "DeviceReady"
            BY <2>5, Phases DEF SendsEntry, ProvesOwner, TakesHmac, AnswersInfo, Answers, Quiet, SameCore
        <3> QED
            BY <1>0, <2>1, <3>1 DEF Outcome
    <2>6. CASE SetsUp(b) \/ SetsUp20(b)
        <3>1. /\ net'[b].t \in {"none", "Error", "SetupDevice", "SetupDevice20"}
              /\ net[b].t \in {"ProveDevice", "DeviceSvcInfoRdy20"}
              /\ row[b].replGuid = Nil
            BY <1>0, <2>6 DEF SetsUp, SetsUp20, Answers, Quiet, SessionOK, BeforeSetup20
        <3>2. pc[b] \notin {"more", "info", "done"}
            BY <1>0, <3>1, Phases DEF InFlightOK
        <3>3. net'[b].t = "SetupDevice20" /\ row'[b].replGuid # Nil => net'[b].guid # Nil
            BY <1>0, <2>6, <3>1 DEF SetsUp, SetsUp20, Answers, Quiet
        <3> QED
            BY <2>1, <3>1, <3>2, <3>3 DEF Outcome
    <2>7. CASE Reuses(b)
        <3>1. row[b].guid # Nil
            BY <1>0, <2>7 DEF Reuses, Decrypts, SessionOK
        <3> QED
            BY <1>0, <2>1, <2>7, <3>1 DEF Reuses, Answers, Quiet, Outcome
    <2>8. CASE StartsReplace(b) \/ Inserts(b) \/ KeepsOld(b) \/ CleansUp(b)
        <3>1. net' = net /\ row' = row
            BY <2>8 DEF StartsReplace, Inserts, KeepsOld, CleansUp
        <3> QED
            BY <1>0, <2>1, <3>1 DEF Outcome
    <2>9. CASE Removes(b)
        <3>1. job[b] # NoJob
            BY <2>9 DEF Removes, NoJob
        <3>2. row[b].guid # Nil
            BY <1>0, <3>1, JobCall
        <3> QED
            BY <1>0, <2>1, <2>9, <3>2 DEF Removes, Answers, Quiet, Outcome
    <2> QED
        BY <2>2, <2>3, <2>4, <2>5, <2>6, <2>7, <2>8, <2>9 DEF HandlerEffect
<1>5. CASE FaultStep(b)
    BY <1>0, <1>5, FaultEffects DEF clientVars, Quiet, Outcome
<1> QED
    BY <1>0, <1>1, <1>2, <1>3, <1>4, <1>5, KeptOrStep DEF StepOf, ClientStep

------------------------------------------------------------------------------
(* The theorems.                                                             *)

\* At the start, the owner holds one voucher for each device, under its GUID.
LEMMA InitVouchers ==
    Init => \E rv \in Rvs :
                /\ cred = [d \in Devices |-> [guid |-> InitGuid[d], rv |-> rv, mfg |-> InitMfg]]
                /\ Headers = {InitHeader(d, rv) : d \in Devices}
<1> SUFFICES ASSUME Init
             PROVE  \E rv \in Rvs :
                        /\ cred = [d \in Devices |-> [guid |-> InitGuid[d], rv |-> rv, mfg |-> InitMfg]]
                        /\ Headers = {InitHeader(d, rv) : d \in Devices}
    OBVIOUS
<1>1. PICK rv \in Rvs :
          /\ cred = [d \in Devices |-> [guid |-> InitGuid[d], rv |-> rv, mfg |-> InitMfg]]
          /\ vouchers = [g \in Guids |->
                            IF \E d \in Devices : InitGuid[d] = g
                            THEN LET d == CHOOSE d \in Devices : InitGuid[d] = g
                                 IN  [hdr |-> InitHeader(d, rv), hmac |-> HmacOf(d, InitHeader(d, rv)),
                                      entries |-> <<ownerKey>>]
                            ELSE Nil]
    BY Zenon DEF Init
<1>2. ASSUME NEW d \in Devices
      PROVE  InitGuid[d] \in Guids /\ vouchers[InitGuid[d]].hdr = InitHeader(d, rv) /\ vouchers[InitGuid[d]] # Nil
    <2>1. InitGuid[d] \in Guids
        OBVIOUS
    <2>2. (CHOOSE e \in Devices : InitGuid[e] = InitGuid[d]) = d
        OBVIOUS
    <2> DEFINE v == [hdr |-> InitHeader(d, rv), hmac |-> HmacOf(d, InitHeader(d, rv)), entries |-> <<ownerKey>>]
    <2>3. vouchers[InitGuid[d]] = v
        BY <1>1, <2>1, <2>2
    <2>4. v.hdr = InitHeader(d, rv)
        OBVIOUS
    <2>5. v \in Voucher
        <3>1. InitHeader(d, rv) \in VoucherHeader
            BY DEF InitHeader, VoucherHeader
        <3>2. HmacOf(d, InitHeader(d, rv)) \in Hmac
            BY <3>1 DEF HmacOf, Hmac
        <3>3. <<ownerKey>> \in Seq(Keys)
            BY DEF Init
        <3> QED
            BY <3>1, <3>2, <3>3 DEF Voucher
    <2> HIDE DEF v
    <2> QED
        BY <2>1, <2>3, <2>4, <2>5
<1>3. ASSUME NEW g \in Guids, vouchers[g] # Nil PROVE \E d \in Devices : InitGuid[d] = g
    BY <1>1, <1>3
<1>4. transit = {}
    BY DEF Init
<1>5. Headers = {InitHeader(d, rv) : d \in Devices}
    BY <1>2, <1>3, <1>4, InHeaders
<1> QED
    BY <1>1, <1>5

\* The inductive invariant holds at the start.
LEMMA InitOwnInv == Init => OwnInv
<1> SUFFICES ASSUME Init PROVE OwnInv
    OBVIOUS
<1>0. IndInv
    BY InitIndInv
<1>1. \A a \in Attempts : /\ pc[a] = "idle" /\ net[a] = Quiet /\ job[a] = NoJob /\ repl[a] = Nil
                          /\ row[a] = EmptyRow /\ running[a] = FALSE
    BY DEF Init
<1>2. /\ EmptyRow.replGuid = Nil /\ EmptyRow.hmac = Nil /\ EmptyRow.guid = Nil
      /\ NoJob.st = "none" /\ Quiet.t = "none" /\ "idle" \notin Waiting /\ "none" \notin Ask["hello"]
    BY Phases DEF EmptyRow, NoJob, Quiet
<1>3. CallsOK /\ ModulesOK
    BY <1>1, <1>2 DEF CallsOK, CallOK, InFlightOK, HmacTells, ModulesOK, ModuleOK
<1>4. PICK rv \in Rvs : /\ cred = [d \in Devices |-> [guid |-> InitGuid[d], rv |-> rv, mfg |-> InitMfg]]
                        /\ Headers = {InitHeader(d, rv) : d \in Devices}
    BY InitVouchers
<1>5. NamesOK
    BY <1>1, <1>2, <1>4 DEF NamesOK, GoesBy
<1>6. OnePlace /\ ReplacementsOK
    BY <1>1, <1>2 DEF Init, OnePlace, ReplacementsOK, ReplacedOK
<1>7. \A d \in Devices : InitHeader(d, rv) \in Headers /\ InitHeader(d, rv).dev = d
                         /\ InitHeader(d, rv).guid = InitGuid[d]
                         /\ InitHeader(d, rv).mfg = InitMfg /\ InitHeader(d, rv).rv = rv
    BY <1>4 DEF InitHeader
<1>8. SettledOK
    BY <1>1, <1>2, <1>7 DEF SettledOK, Pending
<1>9. StrandedOK
    <2>1. ASSUME NEW d \in Devices PROVE Held(cred[d].guid)
        BY <1>4, <1>7, HeldHeader
    <2> QED
        BY <2>1 DEF StrandedOK
<1>10. AcceptOK
    <2>1. \A d \in Devices : CredAgrees(d)
        BY <1>4, <1>7 DEF CredAgrees
    <2> QED
        BY <1>1, <1>2, <2>1 DEF AcceptOK, JobAgrees, HeldAgrees
<1>11. OneCall /\ OutcomeOK
    BY <1>1, <1>2 DEF OneCall, OutcomeOK, Outcome
<1> QED
    BY <1>0, <1>3, <1>5, <1>6, <1>8, <1>9, <1>10, <1>11 DEF OwnInv

\* The inductive invariant is one.
LEMMA NextOwnInv == OwnInv /\ AnyStep => OwnInv'
<1> SUFFICES ASSUME OwnInv, AnyStep PROVE OwnInv'
    OBVIOUS
<1>1. IndInv' /\ CallsOK' /\ ModulesOK'
    BY NextIndInv, NextCallsOK, NextModulesOK DEF OwnInv
<1>2. NamesOK' /\ ReplacementsOK'
    BY NextNamesOK, NextReplacementsOK DEF OwnInv
<1>3. OnePlace'
    BY HeadersChange DEF OwnInv
<1>4. SettledOK' /\ StrandedOK' /\ AcceptOK'
    BY NextSettledOK, NextStrandedOK, NextAcceptOK DEF OwnInv
<1>5. OneCall' /\ OutcomeOK'
    BY NextOneCall, NextOutcomeOK DEF OwnInv
<1> QED
    BY <1>1, <1>2, <1>3, <1>4, <1>5 DEF OwnInv

\* It holds in every state when all calls are of 1.01.
LEMMA OwnInvariant == Spec => []OwnInv
<1>1. OwnInv /\ [Next]_vars => OwnInv'
    BY NextOwnInv, StepKinds
<1> QED
    BY <1>1, InitOwnInv, PTL DEF Spec

\* It does when calls of 2.0 run beside them.
LEMMA OwnInvariant20 == Spec20 => []OwnInv
<1>1. OwnInv /\ [Next20]_vars20 => OwnInv'
    BY NextOwnInv, StepKinds
<1>2. Init20 => OwnInv
    BY InitOwnInv DEF Init20
<1> QED
    BY <1>1, <1>2, PTL DEF Spec20

\* A device keeps accepting the voucher the owner has for it.
LEMMA VouchersAccepted == OwnInv => DeviceAcceptsItsVoucher
<1> SUFFICES ASSUME OwnInv, rotations = 0, NEW d \in Devices, NEW ov \in HeldVouchers,
                    ov.hdr.guid = cred[d].guid
             PROVE  ov.hmac = HmacOf(d, ov.hdr) /\ ov.hdr.mfg = cred[d].mfg /\ ov.hdr.rv = cred[d].rv
    BY DEF DeviceAcceptsItsVoucher, Accepts
<1>1. TypesOK /\ GuidsOK /\ VouchersOK
    BY DEF OwnInv, IndInv, Agreed
<1>2. ov.hdr \in Headers
    BY DEF Headers
<1>3. Belongs(cred[d].guid, d) /\ cred[d].guid \in Guids
    BY <1>1, GoesByBelongs DEF OwnInv, NamesOK, TypesOK, Types, DeviceCredential
<1>4. ov.hdr.dev = d
    BY <1>1, <1>2, <1>3, HeaderFacts, BelongsUnique
<1>5. ov.hmac = HmacOf(ov.hdr.dev, ov.hdr)
    BY DEF OwnInv, IndInv, Agreed, VoucherAuthentic, Authentic
<1>6. ov.hdr.mfg = cred[d].mfg /\ ov.hdr.rv = cred[d].rv
    BY <1>2 DEF OwnInv, AcceptOK, CredAgrees
<1> QED
    BY <1>4, <1>5, <1>6

\* What the invariant says of sessions and credentials.
LEMMA OwnInvShows == OwnInv => ModulesStopped /\ StrandedOnlyByLostDone /\ DeviceAcceptsItsVoucher
<1>1. OwnInv => ModulesStopped
    BY DEF OwnInv, ModulesOK, ModuleOK, ModulesStopped
<1>2. OwnInv => StrandedOnlyByLostDone
    BY DEF OwnInv, StrandedOK, DoneFor, StrandedOnlyByLostDone
<1> QED
    BY <1>1, <1>2, VouchersAccepted

\* Whatever is lost, fails or crashes, a session that its responder, its last message
\* or an error report ended has no owner module running: a module outlives its token
\* only where the HTTP handler invalidates it by itself, or where a late message is
\* handled beside the error report.
THEOREM ModulesAreStopped == Spec => []ModulesStopped
BY OwnInvShows, OwnInvariant, PTL

\* Only a TO2.Done whose Done2 has not reached the device can leave it without
\* a voucher under its GUID, for any number of concurrent calls and crashes.
THEOREM StrandedByLostDone == Spec => []StrandedOnlyByLostDone
BY OwnInvShows, OwnInvariant, PTL

\* Until an owner key is replaced, the voucher held under the GUID a device goes
\* by passes every header check of the device's VerifyCrypto.
THEOREM AcceptsItsVoucher == Spec => []DeviceAcceptsItsVoucher
BY OwnInvShows, OwnInvariant, PTL

\* All three hold as well when calls of 2.0 run beside those of 1.01 against the
\* same sessions and vouchers.
THEOREM SettledTogether ==
    Spec20 => [](ModulesStopped /\ StrandedOnlyByLostDone /\ DeviceAcceptsItsVoucher)
BY OwnInvShows, OwnInvariant20, PTL

------------------------------------------------------------------------------
(* TO2 implements Ownership.                                                 *)

\* The voucher of the contract a header stands for.
Named(h) == [guid |-> h.guid, dev |-> h.dev]

HeldNow == {[guid |-> ov.hdr.guid, dev |-> ov.hdr.dev] : ov \in HeldVouchers}
GoesByNow == [d \in Devices |-> cred[d].guid]

\* The vouchers of the contract are the headers of the vouchers held.
LEMMA HeldNowHeaders == HeldNow = {Named(h) : h \in Headers}
BY DEF HeldNow, Named, Headers

\* ReplaceVoucher's insert issues a voucher.
LEMMA AddsIssue ==
    ASSUME OwnInv, AnyStep, NEW a \in Attempts, HandlerStep(a), Adds(a)
    PROVE  \E v \in Own!Voucher : Own!Issue(v)
<1> DEFINE h == job[a].ov.hdr
           v == Named(h)
<1>0. /\ TypesOK /\ GuidsOK /\ VouchersOK
    BY DEF OwnInv, IndInv, Agreed
<1>1. job[a] # NoJob /\ ~Held(row[a].replGuid) /\ Headers' = Headers \cup {h}
    BY DEF Adds
<1>2. row[a].replGuid # Nil /\ pc[a] # "ok"
    BY <1>1, JobCall DEF OwnInv
<1>3. h \in VoucherHeader /\ h.guid = row[a].replGuid /\ h.dev = dev[a]
    BY <1>0, <1>1 DEF TypesOK, Types, VouchersOK, Voucher
<1>4. v \in Own!Voucher /\ v.guid = row[a].replGuid /\ v.dev = dev[a] /\ dev[a] \in Devices
    BY <1>3 DEF Own!Voucher, Named, VoucherHeader
<1> HIDE DEF h
<1>5. \A w \in HeldNow : w.guid # v.guid
    BY <1>1, <1>4, HeldNowHeaders, HeldHeader DEF Named
<1>6. \A d \in Devices : GoesByNow[d] # v.guid
    BY <1>0, <1>2, <1>4, NotAName DEF OwnInv, NamesOK, GoesByNow
<1>7. \E w \in HeldNow : w.dev = v.dev
    <2>1. PICK k \in Headers : k.dev = dev[a]
        BY <1>4 DEF OwnInv, SettledOK
    <2>2. Named(k) \in HeldNow
        BY HeldNowHeaders
    <2>3. Named(k).dev = k.dev
        BY DEF Named
    <2> HIDE DEF v
    <2> QED
        BY <1>4, <2>1, <2>2, <2>3
<1>8. HeldNow' = HeldNow \cup {v}
    <2>1. HeldNow' = {Named(x) : x \in Headers'}
        BY DEF HeldNow, Named, Headers
    <2>2. v = Named(h)
        OBVIOUS
    <2> HIDE DEF v
    <2> QED
        BY <1>1, <2>1, <2>2, HeldNowHeaders
<1>9. GoesByNow' = GoesByNow
    BY ServerClient DEF clientVars, GoesByNow
<1> HIDE DEF v
<1> QED
    BY <1>4, <1>5, <1>6, <1>7, <1>8, <1>9 DEF Own!Issue, HeldNow, GoesByNow

\* Removing the old voucher, or the new one again, discards a voucher.
LEMMA RemovalDiscards ==
    ASSUME OwnInv, AnyStep, NEW h \in Headers, Headers' = Headers \ {h}, cred' = cred
    PROVE  \E v \in Own!Voucher : Own!Discard(v)
<1>0. /\ TypesOK /\ VouchersOK /\ OnePlace /\ SettledOK'
    BY NextOwnInv DEF OwnInv, IndInv, Agreed
<1>1. h \in VoucherHeader
    BY <1>0, HeaderFacts
<1>2. Named(h) \in Own!Voucher /\ Named(h) \in HeldNow
    BY <1>1, HeldNowHeaders DEF Own!Voucher, Named, VoucherHeader
<1>3. PICK k \in Headers' : k.dev = h.dev
    BY <1>0, <1>1 DEF SettledOK, VoucherHeader
<1>4. k.guid # h.guid /\ k \in Headers
    BY <1>0, <1>3, OneHeader
<1>5. Named(k) \in HeldNow /\ Named(k) # Named(h) /\ Named(k).dev = Named(h).dev
    BY <1>3, <1>4, HeldNowHeaders DEF Named
<1>6. HeldNow' = HeldNow \ {Named(h)}
    <2>1. HeldNow' = {Named(x) : x \in Headers'}
        BY DEF HeldNow, Named, Headers
    <2>2. \A x \in Headers : Named(x) = Named(h) => x = h
        BY <1>0, OneHeader DEF Named
    <2> QED
        BY <2>1, <2>2, HeldNowHeaders
<1>7. GoesByNow' = GoesByNow
    BY DEF GoesByNow
<1> QED
    BY <1>2, <1>5, <1>6, <1>7 DEF Own!Discard, HeldNow, GoesByNow

\* A device that is told it is done adopts a voucher held for it.
LEMMA FinishAdopts ==
    ASSUME OwnInv, AnyStep, NEW a \in Attempts, Receive(a),
           DeviceFinishes(a), repl[a] # Nil
    PROVE  \E v \in Own!Voucher : Own!Adopt(v)
<1>0. /\ TypesOK /\ GuidsOK /\ VouchersOK /\ LocalsOK
    BY DEF OwnInv, IndInv, Agreed
<1>1. row[a].replGuid # Nil /\ Held(row[a].replGuid) /\ repl[a].guid = row[a].replGuid
    BY DEF DeviceFinishes, OwnInv, ReplacementsOK, ReplacedOK, CallsOK, CallOK
<1>2. PICK h \in Headers : h.guid = row[a].replGuid
    BY <1>1, HeldHeader
<1>3. h \in VoucherHeader /\ Belongs(h.guid, h.dev) /\ Belongs(h.guid, dev[a])
    BY <1>0, <1>2, HeaderFacts DEF Belongs
<1>4. h.dev = dev[a] /\ dev[a] \in Devices /\ h.guid \in Guids
    BY <1>0, <1>3, BelongsUnique DEF VoucherHeader
<1>5. Named(h) \in Own!Voucher /\ Named(h) \in HeldNow
    BY <1>3, HeldNowHeaders DEF Own!Voucher, Named, VoucherHeader
<1>6. HeldNow' = HeldNow
    BY DeviceFrame DEF ClientStep, HeldNow, HeldVouchers, Stored
<1>7. GoesByNow' = [GoesByNow EXCEPT ![Named(h).dev] = Named(h).guid]
    <2>1. cred' = [cred EXCEPT ![dev[a]] = [guid |-> repl[a].guid, rv |-> repl[a].rv, mfg |-> repl[a].mfg]]
        BY DEF DeviceFinishes
    <2>2. Named(h).dev = dev[a] /\ Named(h).guid = repl[a].guid
        BY <1>1, <1>2, <1>4 DEF Named
    <2>3. cred \in [Devices -> DeviceCredential]
        BY <1>0 DEF TypesOK, Types
    <2>4. \A d \in Devices : cred'[d].guid = IF d = dev[a] THEN repl[a].guid ELSE cred[d].guid
        BY <2>1, <2>3
    <2> QED
        BY <1>4, <2>2, <2>4 DEF GoesByNow
<1> QED
    BY <1>5, <1>6, <1>7 DEF Own!Adopt, HeldNow, GoesByNow

\* At the start the owner holds a voucher for the name each device goes by.
LEMMA InitImplements == Init => Own!Init
<1> SUFFICES ASSUME Init PROVE Own!Init
    OBVIOUS
<1>1. PICK rv \in Rvs :
          /\ cred = [d \in Devices |-> [guid |-> InitGuid[d], rv |-> rv, mfg |-> InitMfg]]
          /\ Headers = {InitHeader(d, rv) : d \in Devices}
    BY InitVouchers
<1>2. GoesByNow = InitGuid
    BY <1>1 DEF GoesByNow
<1>3. HeldNow = {[guid |-> InitGuid[d], dev |-> d] : d \in Devices}
    <2>1. \A d \in Devices : Named(InitHeader(d, rv)) = [guid |-> InitGuid[d], dev |-> d]
        BY DEF Named, InitHeader
    <2>2. HeldNow = {Named(InitHeader(d, rv)) : d \in Devices}
        BY <1>1, HeldNowHeaders
    <2> QED
        BY <2>1, <2>2
<1> QED
    BY <1>2, <1>3 DEF Own!Init, GoesByNow, HeldNow

\* Every step is one of the contract or leaves its variables alone.
LEMMA NextImplements == OwnInv /\ AnyStep => [Own!Next]_Own!vars
<1> SUFFICES ASSUME OwnInv, AnyStep PROVE [Own!Next]_Own!vars
    OBVIOUS
<1>0. TypesOK
    BY DEF OwnInv, IndInv, Agreed
<1>1. CASE cred' = cred /\ Headers' = Headers
    <2>1. GoesByNow' = GoesByNow
        BY <1>1 DEF GoesByNow
    <2>2. HeldNow' = {Named(h) : h \in Headers'}
        BY DEF HeldNow, Named, Headers
    <2>3. HeldNow' = HeldNow
        BY <1>1, <2>2, HeldNowHeaders
    <2> QED
        BY <2>1, <2>3 DEF Own!vars, GoesByNow, HeldNow
<1>2. ASSUME NEW a \in Attempts, Receive(a), DeviceFinishes(a), repl[a] # Nil
      PROVE  Own!Next
    BY <1>2, FinishAdopts DEF Own!Next
<1>3. ASSUME NEW a \in Attempts, HandlerStep(a), Adds(a)
      PROVE  Own!Next
    BY <1>3, AddsIssue DEF Own!Next
<1>4. ASSUME NEW a \in Attempts, HandlerStep(a), Replaces(a) \/ Undoes(a)
      PROVE  Own!Next
    <2>1. cred' = cred
        BY <1>4, ServerClient DEF clientVars
    <2>2. PICK h \in Headers : Headers' = Headers \ {h}
        BY <1>4 DEF Replaces, Undoes
    <2> QED
        BY <2>1, <2>2, RemovalDiscards DEF Own!Next
<1> QED
    BY <1>0, <1>1, <1>2, <1>3, <1>4, CredChanges, HeadersChange DEF OwnInv

\* All of TO2 and the owner's operations only issue, discard and adopt vouchers
\* as Ownership allows: no device is left without a voucher by any interleaving
\* of calls, lost message, failed statement of ReplaceVoucher or crash in it.
THEOREM Implements == Spec => ImplementsOwnership
<1>1. OwnInv /\ [Next]_vars => [Own!Next]_Own!vars
    BY NextImplements, StepKinds
<1> QED
    BY <1>1, InitImplements, OwnInvariant, PTL DEF Spec, ImplementsOwnership, Own!Spec

\* So do 1.01 and 2.0 together, although 2.0 adopts the replacement HMAC only with
\* the request that replaces the voucher.
THEOREM Implements20 == Spec20 => ImplementsOwnership
<1>1. OwnInv /\ [Next20]_vars20 => [Own!Next]_Own!vars
    BY NextImplements, StepKinds
<1>2. Init20 => Own!Init
    BY InitImplements DEF Init20
<1> QED
    BY <1>1, <1>2, OwnInvariant20, PTL DEF Spec20, ImplementsOwnership, Own!Spec

\* The contract alone gives this, for whatever implements it: Discard leaves a device
\* another voucher, Issue adds one, Adopt takes none away.
THEOREM NoDeviceLost == Own!Spec => []Own!EveryDeviceHeld
<1>1. Own!Init => Own!EveryDeviceHeld
    <2> SUFFICES ASSUME Own!Init, NEW d \in Devices
                 PROVE  \E v \in HeldNow : v.dev = d
        BY DEF HeldNow, Own!EveryDeviceHeld
    <2>1. [guid |-> InitGuid[d], dev |-> d] \in HeldNow
        BY DEF HeldNow, Own!Init
    <2> QED
        BY <2>1
<1>2. Own!EveryDeviceHeld /\ [Own!Next]_Own!vars => Own!EveryDeviceHeld'
    <2> SUFFICES ASSUME Own!EveryDeviceHeld, [Own!Next]_Own!vars
                 PROVE  Own!EveryDeviceHeld'
        OBVIOUS
    <2>1. CASE UNCHANGED Own!vars
        BY <2>1 DEF HeldNow, Own!EveryDeviceHeld, Own!vars
    <2>2. ASSUME NEW v \in Own!Voucher, Own!Issue(v)
          PROVE  Own!EveryDeviceHeld'
        BY <2>2 DEF HeldNow, Own!EveryDeviceHeld, Own!Issue
    <2>3. ASSUME NEW v \in Own!Voucher, Own!Discard(v)
          PROVE  Own!EveryDeviceHeld'
        <3> SUFFICES ASSUME NEW d \in Devices
                     PROVE  \E w \in HeldNow' : w.dev = d
            BY DEF HeldNow, Own!EveryDeviceHeld
        <3>1. PICK w \in HeldNow : w.dev = d
            BY DEF HeldNow, Own!EveryDeviceHeld
        <3>2. PICK u \in HeldNow : u # v /\ u.dev = v.dev
            BY <2>3 DEF HeldNow, Own!Discard
        <3>3. HeldNow' = HeldNow \ {v}
            BY <2>3 DEF HeldNow, Own!Discard
        <3>4. CASE w = v
            BY <3>1, <3>2, <3>3, <3>4
        <3>5. CASE w # v
            BY <3>1, <3>3, <3>5
        <3> QED
            BY <3>4, <3>5
    <2>4. ASSUME NEW v \in Own!Voucher, Own!Adopt(v)
          PROVE  Own!EveryDeviceHeld'
        BY <2>4 DEF HeldNow, Own!EveryDeviceHeld, Own!Adopt
    <2> QED
        BY <2>1, <2>2, <2>3, <2>4 DEF Own!Next
<1> QED
    BY <1>1, <1>2, PTL DEF Own!Spec

\* So every device keeps a voucher that its owner holds for it, in either version.
THEOREM EveryDeviceKeepsAVoucher ==
    Spec \/ Spec20 => [](\A d \in Devices : \E ov \in HeldVouchers : ov.hdr.dev = d)
<1>1. Own!EveryDeviceHeld => \A d \in Devices : \E ov \in HeldVouchers : ov.hdr.dev = d
    BY DEF Own!EveryDeviceHeld
<1> QED
    BY <1>1, Implements, Implements20, NoDeviceLost, PTL DEF ImplementsOwnership

------------------------------------------------------------------------------
(* Device and owner end a call with the same voucher.                        *)

\* A call that succeeds is one the device was told is done.
LEMMA OkIsFinished ==
    ASSUME TypesOK, AnyStep, NEW a \in Attempts, pc[a] # "ok", pc'[a] = "ok"
    PROVE  dev' = dev /\ DeviceFinishes(a)
<1>1. "ok" \notin Waiting /\ "ok" # "failed"
    BY Phases
<1>2. StepOf(a)
    BY KeptOrStep DEF Kept
<1>3. ASSUME Hello(a) PROVE FALSE
    BY <1>3, HelloEffects
<1>4. ASSUME Timeout(a) PROVE FALSE
    BY <1>4 DEF Timeout, Fail, Return, TypesOK, Types
<1>5. ASSUME HandlerStep(a) \/ FaultStep(a) PROVE FALSE
    BY <1>5, ServerClient, FaultEffects DEF clientVars
<1>6. Receive(a)
    BY <1>2, <1>3, <1>4, <1>5 DEF StepOf, ClientStep
<1>7. ASSUME DeviceEffect(a) PROVE DeviceFinishes(a)
    BY <1>7, <1>1, Phases DEF DeviceEffect, DeviceFails, DeviceAsks, DeviceSetsUp, DeviceSetsUp20, DeviceInforms, Gives
<1> QED
    BY <1>6, <1>7, DeviceEffects

\* The GUID the device then goes by is the one its session has for it.
LEMMA FinishAgrees ==
    ASSUME OwnInv, NEW a \in Attempts, DeviceFinishes(a)
    PROVE  cred'[dev[a]].guid = IF row[a].replGuid = Nil THEN row[a].guid ELSE row[a].replGuid
<1>0. TypesOK /\ LocalsOK /\ pc[a] = "done" /\ net[a].t = "Done2"
    BY DEF OwnInv, IndInv, Agreed, DeviceFinishes
<1>1. row[a].guid # Nil /\ (row[a].replGuid # Nil => repl[a] # Nil)
    BY <1>0 DEF OwnInv, OutcomeOK, Outcome
<1>2. CASE repl[a] = Nil
    <2>1. row[a].guid = cred[dev[a]].guid
        BY <1>0, <1>1, Phases DEF OwnInv, OneCall
    <2> QED
        BY <1>1, <1>2, <2>1 DEF DeviceFinishes
<1>3. CASE repl[a] # Nil
    <2>1. row[a].replGuid # Nil /\ repl[a].guid = row[a].replGuid
        BY <1>0, <1>3 DEF OwnInv, ReplacementsOK, ReplacedOK, CallsOK, CallOK
    <2>2. dev[a] \in Devices /\ cred \in [Devices -> DeviceCredential]
        BY <1>0, Phases DEF LocalsOK, TypesOK, Types
    <2>3. cred' = [cred EXCEPT ![dev[a]] = [guid |-> repl[a].guid, rv |-> repl[a].rv, mfg |-> repl[a].mfg]]
        BY <1>3 DEF DeviceFinishes
    <2> QED
        BY <2>1, <2>2, <2>3
<1> QED
    BY <1>2, <1>3

\* The call of device and owner, 1.01 or 2.0, ends with the device under the GUID
\* of the session's voucher, or of its replacement when the session has one: the
\* owner never replaces what the device reuses, nor keeps what it gave up.
THEOREM OutcomesAgree == Spec20 => EndsAgree
<1> DEFINE Agrees == \A a \in Attempts : pc[a] # "ok" /\ pc'[a] = "ok" =>
                        cred'[dev[a]].guid = IF row[a].replGuid = Nil THEN row[a].guid ELSE row[a].replGuid
<1>1. OwnInv /\ [Next20]_vars20 => [Agrees]_vars20
    <2>1. OwnInv => TypesOK
        BY DEF OwnInv, IndInv
    <2> QED
        BY <2>1, StepKinds, OkIsFinished, FinishAgrees
<1> QED
    BY <1>1, OwnInvariant20, PTL DEF Spec20, EndsAgree
=============================================================================
