---------------------------- MODULE TO2Proof ----------------------------
(***************************************************************************)
(* Proofs about TO2 and TO2v200, for every value of their constants.       *)
(***************************************************************************)
EXTENDS TO2v200, TLAPS

USE ConstantsAssumption

------------------------------------------------------------------------------
(* Type correctness.                                                         *)

\* What a message of each type carries.
LEMMA MessageFields ==
    ASSUME NEW m \in Message20
    PROVE  /\ m.t \in {"HelloDevice", "HelloDeviceProbe"} => m.guid \in Guids
           /\ m.t \in {"ProveOVHdr", "ProveOVHdr20"} => /\ m.hdr \in VoucherHeader /\ m.hmac \in Hmac
                                                       /\ m.owner \in Keys /\ m.n \in Nat
           /\ m.t \in {"GetOVNextEntry", "GetOVNextEntry20"} => m.i \in Nat
           /\ m.t \in {"OVNextEntry", "OVNextEntry20"} => m.key \in Keys
           /\ m.t = "SetupDevice" => m.guid \in Guids /\ m.rv \in Rvs /\ m.owner2 \in Keys
           /\ m.t = "SetupDevice20" =>
                 (m.guid \in Guids /\ m.rv \in Rvs) \/ (m.guid = Nil /\ m.rv = Nil)
           /\ m.t \in {"DeviceReady", "Done20"} => m.hmac \in Hmac \cup {Nil}
           /\ m.t \in {"DeviceInfo", "DeviceSvcInfo20"} => m.more \in BOOLEAN
           /\ m.t = "OwnerInfo" => m.more \in BOOLEAN /\ m.done \in BOOLEAN
<1>1. CASE m \in Message
    BY <1>1 DEF Message
<1>2. CASE m \notin Message
    <2>1. /\ m.t \notin {"HelloDevice", "ProveOVHdr", "GetOVNextEntry", "OVNextEntry", "SetupDevice",
                        "DeviceReady", "DeviceInfo", "OwnerInfo"}
          /\ m.t = "HelloDeviceProbe" => m.guid \in Guids
          /\ m.t = "ProveOVHdr20" => /\ m.hdr \in VoucherHeader /\ m.hmac \in Hmac
                                     /\ m.owner \in Keys /\ m.n \in Nat
        BY <1>2 DEF Message20
    <2>2. /\ m.t = "GetOVNextEntry20" => m.i \in Nat
          /\ m.t = "OVNextEntry20" => m.key \in Keys
          /\ m.t = "SetupDevice20" =>
                 (m.guid \in Guids /\ m.rv \in Rvs) \/ (m.guid = Nil /\ m.rv = Nil)
        BY <1>2 DEF Message20
    <2>3. m.t = "Done20" => m.hmac \in Hmac \cup {Nil}
        BY <1>2 DEF Message20
    <2>4. m.t = "DeviceSvcInfo20" => m \in [t : {"DeviceSvcInfo20"}, more : BOOLEAN]
        BY <1>2 DEF Message20
    <2> QED
        BY <2>1, <2>2, <2>3, <2>4
<1> QED
    BY <1>1, <1>2

\* A set of messages of a run: those of 1.01, or those of both versions.
LEMMA MessageSets ==
    ASSUME NEW M \in {Message, Message20}
    PROVE  Message \subseteq M /\ M \subseteq Message20
BY DEF Message20

\* The messages the actions build are messages.
LEMMA MessageForms ==
    /\ \A t \in {"none", "ProveDevice", "OwnerReady", "Done", "Done2", "Error"} : [t |-> t] \in Message
    /\ \A g \in Guids : [t |-> "HelloDevice", guid |-> g] \in Message
    /\ \A h \in VoucherHeader, m \in Hmac, k \in Keys, n \in Nat :
          [t |-> "ProveOVHdr", hdr |-> h, hmac |-> m, owner |-> k, n |-> n] \in Message
    /\ \A i \in Nat : [t |-> "GetOVNextEntry", i |-> i] \in Message
    /\ \A k \in Keys : [t |-> "OVNextEntry", key |-> k] \in Message
    /\ \A g \in Guids, r \in Rvs, k \in Keys :
          [t |-> "SetupDevice", guid |-> g, rv |-> r, owner2 |-> k] \in Message
    /\ \A m \in Hmac \cup {Nil} : [t |-> "DeviceReady", hmac |-> m] \in Message
    /\ \A b \in BOOLEAN : [t |-> "DeviceInfo", more |-> b] \in Message
    /\ \A b, c \in BOOLEAN : [t |-> "OwnerInfo", more |-> b, done |-> c] \in Message
    /\ Quiet \in Message /\ ErrorMessage \in Message
BY DEF Message, Quiet, ErrorMessage

\* So are those of 2.0.
LEMMA MessageForms20 ==
    /\ \A t \in {"HelloDeviceAck20", "ProveDevice20", "DeviceSvcInfoRdy20", "OwnerSvcInfo20"} :
          [t |-> t] \in Message20
    /\ \A g \in Guids : [t |-> "HelloDeviceProbe", guid |-> g] \in Message20
    /\ \A h \in VoucherHeader, m \in Hmac, k \in Keys, n \in Nat :
          [t |-> "ProveOVHdr20", hdr |-> h, hmac |-> m, owner |-> k, n |-> n] \in Message20
    /\ \A i \in Nat : [t |-> "GetOVNextEntry20", i |-> i] \in Message20
    /\ \A k \in Keys : [t |-> "OVNextEntry20", key |-> k] \in Message20
    /\ \A g \in Guids, r \in Rvs : [t |-> "SetupDevice20", guid |-> g, rv |-> r] \in Message20
    /\ [t |-> "SetupDevice20", guid |-> Nil, rv |-> Nil] \in Message20
    /\ \A b \in BOOLEAN : [t |-> "DeviceSvcInfo20", more |-> b] \in Message20
    /\ \A m \in Hmac \cup {Nil} : [t |-> "Done20", hmac |-> m] \in Message20
BY DEF Message20

\* The owner starts with well-typed tables and no call of TO2 running.
LEMMA InitTypeOK == Init => TypeOK /\ LocalsOK
<1> SUFFICES ASSUME Init PROVE TypeOK /\ LocalsOK
    OBVIOUS
<1>1. /\ EmptyRow \in SessionRow
      /\ Quiet \in Message
    BY MessageForms DEF EmptyRow, SessionRow
<1>2. PICK rv \in Rvs :
          /\ cred = [d \in Devices |-> [guid |-> InitGuid[d], rv |-> rv, mfg |-> InitMfg]]
          /\ vouchers = [g \in Guids |->
                            IF \E d \in Devices : InitGuid[d] = g
                            THEN LET d == CHOOSE d \in Devices : InitGuid[d] = g
                                 IN  [hdr |-> InitHeader(d, rv), hmac |-> HmacOf(d, InitHeader(d, rv)),
                                      entries |-> <<ownerKey>>]
                            ELSE Nil]
    BY DEF Init
<1>3. cred \in [Devices -> DeviceCredential]
    BY <1>2 DEF DeviceCredential
<1>4. ASSUME NEW d \in Devices
      PROVE  [hdr |-> InitHeader(d, rv), hmac |-> HmacOf(d, InitHeader(d, rv)),
              entries |-> <<ownerKey>>] \in Voucher
    <2>1. InitHeader(d, rv) \in VoucherHeader
        BY DEF InitHeader, VoucherHeader
    <2>2. HmacOf(d, InitHeader(d, rv)) \in Hmac
        BY <2>1 DEF HmacOf, Hmac
    <2>3. <<ownerKey>> \in Seq(Keys)
        BY DEF Init
    <2> QED
        BY <2>1, <2>2, <2>3 DEF Voucher
<1>5. vouchers \in [Guids -> OptVoucher]
    BY <1>2, <1>4 DEF OptVoucher
<1>6. used \subseteq Guids
    BY DEF Init
<1> QED
    BY <1>1, <1>3, <1>5, <1>6 DEF Init, TypeOK, Types, LocalsOK, KnowsVoucher, Waiting, NoJob

\* The pieces several actions share keep their variables typed.
LEMMA FailTypeOK ==
    ASSUME NEW M \in {Message, Message20}, Types(M), NEW a \in Attempts, NEW heard \in BOOLEAN, pc[a] \in Waiting, Fail(a, heard)
    PROVE  /\ pc' \in [Attempts -> Waiting \cup {"idle", "ok", "failed"}]
           /\ failedAt' \in [Attempts -> Waiting \cup {"idle"}]
           /\ errNet' \in [Attempts -> BOOLEAN]
           /\ info' \in [Attempts -> Info \cup {Nil}]
           /\ got' \in [Attempts -> Seq(Keys)]
           /\ repl' \in [Attempts -> VoucherHeader \cup {Nil}]
           /\ rounds' \in [Attempts -> Nat]
           /\ UNCHANGED <<cred, dev>>
BY DEF Types, Fail, Return

\* An error response keeps messages and session states well typed.
LEMMA RespondErrorTypeOK ==
    ASSUME NEW M \in {Message, Message20}, Types(M), NEW a \in Attempts, RespondError(a)
    PROVE  /\ net' \in [Attempts -> M]
           /\ sess' \in [Attempts -> {"none", "live", "dead", "cut"}]
BY MessageForms, MessageSets DEF Types, RespondError, Reply

\* So does a session the HTTP handler cuts off.
LEMMA CutOffTypeOK ==
    ASSUME NEW M \in {Message, Message20}, Types(M), NEW a \in Attempts, CutOff(a)
    PROVE  /\ net' \in [Attempts -> M]
           /\ sess' \in [Attempts -> {"none", "live", "dead", "cut"}]
BY MessageForms, MessageSets DEF Types, CutOff, Reply

\* An answer keeps messages and session states well typed.
LEMMA RespondTypeOK ==
    ASSUME NEW M \in {Message, Message20}, Types(M), NEW a \in Attempts, NEW m \in M,
           NEW s \in {"live", "dead"}, Respond(a, m, s)
    PROVE  /\ net' \in [Attempts -> M]
           /\ sess' \in [Attempts -> {"none", "live", "dead", "cut"}]
<1>1. CASE CutOff(a)
    BY <1>1, CutOffTypeOK
<1>2. CASE Reply(a, m) /\ sess' = [sess EXCEPT ![a] = s]
    BY <1>2, MessageForms, MessageSets DEF Types, Reply
<1> QED
    BY <1>1, <1>2 DEF Respond

\* A refused request keeps the types.
LEMMA RefuseRequestTypeOK ==
    ASSUME NEW M \in {Message, Message20}, Types(M), NEW a \in Attempts, RefuseRequest(a)
    PROVE  Types(M)'
BY CutOffTypeOK DEF RefuseRequest, Types, clientVars, ownerVars

\* Session.GUID names a voucher or nothing.
LEMMA SessionVoucherType ==
    ASSUME NEW M \in {Message, Message20}, Types(M), NEW a \in Attempts
    PROVE  SessionVoucher(a) \in OptVoucher
BY DEF Types, SessionVoucher, SessionRow, OptVoucher

\* Sending a well-typed request keeps pc and net well typed.
LEMMA SendTypeOK ==
    ASSUME NEW M \in {Message, Message20}, Types(M), NEW a \in Attempts, NEW next \in Waiting \cup {"ok"}, NEW m \in M,
           Send(a, next, m)
    PROVE  /\ pc' \in [Attempts -> Waiting \cup {"idle", "ok", "failed"}]
           /\ net' \in [Attempts -> M]
BY DEF Types, Send

\* A call of TO2 that fails leaves every variable well typed.
LEMMA FailStepTypeOK ==
    ASSUME NEW M \in {Message, Message20}, Types(M), NEW a \in Attempts, NEW heard \in BOOLEAN, pc[a] \in Waiting, Fail(a, heard),
           net' \in [Attempts -> M], UNCHANGED <<sessionVars, job, ownerVars>>
    PROVE  Types(M)'
<1>1. /\ pc' \in [Attempts -> Waiting \cup {"idle", "ok", "failed"}]
      /\ failedAt' \in [Attempts -> Waiting \cup {"idle"}]
      /\ errNet' \in [Attempts -> BOOLEAN]
      /\ info' \in [Attempts -> Info \cup {Nil}]
      /\ got' \in [Attempts -> Seq(Keys)]
      /\ repl' \in [Attempts -> VoucherHeader \cup {Nil}]
      /\ rounds' \in [Attempts -> Nat]
      /\ UNCHANGED <<cred, dev>>
    BY FailTypeOK
<1>2. UNCHANGED <<sess, row, running, job, vouchers, transit, ownerKey, used, rotations>>
    BY DEF sessionVars, ownerVars
<1> QED
    BY <1>1, <1>2 DEF Types

\* The steps of the TO2 function keep the types.
LEMMA DeviceTypeOK ==
    ASSUME NEW M \in {Message, Message20}, Types(M), LocalsOK, NEW a \in Attempts,
           DeviceStep(a) \/ Timeout(a) \/ \E d \in Devices : sendHelloDevice(a, d)
    PROVE  Types(M)'
<1> USE MessageForms
<1> net[a] \in M /\ net[a] \in Message20 /\ Message \subseteq M
    BY MessageSets DEF Types
<1>1. ASSUME NEW d \in Devices, sendHelloDevice(a, d) PROVE Types(M)'
    <2>1. [t |-> "HelloDevice", guid |-> cred[d].guid] \in Message
        BY DEF Types, DeviceCredential
    <2> QED
        BY <1>1, <2>1, SendTypeOK DEF Types, sendHelloDevice, Waiting, sessionVars, ownerVars
<1>2. ASSUME NEW i \in Info, NEW keys \in Seq(Keys), verifyVoucher(a, i, keys), pc[a] \in Waiting,
             UNCHANGED <<sessionVars, job, ownerVars>>
      PROVE  Types(M)'
    <2>1. CASE UNCHANGED <<cred, failedAt, dev, repl, rounds, errNet>>
               /\ info' = [info EXCEPT ![a] = i]
               /\ got' = [got EXCEPT ![a] = keys]
               /\ (Send(a, "entry", [t |-> "GetOVNextEntry", i |-> Len(keys)]) \/ Send(a, "prove", [t |-> "ProveDevice"]))
        <3>1. /\ pc' \in [Attempts -> Waiting \cup {"idle", "ok", "failed"}]
              /\ net' \in [Attempts -> M]
            <4>1. "entry" \in Waiting /\ "prove" \in Waiting /\ Len(keys) \in Nat
                BY DEF Waiting
            <4>2. [t |-> "GetOVNextEntry", i |-> Len(keys)] \in Message /\ [t |-> "ProveDevice"] \in Message
                BY <4>1
            <4> QED
                BY <2>1, <4>1, <4>2, SendTypeOK
        <3> QED
            BY <1>2, <2>1, <3>1 DEF Types, sessionVars, ownerVars
    <2>2. CASE net' = [net EXCEPT ![a] = Quiet] /\ Fail(a, TRUE)
        BY <1>2, <2>2, FailStepTypeOK DEF Types
    <2> QED
        BY <1>2, <2>1, <2>2 DEF verifyVoucher
<1>3. CASE recvProveOVHdr(a)
    <2> DEFINE i == [hdr |-> net[a].hdr, hmac |-> net[a].hmac, owner |-> net[a].owner, n |-> net[a].n]
    <2>1. i \in Info
        BY <1>3, MessageFields DEF recvProveOVHdr, Info
    <2>2. verifyVoucher(a, i, <<>>) /\ pc[a] \in Waiting /\ UNCHANGED <<sessionVars, job, ownerVars>>
        BY <1>3 DEF recvProveOVHdr, Waiting
    <2>3. <<>> \in Seq(Keys)
        OBVIOUS
    <2> HIDE DEF i
    <2> QED
        BY <1>2, <2>1, <2>2, <2>3
<1>4. CASE recvOVNextEntry(a)
    <2>1. info[a] \in Info /\ Append(got[a], net[a].key) \in Seq(Keys)
        BY <1>4, MessageFields DEF recvOVNextEntry, Waiting, Types, LocalsOK, KnowsVoucher
    <2> QED
        BY <1>2, <1>4, <2>1 DEF recvOVNextEntry, Waiting
<1>5. CASE recvSetupDevice(a)
    <2>1. net[a].guid \in Guids /\ net[a].rv \in Rvs /\ net[a].owner2 \in Keys
        BY <1>5, MessageFields DEF recvSetupDevice
    <2>2. pc[a] \in Waiting /\ "ready" \in Waiting /\ dev[a] \in Devices /\ info[a] \in Info
        BY <1>5 DEF recvSetupDevice, Waiting, LocalsOK, KnowsVoucher
    <2>3. CASE IsReuse(a, net[a]) /\ AllowCredentialReuse
        <3>1. /\ Send(a, "ready", [t |-> "DeviceReady", hmac |-> Nil])
              /\ UNCHANGED <<cred, failedAt, dev, info, got, repl, rounds, errNet, sessionVars, job, ownerVars>>
            BY <1>5, <2>3 DEF recvSetupDevice
        <3> QED
            BY <2>2, <3>1, SendTypeOK DEF Types, sessionVars, ownerVars
    <2>4. CASE IsReuse(a, net[a]) /\ ~AllowCredentialReuse
        <3>1. Fail(a, TRUE) /\ net' = [net EXCEPT ![a] = Quiet] /\ UNCHANGED <<sessionVars, job, ownerVars>>
            BY <1>5, <2>4 DEF recvSetupDevice
        <3> QED
            BY <2>2, <3>1, FailStepTypeOK DEF Types
    <2>5. CASE ~IsReuse(a, net[a])
        <3> DEFINE ovh == ReplacementOVH(a, net[a])
        <3>1. ovh \in VoucherHeader
            BY <2>1, <2>2 DEF ReplacementOVH, VoucherHeader, Info
        <3>2. [t |-> "DeviceReady", hmac |-> HmacOf(dev[a], ovh)] \in Message
            <4>1. HmacOf(dev[a], ovh) \in Hmac
                BY <2>2, <3>1 DEF HmacOf, Hmac
            <4> QED
                BY <4>1
        <3>3. /\ repl' = [repl EXCEPT ![a] = ovh]
              /\ Send(a, "ready", [t |-> "DeviceReady", hmac |-> HmacOf(dev[a], ovh)])
              /\ UNCHANGED <<cred, failedAt, dev, info, got, rounds, errNet, sessionVars, job, ownerVars>>
            BY <1>5, <2>5 DEF recvSetupDevice
        <3> HIDE DEF ovh
        <3> QED
            BY <2>2, <3>1, <3>2, <3>3, SendTypeOK DEF Types, sessionVars, ownerVars
    <2> QED
        BY <2>3, <2>4, <2>5
<1>60. ASSUME sendDeviceServiceInfo(a)
       PROVE  /\ pc' \in [Attempts -> Waiting \cup {"idle", "ok", "failed"}]
              /\ net' \in [Attempts -> M]
    <2>1. PICK more \in BOOLEAN :
              Send(a, IF more THEN "more" ELSE "info", [t |-> "DeviceInfo", more |-> more])
        BY <1>60 DEF sendDeviceServiceInfo
    <2> DEFINE p == IF more THEN "more" ELSE "info"
    <2>2. p \in Waiting /\ [t |-> "DeviceInfo", more |-> more] \in Message
        BY DEF Waiting
    <2>3. Send(a, p, [t |-> "DeviceInfo", more |-> more])
        BY <2>1
    <2> HIDE DEF p
    <2> QED
        BY <2>2, <2>3, SendTypeOK
<1>6. CASE recvOwnerReady(a)
    BY <1>6, <1>60 DEF Types, recvOwnerReady, sessionVars, ownerVars
<1>7. CASE recvOwnerInfo(a)
    <2>1. rounds[a] \in Nat /\ pc[a] \in Waiting
        BY <1>7 DEF Types, recvOwnerInfo, Waiting
    <2>2. CASE /\ rounds' = [rounds EXCEPT ![a] = IF @ < MaxRounds THEN @ + 1 ELSE @]
               /\ Send(a, "done", [t |-> "Done"]) \/ sendDeviceServiceInfo(a)
               /\ UNCHANGED <<cred, failedAt, dev, info, got, repl, errNet, sessionVars, job, ownerVars>>
        <3>1. /\ pc' \in [Attempts -> Waiting \cup {"idle", "ok", "failed"}]
              /\ net' \in [Attempts -> M]
            BY <1>60, <2>2, SendTypeOK DEF Waiting
        <3>2. rounds' \in [Attempts -> Nat]
            BY <2>1, <2>2 DEF Types
        <3> QED
            BY <2>2, <3>1, <3>2 DEF Types, sessionVars, ownerVars
    <2>3. CASE Fail(a, TRUE) /\ net' = [net EXCEPT ![a] = Quiet] /\ UNCHANGED <<sessionVars, job, ownerVars>>
        BY <2>1, <2>3, FailStepTypeOK DEF Types
    <2> QED
        BY <1>7, <2>2, <2>3, Zenon DEF recvOwnerInfo
<1>8. CASE recvDone2(a)
    <2>1. dev[a] \in Devices
        BY <1>8 DEF recvDone2, Waiting, LocalsOK
    <2>2. cred' \in [Devices -> DeviceCredential]
        BY <1>8, <2>1 DEF Types, recvDone2, DeviceCredential, VoucherHeader
    <2>3. Send(a, "ok", Quiet) /\ Return(a) /\ UNCHANGED <<failedAt, dev, errNet, sessionVars, job, ownerVars>>
        BY <1>8 DEF recvDone2
    <2>4. /\ info' \in [Attempts -> Info \cup {Nil}]
          /\ got' \in [Attempts -> Seq(Keys)]
          /\ repl' \in [Attempts -> VoucherHeader \cup {Nil}]
          /\ rounds' \in [Attempts -> Nat]
        BY <2>3 DEF Types, Return
    <2> QED
        BY <2>2, <2>3, <2>4, SendTypeOK DEF Types, sessionVars, ownerVars
<1>9. CASE recvError(a)
    BY <1>9, FailStepTypeOK DEF Types, recvError
<1>10. CASE Timeout(a)
    BY <1>10, FailStepTypeOK DEF Types, Timeout
<1> QED
    BY <1>1, <1>3, <1>4, <1>5, <1>6, <1>7, <1>8, <1>9, <1>10 DEF DeviceStep

\* An updated session row is a table of session rows again.
LEMMA RowTypeOK ==
    ASSUME NEW M \in {Message, Message20}, Types(M), NEW a \in Attempts
    PROVE  /\ row[a] \in SessionRow
           /\ \A r \in SessionRow : [row EXCEPT ![a] = r] \in [Attempts -> SessionRow]
BY DEF Types

\* The updates of a session row the handlers make.
LEMMA RowUpdates ==
    ASSUME NEW r \in SessionRow
    PROVE  /\ [r EXCEPT !.setupDv = TRUE] \in SessionRow
           /\ [r EXCEPT !.setupDv = TRUE, !.xsession = "complete"] \in SessionRow
           /\ \A g \in Guids, rv \in Rvs :
                 [r EXCEPT !.setupDv = TRUE, !.xsession = "complete", !.replGuid = g, !.rv = rv] \in SessionRow
           /\ \A h \in Hmac : [r EXCEPT !.hmac = h] \in SessionRow
           /\ \A st \in {"partial", "complete"} : [r EXCEPT !.devmod = st] \in SessionRow
           /\ r.modules < MaxModules => [r EXCEPT !.devmod = "complete", !.modules = r.modules + 1] \in SessionRow
<1>1. r.modules < MaxModules => r.modules + 1 \in 0 .. MaxModules
    BY DEF SessionRow
<1> QED
    BY <1>1 DEF SessionRow

\* So is an updated ReplaceVoucher job.
LEMMA JobUpdates ==
    ASSUME NEW j \in [st : {"add", "remove", "undo"}, ov : Voucher]
    PROVE  /\ [j EXCEPT !.st = "remove"] \in [st : {"add", "remove", "undo"}, ov : Voucher]
           /\ [j EXCEPT !.st = "undo"] \in [st : {"add", "remove", "undo"}, ov : Voucher]
OBVIOUS

\* The message handlers of TO2Server keep the types.
LEMMA ServerTypeOK ==
    ASSUME NEW M \in {Message, Message20}, Types(M), NEW a \in Attempts, ServerStep(a) \/ HandleError(a)
    PROVE  Types(M)'
<1> USE MessageForms, RespondErrorTypeOK
<1> net[a] \in M /\ net[a] \in Message20 /\ Message \subseteq M
    BY MessageSets DEF Types
<1>0. ASSUME UNCHANGED <<clientVars, errNet>>,
             net' \in [Attempts -> M], sess' \in [Attempts -> {"none", "live", "dead", "cut"}],
             row' \in [Attempts -> SessionRow], running' \in [Attempts -> BOOLEAN],
             job' \in [Attempts -> {NoJob} \cup [st : {"add", "remove", "undo"}, ov : Voucher]],
             vouchers' \in [Guids -> OptVoucher], used' \subseteq Guids,
             UNCHANGED <<transit, ownerKey, rotations>>
      PROVE  Types(M)'
    BY <1>0 DEF Types, clientVars
<1>1. CASE proveOVHdr(a)
    <2> DEFINE g == net[a].guid
               ov == vouchers[g]
               ok == HasEntries(ov) /\ OwnerPublicKey(ov) = ownerKey
    <2>1. g \in Guids /\ EmptyRow \in SessionRow
        BY <1>1, MessageFields DEF proveOVHdr, EmptyRow, SessionRow
    <2>2. UNCHANGED <<clientVars, errNet, running, job, ownerVars>>
        BY <1>1 DEF proveOVHdr
    <2>3. CASE ok
        <3>1. ov \in Voucher
            BY <2>1, <2>3 DEF Types, OptVoucher, HasEntries
        <3>2. [t |-> "ProveOVHdr", hdr |-> ov.hdr, hmac |-> ov.hmac,
               owner |-> ownerKey, n |-> Len(ov.entries)] \in Message
            BY <3>1 DEF Types, Voucher
        <3>3. /\ row' = [row EXCEPT ![a] = [EmptyRow EXCEPT !.guid = g, !.proveDv = TRUE, !.xsession = "begun"]]
              /\ Respond(a, [t |-> "ProveOVHdr", hdr |-> ov.hdr, hmac |-> ov.hmac,
                             owner |-> ownerKey, n |-> Len(ov.entries)], "live")
            BY <1>1, <2>3 DEF proveOVHdr
        <3>4. [EmptyRow EXCEPT !.guid = g, !.proveDv = TRUE, !.xsession = "begun"] \in SessionRow
            BY <2>1 DEF SessionRow, EmptyRow
        <3>5. row' \in [Attempts -> SessionRow]
            BY <3>3, <3>4 DEF Types
        <3>6. net' \in [Attempts -> M] /\ sess' \in [Attempts -> {"none", "live", "dead", "cut"}]
            BY <3>2, <3>3, RespondTypeOK
        <3> QED
            BY <1>0, <2>2, <3>5, <3>6 DEF Types, ownerVars
    <2>4. CASE ~ok
        <3>1. row' = [row EXCEPT ![a] = EmptyRow] /\ RespondError(a)
            BY <1>1, <2>4 DEF proveOVHdr
        <3>2. row' \in [Attempts -> SessionRow]
            BY <2>1, <3>1 DEF Types
        <3> QED
            BY <1>0, <2>2, <3>1, <3>2 DEF Types, ownerVars
    <2> QED
        BY <2>3, <2>4
<1>2. CASE ovNextEntry(a)
    <2> DEFINE ov == SessionVoucher(a)
               ok == sess[a] = "live" /\ HasEntries(ov) /\ net[a].i < Len(ov.entries)
    <2>1. UNCHANGED <<clientVars, errNet, row, running, job, ownerVars>>
        BY <1>2 DEF ovNextEntry
    <2>2. CASE ok
        <3>1. Respond(a, [t |-> "OVNextEntry", key |-> ov.entries[net[a].i + 1]], "live")
            BY <1>2, <2>2 DEF ovNextEntry
        <3>2. ov \in Voucher /\ net[a].i \in Nat
            BY <1>2, <2>2, SessionVoucherType, MessageFields DEF OptVoucher, HasEntries, ovNextEntry
        <3>3. ov.entries[net[a].i + 1] \in Keys
            BY <2>2, <3>2 DEF Voucher
        <3>4. net' \in [Attempts -> M] /\ sess' \in [Attempts -> {"none", "live", "dead", "cut"}]
            BY <3>1, <3>3, RespondTypeOK
        <3> QED
            BY <1>0, <2>1, <3>1, <3>4 DEF Types, ownerVars
    <2>3. CASE ~ok
        <3>1. RespondError(a)
            BY <1>2, <2>3 DEF ovNextEntry
        <3> QED
            BY <1>0, <2>1, <3>1 DEF Types, ownerVars
    <2> QED
        BY <2>2, <2>3
<1>3. CASE setupDevice(a)
    <2> DEFINE ov == SessionVoucher(a)
               ok == /\ sess[a] = "live" /\ HasEntries(ov)
                     /\ ov.hdr.dev = dev[a]
                     /\ row[a].proveDv /\ row[a].xsession = "begun"
    <2>1. UNCHANGED <<clientVars, errNet, running, job, vouchers, transit, ownerKey, rotations>>
        BY <1>3 DEF setupDevice
    <2>2. CASE ok
        <3>1. PICK g \in Guids, rv \in Rvs :
                    /\ replacementCredential(a, ov, g, rv)
                    /\ Respond(a, [t |-> "SetupDevice", guid |-> g, rv |-> rv, owner2 |-> ownerKey], "live")
            BY <1>3, <2>2 DEF setupDevice
        <3>3. row' \in [Attempts -> SessionRow] /\ used' \subseteq Guids
            <4> DEFINE r1 == [row[a] EXCEPT !.setupDv = TRUE, !.xsession = "complete"]
                       r2 == [row[a] EXCEPT !.setupDv = TRUE, !.xsession = "complete", !.replGuid = g, !.rv = rv]
            <4>1. r1 \in SessionRow /\ r2 \in SessionRow
                BY RowTypeOK, RowUpdates
            <4>2. row' = [row EXCEPT ![a] = r1] \/ row' = [row EXCEPT ![a] = r2]
                BY <3>1 DEF replacementCredential
            <4>3. used' \subseteq Guids
                BY <3>1 DEF replacementCredential, Types
            <4> HIDE DEF r1, r2
            <4> QED
                BY <4>1, <4>2, <4>3, RowTypeOK
        <3>4. net' \in [Attempts -> M] /\ sess' \in [Attempts -> {"none", "live", "dead", "cut"}]
            BY <3>1, RespondTypeOK DEF Types
        <3> QED
            BY <1>0, <2>1, <3>3, <3>4 DEF Types
    <2>3. CASE ~ok
        <3>1. /\ RespondError(a) /\ UNCHANGED used
              /\ row' = IF sess[a] = "live" THEN [row EXCEPT ![a] = [@ EXCEPT !.setupDv = TRUE]] ELSE row
            BY <1>3, <2>3 DEF setupDevice
        <3>2. row' \in [Attempts -> SessionRow]
            BY <3>1, RowTypeOK, RowUpdates DEF Types
        <3> QED
            BY <1>0, <2>1, <3>1, <3>2 DEF Types
    <2> QED
        BY <2>2, <2>3
<1>4. CASE ownerServiceInfoReady(a)
    <2>1. UNCHANGED <<clientVars, errNet, running, job, ownerVars>>
        BY <1>4 DEF ownerServiceInfoReady
    <2>2. net[a].hmac \in Hmac \cup {Nil}
        BY <1>4, MessageFields DEF ownerServiceInfoReady
    <2>3. CASE Decrypts(a)
        <3>1. /\ row' = IF net[a].hmac = Nil THEN row ELSE [row EXCEPT ![a] = [@ EXCEPT !.hmac = net[a].hmac]]
              /\ Respond(a, [t |-> "OwnerReady"], "live") \/ RespondError(a)
            BY <1>4, <2>3 DEF ownerServiceInfoReady
        <3>2. row' \in [Attempts -> SessionRow]
            BY <2>2, <3>1, RowTypeOK, RowUpdates DEF Types
        <3>3. net' \in [Attempts -> M] /\ sess' \in [Attempts -> {"none", "live", "dead", "cut"}]
            BY <3>1, RespondTypeOK
        <3> QED
            BY <1>0, <2>1, <3>1, <3>2, <3>3 DEF Types, ownerVars
    <2>4. CASE ~Decrypts(a)
        <3>1. RespondError(a) /\ UNCHANGED row
            BY <1>4, <2>4 DEF ownerServiceInfoReady
        <3> QED
            BY <1>0, <2>1, <3>1 DEF Types, ownerVars
    <2> QED
        BY <2>3, <2>4
<1>5. CASE ownerServiceInfo(a)
    <2>1. UNCHANGED <<clientVars, errNet, job, ownerVars>>
        BY <1>5 DEF ownerServiceInfo
    <2>2. ASSUME row' \in [Attempts -> SessionRow], running' \in [Attempts -> BOOLEAN],
                 \/ RespondError(a)
                 \/ \E b, c \in BOOLEAN : Respond(a, [t |-> "OwnerInfo", more |-> b, done |-> c], "live")
          PROVE  Types(M)'
        <3>1. net' \in [Attempts -> M] /\ sess' \in [Attempts -> {"none", "live", "dead", "cut"}]
            BY <2>2, RespondTypeOK DEF Types
        <3> QED
            BY <1>0, <2>1, <2>2, <3>1 DEF Types, ownerVars
    <2>3. CASE Decrypts(a) /\ ServiceInfoFails(a)
        BY <2>2, <2>3 DEF ServiceInfoFails, Types
    <2>4. CASE ~Decrypts(a) /\ RespondError(a) /\ UNCHANGED <<row, running>>
        BY <2>2, <2>4 DEF Types
    <2>5. CASE /\ row' = [row EXCEPT ![a] = [@ EXCEPT !.devmod = DevmodState(a)]]
               /\ Respond(a, [t |-> "OwnerInfo", more |-> FALSE, done |-> FALSE], "live")
               /\ UNCHANGED running
        <3>1. row' \in [Attempts -> SessionRow]
            <4> DEFINE r == [row[a] EXCEPT !.devmod = DevmodState(a)]
            <4>1. r \in SessionRow
                BY RowTypeOK, RowUpdates DEF DevmodState
            <4>2. row' = [row EXCEPT ![a] = r]
                BY <2>5
            <4> HIDE DEF r
            <4> QED
                BY <4>1, <4>2, RowTypeOK
        <3> QED
            BY <2>2, <2>5, <3>1 DEF Types
    <2>6. CASE produceOwnerServiceInfo(a)
        <3>1. row' \in [Attempts -> SessionRow]
            <4> DEFINE r1 == [row[a] EXCEPT !.devmod = DevmodState(a)]
                       r2 == [row[a] EXCEPT !.devmod = "complete", !.modules = row[a].modules + 1]
                       r3 == [row[a] EXCEPT !.devmod = "complete"]
            <4>1. r1 \in SessionRow /\ r3 \in SessionRow /\ (row[a].modules < MaxModules => r2 \in SessionRow)
                BY RowTypeOK, RowUpdates DEF DevmodState
            <4>2. \/ row' = [row EXCEPT ![a] = r1]
                  \/ row[a].modules < MaxModules /\ row' = [row EXCEPT ![a] = r2]
                  \/ row' = [row EXCEPT ![a] = r3]
                BY <2>6 DEF produceOwnerServiceInfo
            <4> HIDE DEF r1, r2, r3
            <4> QED
                BY <4>1, <4>2, RowTypeOK
        <3>2. running' \in [Attempts -> BOOLEAN]
            BY <2>6 DEF produceOwnerServiceInfo, Types
        <3>3. \E b, c \in BOOLEAN : Respond(a, [t |-> "OwnerInfo", more |-> b, done |-> c], "live")
            BY <2>6 DEF produceOwnerServiceInfo
        <3> QED
            BY <2>2, <2>6, <3>1, <3>2, <3>3
    <2> QED
        BY <1>5, <2>3, <2>4, <2>5, <2>6 DEF ownerServiceInfo
<1>6. CASE to2Done2(a)
    <2>1. UNCHANGED <<clientVars, errNet, row, ownerVars>>
        BY <1>6 DEF to2Done2
    <2>2. running' \in [Attempts -> BOOLEAN]
        BY <1>6 DEF to2Done2, Types
    <2>3. CASE RespondError(a) /\ UNCHANGED job
        BY <1>0, <2>1, <2>2, <2>3 DEF Types, ownerVars
    <2>4. CASE Respond(a, [t |-> "Done2"], "dead") /\ UNCHANGED job
        <3>1. net' \in [Attempts -> M] /\ sess' \in [Attempts -> {"none", "live", "dead", "cut"}]
            BY <2>4, RespondTypeOK DEF Types
        <3> QED
            BY <1>0, <2>1, <2>2, <2>4, <3>1 DEF Types, ownerVars
    <2>5. CASE /\ row[a].hmac # Nil
               /\ HasEntries(SessionVoucher(a)) /\ row[a].rv # Nil /\ row[a].replGuid # Nil
               /\ job' = [job EXCEPT ![a] = [st |-> "add", ov |-> ReplacementVoucher(a)]]
               /\ UNCHANGED <<net, sess>>
        <3>1. SessionVoucher(a) \in Voucher
            BY <2>5, SessionVoucherType DEF HasEntries, OptVoucher
        <3>2. ReplacementVoucher(a) \in Voucher
            BY <2>5, <3>1 DEF ReplacementVoucher, Voucher, VoucherHeader, Types, SessionRow
        <3>3. job' \in [Attempts -> {NoJob} \cup [st : {"add", "remove", "undo"}, ov : Voucher]]
            BY <2>5, <3>2 DEF Types
        <3> QED
            BY <1>0, <2>1, <2>2, <2>5, <3>3 DEF Types, ownerVars
    <2> QED
        BY <1>6, <2>3, <2>4, <2>5 DEF to2Done2
<1>7. ASSUME job[a].st # "none"
      PROVE  job[a] \in [st : {"add", "remove", "undo"}, ov : Voucher]
    BY <1>7 DEF Types, NoJob
<1>8. CASE ReplaceAdd(a)
    <2>1. UNCHANGED <<clientVars, errNet, row, running, transit, ownerKey, used, rotations>>
        BY <1>8 DEF ReplaceAdd
    <2>2. job[a] \in [st : {"add", "remove", "undo"}, ov : Voucher]
        BY <1>7, <1>8 DEF ReplaceAdd
    <2>3. job' \in [Attempts -> {NoJob} \cup [st : {"add", "remove", "undo"}, ov : Voucher]]
        <3> DEFINE j == [job[a] EXCEPT !.st = "remove"]
        <3>1. j \in [st : {"add", "remove", "undo"}, ov : Voucher]
            BY <2>2, JobUpdates
        <3>2. job' = [job EXCEPT ![a] = j] \/ job' = [job EXCEPT ![a] = NoJob]
            BY <1>8 DEF ReplaceAdd
        <3> HIDE DEF j
        <3> QED
            BY <3>1, <3>2 DEF Types
    <2>4. vouchers' \in [Guids -> OptVoucher]
        <3>1. vouchers \in [Guids -> OptVoucher] /\ job[a].ov \in OptVoucher
            BY <2>2 DEF Types, OptVoucher
        <3>2. vouchers' = vouchers \/ vouchers' = [vouchers EXCEPT ![job[a].ov.hdr.guid] = job[a].ov]
            BY <1>8, Zenon DEF ReplaceAdd
        <3> QED
            BY <3>1, <3>2
    <2>5. net' \in [Attempts -> M] /\ sess' \in [Attempts -> {"none", "live", "dead", "cut"}]
        BY <1>8 DEF ReplaceAdd, Types
    <2> QED
        BY <1>0, <2>1, <2>3, <2>4, <2>5 DEF Types
<1>9. CASE ReplaceRemove(a)
    <2>1. UNCHANGED <<clientVars, errNet, row, running, transit, ownerKey, used, rotations>>
        BY <1>9 DEF ReplaceRemove
    <2>2. job[a] \in [st : {"add", "remove", "undo"}, ov : Voucher]
        BY <1>7, <1>9 DEF ReplaceRemove
    <2>3. job' \in [Attempts -> {NoJob} \cup [st : {"add", "remove", "undo"}, ov : Voucher]]
        <3> DEFINE j == [job[a] EXCEPT !.st = "undo"]
        <3>1. j \in [st : {"add", "remove", "undo"}, ov : Voucher]
            BY <2>2, JobUpdates
        <3>2. job' = [job EXCEPT ![a] = j] \/ job' = [job EXCEPT ![a] = NoJob]
            BY <1>9 DEF ReplaceRemove
        <3> HIDE DEF j
        <3> QED
            BY <3>1, <3>2 DEF Types
    <2>4. vouchers' \in [Guids -> OptVoucher]
        BY <1>9 DEF ReplaceRemove, Types, OptVoucher
    <2>5. net' \in [Attempts -> M] /\ sess' \in [Attempts -> {"none", "live", "dead", "cut"}]
        BY <1>9, RespondTypeOK DEF ReplaceRemove, Types
    <2> QED
        BY <1>0, <2>1, <2>3, <2>4, <2>5 DEF Types
<1>10. CASE ReplaceUndo(a)
    <2>1. UNCHANGED <<clientVars, errNet, row, running, transit, ownerKey, used, rotations>>
        BY <1>10 DEF ReplaceUndo
    <2>2. job' \in [Attempts -> {NoJob} \cup [st : {"add", "remove", "undo"}, ov : Voucher]]
        BY <1>10 DEF ReplaceUndo, Types
    <2>3. vouchers' \in [Guids -> OptVoucher]
        BY <1>10 DEF ReplaceUndo, Types, OptVoucher
    <2> QED
        BY <1>0, <1>10, <2>1, <2>2, <2>3 DEF ReplaceUndo, Types
<1>11. CASE HandleError(a)
    BY <1>11 DEF HandleError, Types, clientVars, ownerVars
<1>12. CASE RefuseRequest(a)
    BY <1>12, RefuseRequestTypeOK
<1> QED
    BY <1>1, <1>2, <1>3, <1>4, <1>5, <1>6, <1>8, <1>9, <1>10, <1>11, <1>12 DEF ServerStep

\* Lost messages and crashes keep the types.
LEMMA FaultTypeOK ==
    ASSUME NEW M \in {Message, Message20}, Types(M), NEW a \in Attempts, Lose(a) \/ Crash(a)
    PROVE  Types(M)'
<1>1. CASE Lose(a)
    BY <1>1, MessageForms, MessageSets DEF Types, Lose, clientVars, sessionVars, ownerVars
<1>2. CASE Crash(a)
    BY <1>2, MessageForms, MessageSets DEF Types, Crash, clientVars, sessionVars, ownerVars
<1> QED
    BY <1>1, <1>2

\* Resell, AddVoucher and ReplaceOwnerKey keep the types.
LEMMA OwnerTypeOK ==
    ASSUME NEW M \in {Message, Message20}, Types(M), OwnerStep
    PROVE  Types(M)'
<1>1. ASSUME NEW g \in Guids, NEW k \in Keys, Resell(g, k) PROVE Types(M)'
    <2> DEFINE ov == vouchers[g]
    <2>1. ov \in Voucher
        BY <1>1 DEF Resell, Types, OptVoucher
    <2>2. [ov EXCEPT !.entries = Append(ov.entries, k)] \in Voucher
        <3>1. ov.entries \in Seq(Keys)
            BY <2>1 DEF Voucher
        <3>2. Append(ov.entries, k) \in Seq(Keys)
            BY <3>1
        <3> DEFINE e == Append(ov.entries, k)
        <3> HIDE DEF e
        <3>3. e \in Seq(Keys) => [ov EXCEPT !.entries = e] \in Voucher
            BY <2>1 DEF Voucher
        <3> QED
            BY <3>2, <3>3 DEF e
    <2>3. transit' \subseteq Voucher
        <3> DEFINE e == [ov EXCEPT !.entries = Append(ov.entries, k)]
        <3>1. transit' = transit \cup {e} \/ transit' = transit \cup {ov}
            BY <1>1, Zenon DEF Resell
        <3>2. e \in Voucher
            BY <2>2
        <3> HIDE DEF e
        <3> QED
            BY <2>1, <3>1, <3>2 DEF Types
    <2>4. vouchers' \in [Guids -> OptVoucher]
        BY <1>1 DEF Resell, Types, OptVoucher
    <2>5. UNCHANGED <<clientVars, net, errNet, sessionVars, job, ownerKey, used, rotations>>
        BY <1>1 DEF Resell
    <2> QED
        BY <2>3, <2>4, <2>5 DEF Types, clientVars, sessionVars
<1>2. ASSUME NEW ov \in transit, AddVoucher(ov) PROVE Types(M)'
    BY <1>2 DEF AddVoucher, Types, OptVoucher, clientVars, sessionVars
<1>3. ASSUME NEW k \in Keys, ReplaceOwnerKey(k) PROVE Types(M)'
    BY <1>3 DEF ReplaceOwnerKey, Types, clientVars, sessionVars
<1> QED
    BY <1>1, <1>2, <1>3 DEF OwnerStep

\* The steps of the TO2v200 function keep the types.
LEMMA DeviceTypeOK20 ==
    ASSUME Types(Message20), LocalsOK, NEW a \in Attempts,
           DeviceStep20(a) \/ \E d \in Devices : sendHelloDeviceProbe(a, d)
    PROVE  Types(Message20)'
<1> USE MessageForms20
<1> net[a] \in Message20
    BY DEF Types
<1>1. ASSUME NEW d \in Devices, sendHelloDeviceProbe(a, d) PROVE Types(Message20)'
    <2>1. [t |-> "HelloDeviceProbe", guid |-> cred[d].guid] \in Message20
        BY DEF Types, DeviceCredential
    <2> QED
        BY <1>1, <2>1, SendTypeOK DEF Types, sendHelloDeviceProbe, Waiting, sessionVars, ownerVars
<1>2. CASE recvHelloDeviceAck20(a)
    <2>1. [t |-> "ProveDevice20"] \in Message20 /\ "prove" \in Waiting
        BY DEF Waiting
    <2> QED
        BY <1>2, <2>1, SendTypeOK DEF Types, recvHelloDeviceAck20, sessionVars, ownerVars
<1>3. ASSUME NEW i \in Info, NEW keys \in Seq(Keys), verifyOwner20(a, i, keys), pc[a] \in Waiting
      PROVE  Types(Message20)'
    <2>1. CASE UNCHANGED <<cred, failedAt, dev, repl, rounds, errNet>>
               /\ info' = [info EXCEPT ![a] = i]
               /\ got' = [got EXCEPT ![a] = keys]
               /\ (Send(a, "entry", [t |-> "GetOVNextEntry20", i |-> Len(keys)])
                     \/ Send(a, "ready", [t |-> "DeviceSvcInfoRdy20"]))
        <3>1. /\ pc' \in [Attempts -> Waiting \cup {"idle", "ok", "failed"}]
              /\ net' \in [Attempts -> Message20]
            <4>1. "entry" \in Waiting /\ "ready" \in Waiting /\ Len(keys) \in Nat
                BY DEF Waiting
            <4>2. /\ [t |-> "GetOVNextEntry20", i |-> Len(keys)] \in Message20
                  /\ [t |-> "DeviceSvcInfoRdy20"] \in Message20
                BY <4>1
            <4> QED
                BY <2>1, <4>1, <4>2, SendTypeOK
        <3> QED
            BY <1>3, <2>1, <3>1 DEF Types, verifyOwner20, sessionVars, ownerVars
    <2>2. CASE net' = [net EXCEPT ![a] = Quiet] /\ Fail(a, TRUE)
        <3>1. Quiet \in Message20
            BY MessageForms, MessageSets
        <3>2. net' \in [Attempts -> Message20]
            BY <2>2, <3>1 DEF Types
        <3>3. UNCHANGED <<sessionVars, job, ownerVars>>
            BY <1>3 DEF verifyOwner20
        <3> QED
            BY <1>3, <2>2, <3>2, <3>3, FailStepTypeOK
    <2> QED
        BY <1>3, <2>1, <2>2 DEF verifyOwner20
<1>4. CASE recvProveOVHdr20(a)
    <2> DEFINE i == [hdr |-> net[a].hdr, hmac |-> net[a].hmac, owner |-> net[a].owner, n |-> net[a].n]
    <2>1. i \in Info
        BY <1>4, MessageFields DEF recvProveOVHdr20, Info
    <2>2. verifyOwner20(a, i, <<>>) /\ pc[a] \in Waiting
        BY <1>4 DEF recvProveOVHdr20, Waiting
    <2>3. <<>> \in Seq(Keys)
        OBVIOUS
    <2> HIDE DEF i
    <2> QED
        BY <1>3, <2>1, <2>2, <2>3
<1>5. CASE recvOVNextEntry20(a)
    <2>1. info[a] \in Info /\ Append(got[a], net[a].key) \in Seq(Keys)
        BY <1>5, MessageFields DEF recvOVNextEntry20, Waiting, Types, LocalsOK, KnowsVoucher
    <2> QED
        BY <1>3, <1>5, <2>1 DEF recvOVNextEntry20, Waiting
<1>6. ASSUME sendDeviceSvcInfo20(a), UNCHANGED <<cred, failedAt, dev, info, got, errNet, sessionVars, job, ownerVars>>,
             repl' \in [Attempts -> VoucherHeader \cup {Nil}]
      PROVE  Types(Message20)'
    <2>1. PICK more \in BOOLEAN : /\ rounds' = [rounds EXCEPT ![a] = IF more THEN @ + 1 ELSE @]
                                  /\ Send(a, "info", [t |-> "DeviceSvcInfo20", more |-> more])
        BY <1>6 DEF sendDeviceSvcInfo20
    <2>2. [t |-> "DeviceSvcInfo20", more |-> more] \in Message20
        OBVIOUS
    <2>3. /\ pc' \in [Attempts -> Waiting \cup {"idle", "ok", "failed"}]
          /\ net' \in [Attempts -> Message20]
        BY <2>1, <2>2, SendTypeOK DEF Waiting
    <2>4. rounds \in [Attempts -> Nat]
        BY DEF Types
    <2>5. rounds' \in [Attempts -> Nat]
        BY <2>1, <2>4
    <2> QED
        BY <1>6, <2>3, <2>5 DEF Types, sessionVars, ownerVars
<1>7. ASSUME NEW h \in BOOLEAN, net' = [net EXCEPT ![a] = Quiet], Fail(a, h), pc[a] \in Waiting,
             UNCHANGED <<sessionVars, job, ownerVars>>
      PROVE  Types(Message20)'
    <2>1. Quiet \in Message20
        BY MessageForms, MessageSets
    <2>2. net' \in [Attempts -> Message20]
        BY <1>7, <2>1 DEF Types
    <2> QED
        BY <1>7, <2>2, FailStepTypeOK
<1>8. CASE recvSetupDevice20(a)
    <2>1. pc[a] \in Waiting /\ UNCHANGED <<sessionVars, job, ownerVars>>
        BY <1>8 DEF recvSetupDevice20, Waiting
    <2>2. \/ sendDeviceSvcInfo20(a) /\ UNCHANGED <<cred, failedAt, dev, info, got, repl, errNet>>
          \/ \E h \in BOOLEAN : net' = [net EXCEPT ![a] = Quiet] /\ Fail(a, h)
          \/ /\ net[a].guid # Nil
             /\ repl' = [repl EXCEPT ![a] = ReplacementOVH20(a, net[a])]
             /\ sendDeviceSvcInfo20(a)
             /\ UNCHANGED <<cred, failedAt, dev, info, got, errNet>>
        BY <1>8, Zenon DEF recvSetupDevice20
    <2>3. CASE sendDeviceSvcInfo20(a) /\ UNCHANGED <<cred, failedAt, dev, info, got, repl, errNet>>
        BY <1>6, <2>1, <2>3 DEF Types
    <2>4. CASE /\ net[a].guid # Nil
               /\ repl' = [repl EXCEPT ![a] = ReplacementOVH20(a, net[a])]
               /\ sendDeviceSvcInfo20(a)
               /\ UNCHANGED <<cred, failedAt, dev, info, got, errNet>>
        <3>1. net[a].guid \in Guids /\ net[a].rv \in Rvs
            BY <1>8, <2>4, MessageFields DEF recvSetupDevice20
        <3>2. info[a] \in Info
            BY <1>8 DEF recvSetupDevice20, LocalsOK, KnowsVoucher
        <3>3. ReplacementOVH20(a, net[a]) \in VoucherHeader
            BY <3>1, <3>2 DEF ReplacementOVH20, VoucherHeader, Info
        <3>4. repl' \in [Attempts -> VoucherHeader \cup {Nil}]
            BY <2>4, <3>3 DEF Types
        <3> QED
            BY <1>6, <2>1, <2>4, <3>4
    <2> QED
        BY <1>7, <2>1, <2>2, <2>3, <2>4
<1>9. CASE recvOwnerSvcInfo20(a)
    <2>1. UNCHANGED <<cred, failedAt, dev, info, got, repl, errNet, sessionVars, job, ownerVars>>
        BY <1>9 DEF recvOwnerSvcInfo20
    <2> DEFINE h == IF repl[a] = Nil THEN Nil ELSE HmacOf(dev[a], repl[a])
               m == [t |-> "Done20", hmac |-> h]
    <2>2. CASE Send(a, "done", m) /\ UNCHANGED rounds
        <3>1. repl[a] \in VoucherHeader \cup {Nil} /\ dev[a] \in Devices
            BY <1>9 DEF recvOwnerSvcInfo20, Types, LocalsOK, Waiting
        <3>2. h \in Hmac \cup {Nil}
            BY <3>1 DEF HmacOf, Hmac
        <3>3. m \in Message20
            <4> HIDE DEF h
            <4> QED
                BY <3>2
        <3> HIDE DEF m
        <3>4. "done" \in Waiting
            BY DEF Waiting
        <3> QED
            BY <2>1, <2>2, <3>3, <3>4, SendTypeOK DEF Types, sessionVars, ownerVars
    <2>3. CASE sendDeviceSvcInfo20(a)
        BY <1>6, <2>1, <2>3 DEF Types
    <2> QED
        BY <1>9, <2>2, <2>3 DEF recvOwnerSvcInfo20
<1>10. CASE recvDoneAck20(a) \/ (recvError(a) /\ UNCHANGED deviceDone)
    BY <1>10, DeviceTypeOK DEF recvDoneAck20, DeviceStep
<1> QED
    BY <1>1, <1>2, <1>4, <1>5, <1>8, <1>9, <1>10 DEF DeviceStep20

\* The updates of a session row the 2.0 handlers make.
LEMMA RowUpdates20 ==
    /\ EmptyRow \in SessionRow
    /\ \A g \in Guids : [EmptyRow EXCEPT !.guid = g, !.proveDv = TRUE] \in SessionRow
    /\ \A r \in SessionRow : [r EXCEPT !.xsession = "complete"] \in SessionRow
    /\ \A r \in SessionRow, g \in Guids, rv \in Rvs :
          [r EXCEPT !.setupDv = TRUE, !.replGuid = g, !.rv = rv] \in SessionRow
<1>1. EmptyRow \in SessionRow
    BY DEF SessionRow, EmptyRow
<1>2. \A g \in Guids : [EmptyRow EXCEPT !.guid = g, !.proveDv = TRUE] \in SessionRow
    BY <1>1 DEF SessionRow
<1>3. \A r \in SessionRow : [r EXCEPT !.xsession = "complete"] \in SessionRow
    BY DEF SessionRow
<1>4. \A r \in SessionRow, g \in Guids, rv \in Rvs :
          [r EXCEPT !.setupDv = TRUE, !.replGuid = g, !.rv = rv] \in SessionRow
    BY DEF SessionRow
<1> QED
    BY <1>1, <1>2, <1>3, <1>4

\* The count of voucher entries is sent as a uint8.
LEMMA Uint8 == ASSUME NEW n \in Nat PROVE n % 256 \in Nat
OBVIOUS

\* The 2.0 handlers of TO2Server keep the types.
LEMMA ServerTypeOK20 ==
    ASSUME Types(Message20), NEW a \in Attempts, ServerStep20(a)
    PROVE  Types(Message20)'
<1> USE MessageForms20
<1> net[a] \in Message20
    BY DEF Types
<1>0. ASSUME UNCHANGED <<clientVars, errNet>>,
             net' \in [Attempts -> Message20], sess' \in [Attempts -> {"none", "live", "dead", "cut"}],
             row' \in [Attempts -> SessionRow], running' \in [Attempts -> BOOLEAN],
             job' \in [Attempts -> {NoJob} \cup [st : {"add", "remove", "undo"}, ov : Voucher]],
             used' \subseteq Guids,
             UNCHANGED <<vouchers, transit, ownerKey, rotations>>
      PROVE  Types(Message20)'
    BY <1>0 DEF Types, clientVars
<1>00. ASSUME RespondError(a)
       PROVE  net' \in [Attempts -> Message20] /\ sess' \in [Attempts -> {"none", "live", "dead", "cut"}]
    BY <1>00, RespondErrorTypeOK
<1>01. ASSUME NEW m \in Message20, NEW s \in {"live", "dead"}, Respond(a, m, s)
       PROVE  net' \in [Attempts -> Message20] /\ sess' \in [Attempts -> {"none", "live", "dead", "cut"}]
    BY <1>01, RespondTypeOK
<1>1. CASE helloDeviceAck20(a)
    <2>1. net[a].guid \in Guids
        BY <1>1, MessageFields DEF helloDeviceAck20
    <2>2. UNCHANGED <<clientVars, errNet, running, job, ownerVars>>
        BY <1>1 DEF helloDeviceAck20
    <2> DEFINE r == [EmptyRow EXCEPT !.guid = net[a].guid, !.proveDv = TRUE]
    <2>3. r \in SessionRow /\ EmptyRow \in SessionRow
        BY <2>1, RowUpdates20
    <2>4. \/ /\ row' = [row EXCEPT ![a] = r]
             /\ Respond(a, [t |-> "HelloDeviceAck20"], "live")
          \/ row' = [row EXCEPT ![a] = EmptyRow] /\ RespondError(a)
        BY <1>1, Zenon DEF helloDeviceAck20
    <2> HIDE DEF r
    <2>5. row' \in [Attempts -> SessionRow]
        BY <2>3, <2>4, RowTypeOK DEF Types
    <2>6. net' \in [Attempts -> Message20] /\ sess' \in [Attempts -> {"none", "live", "dead", "cut"}]
        BY <1>00, <2>4, <1>01 DEF Types
    <2> QED
        BY <1>0, <2>2, <2>5, <2>6 DEF Types, ownerVars
<1>2. CASE proveOVHdr20(a)
    <2> DEFINE ov == SessionVoucher(a)
               ok == /\ sess[a] = "live" /\ ov # Nil
                     /\ ov.hdr.dev = dev[a]
                     /\ row[a].proveDv
                     /\ OwnerPublicKey(ov) = ownerKey
               n == Len(ov.entries) % 256
               m == [t |-> "ProveOVHdr20", hdr |-> ov.hdr, hmac |-> ov.hmac, owner |-> ownerKey, n |-> n]
               r == [row[a] EXCEPT !.xsession = "complete"]
    <2>1. UNCHANGED <<clientVars, errNet, running, job, ownerVars>>
        BY <1>2 DEF proveOVHdr20
    <2>2. \/ ok /\ row' = [row EXCEPT ![a] = r] /\ Respond(a, m, "live")
          \/ RespondError(a) /\ UNCHANGED row
        BY <1>2, Zenon DEF proveOVHdr20
    <2>3. CASE ok /\ row' = [row EXCEPT ![a] = r] /\ Respond(a, m, "live")
        <3>1. ov \in Voucher
            BY <2>3, SessionVoucherType DEF OptVoucher
        <3>2. n \in Nat
            <4>1. Len(ov.entries) \in Nat
                BY <3>1 DEF Voucher
            <4> QED
                BY <4>1, Uint8
        <3>3. ov.hdr \in VoucherHeader /\ ov.hmac \in Hmac /\ ownerKey \in Keys
            BY <3>1 DEF Voucher, Types
        <3>4. m \in Message20
            <4> HIDE DEF n
            <4> QED
                BY <3>2, <3>3
        <3>5. r \in SessionRow
            BY RowTypeOK, RowUpdates20
        <3> HIDE DEF m, r
        <3>6. row' \in [Attempts -> SessionRow]
            BY <2>3, <3>5, RowTypeOK
        <3>7. net' \in [Attempts -> Message20] /\ sess' \in [Attempts -> {"none", "live", "dead", "cut"}]
            BY <2>3, <3>4, <1>01
        <3> QED
            BY <1>0, <2>1, <2>3, <3>6, <3>7 DEF Types, ownerVars
    <2>4. CASE RespondError(a) /\ UNCHANGED row
        BY <1>0, <1>00, <2>1, <2>4 DEF Types, ownerVars
    <2> QED
        BY <2>2, <2>3, <2>4
<1>3. CASE ovNextEntry20(a)
    <2> DEFINE ov == SessionVoucher(a)
               ok == sess[a] = "live" /\ ov # Nil /\ net[a].i < Len(ov.entries)
    <2>1. UNCHANGED <<clientVars, errNet, row, running, job, ownerVars>>
        BY <1>3 DEF ovNextEntry20
    <2>2. CASE ok
        <3>1. Respond(a, [t |-> "OVNextEntry20", key |-> ov.entries[net[a].i + 1]], "live")
            BY <1>3, <2>2 DEF ovNextEntry20
        <3>2. ov \in Voucher /\ net[a].i \in Nat
            BY <1>3, <2>2, SessionVoucherType, MessageFields DEF OptVoucher, ovNextEntry20
        <3>3. ov.entries[net[a].i + 1] \in Keys
            BY <2>2, <3>2 DEF Voucher
        <3>4. net' \in [Attempts -> Message20] /\ sess' \in [Attempts -> {"none", "live", "dead", "cut"}]
            BY <3>1, <3>3, <1>01
        <3> QED
            BY <1>0, <2>1, <3>1, <3>4 DEF Types, ownerVars
    <2>3. CASE ~ok
        <3>1. RespondError(a)
            BY <1>3, <2>3 DEF ovNextEntry20
        <3> QED
            BY <1>0, <1>00, <2>1, <3>1 DEF Types, ownerVars
    <2> QED
        BY <2>2, <2>3
<1>4. CASE setupDevice20(a)
    <2>1. UNCHANGED <<clientVars, errNet, running, job, vouchers, transit, ownerKey, rotations>>
        BY <1>4 DEF setupDevice20
    <2> DEFINE r1 == [row[a] EXCEPT !.setupDv = TRUE]
               r2(g, rv) == [row[a] EXCEPT !.setupDv = TRUE, !.replGuid = g, !.rv = rv]
    <2>2. \/ /\ row' = [row EXCEPT ![a] = r1]
             /\ Respond(a, [t |-> "SetupDevice20", guid |-> Nil, rv |-> Nil], "live")
             /\ UNCHANGED used
          \/ \E g \in Guids \ used, rv \in Rvs :
                /\ row' = [row EXCEPT ![a] = r2(g, rv)]
                /\ Respond(a, [t |-> "SetupDevice20", guid |-> g, rv |-> rv], "live")
                /\ used' = used \cup {g}
          \/ RespondError(a) /\ UNCHANGED <<row, used>>
        BY <1>4, Zenon DEF setupDevice20
    <2>3. r1 \in SessionRow /\ \A g \in Guids, rv \in Rvs : r2(g, rv) \in SessionRow
        BY RowTypeOK, RowUpdates, RowUpdates20
    <2> HIDE DEF r1, r2
    <2>4. CASE /\ row' = [row EXCEPT ![a] = r1]
               /\ Respond(a, [t |-> "SetupDevice20", guid |-> Nil, rv |-> Nil], "live")
               /\ UNCHANGED used
        <3>1. /\ row' \in [Attempts -> SessionRow] /\ net' \in [Attempts -> Message20]
             /\ sess' \in [Attempts -> {"none", "live", "dead", "cut"}]
            BY <1>01, <2>3, <2>4, RowTypeOK
        <3> QED
            BY <1>0, <2>1, <2>4, <3>1 DEF Types
    <2>5. ASSUME NEW g \in Guids \ used, NEW rv \in Rvs,
                 row' = [row EXCEPT ![a] = r2(g, rv)],
                 Respond(a, [t |-> "SetupDevice20", guid |-> g, rv |-> rv], "live"),
                 used' = used \cup {g}
          PROVE  Types(Message20)'
        <3>1. r2(g, rv) \in SessionRow /\ [t |-> "SetupDevice20", guid |-> g, rv |-> rv] \in Message20
            BY <2>3
        <3>2. /\ row' \in [Attempts -> SessionRow] /\ net' \in [Attempts -> Message20]
              /\ sess' \in [Attempts -> {"none", "live", "dead", "cut"}]
            BY <1>01, <2>5, <3>1, RowTypeOK
        <3> QED
            BY <1>0, <2>1, <2>5, <3>2 DEF Types
    <2>6. CASE RespondError(a) /\ UNCHANGED <<row, used>>
        BY <1>0, <1>00, <2>1, <2>6 DEF Types
    <2> QED
        BY <2>2, <2>4, <2>5, <2>6
<1>5. CASE ownerSvcInfo20(a)
    <2>1. UNCHANGED <<clientVars, errNet, row, job, ownerVars>>
        BY <1>5 DEF ownerSvcInfo20
    <2>2. \/ Respond(a, [t |-> "OwnerSvcInfo20"], "live") /\ UNCHANGED running
          \/ RespondError(a) /\ running' = [running EXCEPT ![a] = FALSE]
        BY <1>5 DEF ownerSvcInfo20
    <2>3. net' \in [Attempts -> Message20] /\ sess' \in [Attempts -> {"none", "live", "dead", "cut"}]
        BY <1>00, <2>2, <1>01 DEF Types
    <2>4. running' \in [Attempts -> BOOLEAN]
        BY <2>2 DEF Types
    <2> QED
        BY <1>0, <2>1, <2>3, <2>4 DEF Types, ownerVars
<1>6. CASE doneAck20(a)
    <2>1. UNCHANGED <<clientVars, errNet, row, ownerVars>>
        BY <1>6 DEF doneAck20
    <2>2. running' \in [Attempts -> BOOLEAN]
        BY <1>6 DEF doneAck20, Types
    <2>3. \/ RespondError(a) /\ UNCHANGED job
          \/ Respond(a, [t |-> "Done2"], "dead") /\ UNCHANGED job
          \/ /\ net[a].hmac # Nil
             /\ HasEntries(SessionVoucher(a)) /\ row[a].rv # Nil /\ row[a].replGuid # Nil
             /\ job' = [job EXCEPT ![a] = [st |-> "add", ov |-> ReplacementVoucher20(a)]]
             /\ UNCHANGED <<net, sess>>
        BY <1>6, Zenon DEF doneAck20
    <2>4. CASE RespondError(a) /\ UNCHANGED job
        BY <1>0, <1>00, <2>1, <2>2, <2>4 DEF Types, ownerVars
    <2>5. CASE Respond(a, [t |-> "Done2"], "dead") /\ UNCHANGED job
        <3>1. [t |-> "Done2"] \in Message20
            BY MessageForms, MessageSets
        <3>2. net' \in [Attempts -> Message20] /\ sess' \in [Attempts -> {"none", "live", "dead", "cut"}]
            BY <2>5, <3>1, <1>01 DEF Types
        <3> QED
            BY <1>0, <2>1, <2>2, <2>5, <3>2 DEF Types, ownerVars
    <2>6. CASE /\ net[a].hmac # Nil
               /\ HasEntries(SessionVoucher(a)) /\ row[a].rv # Nil /\ row[a].replGuid # Nil
               /\ job' = [job EXCEPT ![a] = [st |-> "add", ov |-> ReplacementVoucher20(a)]]
               /\ UNCHANGED <<net, sess>>
        <3>1. SessionVoucher(a) \in Voucher
            BY <2>6, SessionVoucherType DEF HasEntries, OptVoucher
        <3>2. net[a].hmac \in Hmac
            BY <1>6, <2>6, MessageFields DEF doneAck20
        <3>3. [guid |-> row[a].replGuid, rv |-> row[a].rv, mfg |-> ownerKey,
               dev |-> SessionVoucher(a).hdr.dev] \in VoucherHeader
            BY <2>6, <3>1 DEF Voucher, VoucherHeader, Types, SessionRow
        <3>4. ReplacementVoucher20(a) \in Voucher
            <4> DEFINE h == [guid |-> row[a].replGuid, rv |-> row[a].rv, mfg |-> ownerKey,
                             dev |-> SessionVoucher(a).hdr.dev]
            <4>1. ReplacementVoucher20(a) = [hdr |-> h, hmac |-> net[a].hmac, entries |-> <<>>]
                BY DEF ReplacementVoucher20, ReplacementVoucher
            <4>2. h \in VoucherHeader
                BY <3>3
            <4> HIDE DEF h
            <4> QED
                BY <3>2, <4>1, <4>2 DEF Voucher
        <3>5. job' \in [Attempts -> {NoJob} \cup [st : {"add", "remove", "undo"}, ov : Voucher]]
            BY <2>6, <3>4 DEF Types
        <3> QED
            BY <1>0, <2>1, <2>2, <2>6, <3>5 DEF Types, ownerVars
    <2> QED
        BY <2>3, <2>4, <2>5, <2>6
<1>7. CASE ReplaceAdd(a) \/ ReplaceRemove(a) \/ ReplaceUndo(a) \/ RefuseRequest(a)
    BY <1>7, ServerTypeOK DEF ServerStep
<1> QED
    BY <1>1, <1>2, <1>3, <1>4, <1>5, <1>6, <1>7 DEF ServerStep20

------------------------------------------------------------------------------
(* What a step may change.                                                   *)

TypesOK == Types(Message20)

\* A step of 1.01 or of 2.0, by who takes it.
Hello(a) == \E d \in Devices : sendHelloDevice(a, d) \/ sendHelloDeviceProbe(a, d)
Receive(a) == DeviceStep(a) \/ DeviceStep20(a) \/ Timeout(a)
ClientStep(a) == Hello(a) \/ Receive(a)
Serve(a) == ServerStep(a) \/ ServerStep20(a)
HandlerStep(a) == Serve(a) \/ HandleError(a)
FaultStep(a) == Lose(a) \/ Crash(a)

AnyStep ==
    \/ UNCHANGED vars
    \/ \E a \in Attempts : ClientStep(a) \/ HandlerStep(a) \/ FaultStep(a)
    \/ OwnerStep

\* A step is one of the device, of a handler, a fault or one of the owner.
LEMMA StepKinds == [Next]_vars \/ [Next20]_vars20 => AnyStep
<1>1. [Next]_vars => AnyStep
    BY DEF Next, AnyStep, ClientStep, Hello, Receive, HandlerStep, Serve, FaultStep
<1>2. [Next20]_vars20 => AnyStep
    <2>1. V200 \subseteq Attempts
        BY V200Assumption
    <2> QED
        BY <2>1 DEF Next20, vars20, AnyStep, ClientStep, Hello, Receive, HandlerStep, Serve, FaultStep
<1> QED
    BY <1>1, <1>2

\* A set of session rows is closed under the handlers, a step under the types.
LEMMA HandlerTypesOK == ASSUME TypesOK, NEW a \in Attempts, HandlerStep(a) PROVE TypesOK'
BY ServerTypeOK, ServerTypeOK20 DEF TypesOK, HandlerStep, Serve

\* Every step keeps the types.
LEMMA NextTypesOK == ASSUME TypesOK, LocalsOK, AnyStep PROVE TypesOK'
<1>1. CASE UNCHANGED vars
    BY <1>1 DEF TypesOK, Types, vars, clientVars, sessionVars, ownerVars
<1>2. ASSUME NEW a \in Attempts, ClientStep(a) PROVE TypesOK'
    <2>1. ASSUME DeviceStep(a) \/ Timeout(a) \/ \E d \in Devices : sendHelloDevice(a, d) PROVE TypesOK'
        BY <2>1, DeviceTypeOK DEF TypesOK
    <2>2. ASSUME DeviceStep20(a) \/ \E d \in Devices : sendHelloDeviceProbe(a, d) PROVE TypesOK'
        BY <2>2, DeviceTypeOK20 DEF TypesOK
    <2> QED
        BY <1>2, <2>1, <2>2 DEF ClientStep, Hello, Receive
<1>3. ASSUME NEW a \in Attempts, FaultStep(a) PROVE TypesOK'
    BY <1>3, FaultTypeOK DEF TypesOK, FaultStep
<1>4. OwnerStep => TypesOK'
    BY OwnerTypeOK DEF TypesOK
<1> QED
    BY <1>1, <1>2, <1>3, <1>4, HandlerTypesOK DEF AnyStep

SameCore(r, q) ==
    /\ r.guid = q.guid /\ r.xsession = q.xsession
    /\ r.replGuid = q.replGuid /\ r.rv = q.rv /\ r.hmac = q.hmac

\* A running call of TO2 stays with its device.
LEMMA DeviceKeepsDev ==
    ASSUME NEW a \in Attempts, Receive(a)
    PROVE  dev' = dev
<1>1. ASSUME NEW h, Fail(a, h) PROVE dev' = dev
    BY <1>1 DEF Fail
<1>2. ASSUME NEW i, NEW keys, verifyVoucher(a, i, keys) PROVE dev' = dev
    BY <1>2, Zenon DEF verifyVoucher, Fail
<1>3. CASE recvProveOVHdr(a)
    BY <1>2, <1>3, Zenon DEF recvProveOVHdr
<1>4. CASE recvOVNextEntry(a)
    BY <1>2, <1>4, Zenon DEF recvOVNextEntry
<1>5. CASE recvSetupDevice(a)
    BY <1>1, <1>5, Zenon DEF recvSetupDevice
<1>6. CASE recvOwnerInfo(a)
    BY <1>1, <1>6, Zenon DEF recvOwnerInfo
<1>7. CASE recvOwnerReady(a) \/ recvDone2(a)
    BY <1>7 DEF recvOwnerReady, recvDone2
<1>8. CASE recvError(a) \/ Timeout(a)
    BY <1>1, <1>8 DEF recvError, Timeout
<1>9. ASSUME NEW i, NEW keys, verifyOwner20(a, i, keys) PROVE dev' = dev
    BY <1>9, Zenon DEF verifyOwner20, Fail
<1>10. CASE recvProveOVHdr20(a)
    BY <1>9, <1>10, Zenon DEF recvProveOVHdr20
<1>11. CASE recvOVNextEntry20(a)
    BY <1>9, <1>11, Zenon DEF recvOVNextEntry20
<1>12. CASE recvSetupDevice20(a)
    BY <1>1, <1>12, Zenon DEF recvSetupDevice20
<1>13. CASE recvHelloDeviceAck20(a) \/ recvOwnerSvcInfo20(a) \/ recvDoneAck20(a)
    BY <1>13 DEF recvHelloDeviceAck20, recvOwnerSvcInfo20, recvDoneAck20, recvDone2
<1> QED
    BY <1>3, <1>4, <1>5, <1>6, <1>7, <1>8, <1>10, <1>11, <1>12, <1>13 DEF Receive, DeviceStep, DeviceStep20

\* The device changes nothing the owner service keeps.
LEMMA DeviceFrame ==
    ASSUME NEW a \in Attempts, ClientStep(a)
    PROVE  UNCHANGED <<sess, row, running, job, vouchers, transit, ownerKey, used, rotations>>
<1>1. ASSUME DeviceStep(a) \/ Timeout(a) \/ \E d \in Devices : sendHelloDevice(a, d)
      PROVE  UNCHANGED <<sess, row, running, job, vouchers, transit, ownerKey, used, rotations>>
    BY <1>1 DEF DeviceStep, recvProveOVHdr, recvOVNextEntry, recvSetupDevice, recvOwnerReady, recvOwnerInfo,
       recvDone2, recvError, Timeout, sendHelloDevice, sessionVars, ownerVars
<1>2. ASSUME DeviceStep20(a) \/ \E d \in Devices : sendHelloDeviceProbe(a, d)
      PROVE  UNCHANGED <<sess, row, running, job, vouchers, transit, ownerKey, used, rotations>>
    BY <1>2 DEF DeviceStep20, recvHelloDeviceAck20, recvProveOVHdr20, recvOVNextEntry20, verifyOwner20,
       recvSetupDevice20, recvOwnerSvcInfo20, recvDoneAck20, recvDone2, recvError, sendHelloDeviceProbe,
       sessionVars, ownerVars
<1> QED
    BY <1>1, <1>2 DEF ClientStep, Hello, Receive

\* After a message of service info the device waits for the answer to it.
LEMMA InfoSent ==
    ASSUME NEW a, sendDeviceServiceInfo(a)
    PROVE  \E p \in {"more", "info"}, h \in BOOLEAN : Send(a, p, [t |-> "DeviceInfo", more |-> h])
<1>1. PICK h \in BOOLEAN : Send(a, IF h THEN "more" ELSE "info", [t |-> "DeviceInfo", more |-> h])
    BY DEF sendDeviceServiceInfo
<1> QED
    BY <1>1

\* What the client sees of an answer: all of it, an error, or nothing.
LEMMA AnswerSeen ==
    ASSUME TypesOK, NEW a \in Attempts, NEW m, NEW s, Respond(a, m, s)
    PROVE  net'[a] \in {m, Quiet, ErrorMessage}
<1>1. net \in [Attempts -> Message20]
    BY DEF TypesOK, Types
<1> QED
    BY <1>1 DEF Respond, CutOff, Reply

\* A server step on session a leaves the other sessions alone.
LEMMA ServerFrame ==
    ASSUME TypesOK, NEW a \in Attempts, HandlerStep(a), NEW b \in Attempts, b # a
    PROVE  row'[b] = row[b] /\ net'[b] = net[b] /\ job'[b] = job[b]
<1> row \in [Attempts -> SessionRow] /\ net \in [Attempts -> Message20]
    /\ job \in [Attempts -> {NoJob} \cup [st : {"add", "remove", "undo"}, ov : Voucher]]
    BY DEF TypesOK, Types
<1>1. CASE proveOVHdr(a)
    BY <1>1 DEF proveOVHdr, RespondError, Reply, Respond, CutOff
<1>2. CASE ovNextEntry(a)
    BY <1>2 DEF ovNextEntry, RespondError, Reply, Respond, CutOff
<1>3. CASE setupDevice(a)
    BY <1>3 DEF setupDevice, replacementCredential, RespondError, Reply, Respond, CutOff
<1>4. CASE ownerServiceInfoReady(a)
    BY <1>4 DEF ownerServiceInfoReady, RespondError, Reply, Respond, CutOff
<1>5. CASE ownerServiceInfo(a)
    BY <1>5 DEF ownerServiceInfo, produceOwnerServiceInfo, ServiceInfoFails, RespondError, Reply, Respond, CutOff
<1>6. CASE to2Done2(a)
    BY <1>6 DEF to2Done2, RespondError, Reply, Respond, CutOff
<1>7. CASE ReplaceAdd(a) \/ ReplaceRemove(a) \/ ReplaceUndo(a)
    BY <1>7 DEF ReplaceAdd, ReplaceRemove, ReplaceUndo, RespondError, Reply, Respond, CutOff
<1>8. CASE HandleError(a)
    BY <1>8 DEF HandleError
<1>9. CASE helloDeviceAck20(a) \/ proveOVHdr20(a)
    BY <1>9 DEF helloDeviceAck20, proveOVHdr20, RespondError, Reply, Respond, CutOff
<1>10. CASE ovNextEntry20(a) \/ ownerSvcInfo20(a)
    BY <1>10 DEF ovNextEntry20, ownerSvcInfo20, RespondError, Reply, Respond, CutOff
<1>11. CASE setupDevice20(a)
    BY <1>11 DEF setupDevice20, RespondError, Reply, Respond, CutOff
<1>12. CASE doneAck20(a)
    BY <1>12 DEF doneAck20, RespondError, Reply, Respond, CutOff
<1>13. CASE RefuseRequest(a)
    BY <1>13 DEF RefuseRequest, CutOff, Reply
<1> QED
    BY <1>1, <1>2, <1>3, <1>4, <1>5, <1>6, <1>7, <1>8, <1>9, <1>10, <1>11, <1>12, <1>13
    DEF HandlerStep, Serve, ServerStep, ServerStep20

\* A handler changes nothing the device keeps, nor the owner keys.
LEMMA ServerClient ==
    ASSUME NEW a \in Attempts, HandlerStep(a)
    PROVE  UNCHANGED <<clientVars, transit, ownerKey, rotations>>
<1>1. ASSUME ServerStep(a) \/ HandleError(a)
      PROVE  UNCHANGED <<clientVars, transit, ownerKey, rotations>>
    BY <1>1 DEF ServerStep, proveOVHdr, ovNextEntry, setupDevice, ownerServiceInfoReady,
       ownerServiceInfo, to2Done2, ReplaceAdd, ReplaceRemove, ReplaceUndo, RefuseRequest, HandleError, ownerVars
<1>2. ASSUME ServerStep20(a)
      PROVE  UNCHANGED <<clientVars, transit, ownerKey, rotations>>
    BY <1>2 DEF ServerStep20, helloDeviceAck20, proveOVHdr20, ovNextEntry20, setupDevice20,
       ownerSvcInfo20, doneAck20, ReplaceAdd, ReplaceRemove, ReplaceUndo, RefuseRequest, ownerVars
<1> QED
    BY <1>1, <1>2 DEF HandlerStep, Serve

\* A fault takes messages and jobs away and leaves the rest alone.
LEMMA FaultFrame ==
    ASSUME TypesOK, NEW a \in Attempts, FaultStep(a)
    PROVE  /\ UNCHANGED <<clientVars, row, vouchers, transit, ownerKey, used, rotations>>
           /\ \A b \in Attempts : /\ net'[b] = net[b] \/ net'[b] = Quiet
                                  /\ job'[b] = job[b] \/ job'[b] = NoJob
BY DEF FaultStep, Lose, Crash, sessionVars, ownerVars, TypesOK, Types

\* The owner's operations leave sessions and devices alone.
LEMMA OwnerFrame ==
    ASSUME OwnerStep
    PROVE  UNCHANGED <<clientVars, net, row, job, used>>
BY DEF OwnerStep, Resell, AddVoucher, ReplaceOwnerKey, sessionVars

\* What a server step may do to its own session row.
LEMMA ServerRow ==
    ASSUME TypesOK, NEW a \in Attempts, HandlerStep(a)
    PROVE  \/ SameCore(row'[a], row[a]) /\ used' = used
           \/ /\ net[a].t \in {"HelloDevice", "HelloDeviceProbe"} /\ used' = used
              /\ row'[a].replGuid = Nil /\ row'[a].hmac = Nil /\ row'[a].xsession # "complete"
           \/ /\ net[a].t = "DeviceReady" /\ used' = used /\ Decrypts(a)
              /\ SameCore([row'[a] EXCEPT !.hmac = row[a].hmac], row[a])
              /\ row'[a].hmac = net[a].hmac
           \/ /\ net[a].t = "ProveDevice"
              /\ row[a].xsession = "begun" /\ row'[a].xsession = "complete"
              /\ row'[a].guid = row[a].guid /\ row'[a].hmac = row[a].hmac
              /\ SessionVoucher(a) # Nil /\ SessionVoucher(a).hdr.dev = dev[a]
              /\ \/ row'[a].replGuid = row[a].replGuid /\ used' = used
                 \/ /\ row'[a].replGuid \in Guids \ used
                    /\ used' = used \cup {row'[a].replGuid}
                    /\ net'[a] \in {Quiet, ErrorMessage, [t |-> "SetupDevice", guid |-> row'[a].replGuid,
                                           rv |-> row'[a].rv, owner2 |-> ownerKey]}
           \/ /\ net[a].t = "ProveDevice20" /\ used' = used
              /\ row'[a] = [row[a] EXCEPT !.xsession = "complete"]
              /\ SessionVoucher(a) # Nil /\ SessionVoucher(a).hdr.dev = dev[a]
           \/ /\ net[a].t = "DeviceSvcInfoRdy20" /\ Decrypts(a)
              /\ row'[a].xsession = "complete" /\ row'[a].guid = row[a].guid /\ row'[a].hmac = row[a].hmac
              /\ row'[a].replGuid \in Guids \ used
              /\ used' = used \cup {row'[a].replGuid}
              /\ net'[a] \in {Quiet, ErrorMessage, [t |-> "SetupDevice20", guid |-> row'[a].replGuid, rv |-> row'[a].rv]}
<1>0. row \in [Attempts -> SessionRow] /\ row[a] \in SessionRow /\ net \in [Attempts -> Message20]
    BY DEF TypesOK, Types
<1>1. CASE proveOVHdr(a)
    <2>1. row'[a].replGuid = Nil /\ row'[a].hmac = Nil /\ row'[a].xsession # "complete"
        <3> DEFINE r == [EmptyRow EXCEPT !.guid = net[a].guid, !.proveDv = TRUE, !.xsession = "begun"]
        <3>1. row' = [row EXCEPT ![a] = r] \/ row' = [row EXCEPT ![a] = EmptyRow]
            BY <1>1, Zenon DEF proveOVHdr
        <3>2. r.replGuid = Nil /\ r.hmac = Nil /\ r.xsession # "complete"
            BY DEF EmptyRow
        <3>3. EmptyRow.replGuid = Nil /\ EmptyRow.hmac = Nil /\ EmptyRow.xsession # "complete"
            BY DEF EmptyRow
        <3> HIDE DEF r
        <3> QED
            BY <1>0, <3>1, <3>2, <3>3
    <2> QED
        BY <1>1, <2>1 DEF proveOVHdr, ownerVars
<1>2. CASE UNCHANGED <<row, used>>
    BY <1>2 DEF SameCore
<1>3. CASE setupDevice(a)
    <2> DEFINE ov == SessionVoucher(a)
               ok == /\ sess[a] = "live" /\ HasEntries(ov)
                     /\ ov.hdr.dev = dev[a]
                     /\ row[a].proveDv /\ row[a].xsession = "begun"
    <2>1. CASE ok
        <3>1. PICK g \in Guids, rv \in Rvs :
                    /\ replacementCredential(a, ov, g, rv)
                    /\ Respond(a, [t |-> "SetupDevice", guid |-> g, rv |-> rv, owner2 |-> ownerKey], "live")
            BY <1>3, <2>1 DEF setupDevice
        <3>2. net'[a] \in {Quiet, ErrorMessage, [t |-> "SetupDevice", guid |-> g, rv |-> rv, owner2 |-> ownerKey]}
            BY <3>1, AnswerSeen
        <3>3. /\ row'[a].xsession = "complete" /\ row'[a].guid = row[a].guid /\ row'[a].hmac = row[a].hmac
              /\ \/ row'[a].replGuid = row[a].replGuid /\ used' = used
                 \/ /\ row'[a].replGuid = g /\ g \in Guids \ used /\ row'[a].rv = rv
                    /\ used' = used \cup {g}
            <4> DEFINE r1 == [row[a] EXCEPT !.setupDv = TRUE, !.xsession = "complete"]
                       r2 == [row[a] EXCEPT !.setupDv = TRUE, !.xsession = "complete", !.replGuid = g, !.rv = rv]
            <4>1. \/ row' = [row EXCEPT ![a] = r1] /\ used' = used
                  \/ row' = [row EXCEPT ![a] = r2] /\ g \in Guids \ used /\ used' = used \cup {g}
                BY <3>1, Zenon DEF replacementCredential
            <4>2. /\ r1.xsession = "complete" /\ r1.guid = row[a].guid /\ r1.hmac = row[a].hmac
                  /\ r1.replGuid = row[a].replGuid
                BY <1>0 DEF SessionRow
            <4>3. /\ r2.xsession = "complete" /\ r2.guid = row[a].guid /\ r2.hmac = row[a].hmac
                  /\ r2.replGuid = g /\ r2.rv = rv
                BY <1>0 DEF SessionRow
            <4> HIDE DEF r1, r2
            <4> QED
                BY <1>0, <4>1, <4>2, <4>3
        <3>4. SessionVoucher(a) # Nil
            BY <2>1 DEF HasEntries
        <3> QED
            BY <1>3, <2>1, <3>2, <3>3, <3>4 DEF setupDevice
    <2>2. CASE ~ok
        <3>1. row' = IF sess[a] = "live" THEN [row EXCEPT ![a] = [@ EXCEPT !.setupDv = TRUE]] ELSE row
            BY <1>3, <2>2 DEF setupDevice
        <3>2. used' = used
            BY <1>3, <2>2 DEF setupDevice
        <3> QED
            BY <1>0, <3>1, <3>2 DEF SameCore, SessionRow
    <2> QED
        BY <2>1, <2>2
<1>4. CASE ownerServiceInfoReady(a)
    <2>1. used' = used /\ net[a].t = "DeviceReady"
        BY <1>4 DEF ownerServiceInfoReady, ownerVars
    <2>2. CASE row' = row
        BY <2>1, <2>2 DEF SameCore
    <2>3. CASE Decrypts(a) /\ row' = [row EXCEPT ![a] = [@ EXCEPT !.hmac = net[a].hmac]]
        BY <1>0, <2>1, <2>3 DEF SameCore, SessionRow
    <2> QED
        BY <1>4, <2>2, <2>3 DEF ownerServiceInfoReady
<1>5. CASE ownerServiceInfo(a)
    <2>1. used' = used
        BY <1>5 DEF ownerServiceInfo, ownerVars
    <2>2. SameCore(row'[a], row[a])
        <3> DEFINE r1 == [row[a] EXCEPT !.devmod = DevmodState(a)]
                   r2 == [row[a] EXCEPT !.devmod = "complete", !.modules = row[a].modules + 1]
                   r3 == [row[a] EXCEPT !.devmod = "complete"]
        <3>1. row' = row \/ \E r \in {r1, r2, r3} : row' = [row EXCEPT ![a] = r]
            BY <1>5 DEF ownerServiceInfo, produceOwnerServiceInfo, ServiceInfoFails
        <3>2. SameCore(r1, row[a]) /\ SameCore(r2, row[a]) /\ SameCore(r3, row[a]) /\ SameCore(row[a], row[a])
            BY <1>0 DEF SessionRow, SameCore
        <3> HIDE DEF r1, r2, r3
        <3> QED
            BY <1>0, <3>1, <3>2
    <2> QED
        BY <2>1, <2>2
<1>6. ASSUME \/ ovNextEntry(a) \/ to2Done2(a) \/ ReplaceAdd(a) \/ ReplaceRemove(a) \/ ReplaceUndo(a)
             \/ RefuseRequest(a) \/ HandleError(a)
             \/ ovNextEntry20(a) \/ ownerSvcInfo20(a) \/ doneAck20(a)
      PROVE  UNCHANGED <<row, used>>
    BY <1>6 DEF ovNextEntry, to2Done2, ReplaceAdd, ReplaceRemove, ReplaceUndo, RefuseRequest, HandleError,
        ovNextEntry20, ownerSvcInfo20, doneAck20, ownerVars
<1>7. CASE helloDeviceAck20(a)
    <2> DEFINE r == [EmptyRow EXCEPT !.guid = net[a].guid, !.proveDv = TRUE]
    <2>1. row' = [row EXCEPT ![a] = r] \/ row' = [row EXCEPT ![a] = EmptyRow]
        BY <1>7, Zenon DEF helloDeviceAck20
    <2>2. r.replGuid = Nil /\ r.hmac = Nil /\ r.xsession # "complete"
        BY DEF EmptyRow
    <2>3. EmptyRow.replGuid = Nil /\ EmptyRow.hmac = Nil /\ EmptyRow.xsession # "complete"
        BY DEF EmptyRow
    <2>4. net[a].t = "HelloDeviceProbe" /\ used' = used
        BY <1>7 DEF helloDeviceAck20, ownerVars
    <2> HIDE DEF r
    <2> QED
        BY <1>0, <2>1, <2>2, <2>3, <2>4
<1>8. CASE proveOVHdr20(a)
    <2>1. net[a].t = "ProveDevice20" /\ used' = used
        BY <1>8 DEF proveOVHdr20, ownerVars
    <2>2. \/ /\ SessionVoucher(a) # Nil /\ SessionVoucher(a).hdr.dev = dev[a]
             /\ row' = [row EXCEPT ![a] = [@ EXCEPT !.xsession = "complete"]]
          \/ row' = row
        BY <1>8, Zenon DEF proveOVHdr20
    <2> QED
        BY <1>0, <2>1, <2>2 DEF SameCore
<1>9. CASE setupDevice20(a)
    <2> DEFINE r1 == [row[a] EXCEPT !.setupDv = TRUE]
               r2(g, rv) == [row[a] EXCEPT !.setupDv = TRUE, !.replGuid = g, !.rv = rv]
    <2>1. \/ row' = [row EXCEPT ![a] = r1] /\ UNCHANGED used
          \/ /\ Decrypts(a)
             /\ \E g \in Guids \ used, rv \in Rvs :
                /\ row' = [row EXCEPT ![a] = r2(g, rv)]
                /\ Respond(a, [t |-> "SetupDevice20", guid |-> g, rv |-> rv], "live")
                /\ used' = used \cup {g}
          \/ UNCHANGED <<row, used>>
        BY <1>9, Zenon DEF setupDevice20
    <2>2. SameCore(r1, row[a])
        BY <1>0 DEF SameCore, SessionRow
    <2>3. CASE row' = [row EXCEPT ![a] = r1] /\ UNCHANGED used
        <3> HIDE DEF r1
        <3> QED
            BY <1>0, <2>2, <2>3
    <2>4. ASSUME Decrypts(a), NEW g \in Guids \ used, NEW rv \in Rvs,
                 row' = [row EXCEPT ![a] = r2(g, rv)],
                 Respond(a, [t |-> "SetupDevice20", guid |-> g, rv |-> rv], "live"), used' = used \cup {g}
          PROVE  /\ row'[a].xsession = "complete" /\ row'[a].guid = row[a].guid /\ row'[a].hmac = row[a].hmac
                 /\ row'[a].replGuid \in Guids \ used
                 /\ used' = used \cup {row'[a].replGuid}
                 /\ net'[a] \in {Quiet, ErrorMessage, [t |-> "SetupDevice20", guid |-> row'[a].replGuid, rv |-> row'[a].rv]}
        <3>1. /\ r2(g, rv).xsession = "complete" /\ r2(g, rv).guid = row[a].guid /\ r2(g, rv).hmac = row[a].hmac
              /\ r2(g, rv).replGuid = g /\ r2(g, rv).rv = rv
            BY <1>0, <2>4 DEF SessionRow, Decrypts
        <3>2. net'[a] \in {Quiet, ErrorMessage, [t |-> "SetupDevice20", guid |-> g, rv |-> rv]}
            BY <2>4, AnswerSeen
        <3>3. row'[a] = r2(g, rv)
            BY <1>0, <2>4
        <3> HIDE DEF r2
        <3> QED
            BY <2>4, <3>1, <3>2, <3>3
    <2>5. net[a].t = "DeviceSvcInfoRdy20"
        BY <1>9 DEF setupDevice20
    <2> QED
        BY <1>2, <2>1, <2>3, <2>4, <2>5
<1> QED
    BY <1>1, <1>2, <1>3, <1>4, <1>5, <1>6, <1>7, <1>8, <1>9 DEF HandlerStep, Serve, ServerStep, ServerStep20

\* Nobody's GUID is given to somebody else.
LEMMA BelongsUnique ==
    ASSUME GuidsOK, NEW g \in Guids, NEW d, NEW e, Belongs(g, d), Belongs(g, e)
    PROVE  d = e
BY DEF GuidsOK, Belongs

\* Belongs in the next state, for a GUID and a device of this one.
BelongsNext(g, d) ==
    \/ d \in Devices /\ InitGuid[d] = g
    \/ \E a \in Attempts : row'[a].replGuid = g /\ dev'[a] = d

\* A session keeps the replacement it offered, and its device.
LEMMA Stable ==
    ASSUME TypesOK, SessionsOK, AnyStep, NEW b \in Attempts, row[b].replGuid # Nil
    PROVE  row'[b].replGuid = row[b].replGuid /\ row'[b].rv = row[b].rv /\ dev'[b] = dev[b]
<1>0. row[b].xsession = "complete" /\ row[b] # EmptyRow /\ ~Idle(b)
      /\ net[b].t \notin {"HelloDevice", "HelloDeviceProbe"} \cup BeforeSetup20
    <2>1. row[b] # EmptyRow
        BY DEF EmptyRow
    <2> QED
        BY <2>1 DEF SessionsOK, SessionOK
<1>1. CASE UNCHANGED vars
    BY <1>1 DEF vars, clientVars, sessionVars
<1>2. ASSUME NEW a \in Attempts, ClientStep(a) PROVE dev'[b] = dev[b] /\ row' = row
    <2>1. ASSUME NEW d \in Devices, sendHelloDevice(a, d) \/ sendHelloDeviceProbe(a, d) PROVE dev'[b] = dev[b]
        BY <1>0, <2>1 DEF sendHelloDevice, sendHelloDeviceProbe, TypesOK, Types
    <2>2. ASSUME Receive(a) PROVE dev'[b] = dev[b]
        <3>1. dev' = dev
            BY <2>2, DeviceKeepsDev
        <3> QED
            BY <3>1
    <2>3. row' = row
        BY <1>2, DeviceFrame
    <2> QED
        BY <1>2, <2>1, <2>2, <2>3 DEF ClientStep, Hello
<1>3. ASSUME NEW a \in Attempts, HandlerStep(a)
      PROVE  row'[b].replGuid = row[b].replGuid /\ row'[b].rv = row[b].rv /\ dev'[b] = dev[b]
    <2>1. dev' = dev
        BY <1>3, ServerClient DEF clientVars
    <2>2. CASE a = b
        <3>1. row[b] \in SessionRow /\ row'[b] \in SessionRow
            BY <1>3, HandlerTypesOK DEF TypesOK, Types
        <3>2. net[b].t # "DeviceSvcInfoRdy20"
            BY <1>0 DEF BeforeSetup20
        <3> QED
            BY <1>0, <1>3, <2>1, <2>2, <3>1, <3>2, ServerRow DEF SameCore, SessionRow
    <2>3. CASE a # b
        BY <1>3, <2>1, <2>3, ServerFrame
    <2> QED
        BY <2>2, <2>3
<1>4. ASSUME NEW a \in Attempts, FaultStep(a) PROVE dev' = dev /\ row' = row
    BY <1>4, FaultFrame DEF clientVars
<1>5. OwnerStep => dev' = dev /\ row' = row
    BY OwnerFrame DEF clientVars
<1> QED
    BY <1>1, <1>2, <1>3, <1>4, <1>5 DEF AnyStep

\* A GUID stays with the device it was given to.
LEMMA BelongsStable ==
    ASSUME TypesOK, SessionsOK, AnyStep, NEW g \in Guids, NEW d, Belongs(g, d)
    PROVE  BelongsNext(g, d)
BY Stable DEF Belongs, BelongsNext

\* Every step keeps GUIDs drawn once.
LEMMA NextGuidsOK == TypesOK /\ SessionsOK /\ GuidsOK /\ AnyStep => GuidsOK'
<1> SUFFICES ASSUME TypesOK, SessionsOK, GuidsOK, AnyStep PROVE GuidsOK'
    OBVIOUS
<1>1. CASE UNCHANGED <<row, used>>
    BY <1>1 DEF GuidsOK
<1>2. ASSUME NEW a \in Attempts, HandlerStep(a) PROVE GuidsOK'
    <2>1. \A b \in Attempts \ {a} : row'[b] = row[b]
        BY <1>2, ServerFrame
    <2>2. row[a] \in SessionRow /\ row'[a] \in SessionRow
        BY <1>2, HandlerTypesOK DEF TypesOK, Types
    <2>3. \/ used' = used /\ row'[a].replGuid \in {row[a].replGuid, Nil}
          \/ row'[a].replGuid \in Guids \ used /\ used' = used \cup {row'[a].replGuid}
        BY <1>2, <2>2, ServerRow DEF SameCore, SessionRow
    <2> QED
        BY <2>1, <2>3 DEF GuidsOK
<1> QED
    <2>1. ASSUME NEW a \in Attempts, ClientStep(a) \/ FaultStep(a) PROVE UNCHANGED <<row, used>>
        BY <2>1, DeviceFrame, FaultFrame
    <2>2. OwnerStep => UNCHANGED <<row, used>>
        BY OwnerFrame
    <2>3. UNCHANGED vars => UNCHANGED <<row, used>>
        BY DEF vars, sessionVars, ownerVars
    <2> QED
        BY <1>1, <1>2, <2>1, <2>2, <2>3 DEF AnyStep

\* The HMAC of the replacement: in 1.01 the session's, in 2.0 that of the last message.
LastHmac(a) == IF net[a].t = "Done20" THEN net[a].hmac ELSE row[a].hmac

\* What a server step may do to the vouchers and to its replacement job.
LEMMA ServerVouchers ==
    ASSUME TypesOK, NEW a \in Attempts, HandlerStep(a)
    PROVE  \/ UNCHANGED <<vouchers, job>>
           \/ /\ UNCHANGED vouchers /\ Decrypts(a) /\ net[a].t \in {"Done", "Done20"}
              /\ SessionVoucher(a) # Nil /\ LastHmac(a) # Nil /\ row[a].replGuid # Nil
              /\ job'[a] = [st |-> "add", ov |-> [ReplacementVoucher(a) EXCEPT !.hmac = LastHmac(a)]]
           \/ /\ job[a] # NoJob
              /\ job'[a] = NoJob \/ job'[a].ov = job[a].ov
              /\ \/ UNCHANGED vouchers
                 \/ vouchers' = [vouchers EXCEPT ![job[a].ov.hdr.guid] = job[a].ov]
                 \/ \E g : vouchers' = [vouchers EXCEPT ![g] = Nil]
<1>0. job \in [Attempts -> {NoJob} \cup [st : {"add", "remove", "undo"}, ov : Voucher]]
    BY DEF TypesOK, Types
<1>1. CASE to2Done2(a)
    <2>1. UNCHANGED vouchers /\ net[a].t = "Done"
        BY <1>1 DEF to2Done2, ownerVars
    <2>2. \/ UNCHANGED job
          \/ /\ Decrypts(a) /\ HasEntries(SessionVoucher(a)) /\ row[a].hmac # Nil /\ row[a].replGuid # Nil
             /\ job' = [job EXCEPT ![a] = [st |-> "add", ov |-> ReplacementVoucher(a)]]
        BY <1>1, Zenon DEF to2Done2
    <2>3. ReplacementVoucher(a) = [ReplacementVoucher(a) EXCEPT !.hmac = row[a].hmac]
        BY DEF ReplacementVoucher
    <2>4. LastHmac(a) = row[a].hmac
        BY <2>1 DEF LastHmac
    <2> QED
        BY <1>0, <2>1, <2>2, <2>3, <2>4 DEF HasEntries
<1>2. CASE ReplaceAdd(a) \/ ReplaceRemove(a) \/ ReplaceUndo(a)
    <2>1. job[a] # NoJob /\ job[a] \in [st : {"add", "remove", "undo"}, ov : Voucher]
        BY <1>0, <1>2 DEF ReplaceAdd, ReplaceRemove, ReplaceUndo, NoJob
    <2>2. \/ job' = [job EXCEPT ![a] = [@ EXCEPT !.st = "remove"]]
          \/ job' = [job EXCEPT ![a] = [@ EXCEPT !.st = "undo"]]
          \/ job' = [job EXCEPT ![a] = NoJob]
        BY <1>2, Zenon DEF ReplaceAdd, ReplaceRemove, ReplaceUndo
    <2>3. job'[a] = NoJob \/ job'[a].ov = job[a].ov
        BY <1>0, <2>1, <2>2
    <2>4. \/ UNCHANGED vouchers
          \/ vouchers' = [vouchers EXCEPT ![job[a].ov.hdr.guid] = job[a].ov]
          \/ \E g : vouchers' = [vouchers EXCEPT ![g] = Nil]
        BY <1>2, Zenon DEF ReplaceAdd, ReplaceRemove, ReplaceUndo
    <2> QED
        BY <2>1, <2>3, <2>4
<1>3. CASE HandleError(a) \/ proveOVHdr(a) \/ ovNextEntry(a) \/ setupDevice(a)
           \/ ownerServiceInfoReady(a) \/ ownerServiceInfo(a) \/ RefuseRequest(a)
    BY <1>3 DEF HandleError, RefuseRequest, proveOVHdr, ovNextEntry, setupDevice, ownerServiceInfoReady,
        ownerServiceInfo, ownerVars
<1>4. CASE helloDeviceAck20(a) \/ proveOVHdr20(a) \/ ovNextEntry20(a) \/ setupDevice20(a) \/ ownerSvcInfo20(a)
    BY <1>4 DEF helloDeviceAck20, proveOVHdr20, ovNextEntry20, setupDevice20, ownerSvcInfo20, ownerVars
<1>5. CASE doneAck20(a)
    <2>1. UNCHANGED vouchers /\ net[a].t = "Done20"
        BY <1>5 DEF doneAck20, ownerVars
    <2>2. \/ UNCHANGED job
          \/ /\ Decrypts(a) /\ HasEntries(SessionVoucher(a)) /\ net[a].hmac # Nil /\ row[a].replGuid # Nil
             /\ job' = [job EXCEPT ![a] = [st |-> "add", ov |-> ReplacementVoucher20(a)]]
        BY <1>5, Zenon DEF doneAck20
    <2>3. LastHmac(a) = net[a].hmac
        BY <2>1 DEF LastHmac
    <2>4. ReplacementVoucher20(a) = [ReplacementVoucher(a) EXCEPT !.hmac = LastHmac(a)]
        BY <2>3 DEF ReplacementVoucher20
    <2> QED
        BY <1>0, <2>1, <2>2, <2>3, <2>4 DEF HasEntries
<1> QED
    BY <1>1, <1>2, <1>3, <1>4, <1>5 DEF HandlerStep, Serve, ServerStep, ServerStep20

\* The replacement voucher names the session's device.
LEMMA ReplacementDevice ==
    ASSUME TypesOK, GuidsOK, VouchersOK, SessionsOK, NEW a \in Attempts, Decrypts(a), SessionVoucher(a) # Nil
    PROVE  \A h : [ReplacementVoucher(a) EXCEPT !.hmac = h] = [hdr |-> AgreedHeader(a), hmac |-> h, entries |-> <<>>]
<1>1. row[a].guid \in Guids /\ SessionVoucher(a) = vouchers[row[a].guid]
    BY DEF SessionVoucher, TypesOK, Types, SessionRow
<1>2. Belongs(row[a].guid, vouchers[row[a].guid].hdr.dev) /\ Belongs(row[a].guid, dev[a])
    BY <1>1 DEF VouchersOK, SessionsOK, SessionOK, Decrypts
<1>3. SessionVoucher(a).hdr.dev = dev[a]
    BY <1>1, <1>2, BelongsUnique
<1> QED
    BY <1>3 DEF ReplacementVoucher, AgreedHeader

\* Every step keeps vouchers under their GUID and with their device.
LEMMA NextVouchersOK ==
    TypesOK /\ LocalsOK /\ GuidsOK /\ VouchersOK /\ SessionsOK /\ AnyStep => VouchersOK'
<1> SUFFICES ASSUME TypesOK, LocalsOK, GuidsOK, VouchersOK, SessionsOK, AnyStep PROVE VouchersOK'
    OBVIOUS
<1>1. ASSUME NEW b \in Attempts, job[b] # NoJob
      PROVE  /\ job[b].ov \in Voucher /\ job[b].ov.hdr.guid \in Guids
             /\ job[b].ov.hdr.guid = row'[b].replGuid /\ job[b].ov.hdr.dev = dev'[b]
    <2>1. job[b].ov \in Voucher /\ job[b].ov.hdr.guid \in Guids
        BY <1>1 DEF TypesOK, Types, Voucher, VoucherHeader
    <2>2. row[b].replGuid # Nil
        BY <1>1, <2>1 DEF VouchersOK
    <2> QED
        BY <1>1, <2>1, <2>2, Stable DEF VouchersOK
<1>2. ASSUME NEW b \in Attempts, job'[b] = job[b] \/ job'[b] = NoJob \/ (job[b] # NoJob /\ job'[b].ov = job[b].ov)
      PROVE  job'[b] # NoJob => job'[b].ov.hdr.guid = row'[b].replGuid /\ job'[b].ov.hdr.dev = dev'[b]
    BY <1>1, <1>2
<1>3. ASSUME NEW g \in Guids, vouchers[g] # Nil
      PROVE  vouchers[g].hdr.guid = g /\ BelongsNext(g, vouchers[g].hdr.dev)
    BY <1>3, BelongsStable DEF VouchersOK
<1>4. ASSUME NEW ov \in transit
      PROVE  BelongsNext(ov.hdr.guid, ov.hdr.dev)
    <2>1. ov.hdr.guid \in Guids
        BY DEF TypesOK, Types, Voucher, VoucherHeader
    <2> QED
        BY <2>1, BelongsStable DEF VouchersOK
<1>5. SUFFICES /\ \A g \in Guids : vouchers'[g] # Nil =>
                     vouchers'[g].hdr.guid = g /\ BelongsNext(g, vouchers'[g].hdr.dev)
               /\ \A ov \in transit' : BelongsNext(ov.hdr.guid, ov.hdr.dev)
               /\ \A b \in Attempts : job'[b] # NoJob =>
                     job'[b].ov.hdr.guid = row'[b].replGuid /\ job'[b].ov.hdr.dev = dev'[b]
    BY DEF VouchersOK, Belongs, BelongsNext
<1>6. CASE UNCHANGED <<vouchers, transit>> /\ \A b \in Attempts : job'[b] = job[b] \/ job'[b] = NoJob
    BY <1>2, <1>3, <1>4, <1>6
<1>7. ASSUME NEW a \in Attempts, HandlerStep(a)
      PROVE  /\ \A g \in Guids : vouchers'[g] # Nil =>
                   vouchers'[g].hdr.guid = g /\ BelongsNext(g, vouchers'[g].hdr.dev)
             /\ \A ov \in transit' : BelongsNext(ov.hdr.guid, ov.hdr.dev)
             /\ \A b \in Attempts : job'[b] # NoJob =>
                   job'[b].ov.hdr.guid = row'[b].replGuid /\ job'[b].ov.hdr.dev = dev'[b]
    <2>1. \A b \in Attempts \ {a} : job'[b] = job[b]
        BY <1>7, ServerFrame
    <2>2. transit' = transit /\ dev' = dev
        BY <1>7, ServerClient DEF clientVars
    <2>3. CASE UNCHANGED <<vouchers, job>>
        BY <1>6, <2>2, <2>3
    <2>4. CASE /\ UNCHANGED vouchers /\ Decrypts(a) /\ SessionVoucher(a) # Nil /\ row[a].replGuid # Nil
               /\ job'[a] = [st |-> "add", ov |-> [ReplacementVoucher(a) EXCEPT !.hmac = LastHmac(a)]]
        <3>0. job'[a].ov = [hdr |-> AgreedHeader(a), hmac |-> LastHmac(a), entries |-> <<>>]
            BY <2>4, ReplacementDevice
        <3>1. job'[a].ov.hdr.guid = row[a].replGuid /\ job'[a].ov.hdr.dev = dev[a]
            BY <3>0 DEF AgreedHeader
        <3>2. row'[a].replGuid = row[a].replGuid
            BY <2>4, Stable
        <3> QED
            BY <1>2, <1>3, <1>4, <2>1, <2>2, <2>4, <3>1, <3>2
    <2>5. CASE /\ job[a] # NoJob
               /\ job'[a] = NoJob \/ job'[a].ov = job[a].ov
               /\ \/ UNCHANGED vouchers
                  \/ vouchers' = [vouchers EXCEPT ![job[a].ov.hdr.guid] = job[a].ov]
                  \/ \E g : vouchers' = [vouchers EXCEPT ![g] = Nil]
        <3>1. ASSUME NEW b \in Attempts, job'[b] # NoJob
              PROVE  job'[b].ov.hdr.guid = row'[b].replGuid /\ job'[b].ov.hdr.dev = dev'[b]
            BY <1>2, <2>1, <2>5, <3>1
        <3>2. /\ job[a].ov.hdr.guid \in Guids
              /\ BelongsNext(job[a].ov.hdr.guid, job[a].ov.hdr.dev)
            BY <1>1, <2>5 DEF BelongsNext
        <3>3. ASSUME NEW g \in Guids, vouchers'[g] # Nil
              PROVE  vouchers'[g].hdr.guid = g /\ BelongsNext(g, vouchers'[g].hdr.dev)
            <4>1. vouchers'[g] = vouchers[g] \/ (g = job[a].ov.hdr.guid /\ vouchers'[g] = job[a].ov)
                BY <2>5, <3>3 DEF TypesOK, Types
            <4> QED
                BY <1>3, <3>2, <3>3, <4>1
        <3> QED
            BY <1>4, <2>2, <3>1, <3>3
    <2> QED
        BY <1>7, <2>3, <2>4, <2>5, ServerVouchers
<1>8. ASSUME OwnerStep
      PROVE  /\ \A g \in Guids : vouchers'[g] # Nil =>
                   vouchers'[g].hdr.guid = g /\ BelongsNext(g, vouchers'[g].hdr.dev)
             /\ \A ov \in transit' : BelongsNext(ov.hdr.guid, ov.hdr.dev)
    <2>1. ASSUME NEW h \in Guids, NEW k \in Keys, Resell(h, k)
          PROVE  /\ \A g \in Guids : vouchers'[g] # Nil => vouchers'[g] = vouchers[g]
                 /\ \A ov \in transit' : ov \in transit \/ (vouchers[h] # Nil /\ ov.hdr = vouchers[h].hdr)
        <3>0. vouchers[h] \in Voucher /\ vouchers[h] # Nil
            BY <2>1 DEF Resell, TypesOK, Types, OptVoucher
        <3> DEFINE e == [vouchers[h] EXCEPT !.entries = Append(vouchers[h].entries, k)]
        <3>1. transit' = transit \cup {e} \/ transit' = transit \cup {vouchers[h]}
            BY <2>1, Zenon DEF Resell
        <3>2. e.hdr = vouchers[h].hdr
            BY <3>0 DEF Voucher
        <3>3. vouchers' = [vouchers EXCEPT ![h] = Nil]
            BY <2>1 DEF Resell
        <3> HIDE DEF e
        <3> QED
            BY <3>0, <3>1, <3>2, <3>3 DEF TypesOK, Types
    <2>2. ASSUME NEW ov \in transit, AddVoucher(ov)
          PROVE  /\ \A g \in Guids : vouchers'[g] # Nil =>
                       vouchers'[g] = vouchers[g] \/ (g = ov.hdr.guid /\ vouchers'[g] = ov)
                 /\ transit' \subseteq transit
        BY <2>2 DEF AddVoucher, TypesOK, Types
    <2>3. ASSUME NEW k \in Keys, ReplaceOwnerKey(k) PROVE UNCHANGED <<vouchers, transit>>
        BY <2>3 DEF ReplaceOwnerKey
    <2>4. ASSUME NEW h \in Guids, NEW k \in Keys, Resell(h, k)
          PROVE  /\ \A g \in Guids : vouchers'[g] # Nil =>
                       vouchers'[g].hdr.guid = g /\ BelongsNext(g, vouchers'[g].hdr.dev)
                 /\ \A ov \in transit' : BelongsNext(ov.hdr.guid, ov.hdr.dev)
        BY <1>3, <1>4, <2>1, <2>4
    <2>5. ASSUME NEW ov \in transit, AddVoucher(ov)
          PROVE  /\ \A g \in Guids : vouchers'[g] # Nil =>
                       vouchers'[g].hdr.guid = g /\ BelongsNext(g, vouchers'[g].hdr.dev)
                 /\ \A v \in transit' : BelongsNext(v.hdr.guid, v.hdr.dev)
        BY <1>3, <1>4, <2>2, <2>5
    <2> QED
        BY <1>3, <1>4, <1>8, <2>3, <2>4, <2>5 DEF OwnerStep
<1>9. OwnerStep => job' = job
    BY OwnerFrame
<1>10. ASSUME NEW a \in Attempts, ClientStep(a)
       PROVE  UNCHANGED <<vouchers, transit, job>>
    BY <1>10, DeviceFrame
<1>11. ASSUME NEW a \in Attempts, FaultStep(a)
       PROVE  UNCHANGED <<vouchers, transit>> /\ \A b \in Attempts : job'[b] = job[b] \/ job'[b] = NoJob
    BY <1>11, FaultFrame
<1>12. UNCHANGED vars => UNCHANGED <<vouchers, transit, job>>
    BY DEF vars, ownerVars
<1> QED
    BY <1>2, <1>6, <1>7, <1>8, <1>9, <1>10, <1>11, <1>12 DEF AnyStep

\* What a server step may do to the message of its session.
LEMMA ServerNet ==
    ASSUME TypesOK, NEW a \in Attempts, Serve(a)
    PROVE  /\ job[a] # NoJob \/ net[a].t \in Requests
           /\ \/ net'[a] = net[a] /\ (job[a] # NoJob \/ net[a].t \in {"Done", "Done20"})
              \/ net'[a].t \in {"none", "Error", "OVNextEntry", "OwnerReady", "OwnerInfo", "Done2", "OwnerSvcInfo20"}
              \/ net[a].t = "ProveDevice" /\ net'[a].t = "SetupDevice"
              \/ net[a].t = "HelloDeviceProbe" /\ net'[a].t = "HelloDeviceAck20"
              \/ net[a].t = "GetOVNextEntry20" /\ net'[a].t = "OVNextEntry20"
              \/ net[a].t = "DeviceSvcInfoRdy20" /\ net'[a].t = "SetupDevice20"
              \/ /\ \/ net[a].t = "HelloDevice" /\ net'[a].t = "ProveOVHdr"
                    \/ net[a].t = "ProveDevice20" /\ net'[a].t = "ProveOVHdr20"
                 /\ net'[a].owner = ownerKey
                 /\ \E g \in Guids : vouchers[g] # Nil /\ net'[a].hdr = vouchers[g].hdr
                                                       /\ net'[a].hmac = vouchers[g].hmac
<1>0. net \in [Attempts -> Message20] /\ net[a] \in Message20
    BY DEF TypesOK, Types
<1>1. ASSUME NEW m, NEW s, Respond(a, m, s) PROVE net'[a] = m \/ net'[a].t \in {"none", "Error"}
    BY <1>1, AnswerSeen DEF Quiet, ErrorMessage
<1>2. ASSUME RespondError(a) PROVE net'[a].t \in {"none", "Error"}
    BY <1>0, <1>2 DEF RespondError, Reply, Quiet, ErrorMessage
<1>3. ASSUME NEW m, NEW s, Respond(a, m, s), m.t \in {"OVNextEntry", "OwnerReady", "OwnerInfo", "Done2"}
      PROVE  net'[a].t \in {"none", "Error", "OVNextEntry", "OwnerReady", "OwnerInfo", "Done2"}
    BY <1>1, <1>3
<1>4. CASE proveOVHdr(a)
    <2>1. net[a].t = "HelloDevice" /\ net[a].guid \in Guids
        BY <1>0, <1>4, MessageFields DEF proveOVHdr
    <2> DEFINE ov == vouchers[net[a].guid]
               m == [t |-> "ProveOVHdr", hdr |-> ov.hdr, hmac |-> ov.hmac, owner |-> ownerKey, n |-> Len(ov.entries)]
    <2>2. \/ RespondError(a)
          \/ Respond(a, m, "live") /\ HasEntries(ov)
        BY <1>4, Zenon DEF proveOVHdr
    <2>3. m.t = "ProveOVHdr" /\ m.hdr = ov.hdr /\ m.hmac = ov.hmac /\ m.owner = ownerKey
        OBVIOUS
    <2> HIDE DEF m
    <2>4. CASE Respond(a, m, "live") /\ HasEntries(ov)
        <3>1. CASE net'[a] = m
            BY <2>1, <2>3, <2>4, <3>1 DEF Requests, HasEntries
        <3>2. CASE net'[a].t \in {"none", "Error"}
            BY <2>1, <3>2 DEF Requests
        <3> QED
            BY <1>1, <2>4, <3>1, <3>2
    <2> QED
        BY <1>2, <2>1, <2>2, <2>4 DEF Requests
<1>5. CASE ovNextEntry(a)
    <2>1. RespondError(a) \/ \E k : Respond(a, [t |-> "OVNextEntry", key |-> k], "live")
        BY <1>5, Zenon DEF ovNextEntry
    <2> QED
        BY <1>2, <1>3, <1>5, <2>1 DEF ovNextEntry, Requests
<1>6. CASE setupDevice(a)
    <2>1. RespondError(a) \/ \E g, rv, k : Respond(a, [t |-> "SetupDevice", guid |-> g, rv |-> rv, owner2 |-> k], "live")
        BY <1>6, Zenon DEF setupDevice
    <2>2. ASSUME NEW g, NEW rv, NEW k, Respond(a, [t |-> "SetupDevice", guid |-> g, rv |-> rv, owner2 |-> k], "live")
          PROVE  net'[a].t \in {"none", "Error", "SetupDevice"}
        <3> DEFINE m == [t |-> "SetupDevice", guid |-> g, rv |-> rv, owner2 |-> k]
        <3>1. m.t = "SetupDevice"
            OBVIOUS
        <3>2. Respond(a, m, "live")
            BY <2>2
        <3> HIDE DEF m
        <3> QED
            BY <1>1, <3>1, <3>2
    <2>3. net'[a].t \in {"none", "Error", "SetupDevice"}
        BY <1>2, <2>1, <2>2, Zenon
    <2> QED
        BY <1>6, <2>3 DEF setupDevice, Requests
<1>7. CASE ownerServiceInfoReady(a)
    <2>1. RespondError(a) \/ Respond(a, [t |-> "OwnerReady"], "live")
        BY <1>7 DEF ownerServiceInfoReady
    <2> QED
        BY <1>2, <1>3, <1>7, <2>1 DEF ownerServiceInfoReady, Requests
<1>8. CASE ownerServiceInfo(a)
    <2>1. RespondError(a) \/ \E mo, do : Respond(a, [t |-> "OwnerInfo", more |-> mo, done |-> do], "live")
        BY <1>8, Zenon DEF ownerServiceInfo, produceOwnerServiceInfo, ServiceInfoFails
    <2> QED
        BY <1>2, <1>3, <1>8, <2>1 DEF ownerServiceInfo, Requests
<1>9. CASE to2Done2(a)
    <2>1. RespondError(a) \/ Respond(a, [t |-> "Done2"], "dead") \/ net' = net
        BY <1>9, Zenon DEF to2Done2
    <2> QED
        BY <1>2, <1>3, <1>9, <2>1 DEF to2Done2, Requests
<1>10. CASE ReplaceAdd(a) \/ ReplaceRemove(a) \/ ReplaceUndo(a)
    <2>1. RespondError(a) \/ Respond(a, [t |-> "Done2"], "dead") \/ net' = net
        BY <1>10, Zenon DEF ReplaceAdd, ReplaceRemove, ReplaceUndo
    <2>2. job[a] # NoJob
        BY <1>10 DEF ReplaceAdd, ReplaceRemove, ReplaceUndo, NoJob
    <2> QED
        BY <1>2, <1>3, <2>1, <2>2
<1>11. CASE helloDeviceAck20(a)
    <2>1. RespondError(a) \/ Respond(a, [t |-> "HelloDeviceAck20"], "live")
        BY <1>11 DEF helloDeviceAck20
    <2>2. net[a].t = "HelloDeviceProbe"
        BY <1>11 DEF helloDeviceAck20
    <2>3. Respond(a, [t |-> "HelloDeviceAck20"], "live") => net'[a].t \in {"none", "Error", "HelloDeviceAck20"}
        BY <1>1
    <2> QED
        BY <1>2, <2>1, <2>2, <2>3 DEF Requests
<1>12. CASE proveOVHdr20(a)
    <2> DEFINE ov == SessionVoucher(a)
               m == [t |-> "ProveOVHdr20", hdr |-> ov.hdr, hmac |-> ov.hmac, owner |-> ownerKey,
                     n |-> Len(ov.entries) % 256]
    <2>1. net[a].t = "ProveDevice20"
        BY <1>12 DEF proveOVHdr20
    <2>2. RespondError(a) \/ (Respond(a, m, "live") /\ ov # Nil)
        BY <1>12, Zenon DEF proveOVHdr20
    <2>3. m.t = "ProveOVHdr20" /\ m.hdr = ov.hdr /\ m.hmac = ov.hmac /\ m.owner = ownerKey
        OBVIOUS
    <2>4. ov # Nil => row[a].guid \in Guids /\ ov = vouchers[row[a].guid]
        BY DEF SessionVoucher, TypesOK, Types, SessionRow
    <2> HIDE DEF m, ov
    <2>5. Respond(a, m, "live") => net'[a] = m \/ net'[a].t \in {"none", "Error"}
        BY <1>1
    <2> QED
        BY <1>2, <2>1, <2>2, <2>3, <2>4, <2>5 DEF Requests
<1>13. CASE ovNextEntry20(a)
    <2>1. RespondError(a) \/ \E k : Respond(a, [t |-> "OVNextEntry20", key |-> k], "live")
        BY <1>13, Zenon DEF ovNextEntry20
    <2>2. net[a].t = "GetOVNextEntry20"
        BY <1>13 DEF ovNextEntry20
    <2>3. ASSUME NEW k, Respond(a, [t |-> "OVNextEntry20", key |-> k], "live")
          PROVE  net'[a].t \in {"none", "Error", "OVNextEntry20"}
        BY <1>1, <2>3
    <2>4. net'[a].t \in {"none", "Error", "OVNextEntry20"}
        BY <1>2, <2>1, <2>3, Zenon
    <2> QED
        BY <2>2, <2>4 DEF Requests
<1>14. CASE setupDevice20(a)
    <2>1. RespondError(a) \/ \E g, rv : Respond(a, [t |-> "SetupDevice20", guid |-> g, rv |-> rv], "live")
        BY <1>14, Zenon DEF setupDevice20
    <2>2. net[a].t = "DeviceSvcInfoRdy20"
        BY <1>14 DEF setupDevice20
    <2>3. ASSUME NEW g, NEW rv, Respond(a, [t |-> "SetupDevice20", guid |-> g, rv |-> rv], "live")
          PROVE  net'[a].t \in {"none", "Error", "SetupDevice20"}
        BY <1>1, <2>3
    <2>4. net'[a].t \in {"none", "Error", "SetupDevice20"}
        BY <1>2, <2>1, <2>3, Zenon
    <2> QED
        BY <2>2, <2>4 DEF Requests
<1>15. CASE ownerSvcInfo20(a)
    <2>1. RespondError(a) \/ Respond(a, [t |-> "OwnerSvcInfo20"], "live")
        BY <1>15 DEF ownerSvcInfo20
    <2>2. net[a].t = "DeviceSvcInfo20"
        BY <1>15 DEF ownerSvcInfo20
    <2>3. Respond(a, [t |-> "OwnerSvcInfo20"], "live") => net'[a].t \in {"none", "Error", "OwnerSvcInfo20"}
        BY <1>1
    <2> QED
        BY <1>2, <2>1, <2>2, <2>3 DEF Requests
<1>16. CASE doneAck20(a)
    <2>1. RespondError(a) \/ Respond(a, [t |-> "Done2"], "dead") \/ net' = net
        BY <1>16, Zenon DEF doneAck20
    <2> QED
        BY <1>2, <1>3, <1>16, <2>1 DEF doneAck20, Requests
<1>17. CASE RefuseRequest(a)
    BY <1>0, <1>17 DEF RefuseRequest, CutOff, Reply, Quiet, ErrorMessage
<1> QED
    BY <1>4, <1>5, <1>6, <1>7, <1>8, <1>9, <1>10, <1>11, <1>12, <1>13, <1>14, <1>15, <1>16, <1>17
    DEF Serve, ServerStep, ServerStep20

\* A device step moves its own attempt only, sends no second HelloDevice, gives up
\* a message of 2.0 for the next of its kind, and writes repl once.
LEMMA DeviceMoves ==
    ASSUME TypesOK, NEW a \in Attempts, Receive(a)
    PROVE  /\ pc[a] \in Waiting /\ pc[a] # "idle" /\ pc'[a] # "idle"
           /\ net'[a] = net[a] \/ net'[a].t \notin {"HelloDevice", "HelloDeviceProbe"}
           /\ net'[a].t \in BeforeSetup20 => net[a].t \in BeforeSetup20
           /\ \/ repl'[a] = Nil
              \/ pc[a] \notin {"ready", "more", "info", "done"} /\ repl'[a] = repl[a]
              \/ /\ pc'[a] \in {"ready", "more", "info", "done"}
                 /\ net'[a].t \notin {"ProveDevice", "DeviceSvcInfoRdy20"}
           /\ \A b \in Attempts \ {a} : /\ pc'[b] = pc[b] /\ net'[b] = net[b]
                                         /\ info'[b] = info[b] /\ repl'[b] = repl[b]
<1>0. /\ pc \in [Attempts -> Waiting \cup {"idle", "ok", "failed"}] /\ net \in [Attempts -> Message20]
      /\ info \in [Attempts -> Info \cup {Nil}] /\ repl \in [Attempts -> VoucherHeader \cup {Nil}]
    BY DEF TypesOK, Types
<1>11. pc[a] \in Waiting /\ pc[a] # "idle"
    BY DEF Receive, DeviceStep, recvProveOVHdr, recvOVNextEntry, recvSetupDevice, recvOwnerReady, recvOwnerInfo,
           recvDone2, recvError, Timeout, Waiting, DeviceStep20, recvHelloDeviceAck20, recvProveOVHdr20,
           recvOVNextEntry20, recvSetupDevice20, recvOwnerSvcInfo20, recvDoneAck20
<1> DEFINE Moves == /\ pc'[a] # "idle"
                    /\ net'[a] = net[a] \/ net'[a].t \notin {"HelloDevice", "HelloDeviceProbe"}
                    /\ net'[a].t \in BeforeSetup20 => net[a].t \in BeforeSetup20
                    /\ \/ repl'[a] = Nil
                       \/ pc[a] \notin {"ready", "more", "info", "done"} /\ repl'[a] = repl[a]
                       \/ /\ pc'[a] \in {"ready", "more", "info", "done"}
                          /\ net'[a].t \notin {"ProveDevice", "DeviceSvcInfoRdy20"}
                    /\ \A b \in Attempts \ {a} : /\ pc'[b] = pc[b] /\ net'[b] = net[b]
                                                  /\ info'[b] = info[b] /\ repl'[b] = repl[b]
<1>1. ASSUME NEW h, Fail(a, h), net' = net \/ net' = [net EXCEPT ![a] = Quiet] PROVE Moves
    BY <1>0, <1>1 DEF Fail, Return, Quiet, BeforeSetup20
<1>2. ASSUME NEW p, NEW m, Send(a, p, m), p # "idle", m.t \notin {"HelloDevice", "HelloDeviceProbe"},
             m.t \in BeforeSetup20 => net[a].t \in BeforeSetup20,
             info' = info \/ \E i : info' = [info EXCEPT ![a] = i],
             \/ repl' = repl /\ pc[a] \notin {"ready", "more", "info", "done"}
             \/ repl' = [repl EXCEPT ![a] = Nil]
             \/ /\ repl' = repl \/ \E r : repl' = [repl EXCEPT ![a] = r]
                /\ p \in {"ready", "more", "info", "done"} /\ m.t \notin {"ProveDevice", "DeviceSvcInfoRdy20"}
      PROVE  Moves
    BY <1>0, <1>2 DEF Send
<1>3. ASSUME NEW i, NEW keys, verifyVoucher(a, i, keys), pc[a] \in {"hello", "entry"} PROVE Moves
    <2>1. \/ Fail(a, TRUE) /\ net' = [net EXCEPT ![a] = Quiet]
          \/ /\ info' = [info EXCEPT ![a] = i] /\ repl' = repl
             /\ \/ Send(a, "entry", [t |-> "GetOVNextEntry", i |-> Len(keys)])
                \/ Send(a, "prove", [t |-> "ProveDevice"])
        BY <1>3, Zenon DEF verifyVoucher
    <2> QED
        BY <1>1, <1>2, <1>3, <2>1 DEF BeforeSetup20
<1>4. CASE recvProveOVHdr(a)
    BY <1>3, <1>4, <1>11 DEF recvProveOVHdr
<1>5. CASE recvOVNextEntry(a)
    BY <1>3, <1>5, <1>11 DEF recvOVNextEntry
<1>6. CASE recvSetupDevice(a)
    <2>1. \/ Fail(a, TRUE) /\ net' = [net EXCEPT ![a] = Quiet]
          \/ /\ info' = info /\ (repl' = repl \/ \E r : repl' = [repl EXCEPT ![a] = r])
             /\ \E h : Send(a, "ready", [t |-> "DeviceReady", hmac |-> h])
        BY <1>6, Zenon DEF recvSetupDevice
    <2> QED
        BY <1>1, <1>2, <2>1, <1>11 DEF BeforeSetup20
<1>7. CASE recvOwnerReady(a)
    <2>1. info' = info /\ repl' = repl /\ sendDeviceServiceInfo(a)
        BY <1>7 DEF recvOwnerReady
    <2> QED
        BY <1>2, <2>1, <1>11, InfoSent DEF BeforeSetup20
<1>8. CASE recvOwnerInfo(a)
    <2>1. \/ Fail(a, TRUE) /\ net' = [net EXCEPT ![a] = Quiet]
          \/ info' = info /\ repl' = repl /\ (sendDeviceServiceInfo(a) \/ Send(a, "done", [t |-> "Done"]))
        BY <1>8, Zenon DEF recvOwnerInfo
    <2> QED
        BY <1>1, <1>2, <2>1, <1>11, InfoSent DEF BeforeSetup20
<1>9. CASE recvDone2(a)
    <2>1. /\ Send(a, "ok", Quiet) /\ info' = [info EXCEPT ![a] = Nil] /\ repl' = [repl EXCEPT ![a] = Nil]
          /\ Quiet.t = "none"
        BY <1>9 DEF recvDone2, Return, Quiet
    <2> QED
        BY <1>2, <2>1, <1>11 DEF BeforeSetup20
<1>10. CASE recvError(a) \/ Timeout(a)
    BY <1>1, <1>10, <1>11 DEF recvError, Timeout, Waiting
<1>12. CASE recvHelloDeviceAck20(a)
    <2>1. /\ pc[a] = "hello" /\ net[a].t = "HelloDeviceAck20" /\ Send(a, "prove", [t |-> "ProveDevice20"])
          /\ info' = info /\ repl' = repl
        BY <1>12 DEF recvHelloDeviceAck20
    <2> QED
        BY <1>2, <2>1, <1>11 DEF BeforeSetup20
<1>13. ASSUME NEW i, NEW keys, verifyOwner20(a, i, keys), pc[a] \in {"prove", "entry"},
              net[a].t \in {"ProveOVHdr20", "OVNextEntry20"}
       PROVE  Moves
    <2>1. \/ Fail(a, TRUE) /\ net' = [net EXCEPT ![a] = Quiet]
          \/ /\ info' = [info EXCEPT ![a] = i] /\ repl' = repl
             /\ \/ Send(a, "entry", [t |-> "GetOVNextEntry20", i |-> Len(keys)])
                \/ Send(a, "ready", [t |-> "DeviceSvcInfoRdy20"])
        BY <1>13, Zenon DEF verifyOwner20
    <2> QED
        BY <1>1, <1>2, <1>13, <2>1, <1>11 DEF BeforeSetup20
<1>14. CASE recvProveOVHdr20(a)
    BY <1>13, <1>14, <1>11 DEF recvProveOVHdr20
<1>15. CASE recvOVNextEntry20(a)
    BY <1>13, <1>15, <1>11 DEF recvOVNextEntry20
<1>16. CASE recvSetupDevice20(a) \/ recvOwnerSvcInfo20(a)
    <2>1. \/ \E h : Fail(a, h) /\ net' = [net EXCEPT ![a] = Quiet]
          \/ /\ info' = info /\ (repl' = repl \/ \E r : repl' = [repl EXCEPT ![a] = r])
             /\ \/ \E h : Send(a, "info", [t |-> "DeviceSvcInfo20", more |-> h])
                \/ \E h : Send(a, "done", [t |-> "Done20", hmac |-> h])
        BY <1>16, Zenon DEF recvSetupDevice20, recvOwnerSvcInfo20, sendDeviceSvcInfo20
    <2> QED
        BY <1>1, <1>2, <2>1, <1>11 DEF BeforeSetup20
<1>17. CASE recvDoneAck20(a)
    BY <1>9, <1>17, <1>11 DEF recvDoneAck20
<1> QED
    BY <1>4, <1>5, <1>6, <1>7, <1>8, <1>9, <1>10, <1>12, <1>14, <1>15, <1>16, <1>17
    DEF Receive, DeviceStep, DeviceStep20

\* The device step of an attempt keeps what its TO2 knows of the voucher.
LEMMA DeviceLocals ==
    ASSUME TypesOK, LocalsOK, NEW a \in Attempts, Receive(a), KnowsVoucher(a)'
    PROVE  info'[a] \in Info
<1>0. /\ pc \in [Attempts -> Waiting \cup {"idle", "ok", "failed"}] /\ net \in [Attempts -> Message20]
      /\ info \in [Attempts -> Info \cup {Nil}]
      /\ KnowsVoucher(a) => info[a] \in Info
    BY DEF TypesOK, Types, LocalsOK
<1>1. ASSUME NEW h, Fail(a, h) PROVE FALSE
    BY <1>0, <1>1 DEF Fail, KnowsVoucher
<1>2. ASSUME NEW p, NEW m, Send(a, p, m), info' = info, KnowsVoucher(a) PROVE info'[a] \in Info
    BY <1>0, <1>2
<1>3. ASSUME NEW p, NEW m, Send(a, p, m), p \in {"prove", "ok"}, m.t \notin {"ProveDevice", "SetupDevice"}
      PROVE  FALSE
    BY <1>0, <1>3 DEF Send, KnowsVoucher
<1>4. ASSUME NEW i \in Info, NEW keys, verifyVoucher(a, i, keys) \/ verifyOwner20(a, i, keys)
      PROVE  info'[a] \in Info
    <2>1. Fail(a, TRUE) \/ info' = [info EXCEPT ![a] = i]
        BY <1>4, Zenon DEF verifyVoucher, verifyOwner20
    <2> QED
        BY <1>0, <1>1, <2>1
<1>5. ASSUME net[a].t \in {"ProveOVHdr", "ProveOVHdr20"}
      PROVE  [hdr |-> net[a].hdr, hmac |-> net[a].hmac, owner |-> net[a].owner, n |-> net[a].n] \in Info
    BY <1>0, <1>5, MessageFields DEF Info
<1>6. CASE recvProveOVHdr(a)
    <2> DEFINE i == [hdr |-> net[a].hdr, hmac |-> net[a].hmac, owner |-> net[a].owner, n |-> net[a].n]
    <2>1. i \in Info /\ verifyVoucher(a, i, <<>>)
        BY <1>5, <1>6 DEF recvProveOVHdr
    <2> HIDE DEF i
    <2> QED
        BY <1>4, <2>1
<1>7. CASE recvOVNextEntry(a)
    BY <1>0, <1>4, <1>7 DEF recvOVNextEntry, KnowsVoucher
<1>8. CASE recvSetupDevice(a)
    <2>1. Fail(a, TRUE) \/ (info' = info /\ \E m : Send(a, "ready", m))
        BY <1>8, Zenon DEF recvSetupDevice
    <2> QED
        BY <1>1, <1>2, <1>8, <2>1 DEF recvSetupDevice, KnowsVoucher
<1>9. CASE recvOwnerReady(a)
    <2>1. info' = info /\ \E p, m : Send(a, p, m)
        BY <1>9, InfoSent DEF recvOwnerReady
    <2> QED
        BY <1>2, <1>9, <2>1 DEF recvOwnerReady, KnowsVoucher
<1>10. CASE recvOwnerInfo(a)
    <2>1. Fail(a, TRUE) \/ (info' = info /\ (sendDeviceServiceInfo(a) \/ Send(a, "done", [t |-> "Done"])))
        BY <1>10, Zenon DEF recvOwnerInfo
    <2> QED
        BY <1>1, <1>2, <1>10, <2>1, InfoSent DEF recvOwnerInfo, KnowsVoucher
<1>11. CASE recvDone2(a) \/ recvDoneAck20(a)
    <2>1. Send(a, "ok", Quiet) /\ Quiet.t = "none"
        BY <1>11 DEF recvDone2, recvDoneAck20, Quiet
    <2> QED
        BY <1>3, <2>1
<1>12. CASE recvError(a) \/ Timeout(a)
    BY <1>1, <1>12 DEF recvError, Timeout
<1>13. CASE recvHelloDeviceAck20(a)
    <2>1. Send(a, "prove", [t |-> "ProveDevice20"])
        BY <1>13 DEF recvHelloDeviceAck20
    <2> QED
        BY <1>3, <2>1
<1>14. CASE recvProveOVHdr20(a)
    <2> DEFINE i == [hdr |-> net[a].hdr, hmac |-> net[a].hmac, owner |-> net[a].owner, n |-> net[a].n]
    <2>1. i \in Info /\ verifyOwner20(a, i, <<>>)
        BY <1>5, <1>14 DEF recvProveOVHdr20
    <2> HIDE DEF i
    <2> QED
        BY <1>4, <2>1
<1>15. CASE recvOVNextEntry20(a)
    BY <1>0, <1>4, <1>15 DEF recvOVNextEntry20, KnowsVoucher
<1>16. CASE recvSetupDevice20(a)
    <2>1. (\E h : Fail(a, h)) \/ (info' = info /\ \E m : Send(a, "info", m))
        BY <1>16, Zenon DEF recvSetupDevice20, sendDeviceSvcInfo20
    <2> QED
        BY <1>1, <1>2, <1>16, <2>1 DEF recvSetupDevice20, KnowsVoucher
<1>17. CASE recvOwnerSvcInfo20(a)
    <2>1. info' = info /\ \E p, m : Send(a, p, m)
        BY <1>17, Zenon DEF recvOwnerSvcInfo20, sendDeviceSvcInfo20
    <2> QED
        BY <1>2, <1>17, <2>1 DEF recvOwnerSvcInfo20, KnowsVoucher
<1> QED
    BY <1>6, <1>7, <1>8, <1>9, <1>10, <1>11, <1>12, <1>13, <1>14, <1>15, <1>16, <1>17
    DEF Receive, DeviceStep, DeviceStep20

\* Only the device's own steps write TO2's local variables.
LEMMA NextLocalsOK == TypesOK /\ LocalsOK /\ AnyStep => LocalsOK'
<1> SUFFICES ASSUME TypesOK, LocalsOK, AnyStep, NEW b \in Attempts
             PROVE  /\ pc'[b] \in Waiting => dev'[b] \in Devices
                    /\ KnowsVoucher(b)' => info'[b] \in Info
    BY DEF LocalsOK
<1>0. /\ pc \in [Attempts -> Waiting \cup {"idle", "ok", "failed"}] /\ net \in [Attempts -> Message20]
      /\ dev \in [Attempts -> Devices \cup {Nil}]
    BY DEF TypesOK, Types
<1>1. /\ pc[b] \in Waiting => dev[b] \in Devices
      /\ KnowsVoucher(b) => info[b] \in Info
    BY DEF LocalsOK
<1>2. ASSUME pc'[b] = pc[b], dev'[b] = dev[b], info'[b] = info[b],
             net'[b].t \in {"ProveDevice", "SetupDevice"} => net[b].t \in {"ProveDevice", "SetupDevice"}
      PROVE  /\ pc'[b] \in Waiting => dev'[b] \in Devices
             /\ KnowsVoucher(b)' => info'[b] \in Info
    BY <1>1, <1>2 DEF KnowsVoucher
<1>3. ASSUME NEW a \in Attempts, Hello(a)
      PROVE  /\ pc'[b] \in Waiting => dev'[b] \in Devices
             /\ KnowsVoucher(b)' => info'[b] \in Info
    <2>1. PICK d \in Devices : sendHelloDevice(a, d) \/ sendHelloDeviceProbe(a, d)
        BY <1>3 DEF Hello
    <2>2. info' = info /\ dev' = [dev EXCEPT ![a] = d] /\ \E m : Send(a, "hello", m)
        BY <2>1 DEF sendHelloDevice, sendHelloDeviceProbe
    <2>3. CASE b = a
        BY <1>0, <2>2, <2>3 DEF Send, KnowsVoucher
    <2>4. CASE b # a
        BY <1>0, <1>2, <2>2, <2>4 DEF Send
    <2> QED
        BY <2>3, <2>4
<1>4. ASSUME NEW a \in Attempts, Receive(a)
      PROVE  /\ pc'[b] \in Waiting => dev'[b] \in Devices
             /\ KnowsVoucher(b)' => info'[b] \in Info
    <2>1. dev' = dev
        BY <1>4, DeviceKeepsDev
    <2>2. CASE b = a
        <3>1. pc[a] \in Waiting
            BY <1>4, DeviceMoves
        <3> QED
            BY <1>1, <1>4, <2>1, <2>2, <3>1, DeviceLocals
    <2>3. CASE b # a
        <3>1. pc'[b] = pc[b] /\ net'[b] = net[b] /\ info'[b] = info[b]
            BY <1>4, <2>3, DeviceMoves
        <3> QED
            BY <1>2, <2>1, <3>1
    <2> QED
        BY <2>2, <2>3
<1>5. ASSUME NEW a \in Attempts, HandlerStep(a)
      PROVE  /\ pc'[b] \in Waiting => dev'[b] \in Devices
             /\ KnowsVoucher(b)' => info'[b] \in Info
    <2>1. pc' = pc /\ dev' = dev /\ info' = info
        BY <1>5, ServerClient DEF clientVars
    <2>2. CASE b # a \/ HandleError(a)
        <3>1. net'[b] = net[b]
            BY <1>5, <2>2, ServerFrame DEF HandleError
        <3> QED
            BY <1>2, <2>1, <3>1
    <2>3. CASE b = a /\ Serve(a)
        <3>1. net'[a].t \in {"ProveDevice", "SetupDevice"} => net[a].t \in {"ProveDevice", "SetupDevice"}
            BY <2>3, ServerNet
        <3> QED
            BY <1>2, <2>1, <2>3, <3>1
    <2> QED
        BY <1>5, <2>2, <2>3 DEF HandlerStep
<1>6. ASSUME NEW a \in Attempts, FaultStep(a)
      PROVE  /\ pc'[b] \in Waiting => dev'[b] \in Devices
             /\ KnowsVoucher(b)' => info'[b] \in Info
    <2>1. UNCHANGED clientVars /\ (net'[b] = net[b] \/ net'[b] = Quiet)
        BY <1>6, FaultFrame
    <2> QED
        BY <1>2, <2>1 DEF clientVars, Quiet
<1>7. ASSUME OwnerStep
      PROVE  /\ pc'[b] \in Waiting => dev'[b] \in Devices
             /\ KnowsVoucher(b)' => info'[b] \in Info
    BY <1>2, <1>7, OwnerFrame DEF clientVars
<1>8. ASSUME UNCHANGED vars
      PROVE  /\ pc'[b] \in Waiting => dev'[b] \in Devices
             /\ KnowsVoucher(b)' => info'[b] \in Info
    BY <1>2, <1>8 DEF vars, clientVars
<1> QED
    BY <1>3, <1>4, <1>5, <1>6, <1>7, <1>8 DEF AnyStep, ClientStep

\* The variables keep their types, whatever the constants: Spec never indexes a
\* table with an absent GUID or builds a voucher out of absent session fields.
THEOREM TypeCorrect == Spec => []TypeOK
<1>1. Init => TypeOK /\ LocalsOK
    BY InitTypeOK
<1>2. ASSUME TypeOK, LocalsOK, [Next]_vars PROVE TypeOK' /\ LocalsOK'
    <2>1. Types(Message) /\ TypesOK
        BY <1>2, MessageSets DEF TypeOK, TypesOK, Types
    <2>2. LocalsOK'
        BY <1>2, <2>1, StepKinds, NextLocalsOK
    <2>3. UNCHANGED vars => Types(Message)'
        BY <2>1 DEF Types, vars, clientVars, sessionVars, ownerVars
    <2>4. Next => Types(Message)'
        BY <1>2, <2>1, DeviceTypeOK, ServerTypeOK, FaultTypeOK, OwnerTypeOK DEF Next
    <2> QED
        BY <1>2, <2>2, <2>3, <2>4 DEF TypeOK
<1> QED
    BY <1>1, <1>2, PTL DEF Spec

\* So they do when calls of 2.0 run beside those of 1.01: a handler of either
\* version finds in the shared tables what it expects there.
THEOREM TypeCorrect20 == Spec20 => []TypeOK20
<1>1. Init20 => TypeOK20 /\ LocalsOK
    <2>1. Types(Message) => Types(Message20)
        BY MessageSets DEF Types
    <2> QED
        BY <2>1, InitTypeOK DEF Init20, TypeOK20, TypeOK
<1>2. ASSUME TypeOK20, LocalsOK, [Next20]_vars20 PROVE TypeOK20' /\ LocalsOK'
    <2>1. TypesOK /\ AnyStep
        BY <1>2, StepKinds DEF TypeOK20, TypesOK
    <2>2. Types(Message20)' /\ LocalsOK'
        BY <1>2, <2>1, NextTypesOK, NextLocalsOK DEF TypesOK
    <2>3. deviceDone' = deviceDone \/ \E a \in Attempts, b \in BOOLEAN : deviceDone' = [deviceDone EXCEPT ![a] = b]
        <3>1. UNCHANGED vars20 => deviceDone' = deviceDone
            BY DEF vars20
        <3>2. ASSUME NEW a \in V200, DeviceStep20(a)
              PROVE  deviceDone' = deviceDone \/ \E b \in BOOLEAN : deviceDone' = [deviceDone EXCEPT ![a] = b]
            <4>1. ASSUME sendDeviceSvcInfo20(a) PROVE \E b \in BOOLEAN : deviceDone' = [deviceDone EXCEPT ![a] = b]
                BY <4>1 DEF sendDeviceSvcInfo20
            <4> QED
                BY <3>2, <4>1 DEF DeviceStep20, recvHelloDeviceAck20, recvProveOVHdr20, recvOVNextEntry20, verifyOwner20,
                    recvSetupDevice20, recvOwnerSvcInfo20, recvDoneAck20
        <3>3. ASSUME NEW a \in V200, ServerStep20(a) \/ \E d \in Devices : sendHelloDeviceProbe(a, d)
              PROVE  deviceDone' = deviceDone
            BY <3>3 DEF ServerStep20, helloDeviceAck20, proveOVHdr20, ovNextEntry20, setupDevice20, ownerSvcInfo20,
                doneAck20, sendHelloDeviceProbe
        <3> QED
            BY <1>2, <3>1, <3>2, <3>3, V200Assumption DEF Next20
    <2> QED
        BY <1>2, <2>2, <2>3 DEF TypeOK20
<1> QED
    BY <1>1, <1>2, PTL DEF Spec20

\* SessionOK in the next state.
SessionNext(b) ==
    /\ pc'[b] = "idle" => net'[b] = Quiet
    /\ pc'[b] = "idle" \/ net'[b].t \in {"HelloDevice", "HelloDeviceProbe"} => row'[b] = EmptyRow /\ job'[b] = NoJob
    /\ net'[b].t \in BeforeSetup20 => row'[b].replGuid = Nil /\ row'[b].hmac = Nil
    /\ row'[b].xsession # "complete" => row'[b].replGuid = Nil /\ row'[b].hmac = Nil
    /\ row'[b].xsession = "complete" => row'[b].guid # Nil /\ BelongsNext(row'[b].guid, dev'[b])

\* A session whose row and device stay keeps the last two conjuncts of SessionOK.
LEMMA RowKept ==
    ASSUME TypesOK, SessionsOK, AnyStep, NEW b \in Attempts,
           SameCore(row'[b], row[b]), row[b].xsession = "complete" => dev'[b] = dev[b]
    PROVE  /\ row'[b].xsession # "complete" => row'[b].replGuid = Nil /\ row'[b].hmac = Nil
           /\ row'[b].xsession = "complete" => row'[b].guid # Nil /\ BelongsNext(row'[b].guid, dev'[b])
<1>1. row[b] \in SessionRow
    BY DEF TypesOK, Types
<1>2. CASE row[b].xsession = "complete"
    <2>1. row[b].guid # Nil /\ Belongs(row[b].guid, dev[b])
        BY <1>2 DEF SessionsOK, SessionOK
    <2>2. row[b].guid \in Guids
        BY <1>1, <2>1 DEF SessionRow
    <2>3. BelongsNext(row[b].guid, dev[b])
        BY <2>1, <2>2, BelongsStable
    <2> QED
        BY <1>2, <2>1, <2>3 DEF SameCore
<1>3. CASE row[b].xsession # "complete"
    BY <1>3 DEF SameCore, SessionsOK, SessionOK
<1> QED
    BY <1>2, <1>3

\* A handler sends nothing that precedes SetupDevice20 when it has set the device up.
LEMMA BeforeSetupKept ==
    ASSUME TypesOK, VouchersOK, SessionsOK, NEW a \in Attempts, Serve(a), net'[a].t \in BeforeSetup20
    PROVE  row'[a].replGuid = Nil /\ row'[a].hmac = Nil
<1>0. SessionOK(a) /\ row[a] \in SessionRow
    BY DEF SessionsOK, TypesOK, Types
<1>1. CASE net'[a] = net[a] /\ job[a] # NoJob
    <2>1. job[a].ov.hdr.guid \in Guids
        BY <1>1 DEF TypesOK, Types, Voucher, VoucherHeader
    <2>2. row[a].replGuid # Nil
        BY <1>1, <2>1, ConstantsAssumption DEF VouchersOK
    <2> QED
        BY <1>0, <1>1, <2>2 DEF SessionOK
<1>2. CASE net[a].t \in {"HelloDeviceProbe", "GetOVNextEntry20", "ProveDevice20"}
    <2>1. row[a].replGuid = Nil /\ row[a].hmac = Nil
        BY <1>0, <1>2 DEF SessionOK, BeforeSetup20, EmptyRow
    <2>2. [row[a] EXCEPT !.xsession = "complete"].replGuid = Nil /\ [row[a] EXCEPT !.xsession = "complete"].hmac = Nil
        BY <1>0, <2>1 DEF SessionRow
    <2> QED
        BY <1>2, <2>1, <2>2, ServerRow DEF SameCore, HandlerStep
<1> QED
    BY <1>1, <1>2, ServerNet DEF BeforeSetup20

\* Every step keeps sessions in the order of the protocol.
LEMMA NextSessionsOK ==
    TypesOK /\ LocalsOK /\ GuidsOK /\ VouchersOK /\ SessionsOK /\ AnyStep => SessionsOK'
<1> SUFFICES ASSUME TypesOK, LocalsOK, GuidsOK, VouchersOK, SessionsOK, AnyStep,
                    NEW b \in Attempts
             PROVE  SessionNext(b)
    BY DEF SessionsOK, SessionOK, SessionNext, Idle, Belongs, BelongsNext
<1>1. ASSUME row'[b] = row[b], dev'[b] = dev[b], pc'[b] = pc[b],
             net'[b] = net[b] \/ net'[b] = Quiet, job'[b] = job[b] \/ job'[b] = NoJob
      PROVE  SessionNext(b)
    <2>1. SameCore(row'[b], row[b])
        BY <1>1 DEF SameCore
    <2>2. /\ row'[b].xsession # "complete" => row'[b].replGuid = Nil /\ row'[b].hmac = Nil
          /\ row'[b].xsession = "complete" => row'[b].guid # Nil /\ BelongsNext(row'[b].guid, dev'[b])
        BY <1>1, <2>1, RowKept
    <2>3. SessionOK(b)
        BY DEF SessionsOK
    <2> QED
        BY <1>1, <2>2, <2>3 DEF SessionNext, SessionOK, Idle, Quiet, BeforeSetup20
<1>2. ASSUME NEW a \in Attempts, Hello(a)
      PROVE  SessionNext(b)
    <2>1. row' = row /\ job' = job
        BY <1>2, DeviceFrame DEF ClientStep
    <2>2. CASE b # a
        <3>1. dev'[b] = dev[b] /\ pc'[b] = pc[b] /\ net'[b] = net[b]
            BY <1>2, <2>2 DEF Hello, sendHelloDevice, sendHelloDeviceProbe, Send, TypesOK, Types
        <3> QED
            BY <1>1, <2>1, <3>1
    <2>3. CASE b = a
        <3>1. row[a] = EmptyRow /\ job[a] = NoJob
            BY <1>2 DEF Hello, sendHelloDevice, sendHelloDeviceProbe, SessionsOK, SessionOK
        <3>2. pc'[a] = "hello"
            BY <1>2 DEF Hello, sendHelloDevice, sendHelloDeviceProbe, Send, TypesOK, Types
        <3>3. EmptyRow.xsession = "none" /\ EmptyRow.replGuid = Nil /\ EmptyRow.hmac = Nil
            BY DEF EmptyRow
        <3> QED
            BY <2>1, <2>3, <3>1, <3>2, <3>3 DEF SessionNext
    <2> QED
        BY <2>2, <2>3
<1>3. ASSUME NEW a \in Attempts, Receive(a)
      PROVE  SessionNext(b)
    <2>1. row' = row /\ job' = job
        BY <1>3, DeviceFrame DEF ClientStep
    <2>2. dev' = dev
        BY <1>3, DeviceKeepsDev
    <2>3. CASE b # a
        <3>1. pc'[b] = pc[b] /\ net'[b] = net[b]
            BY <1>3, <2>3, DeviceMoves
        <3> QED
            BY <1>1, <2>1, <2>2, <3>1
    <2>4. CASE b = a
        <3>1. SameCore(row'[b], row[b]) /\ dev'[b] = dev[b]
            BY <2>1, <2>2 DEF SameCore
        <3>2. /\ pc[b] # "idle" /\ pc'[b] # "idle"
              /\ net'[b] = net[b] \/ net'[b].t \notin {"HelloDevice", "HelloDeviceProbe"}
              /\ net'[b].t \in BeforeSetup20 => net[b].t \in BeforeSetup20
            BY <1>3, <2>4, DeviceMoves
        <3> QED
            BY <2>1, <3>1, <3>2, RowKept DEF SessionNext, SessionsOK, SessionOK
    <2> QED
        BY <2>3, <2>4
<1>4. ASSUME NEW a \in Attempts, HandlerStep(a)
      PROVE  SessionNext(b)
    <2>1. dev' = dev /\ pc' = pc
        BY <1>4, ServerClient DEF clientVars
    <2>2. CASE b # a
        <3>1. row'[b] = row[b] /\ net'[b] = net[b] /\ job'[b] = job[b]
            BY <1>4, <2>2, ServerFrame
        <3> QED
            BY <1>1, <2>1, <3>1
    <2>3. CASE b = a /\ HandleError(a)
        <3>1. UNCHANGED <<row, net, job>>
            BY <2>3 DEF HandleError
        <3> QED
            BY <1>1, <2>1, <3>1
    <2>4. CASE b = a /\ Serve(a)
        <3>1. /\ pc'[b] # "idle" /\ net'[b].t \notin {"HelloDevice", "HelloDeviceProbe"}
              /\ net'[b].t \in BeforeSetup20 => row'[b].replGuid = Nil /\ row'[b].hmac = Nil
            <4>1. SessionOK(a)
                BY DEF SessionsOK
            <4>2. /\ job[a] # NoJob \/ net[a].t \in Requests
                  /\ net'[a].t \in {"HelloDevice", "HelloDeviceProbe"} => net'[a] = net[a] /\ job[a] # NoJob
                BY <2>4, ServerNet
            <4> QED
                BY <2>1, <2>4, <4>1, <4>2, BeforeSetupKept DEF SessionOK, Idle, Quiet, Requests
        <3>2. row[a] \in SessionRow /\ row'[a] \in SessionRow
            BY <1>4, <2>4, HandlerTypesOK DEF TypesOK, Types
        <3>3. CASE SameCore(row'[a], row[a])
            BY <2>1, <2>4, <3>1, <3>3, RowKept DEF SessionNext
        <3>4. CASE row'[a].replGuid = Nil /\ row'[a].hmac = Nil /\ row'[a].xsession # "complete"
            BY <2>4, <3>1, <3>4 DEF SessionNext
        <3>5. CASE /\ Decrypts(a)
                   /\ \/ SameCore([row'[a] EXCEPT !.hmac = row[a].hmac], row[a])
                      \/ row'[a].xsession = "complete" /\ row'[a].guid = row[a].guid
            <4>1. row'[a].xsession = "complete" /\ row[a].xsession = "complete" /\ row'[a].guid = row[a].guid
                BY <3>2, <3>5 DEF Decrypts, SameCore, SessionRow
            <4>2. row[a].guid \in Guids /\ row[a].guid # Nil /\ Belongs(row[a].guid, dev[a])
                BY <3>2, <4>1 DEF SessionsOK, SessionOK, SessionRow
            <4>3. BelongsNext(row[a].guid, dev[a])
                BY <4>2, BelongsStable
            <4> QED
                BY <2>1, <2>4, <3>1, <4>1, <4>2, <4>3 DEF SessionNext
        <3>6. CASE /\ row'[a].xsession = "complete" /\ row'[a].guid = row[a].guid
                   /\ SessionVoucher(a) # Nil /\ SessionVoucher(a).hdr.dev = dev[a]
            <4>1. row[a].guid \in Guids /\ row[a].guid # Nil /\ SessionVoucher(a) = vouchers[row[a].guid]
                BY <3>2, <3>6 DEF SessionVoucher, SessionRow
            <4>2. Belongs(row[a].guid, dev[a])
                BY <3>6, <4>1 DEF VouchersOK
            <4>3. BelongsNext(row[a].guid, dev[a])
                BY <4>1, <4>2, BelongsStable
            <4> QED
                BY <2>1, <2>4, <3>1, <3>6, <4>1, <4>3 DEF SessionNext
        <3>7. CASE /\ row'[a] = [row[a] EXCEPT !.xsession = "complete"]
                   /\ SessionVoucher(a) # Nil /\ SessionVoucher(a).hdr.dev = dev[a]
            <4>1. row'[a].xsession = "complete" /\ row'[a].guid = row[a].guid
                BY <3>2, <3>7 DEF SessionRow
            <4> QED
                BY <3>6, <3>7, <4>1
        <3> QED
            BY <1>4, <2>4, <3>3, <3>4, <3>5, <3>6, <3>7, ServerRow
    <2> QED
        BY <1>4, <2>2, <2>3, <2>4 DEF HandlerStep
<1>5. ASSUME NEW a \in Attempts, FaultStep(a)
      PROVE  SessionNext(b)
    <2>1. row' = row /\ dev' = dev /\ pc' = pc
        BY <1>5, FaultFrame DEF clientVars
    <2>2. (net'[b] = net[b] \/ net'[b] = Quiet) /\ (job'[b] = job[b] \/ job'[b] = NoJob)
        BY <1>5 DEF FaultStep, Lose, Crash, TypesOK, Types
    <2> QED
        BY <1>1, <2>1, <2>2
<1>6. ASSUME OwnerStep
      PROVE  SessionNext(b)
    BY <1>1, <1>6, OwnerFrame DEF clientVars
<1>7. ASSUME UNCHANGED vars
      PROVE  SessionNext(b)
    BY <1>1, <1>7 DEF vars, clientVars, sessionVars
<1> QED
    BY <1>2, <1>3, <1>4, <1>5, <1>6, <1>7 DEF ClientStep, AnyStep


\* A call of TO2 has put no replacement header together before its time.
LEMMA NextReplsOK == TypesOK /\ ReplsOK /\ AnyStep => ReplsOK'
<1> SUFFICES ASSUME TypesOK, ReplsOK, AnyStep, NEW b \in Attempts,
                    pc'[b] \notin {"ready", "more", "info", "done"} \/ net'[b].t \in {"ProveDevice", "DeviceSvcInfoRdy20"}
             PROVE  repl'[b] = Nil
    BY DEF ReplsOK
<1>1. ASSUME repl'[b] = repl[b], pc'[b] = pc[b],
             net'[b].t \in {"ProveDevice", "DeviceSvcInfoRdy20"} => net'[b] = net[b]
      PROVE  repl'[b] = Nil
    BY <1>1 DEF ReplsOK
<1>2. ASSUME NEW a \in Attempts, Hello(a) PROVE repl'[b] = Nil
    <2>1. /\ repl' = repl /\ pc[a] = "idle"
          /\ b # a => pc'[b] = pc[b] /\ net'[b] = net[b]
        BY <1>2 DEF Hello, sendHelloDevice, sendHelloDeviceProbe, Idle, Send, TypesOK, Types
    <2> QED
        BY <1>1, <2>1 DEF ReplsOK
<1>3. ASSUME NEW a \in Attempts, Receive(a) PROVE repl'[b] = Nil
    <2>1. CASE b = a
        <3>1. \/ repl'[a] = Nil
              \/ pc[a] \notin {"ready", "more", "info", "done"} /\ repl'[a] = repl[a]
            BY <1>3, <2>1, DeviceMoves
        <3> QED
            BY <2>1, <3>1 DEF ReplsOK
    <2>2. CASE b # a
        BY <1>1, <1>3, <2>2, DeviceMoves
    <2> QED
        BY <2>1, <2>2
<1>4. ASSUME NEW a \in Attempts, HandlerStep(a) PROVE repl'[b] = Nil
    <2>1. pc' = pc /\ repl' = repl
        BY <1>4, ServerClient DEF clientVars
    <2>2. net'[b].t \in {"ProveDevice", "DeviceSvcInfoRdy20"} => net'[b] = net[b]
        <3>1. HandleError(a) => net' = net
            BY DEF HandleError
        <3>2. b # a => net'[b] = net[b]
            BY <1>4, ServerFrame
        <3> QED
            BY <1>4, <3>1, <3>2, ServerNet DEF HandlerStep
    <2> QED
        BY <1>1, <2>1, <2>2
<1>5. ASSUME NEW a \in Attempts, FaultStep(a) PROVE repl'[b] = Nil
    <2>1. pc' = pc /\ repl' = repl /\ (net'[b] = net[b] \/ net'[b] = Quiet)
        BY <1>5, FaultFrame DEF clientVars
    <2> QED
        BY <1>1, <2>1 DEF Quiet
<1>6. ASSUME OwnerStep PROVE repl'[b] = Nil
    BY <1>1, <1>6, OwnerFrame DEF clientVars
<1>7. ASSUME UNCHANGED vars PROVE repl'[b] = Nil
    BY <1>1, <1>7 DEF vars, clientVars
<1> QED
    BY <1>2, <1>3, <1>4, <1>5, <1>6, <1>7 DEF AnyStep, ClientStep

------------------------------------------------------------------------------
(* HMACs over the agreed header.                                             *)

\* SetupDevice leaves the service only when the key exchange has just completed.
LEMMA SetupRow ==
    ASSUME TypesOK, NEW a \in Attempts, Serve(a), net[a].t = "ProveDevice", net'[a].t = "SetupDevice"
    PROVE  row[a].xsession = "begun"
<1>1. CASE setupDevice(a)
    <2>1. row[a].xsession = "begun" \/ RespondError(a)
        BY <1>1, Zenon DEF setupDevice
    <2>2. RespondError(a) => net'[a].t # "SetupDevice"
        BY DEF RespondError, Reply, Respond, CutOff, Quiet, ErrorMessage, TypesOK, Types
    <2> QED
        BY <2>1, <2>2
<1>2. CASE ReplaceAdd(a) \/ ReplaceRemove(a) \/ ReplaceUndo(a)
    <2>1. RespondError(a) \/ Respond(a, [t |-> "Done2"], "dead") \/ net' = net
        BY <1>2, Zenon DEF ReplaceAdd, ReplaceRemove, ReplaceUndo
    <2> QED
        BY <2>1 DEF RespondError, Reply, Respond, CutOff, Quiet, ErrorMessage, TypesOK, Types
<1>3. CASE RefuseRequest(a)
    BY <1>3 DEF RefuseRequest, CutOff, Reply, Quiet, ErrorMessage, TypesOK, Types
<1> QED
    BY <1>1, <1>2, <1>3 DEF Serve, ServerStep, proveOVHdr, ovNextEntry, ownerServiceInfoReady, ownerServiceInfo, to2Done2,
       ServerStep20, helloDeviceAck20, proveOVHdr20, ovNextEntry20, setupDevice20, ownerSvcInfo20, doneAck20

\* What a device knows of the voucher stays authentic while it runs.
LEMMA DeviceSees ==
    ASSUME TypesOK, LocalsOK, NEW a \in Attempts, VoucherSeen(a), Receive(a)
    PROVE  VoucherSeen(a)'
<1>0. /\ dev' = dev /\ ownerKey' = ownerKey
      /\ pc \in [Attempts -> Waiting \cup {"idle", "ok", "failed"}]
      /\ net \in [Attempts -> Message20] /\ net[a] \in Message20
      /\ info \in [Attempts -> Info \cup {Nil}]
    BY DeviceFrame, DeviceKeepsDev DEF TypesOK, Types, ClientStep
<1>1. ASSUME NEW h, Fail(a, h), net' = net \/ net' = [net EXCEPT ![a] = Quiet] PROVE VoucherSeen(a)'
    <2>1. ~KnowsVoucher(a)'
        BY <1>0, <1>1 DEF Fail, KnowsVoucher
    <2>2. net'[a] = net[a] \/ net'[a].t = "none"
        BY <1>0, <1>1 DEF Quiet
    <2> QED
        BY <1>0, <2>1, <2>2 DEF VoucherSeen
<1>2. ASSUME NEW p, NEW m, Send(a, p, m), info' = info, m.t \notin {"ProveOVHdr", "ProveOVHdr20"},
             \/ p \in {"ready", "more", "info", "done"} /\ KnowsVoucher(a) /\ pc[a] # "entry"
             \/ p \in {"prove", "ok"} /\ m.t \notin {"ProveDevice", "SetupDevice"}
      PROVE  VoucherSeen(a)'
    <2>1. pc'[a] = p /\ net'[a] = m
        BY <1>0, <1>2 DEF Send
    <2> QED
        BY <1>0, <1>2, <2>1 DEF VoucherSeen, KnowsVoucher
<1>3. ASSUME NEW i \in Info, NEW keys, verifyVoucher(a, i, keys) \/ verifyOwner20(a, i, keys),
             i.hmac = HmacOf(i.hdr.dev, i.hdr), i.owner = ownerKey
      PROVE  VoucherSeen(a)'
    <2>1. VerifyCrypto(dev[a], i, keys) \/ VerifyCrypto20(dev[a], i, keys) => i.hmac = HmacOf(dev[a], i.hdr)
        BY DEF VerifyCrypto20, VerifyCrypto, Info
    <2>2. \/ Fail(a, TRUE) /\ net' = [net EXCEPT ![a] = Quiet]
          \/ /\ info' = [info EXCEPT ![a] = i]
             /\ \/ Send(a, "entry", [t |-> "GetOVNextEntry", i |-> Len(keys)])
                \/ Send(a, "entry", [t |-> "GetOVNextEntry20", i |-> Len(keys)])
                \/ Send(a, "prove", [t |-> "ProveDevice"]) /\ VerifyCrypto(dev[a], i, keys)
                \/ Send(a, "ready", [t |-> "DeviceSvcInfoRdy20"]) /\ VerifyCrypto20(dev[a], i, keys)
        BY <1>3, Zenon DEF verifyVoucher, verifyOwner20
    <2>3. ASSUME info' = [info EXCEPT ![a] = i], NEW p, NEW m, Send(a, p, m), m.t \notin {"ProveOVHdr", "ProveOVHdr20"},
                 p = "entry" \/ i.hmac = HmacOf(dev[a], i.hdr)
          PROVE  VoucherSeen(a)'
        <3>1. pc'[a] = p /\ net'[a] = m /\ info'[a] = i
            BY <1>0, <2>3 DEF Send
        <3> QED
            BY <1>0, <1>3, <2>3, <3>1 DEF VoucherSeen
    <2>4. CASE info' = [info EXCEPT ![a] = i] /\ Send(a, "entry", [t |-> "GetOVNextEntry", i |-> Len(keys)])
        BY <2>3, <2>4
    <2>5. CASE info' = [info EXCEPT ![a] = i] /\ Send(a, "entry", [t |-> "GetOVNextEntry20", i |-> Len(keys)])
        BY <2>3, <2>5
    <2>6. CASE info' = [info EXCEPT ![a] = i] /\ Send(a, "prove", [t |-> "ProveDevice"]) /\ VerifyCrypto(dev[a], i, keys)
        BY <2>1, <2>3, <2>6
    <2>7. CASE /\ info' = [info EXCEPT ![a] = i] /\ Send(a, "ready", [t |-> "DeviceSvcInfoRdy20"])
               /\ VerifyCrypto20(dev[a], i, keys)
        BY <2>1, <2>3, <2>7
    <2> QED
        BY <1>1, <2>2, <2>4, <2>5, <2>6, <2>7
<1>4. CASE recvProveOVHdr(a) \/ recvProveOVHdr20(a)
    <2> DEFINE i == [hdr |-> net[a].hdr, hmac |-> net[a].hmac, owner |-> net[a].owner, n |-> net[a].n]
    <2>1. net[a].t \in {"ProveOVHdr", "ProveOVHdr20"}
        BY <1>4 DEF recvProveOVHdr, recvProveOVHdr20
    <2>2. i \in Info
        BY <1>0, <2>1, MessageFields DEF Info
    <2>3. i.hmac = HmacOf(i.hdr.dev, i.hdr) /\ i.owner = ownerKey
        BY <2>1 DEF VoucherSeen
    <2>4. verifyVoucher(a, i, <<>>) \/ verifyOwner20(a, i, <<>>)
        BY <1>4 DEF recvProveOVHdr, recvProveOVHdr20
    <2> HIDE DEF i
    <2> QED
        BY <1>3, <2>2, <2>3, <2>4
<1>5. CASE recvOVNextEntry(a) \/ recvOVNextEntry20(a)
    <2>1. KnowsVoucher(a)
        BY <1>5 DEF recvOVNextEntry, recvOVNextEntry20, KnowsVoucher
    <2>2. info[a] \in Info /\ info[a].hmac = HmacOf(info[a].hdr.dev, info[a].hdr) /\ info[a].owner = ownerKey
        BY <2>1 DEF LocalsOK, VoucherSeen
    <2>3. \E keys : verifyVoucher(a, info[a], keys) \/ verifyOwner20(a, info[a], keys)
        BY <1>5 DEF recvOVNextEntry, recvOVNextEntry20
    <2> QED
        BY <1>3, <2>2, <2>3
<1>6. CASE recvSetupDevice(a)
    <2>1. \/ Fail(a, TRUE) /\ net' = [net EXCEPT ![a] = Quiet]
          \/ info' = info /\ \E h : Send(a, "ready", [t |-> "DeviceReady", hmac |-> h])
        BY <1>6, Zenon DEF recvSetupDevice
    <2>2. KnowsVoucher(a) /\ pc[a] # "entry"
        BY <1>6 DEF recvSetupDevice, KnowsVoucher
    <2> QED
        BY <1>1, <1>2, <2>1, <2>2
<1>7. CASE recvOwnerReady(a)
    <2>1. info' = info /\ sendDeviceServiceInfo(a)
        BY <1>7 DEF recvOwnerReady
    <2>2. KnowsVoucher(a) /\ pc[a] # "entry"
        BY <1>7 DEF recvOwnerReady, KnowsVoucher
    <2> QED
        BY <1>2, <2>1, <2>2, InfoSent
<1>8. CASE recvOwnerInfo(a)
    <2>1. \/ Fail(a, TRUE) /\ net' = [net EXCEPT ![a] = Quiet]
          \/ info' = info /\ (sendDeviceServiceInfo(a) \/ Send(a, "done", [t |-> "Done"]))
        BY <1>8, Zenon DEF recvOwnerInfo
    <2>2. KnowsVoucher(a) /\ pc[a] # "entry"
        BY <1>8 DEF recvOwnerInfo, KnowsVoucher
    <2> QED
        BY <1>1, <1>2, <2>1, <2>2, InfoSent
<1>9. CASE recvDone2(a) \/ recvDoneAck20(a)
    <2>1. pc'[a] = "ok" /\ net'[a].t = "none"
        BY <1>0, <1>9 DEF recvDone2, recvDoneAck20, Send, Quiet
    <2> QED
        BY <2>1 DEF VoucherSeen, KnowsVoucher
<1>10. CASE recvError(a) \/ Timeout(a)
    BY <1>1, <1>10 DEF recvError, Timeout
<1>11. CASE recvHelloDeviceAck20(a)
    <2>1. info' = info /\ Send(a, "prove", [t |-> "ProveDevice20"])
        BY <1>11 DEF recvHelloDeviceAck20
    <2> QED
        BY <1>2, <2>1
<1>12. CASE recvSetupDevice20(a) \/ recvOwnerSvcInfo20(a)
    <2>1. \/ \E h : Fail(a, h) /\ net' = [net EXCEPT ![a] = Quiet]
          \/ info' = info /\ \/ \E h : Send(a, "info", [t |-> "DeviceSvcInfo20", more |-> h])
                             \/ \E h : Send(a, "done", [t |-> "Done20", hmac |-> h])
        BY <1>12, Zenon DEF recvSetupDevice20, recvOwnerSvcInfo20, sendDeviceSvcInfo20
    <2>2. KnowsVoucher(a) /\ pc[a] # "entry"
        BY <1>12 DEF recvSetupDevice20, recvOwnerSvcInfo20, KnowsVoucher
    <2> QED
        BY <1>1, <1>2, <2>1, <2>2
<1> QED
    BY <1>4, <1>5, <1>6, <1>7, <1>8, <1>9, <1>10, <1>11, <1>12 DEF Receive, DeviceStep, DeviceStep20

\* The header a device puts together from SetupDevice is the one its session will
\* have.
LEMMA ReplacementAgreed ==
    ASSUME NEW a \in Attempts, HmacOK(a), row[a].replGuid # Nil
    PROVE  /\ pc[a] = "prove" /\ net[a].t = "SetupDevice" => ReplacementOVH(a, net[a]) = AgreedHeader(a)
           /\ pc[a] = "ready" /\ net[a].t = "SetupDevice20" /\ net[a].guid # Nil =>
                 ReplacementOVH20(a, net[a]) = AgreedHeader(a)
<1>1. ASSUME KnowsVoucher(a), pc[a] # "entry" PROVE info[a].owner = ownerKey /\ info[a].hdr.dev = dev[a]
    <2>1. info[a].owner = ownerKey /\ HmacOf(info[a].hdr.dev, info[a].hdr) = HmacOf(dev[a], info[a].hdr)
        BY <1>1 DEF HmacOK, VoucherSeen
    <2>2. HmacOf(info[a].hdr.dev, info[a].hdr).secret = info[a].hdr.dev /\ HmacOf(dev[a], info[a].hdr).secret = dev[a]
        BY DEF HmacOf
    <2> QED
        BY <2>1, <2>2
<1>2. CASE pc[a] = "prove" /\ net[a].t = "SetupDevice"
    BY <1>1, <1>2 DEF KnowsVoucher, HmacOK, ReplacementOVH, AgreedHeader
<1>3. CASE pc[a] = "ready" /\ net[a].t = "SetupDevice20" /\ net[a].guid # Nil
    BY <1>1, <1>3 DEF KnowsVoucher, HmacOK, ReplacementOVH20, AgreedHeader
<1> QED
    BY <1>2, <1>3

\* HMACs stay in step with the agreed header while an attempt's device runs.
LEMMA DeviceHmacs ==
    ASSUME TypesOK, LocalsOK, NEW a \in Attempts, HmacOK(a), Receive(a)
    PROVE  HmacOK(a)'
<1>0. /\ row' = row /\ dev' = dev /\ ownerKey' = ownerKey
      /\ pc \in [Attempts -> Waiting \cup {"idle", "ok", "failed"}] /\ net \in [Attempts -> Message20]
      /\ repl \in [Attempts -> VoucherHeader \cup {Nil}]
    BY DeviceFrame, DeviceKeepsDev DEF TypesOK, Types, ClientStep
<1>1. AgreedHeader(a)' = AgreedHeader(a)
    BY <1>0 DEF AgreedHeader
<1>2. VoucherSeen(a)'
    BY DeviceSees DEF HmacOK
<1>3. SUFFICES ASSUME row[a].replGuid # Nil PROVE HmacOK(a)'
    BY <1>0, <1>2 DEF HmacOK
<1>4. ASSUME net'[a] = net[a] \/ net'[a].t \notin {"SetupDevice", "SetupDevice20", "DeviceReady", "Done20"},
             repl'[a] \in {Nil, repl[a], AgreedHeader(a)}
      PROVE  HmacOK(a)'
    BY <1>0, <1>1, <1>2, <1>4 DEF HmacOK
<1>5. ASSUME net'[a].t \in {"DeviceReady", "Done20"}, net'[a].hmac \in {Nil, HmacOf(dev[a], AgreedHeader(a))},
             repl'[a] \in {Nil, repl[a], AgreedHeader(a)}
      PROVE  HmacOK(a)'
    BY <1>0, <1>1, <1>2, <1>5 DEF HmacOK
<1>6. ASSUME NEW h, Fail(a, h), net' = net \/ net' = [net EXCEPT ![a] = Quiet] PROVE HmacOK(a)'
    BY <1>0, <1>4, <1>6 DEF Fail, Return, Quiet
<1>7. ASSUME NEW p, NEW m, Send(a, p, m), m.t \notin {"SetupDevice", "SetupDevice20", "DeviceReady", "Done20"},
             repl'[a] \in {Nil, repl[a], AgreedHeader(a)}
      PROVE  HmacOK(a)'
    BY <1>0, <1>4, <1>7 DEF Send
<1>8. ASSUME NEW p, NEW m, Send(a, p, m), m.t \in {"DeviceReady", "Done20"},
             m.hmac \in {Nil, HmacOf(dev[a], AgreedHeader(a))}, repl'[a] \in {Nil, repl[a], AgreedHeader(a)}
      PROVE  HmacOK(a)'
    BY <1>0, <1>5, <1>8 DEF Send
<1>9. CASE recvProveOVHdr(a) \/ recvOVNextEntry(a) \/ recvProveOVHdr20(a) \/ recvOVNextEntry20(a)
    <2>1. \E i, keys : verifyVoucher(a, i, keys) \/ verifyOwner20(a, i, keys)
        BY <1>9, Zenon DEF recvProveOVHdr, recvOVNextEntry, recvProveOVHdr20, recvOVNextEntry20
    <2>2. \/ Fail(a, TRUE) /\ net' = [net EXCEPT ![a] = Quiet]
          \/ /\ repl' = repl
             /\ \/ \E n : Send(a, "entry", [t |-> "GetOVNextEntry", i |-> n])
                \/ \E n : Send(a, "entry", [t |-> "GetOVNextEntry20", i |-> n])
                \/ Send(a, "prove", [t |-> "ProveDevice"])
                \/ Send(a, "ready", [t |-> "DeviceSvcInfoRdy20"])
        BY <2>1, Zenon DEF verifyVoucher, verifyOwner20
    <2> QED
        BY <1>6, <1>7, <2>2
<1>10. CASE recvSetupDevice(a)
    <2> DEFINE ovh == ReplacementOVH(a, net[a])
               m1 == [t |-> "DeviceReady", hmac |-> Nil]
               m2 == [t |-> "DeviceReady", hmac |-> HmacOf(dev[a], ovh)]
    <2>1. \/ Fail(a, TRUE) /\ net' = [net EXCEPT ![a] = Quiet]
          \/ Send(a, "ready", m1) /\ repl' = repl
          \/ Send(a, "ready", m2) /\ repl' = [repl EXCEPT ![a] = ovh]
        BY <1>10, Zenon DEF recvSetupDevice
    <2>2. m1.t = "DeviceReady" /\ m1.hmac = Nil /\ m2.t = "DeviceReady" /\ m2.hmac = HmacOf(dev[a], ovh)
        OBVIOUS
    <2>3. ovh = AgreedHeader(a)
        BY <1>3, <1>10, ReplacementAgreed DEF recvSetupDevice
    <2> HIDE DEF ovh, m1, m2
    <2>4. repl' = [repl EXCEPT ![a] = ovh] => repl'[a] = AgreedHeader(a)
        BY <1>0, <2>3
    <2> QED
        BY <1>6, <1>8, <2>1, <2>2, <2>3, <2>4
<1>11. CASE recvOwnerReady(a)
    <2>1. repl' = repl /\ sendDeviceServiceInfo(a)
        BY <1>11 DEF recvOwnerReady
    <2> QED
        BY <1>7, <2>1, InfoSent
<1>12. CASE recvOwnerInfo(a)
    <2>1. \/ Fail(a, TRUE) /\ net' = [net EXCEPT ![a] = Quiet]
          \/ repl' = repl /\ (sendDeviceServiceInfo(a) \/ Send(a, "done", [t |-> "Done"]))
        BY <1>12, Zenon DEF recvOwnerInfo
    <2> QED
        BY <1>6, <1>7, <2>1, InfoSent
<1>13. CASE recvDone2(a) \/ recvDoneAck20(a)
    <2>1. Send(a, "ok", Quiet) /\ repl'[a] = Nil /\ Quiet.t = "none"
        BY <1>0, <1>13 DEF recvDone2, recvDoneAck20, Return, Quiet
    <2> QED
        BY <1>7, <2>1
<1>14. CASE recvError(a) \/ Timeout(a)
    BY <1>6, <1>14 DEF recvError, Timeout
<1>15. CASE recvHelloDeviceAck20(a)
    <2>1. repl' = repl /\ Send(a, "prove", [t |-> "ProveDevice20"])
        BY <1>15 DEF recvHelloDeviceAck20
    <2> QED
        BY <1>7, <2>1
<1>16. CASE recvSetupDevice20(a)
    <2> DEFINE ovh == ReplacementOVH20(a, net[a])
    <2>1. \/ \E h : Fail(a, h) /\ net' = [net EXCEPT ![a] = Quiet]
          \/ /\ \E h : Send(a, "info", [t |-> "DeviceSvcInfo20", more |-> h])
             /\ repl' = repl \/ (net[a].guid # Nil /\ repl' = [repl EXCEPT ![a] = ovh])
        BY <1>16, Zenon DEF recvSetupDevice20, sendDeviceSvcInfo20
    <2>2. net[a].guid # Nil => ovh = AgreedHeader(a)
        BY <1>3, <1>16, ReplacementAgreed DEF recvSetupDevice20
    <2> HIDE DEF ovh
    <2>3. repl' = repl \/ (net[a].guid # Nil /\ repl' = [repl EXCEPT ![a] = ovh]) => repl'[a] \in {repl[a], AgreedHeader(a)}
        BY <1>0, <2>2
    <2> QED
        BY <1>6, <1>7, <2>1, <2>3
<1>17. CASE recvOwnerSvcInfo20(a)
    <2> DEFINE h == IF repl[a] = Nil THEN Nil ELSE HmacOf(dev[a], repl[a])
               m == [t |-> "Done20", hmac |-> h]
    <2>1. /\ repl' = repl
          /\ \/ Send(a, "done", m)
             \/ \E more : Send(a, "info", [t |-> "DeviceSvcInfo20", more |-> more])
        BY <1>17, Zenon DEF recvOwnerSvcInfo20, sendDeviceSvcInfo20
    <2>2. m.t = "Done20" /\ m.hmac \in {Nil, HmacOf(dev[a], AgreedHeader(a))}
        BY <1>3 DEF HmacOK
    <2> HIDE DEF m
    <2> QED
        BY <1>7, <1>8, <2>1, <2>2
<1> QED
    BY <1>9, <1>10, <1>11, <1>12, <1>13, <1>14, <1>15, <1>16, <1>17 DEF Receive, DeviceStep, DeviceStep20

\* HmacOK only reads the session itself and the owner key.
LEMMA HmacFrame ==
    ASSUME NEW b \in Attempts, HmacOK(b), row'[b] = row[b], dev'[b] = dev[b], pc'[b] = pc[b], info'[b] = info[b],
           repl'[b] = repl[b], net'[b] = net[b] \/ net'[b] = Quiet, ownerKey' = ownerKey
    PROVE  HmacOK(b)'
<1>1. AgreedHeader(b)' = AgreedHeader(b)
    BY DEF AgreedHeader
<1>2. Quiet.t = "none"
    BY DEF Quiet
<1>3. VoucherSeen(b)'
    BY <1>2 DEF HmacOK, VoucherSeen, KnowsVoucher
<1> QED
    BY <1>1, <1>2, <1>3 DEF HmacOK

\* A server step keeps its session's HMACs in step with the agreed header.
LEMMA ServerHmacs ==
    ASSUME TypesOK, SessionsOK, ReplsOK, NEW a \in Attempts, HmacOK(a), Serve(a),
           \A ov \in HeldVouchers : Authentic(ov)
    PROVE  HmacOK(a)'
<1>0. /\ dev' = dev /\ pc' = pc /\ info' = info /\ repl' = repl /\ ownerKey' = ownerKey
      /\ row[a] \in SessionRow /\ row'[a] \in SessionRow
    BY ServerClient, HandlerTypesOK DEF HandlerStep, clientVars, TypesOK, Types
<1>1. VoucherSeen(a)'
    <2>1. ASSUME NEW g \in Guids, vouchers[g] # Nil
          PROVE  vouchers[g].hmac = HmacOf(vouchers[g].hdr.dev, vouchers[g].hdr)
        BY <2>1 DEF HeldVouchers, Stored, Authentic
    <2>2. net'[a].t \in {"ProveOVHdr", "ProveOVHdr20"} =>
             net'[a].hmac = HmacOf(net'[a].hdr.dev, net'[a].hdr) /\ net'[a].owner = ownerKey
        BY <2>1, ServerNet DEF HmacOK, VoucherSeen
    <2>3. KnowsVoucher(a)' => KnowsVoucher(a)
        BY <1>0, ServerNet DEF KnowsVoucher
    <2> QED
        BY <1>0, <2>2, <2>3 DEF HmacOK, VoucherSeen
<1>2. /\ net'[a].t = "SetupDevice" => net'[a] = net[a] \/ net[a].t = "ProveDevice"
      /\ net'[a].t = "SetupDevice20" => net'[a] = net[a] \/ net[a].t = "DeviceSvcInfoRdy20"
      /\ net'[a].t \in {"DeviceReady", "Done20"} => net'[a] = net[a]
    BY ServerNet
<1>3. /\ net[a].t = "DeviceSvcInfoRdy20" \/ net[a].t = "ProveDevice20" => row[a].replGuid = Nil /\ row[a].hmac = Nil
      /\ net[a].t \in {"ProveDevice", "DeviceSvcInfoRdy20"} => repl[a] = Nil
      /\ row[a].xsession # "complete" => row[a].replGuid = Nil /\ row[a].hmac = Nil
    BY DEF SessionsOK, SessionOK, BeforeSetup20, ReplsOK
<1>4. SUFFICES ASSUME row'[a].replGuid # Nil PROVE HmacOK(a)'
    BY <1>1 DEF HmacOK
<1>5. CASE SameCore(row'[a], row[a])
    <2>1. AgreedHeader(a)' = AgreedHeader(a)
        BY <1>0, <1>5 DEF AgreedHeader, SameCore
    <2>2. row[a].xsession = "complete" /\ row[a].replGuid # Nil
        BY <1>3, <1>4, <1>5 DEF SameCore
    <2>3. net'[a].t \in {"SetupDevice", "SetupDevice20"} => net'[a] = net[a]
        BY <1>2, <1>3, <2>2, SetupRow
    <2> QED
        BY <1>0, <1>1, <1>2, <1>5, <2>1, <2>2, <2>3 DEF SameCore, HmacOK
<1>6. CASE /\ net[a].t = "DeviceReady"
           /\ SameCore([row'[a] EXCEPT !.hmac = row[a].hmac], row[a])
           /\ row'[a].hmac = net[a].hmac
    <2>1. row'[a].replGuid = row[a].replGuid /\ row'[a].rv = row[a].rv
        BY <1>0, <1>6 DEF SameCore, SessionRow
    <2>2. AgreedHeader(a)' = AgreedHeader(a)
        BY <1>0, <2>1 DEF AgreedHeader
    <2>3. net'[a].t \notin {"SetupDevice", "SetupDevice20"}
        BY <1>2, <1>6
    <2> QED
        BY <1>0, <1>1, <1>2, <1>4, <1>6, <2>1, <2>2, <2>3 DEF HmacOK
<1>7. CASE /\ repl[a] = Nil /\ row'[a].hmac = Nil
           /\ net'[a] \in {Quiet, ErrorMessage, [t |-> "SetupDevice", guid |-> row'[a].replGuid,
                                   rv |-> row'[a].rv, owner2 |-> ownerKey],
                           [t |-> "SetupDevice20", guid |-> row'[a].replGuid, rv |-> row'[a].rv]}
    <2>1. net'[a].t \in {"none", "Error", "SetupDevice", "SetupDevice20"}
        BY <1>7 DEF Quiet, ErrorMessage
    <2>2. /\ net'[a].t = "SetupDevice" =>
                net'[a].guid = row'[a].replGuid /\ net'[a].rv = row'[a].rv /\ net'[a].owner2 = ownerKey
          /\ net'[a].t = "SetupDevice20" => net'[a].guid = row'[a].replGuid /\ net'[a].rv = row'[a].rv
        BY <1>7 DEF Quiet, ErrorMessage
    <2> QED
        BY <1>0, <1>1, <1>7, <2>1, <2>2 DEF HmacOK
<1>8. CASE net[a].t = "ProveDevice20" /\ row'[a] = [row[a] EXCEPT !.xsession = "complete"]
    BY <1>0, <1>3, <1>4, <1>8 DEF SessionRow
<1>9. CASE row[a].xsession = "begun" /\ row'[a].replGuid = row[a].replGuid
    BY <1>3, <1>4, <1>9
<1>10. CASE /\ net[a].t = "ProveDevice" /\ row[a].xsession = "begun" /\ row'[a].hmac = row[a].hmac
            /\ net'[a] \in {Quiet, ErrorMessage, [t |-> "SetupDevice", guid |-> row'[a].replGuid,
                                   rv |-> row'[a].rv, owner2 |-> ownerKey]}
    BY <1>3, <1>7, <1>10
<1>11. CASE /\ net[a].t = "DeviceSvcInfoRdy20" /\ row'[a].hmac = row[a].hmac
            /\ net'[a] \in {Quiet, ErrorMessage, [t |-> "SetupDevice20", guid |-> row'[a].replGuid, rv |-> row'[a].rv]}
    BY <1>3, <1>7, <1>11
<1> QED
    BY <1>4, <1>5, <1>6, <1>8, <1>9, <1>10, <1>11, ServerRow DEF HandlerStep

\* What the steps of both versions keep: the types, and the parts that relate
\* device, service and messages.
IndInv == TypesOK /\ Agreed

\* Every step keeps HMACs in flight over the agreed header.
LEMMA NextHmacsOK == IndInv /\ AnyStep => HmacsOK'
<1> SUFFICES ASSUME IndInv, AnyStep, rotations' = 0, NEW b \in Attempts
             PROVE  HmacOK(b)'
    BY DEF HmacsOK
<1> USE DEF IndInv, Agreed
<1>0. rotations = 0 /\ ownerKey' = ownerKey
    <2>1. ASSUME NEW a \in Attempts, ClientStep(a) \/ HandlerStep(a) \/ FaultStep(a)
          PROVE  rotations' = rotations /\ ownerKey' = ownerKey
        BY <2>1, DeviceFrame, ServerClient, FaultFrame
    <2>2. OwnerStep => rotations' = rotations + 1 \/ (rotations' = rotations /\ ownerKey' = ownerKey)
        BY DEF OwnerStep, Resell, AddVoucher, ReplaceOwnerKey
    <2>3. UNCHANGED vars => rotations' = rotations /\ ownerKey' = ownerKey
        BY DEF vars, ownerVars
    <2>4. rotations \in Nat
        BY DEF TypesOK, Types
    <2> QED
        BY <2>1, <2>2, <2>3, <2>4 DEF AnyStep
<1>1. HmacOK(b)
    BY <1>0 DEF HmacsOK
<1>2. ASSUME row'[b] = row[b], dev'[b] = dev[b], pc'[b] = pc[b], info'[b] = info[b],
             repl'[b] = repl[b], net'[b] = net[b] \/ net'[b] = Quiet
      PROVE  HmacOK(b)'
    BY <1>0, <1>1, <1>2, HmacFrame
<1>3. ASSUME NEW a \in Attempts, Hello(a)
      PROVE  HmacOK(b)'
    <2>1. row' = row /\ info' = info /\ repl' = repl
        BY <1>3, DeviceFrame DEF ClientStep, Hello, sendHelloDevice, sendHelloDeviceProbe
    <2>2. CASE b # a
        <3>1. dev'[b] = dev[b] /\ pc'[b] = pc[b] /\ net'[b] = net[b]
            BY <1>3, <2>2 DEF Hello, sendHelloDevice, sendHelloDeviceProbe, Send, TypesOK, Types
        <3> QED
            BY <1>2, <2>1, <3>1
    <2>3. CASE b = a
        <3>1. row[a].replGuid = Nil
            BY <1>3 DEF Hello, sendHelloDevice, sendHelloDeviceProbe, SessionsOK, SessionOK, EmptyRow
        <3>2. pc'[a] = "hello" /\ net'[a].t \in {"HelloDevice", "HelloDeviceProbe"}
            BY <1>3 DEF Hello, sendHelloDevice, sendHelloDeviceProbe, Send, TypesOK, Types
        <3> QED
            BY <2>1, <2>3, <3>1, <3>2 DEF HmacOK, VoucherSeen, KnowsVoucher
    <2> QED
        BY <2>2, <2>3
<1>4. ASSUME NEW a \in Attempts, Receive(a)
      PROVE  HmacOK(b)'
    <2>1. CASE b = a
        BY <1>1, <1>4, <2>1, DeviceHmacs
    <2>2. CASE b # a
        <3>1. row' = row
            BY <1>4, DeviceFrame DEF ClientStep
        <3>2. dev' = dev
            BY <1>4, DeviceKeepsDev
        <3>3. pc'[b] = pc[b] /\ net'[b] = net[b] /\ info'[b] = info[b] /\ repl'[b] = repl[b]
            BY <1>4, <2>2, DeviceMoves
        <3> QED
            BY <1>2, <3>1, <3>2, <3>3
    <2> QED
        BY <2>1, <2>2
<1>5. ASSUME NEW a \in Attempts, HandlerStep(a)
      PROVE  HmacOK(b)'
    <2>1. dev' = dev /\ pc' = pc /\ info' = info /\ repl' = repl
        BY <1>5, ServerClient DEF clientVars
    <2>2. CASE b # a
        <3>1. row'[b] = row[b] /\ net'[b] = net[b]
            BY <1>5, <2>2, ServerFrame
        <3> QED
            BY <1>2, <2>1, <3>1
    <2>3. CASE b = a /\ HandleError(a)
        BY <1>2, <2>1, <2>3 DEF HandleError
    <2>4. CASE b = a /\ Serve(a)
        <3>1. \A ov \in HeldVouchers : Authentic(ov)
            BY <1>0 DEF VoucherAuthentic
        <3> QED
            BY <1>1, <2>4, <3>1, ServerHmacs
    <2> QED
        BY <1>5, <2>2, <2>3, <2>4 DEF HandlerStep
<1>6. ASSUME NEW a \in Attempts, FaultStep(a)
      PROVE  HmacOK(b)'
    <2>1. row' = row /\ dev' = dev /\ pc' = pc /\ info' = info /\ repl' = repl
        BY <1>6, FaultFrame DEF clientVars
    <2>2. net'[b] = net[b] \/ net'[b] = Quiet
        BY <1>6 DEF FaultStep, Lose, Crash, TypesOK, Types
    <2> QED
        BY <1>2, <2>1, <2>2
<1>7. ASSUME OwnerStep
      PROVE  HmacOK(b)'
    BY <1>2, <1>7, OwnerFrame DEF clientVars
<1>8. ASSUME UNCHANGED vars
      PROVE  HmacOK(b)'
    BY <1>2, <1>8 DEF vars, clientVars, sessionVars
<1> QED
    BY <1>3, <1>4, <1>5, <1>6, <1>7, <1>8 DEF ClientStep, AnyStep

\* Every step keeps the vouchers authentic.
LEMMA NextVoucherAuthentic == IndInv /\ AnyStep => VoucherAuthentic'
<1> SUFFICES ASSUME IndInv, AnyStep, rotations' = 0
             PROVE  /\ \A g \in Guids : vouchers'[g] # Nil => Authentic(vouchers'[g])
                    /\ \A ov \in transit' : Authentic(ov)
                    /\ \A b \in Attempts : job'[b].ov # Nil => Authentic(job'[b].ov)
    BY DEF VoucherAuthentic, HeldVouchers, Stored, Authentic
<1> USE DEF IndInv, Agreed
<1>1. rotations = 0
    <2>1. ASSUME NEW a \in Attempts, ClientStep(a) \/ HandlerStep(a) \/ FaultStep(a)
          PROVE  rotations' = rotations
        BY <2>1, DeviceFrame, ServerClient, FaultFrame
    <2>2. OwnerStep => rotations' = rotations + 1 \/ rotations' = rotations
        BY DEF OwnerStep, Resell, AddVoucher, ReplaceOwnerKey
    <2>3. UNCHANGED vars => rotations' = rotations
        BY DEF vars, ownerVars
    <2>4. rotations \in Nat
        BY DEF TypesOK, Types
    <2> QED
        BY <2>1, <2>2, <2>3, <2>4 DEF AnyStep
<1>2. /\ \A g \in Guids : vouchers[g] # Nil => Authentic(vouchers[g])
      /\ \A ov \in transit : Authentic(ov)
      /\ \A b \in Attempts : job[b].ov # Nil => Authentic(job[b].ov)
    BY <1>1 DEF VoucherAuthentic, HeldVouchers, Stored
<1>3. NoJob.ov = Nil
    BY DEF NoJob
<1>4. CASE UNCHANGED <<vouchers, transit>> /\ \A b \in Attempts : job'[b] = job[b] \/ job'[b] = NoJob
    BY <1>2, <1>3, <1>4
<1>5. ASSUME NEW a \in Attempts, HandlerStep(a)
      PROVE  /\ \A g \in Guids : vouchers'[g] # Nil => Authentic(vouchers'[g])
             /\ \A ov \in transit' : Authentic(ov)
             /\ \A b \in Attempts : job'[b].ov # Nil => Authentic(job'[b].ov)
    <2>1. transit' = transit /\ \A b \in Attempts \ {a} : job'[b] = job[b]
        BY <1>5, ServerClient, ServerFrame
    <2>2. CASE UNCHANGED <<vouchers, job>>
        BY <1>4, <2>1, <2>2
    <2>3. CASE /\ UNCHANGED vouchers /\ Decrypts(a) /\ SessionVoucher(a) # Nil
               /\ LastHmac(a) # Nil /\ row[a].replGuid # Nil
               /\ job'[a] = [st |-> "add", ov |-> [ReplacementVoucher(a) EXCEPT !.hmac = LastHmac(a)]]
        <3>1. job'[a].ov = [hdr |-> AgreedHeader(a), hmac |-> LastHmac(a), entries |-> <<>>]
            BY <2>3, ReplacementDevice
        <3>2. LastHmac(a) = HmacOf(dev[a], AgreedHeader(a))
            BY <1>1, <2>3 DEF HmacsOK, HmacOK, LastHmac
        <3>3. AgreedHeader(a).dev = dev[a]
            BY DEF AgreedHeader
        <3>4. Authentic(job'[a].ov)
            BY <3>1, <3>2, <3>3 DEF Authentic
        <3> QED
            BY <1>2, <2>1, <2>3, <3>4
    <2>4. CASE /\ job[a] # NoJob
               /\ job'[a] = NoJob \/ job'[a].ov = job[a].ov
               /\ \/ UNCHANGED vouchers
                  \/ vouchers' = [vouchers EXCEPT ![job[a].ov.hdr.guid] = job[a].ov]
                  \/ \E g : vouchers' = [vouchers EXCEPT ![g] = Nil]
        <3>1. ASSUME NEW g \in Guids, vouchers'[g] # Nil
              PROVE  Authentic(vouchers'[g])
            <4>1. vouchers'[g] = vouchers[g] \/ vouchers'[g] = job[a].ov
                BY <2>4, <3>1 DEF TypesOK, Types
            <4> QED
                BY <1>2, <3>1, <4>1
        <3>2. ASSUME NEW b \in Attempts, job'[b].ov # Nil
              PROVE  Authentic(job'[b].ov)
            BY <1>2, <1>3, <2>1, <2>4, <3>2
        <3> QED
            BY <1>2, <2>1, <3>1, <3>2
    <2> QED
        BY <1>5, <2>2, <2>3, <2>4, ServerVouchers
<1>6. ASSUME OwnerStep
      PROVE  /\ \A g \in Guids : vouchers'[g] # Nil => Authentic(vouchers'[g])
             /\ \A ov \in transit' : Authentic(ov)
    <2>1. ASSUME NEW h \in Guids, NEW k \in Keys, Resell(h, k)
          PROVE  /\ \A g \in Guids : vouchers'[g] # Nil => vouchers'[g] = vouchers[g]
                 /\ \A ov \in transit' : ov \in transit \/ Authentic(ov)
        <3>0. vouchers[h] \in Voucher /\ vouchers[h] # Nil
            BY <2>1 DEF Resell, TypesOK, Types, OptVoucher
        <3> DEFINE e == [vouchers[h] EXCEPT !.entries = Append(vouchers[h].entries, k)]
        <3>1. transit' = transit \cup {e} \/ transit' = transit \cup {vouchers[h]}
            BY <2>1, Zenon DEF Resell
        <3>2. e.hdr = vouchers[h].hdr /\ e.hmac = vouchers[h].hmac
            BY <3>0 DEF Voucher
        <3>3. vouchers' = [vouchers EXCEPT ![h] = Nil]
            BY <2>1 DEF Resell
        <3> HIDE DEF e
        <3>4. Authentic(e) /\ Authentic(vouchers[h])
            BY <1>2, <3>0, <3>2 DEF Authentic
        <3> QED
            BY <3>1, <3>3, <3>4 DEF TypesOK, Types
    <2>2. ASSUME NEW ov \in transit, AddVoucher(ov)
          PROVE  /\ \A g \in Guids : vouchers'[g] # Nil => vouchers'[g] = vouchers[g] \/ vouchers'[g] = ov
                 /\ transit' \subseteq transit
        BY <2>2 DEF AddVoucher, TypesOK, Types
    <2>3. ASSUME NEW k \in Keys, ReplaceOwnerKey(k) PROVE UNCHANGED <<vouchers, transit>>
        BY <2>3 DEF ReplaceOwnerKey
    <2>4. ASSUME NEW h \in Guids, NEW k \in Keys, Resell(h, k)
          PROVE  /\ \A g \in Guids : vouchers'[g] # Nil => Authentic(vouchers'[g])
                 /\ \A ov \in transit' : Authentic(ov)
        BY <1>2, <2>1, <2>4
    <2>5. ASSUME NEW ov \in transit, AddVoucher(ov)
          PROVE  /\ \A g \in Guids : vouchers'[g] # Nil => Authentic(vouchers'[g])
                 /\ \A v \in transit' : Authentic(v)
        BY <1>2, <2>2, <2>5
    <2> QED
        BY <1>2, <1>6, <2>3, <2>4, <2>5 DEF OwnerStep
<1>7. OwnerStep => job' = job
    BY OwnerFrame
<1>8. ASSUME NEW a \in Attempts, ClientStep(a)
      PROVE  UNCHANGED <<vouchers, transit, job>>
    BY <1>8, DeviceFrame
<1>9. ASSUME NEW a \in Attempts, FaultStep(a)
      PROVE  UNCHANGED <<vouchers, transit>> /\ \A b \in Attempts : job'[b] = job[b] \/ job'[b] = NoJob
    BY <1>9, FaultFrame
<1>10. UNCHANGED vars => UNCHANGED <<vouchers, transit, job>>
    BY DEF vars, ownerVars
<1> QED
    BY <1>2, <1>4, <1>5, <1>6, <1>7, <1>8, <1>9, <1>10 DEF AnyStep

\* The inductive invariant holds when the owner service starts.
LEMMA InitIndInv == Init => IndInv
<1> SUFFICES ASSUME Init PROVE IndInv
    OBVIOUS
<1>1. TypesOK /\ LocalsOK
    BY InitTypeOK, MessageSets DEF TypeOK, TypesOK, Types
<1>2. \A a \in Attempts : /\ row[a] = EmptyRow /\ job[a] = NoJob /\ net[a] = Quiet /\ pc[a] = "idle"
    BY DEF Init
<1>3. /\ EmptyRow.replGuid = Nil /\ EmptyRow.hmac = Nil /\ EmptyRow.xsession = "none"
      /\ NoJob.ov = Nil /\ Quiet.t = "none"
    BY DEF EmptyRow, NoJob, Quiet
<1>4. GuidsOK
    BY <1>2, <1>3 DEF Init, GuidsOK
<1>5. ASSUME NEW g \in Guids, vouchers[g] # Nil
      PROVE  \E d \in Devices, rv \in Rvs : /\ InitGuid[d] = g /\ vouchers[g].hdr = InitHeader(d, rv)
                                            /\ vouchers[g].hmac = HmacOf(d, InitHeader(d, rv))
    <2>1. PICK rv \in Rvs : vouchers = [h \in Guids |->
                            IF \E d \in Devices : InitGuid[d] = h
                            THEN LET d == CHOOSE d \in Devices : InitGuid[d] = h
                                 IN  [hdr |-> InitHeader(d, rv), hmac |-> HmacOf(d, InitHeader(d, rv)),
                                      entries |-> <<ownerKey>>]
                            ELSE Nil]
        BY Zenon DEF Init
    <2>2. \E d \in Devices : InitGuid[d] = g
        BY <1>5, <2>1
    <2> DEFINE d == CHOOSE d \in Devices : InitGuid[d] = g
    <2>3. d \in Devices /\ InitGuid[d] = g
        BY <2>2
    <2>4. vouchers[g] = [hdr |-> InitHeader(d, rv), hmac |-> HmacOf(d, InitHeader(d, rv)), entries |-> <<ownerKey>>]
        BY <2>1, <2>2
    <2> HIDE DEF d
    <2> QED
        BY <2>3, <2>4
<1>6. ASSUME NEW d, NEW rv
      PROVE  InitHeader(d, rv).guid = InitGuid[d] /\ InitHeader(d, rv).dev = d
    BY DEF InitHeader
<1>7. VouchersOK
    <2>1. transit = {}
        BY DEF Init
    <2> QED
        BY <1>2, <1>5, <1>6, <2>1 DEF VouchersOK, Belongs
<1>8. SessionsOK
    BY <1>2, <1>3 DEF SessionsOK, SessionOK, Idle, BeforeSetup20
<1>9. HmacsOK /\ ReplsOK
    BY <1>2, <1>3 DEF HmacsOK, HmacOK, VoucherSeen, KnowsVoucher, ReplsOK, Init
<1>10. VoucherAuthentic
    <2>1. transit = {}
        BY DEF Init
    <2> QED
        BY <1>2, <1>3, <1>5, <1>6, <2>1 DEF VoucherAuthentic, HeldVouchers, Stored, Authentic
<1> QED
    BY <1>1, <1>4, <1>7, <1>8, <1>9, <1>10 DEF IndInv, Agreed

\* The inductive invariant is one.
LEMMA NextIndInv == IndInv /\ AnyStep => IndInv'
<1> SUFFICES ASSUME IndInv, AnyStep PROVE IndInv'
    OBVIOUS
<1>1. TypesOK' /\ LocalsOK' /\ ReplsOK'
    BY NextTypesOK, NextLocalsOK, NextReplsOK DEF IndInv, Agreed
<1>2. GuidsOK' /\ VouchersOK' /\ SessionsOK'
    BY NextGuidsOK, NextVouchersOK, NextSessionsOK DEF IndInv, Agreed
<1>3. HmacsOK' /\ VoucherAuthentic'
    BY NextHmacsOK, NextVoucherAuthentic
<1> QED
    BY <1>1, <1>2, <1>3 DEF IndInv, Agreed

\* Whatever the number of devices, attempts, GUIDs and keys, and whatever is
\* lost, fails or crashes: until an owner key is replaced, every voucher the
\* owner stores, resells or is about to store carries an HMAC its own device
\* computed over exactly the stored header.
THEOREM VouchersAuthentic == Spec => []VoucherAuthentic
<1>1. IndInv /\ [Next]_vars => IndInv'
    BY StepKinds, NextIndInv
<1>2. IndInv => VoucherAuthentic
    BY DEF IndInv, Agreed
<1> QED
    BY <1>1, <1>2, InitIndInv, PTL DEF Spec

\* So does a voucher replaced over 2.0, where the HMAC arrives with the last
\* message and no session column holds it, whatever mix of 1.01 and 2.0 runs.
THEOREM VouchersAuthentic20 == Spec20 => []VoucherAuthentic
<1>1. Init20 => IndInv
    BY InitIndInv DEF Init20
<1>2. IndInv /\ [Next20]_vars20 => IndInv'
    BY StepKinds, NextIndInv
<1>3. IndInv => VoucherAuthentic
    BY DEF IndInv, Agreed
<1> QED
    BY <1>1, <1>2, <1>3, PTL DEF Spec20

=============================================================================
