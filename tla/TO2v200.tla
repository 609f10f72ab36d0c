----------------------------- MODULE TO2v200 -----------------------------
(***************************************************************************)
(* The FDO 2.0 Transfer Ownership 2 protocol, beside FDO 1.01: the         *)
(* device's TO2v200 function and the 2.0 handlers of the same TO2Server,   *)
(* with the same session tables, vouchers and owner operations (TO2).      *)
(* Calls in V200 use 2.0, the others 1.01; their sessions interleave.      *)
(*                                                                         *)
(* In 2.0 the device proves itself before the owner does, SetupDevice      *)
(* follows the voucher, and the HMAC over the replacement header comes     *)
(* with the last message instead of a session column.                      *)
(***************************************************************************)
EXTENDS TO2

CONSTANT V200               \* the calls that use 2.0

ASSUME V200Assumption == V200 \subseteq Attempts

VARIABLE deviceDone         \* attempt: exchangeServiceInfo20 has read all of devmod

vars20 == <<vars, deviceDone>>

Message20 ==
         Message
    \cup [t : {"HelloDeviceAck20", "ProveDevice20", "DeviceSvcInfoRdy20", "OwnerSvcInfo20"}]
    \cup [t : {"HelloDeviceProbe"}, guid : Guids]
    \cup [t : {"ProveOVHdr20"}, hdr : VoucherHeader, hmac : Hmac, owner : Keys, n : Nat]
    \cup [t : {"GetOVNextEntry20"}, i : Nat]
    \cup [t : {"OVNextEntry20"}, key : Keys]
    \cup [t : {"SetupDevice20"}, guid : Guids, rv : Rvs]
    \cup [t : {"SetupDevice20"}, guid : {Nil}, rv : {Nil}]      \* the credential is reused
    \cup [t : {"DeviceSvcInfo20"}, more : BOOLEAN]
    \cup [t : {"Done20"}, hmac : Hmac \cup {Nil}]

------------------------------------------------------------------------------
(* Device: the TO2v200 function.                                             *)

sendHelloDeviceProbe(a, d) ==
    /\ Idle(a)
    /\ \A b \in Attempts : dev[b] = d => Over(b)
    /\ dev' = [dev EXCEPT ![a] = d]
    /\ Send(a, "hello", [t |-> "HelloDeviceProbe", guid |-> cred[d].guid])
    /\ UNCHANGED <<cred, failedAt, info, got, repl, rounds, errNet, sessionVars, job, ownerVars, deviceDone>>

recvHelloDeviceAck20(a) ==
    /\ pc[a] = "hello"
    /\ net[a].t = "HelloDeviceAck20"
    /\ Send(a, "prove", [t |-> "ProveDevice20"])
    /\ UNCHANGED <<cred, failedAt, dev, info, got, repl, rounds, errNet, sessionVars, job, ownerVars, deviceDone>>

\* VerifyCrypto, with the owner key that ends the fetched entries.
VerifyCrypto20(d, i, keys) ==
    VerifyCrypto(d, [i EXCEPT !.owner = OwnerPublicKey([hdr |-> i.hdr, hmac |-> i.hmac, entries |-> keys])], keys)

\* The next GetOVNextEntry20 or, once all entries are there, VerifyCrypto and
\* DeviceSvcInfoRdy20.
verifyOwner20(a, i, keys) ==
    /\ \/ /\ Len(keys) < i.n
          /\ Send(a, "entry", [t |-> "GetOVNextEntry20", i |-> Len(keys)])
          /\ info' = [info EXCEPT ![a] = i]
          /\ got' = [got EXCEPT ![a] = keys]
          /\ UNCHANGED <<cred, failedAt, dev, repl, rounds, errNet>>
       \/ /\ Len(keys) >= i.n /\ VerifyCrypto20(dev[a], i, keys)
          /\ Send(a, "ready", [t |-> "DeviceSvcInfoRdy20"])
          /\ info' = [info EXCEPT ![a] = i]
          /\ got' = [got EXCEPT ![a] = keys]
          /\ UNCHANGED <<cred, failedAt, dev, repl, rounds, errNet>>
       \/ /\ Len(keys) >= i.n /\ ~VerifyCrypto20(dev[a], i, keys)
          /\ net' = [net EXCEPT ![a] = Quiet]
          /\ Fail(a, TRUE)
    /\ UNCHANGED <<sessionVars, job, ownerVars, deviceDone>>

recvProveOVHdr20(a) ==
    /\ pc[a] = "prove"
    /\ net[a].t = "ProveOVHdr20"
    /\ verifyOwner20(a, [hdr |-> net[a].hdr, hmac |-> net[a].hmac, owner |-> net[a].owner, n |-> net[a].n], <<>>)

recvOVNextEntry20(a) ==
    /\ pc[a] = "entry"
    /\ net[a].t = "OVNextEntry20"
    /\ verifyOwner20(a, info[a], Append(got[a], net[a].key))

\* One chunk of devmod, or the empty message that says there is no more.
sendDeviceSvcInfo20(a) ==
    \E more \in BOOLEAN :
        /\ more => rounds[a] < MaxRounds
        /\ rounds' = [rounds EXCEPT ![a] = IF more THEN @ + 1 ELSE @]
        /\ deviceDone' = [deviceDone EXCEPT ![a] = ~more]
        /\ Send(a, "info", [t |-> "DeviceSvcInfo20", more |-> more])

\* The header the device and the owner each put together: the owner key is the
\* one ProveOVHdr20 named.
ReplacementOVH20_OldMfg(a, m) ==         \* mutant: the manufacturer key stays
    [guid |-> m.guid, rv |-> m.rv, mfg |-> info[a].hdr.mfg, dev |-> info[a].hdr.dev]

ReplacementOVH20(a, m) ==
    [guid |-> m.guid, rv |-> m.rv, mfg |-> info[a].owner, dev |-> info[a].hdr.dev]

\* No replacement GUID means credential reuse.  An error while the HMAC over the
\* replacement header is computed is returned without an error report.
recvSetupDevice20(a) ==
    /\ pc[a] = "ready"
    /\ net[a].t = "SetupDevice20"
    /\ \/ /\ net[a].guid = Nil /\ AllowCredentialReuse
          /\ sendDeviceSvcInfo20(a)
          /\ UNCHANGED <<cred, failedAt, dev, info, got, repl, errNet>>
       \/ /\ net[a].guid = Nil /\ ~AllowCredentialReuse
          /\ net' = [net EXCEPT ![a] = Quiet]
          /\ Fail(a, TRUE)
          /\ UNCHANGED deviceDone
       \/ /\ net[a].guid # Nil
          /\ repl' = [repl EXCEPT ![a] = ReplacementOVH20(a, net[a])]
          /\ sendDeviceSvcInfo20(a)
          /\ UNCHANGED <<cred, failedAt, dev, info, got, errNet>>
       \/ /\ net[a].guid # Nil
          /\ net' = [net EXCEPT ![a] = Quiet]
          /\ Fail(a, FALSE)
          /\ UNCHANGED deviceDone
    /\ UNCHANGED <<sessionVars, job, ownerVars>>

\* The owner is always done; the exchange ends when the device is.
recvOwnerSvcInfo20(a) ==
    /\ pc[a] = "info"
    /\ net[a].t = "OwnerSvcInfo20"
    /\ \/ /\ deviceDone[a]
          /\ Send(a, "done", [t |-> "Done20",
                              hmac |-> IF repl[a] = Nil THEN Nil ELSE HmacOf(dev[a], repl[a])])
          /\ UNCHANGED <<rounds, deviceDone>>
       \/ ~deviceDone[a] /\ sendDeviceSvcInfo20(a)
    /\ UNCHANGED <<cred, failedAt, dev, info, got, repl, errNet, sessionVars, job, ownerVars>>

\* DoneAck20 ends the call as Done2 does: the credential is replaced or, when it
\* is reused, returned as it was.
recvDoneAck20(a) == recvDone2(a) /\ UNCHANGED deviceDone

------------------------------------------------------------------------------
(* Owner service: the 2.0 handlers of TO2Server.                             *)

\* NewToken, SetGUID, voucher lookup, nonce.
helloDeviceAck20(a) ==
    /\ net[a].t = "HelloDeviceProbe"
    /\ \/ /\ HasEntries(vouchers[net[a].guid])
          /\ row' = [row EXCEPT ![a] = [EmptyRow EXCEPT !.guid = net[a].guid, !.proveDv = TRUE]]
          /\ Respond(a, [t |-> "HelloDeviceAck20"], "live")
       \/ /\ ~HasEntries(vouchers[net[a].guid])
          /\ row' = [row EXCEPT ![a] = EmptyRow]
          /\ RespondError(a)
    /\ UNCHANGED <<clientVars, errNet, running, job, ownerVars, deviceDone>>

\* The device's signature, then the owner key against the voucher, then the key
\* exchange, complete at once.  The count of entries is a uint8.
proveOVHdr20(a) ==
    /\ net[a].t = "ProveDevice20"
    /\ LET ov == SessionVoucher(a)
           ok == /\ sess[a] = "live" /\ ov # Nil
                 /\ ov.hdr.dev = dev[a]
                 /\ row[a].proveDv
                 /\ OwnerPublicKey(ov) = ownerKey
       IN  \/ /\ ok
              /\ row' = [row EXCEPT ![a] = [@ EXCEPT !.xsession = "complete"]]
              /\ Respond(a, [t |-> "ProveOVHdr20", hdr |-> ov.hdr, hmac |-> ov.hmac,
                             owner |-> ownerKey, n |-> Len(ov.entries) % 256], "live")
           \/ ~ok /\ RespondError(a) /\ UNCHANGED row
    /\ UNCHANGED <<clientVars, errNet, running, job, ownerVars, deviceDone>>

ovNextEntry20(a) ==
    /\ net[a].t = "GetOVNextEntry20"
    /\ LET ov == SessionVoucher(a)
           ok == sess[a] = "live" /\ ov # Nil /\ net[a].i < Len(ov.entries)
       IN  \/ ok /\ Respond(a, [t |-> "OVNextEntry20", key |-> ov.entries[net[a].i + 1]], "live")
           \/ ~ok /\ RespondError(a)
    /\ UNCHANGED <<clientVars, errNet, row, running, job, ownerVars, deviceDone>>

\* ReuseCredential decides; otherwise a random GUID and new directives, both
\* stored in the session.
setupDevice20_StoresFirst(a) ==          \* mutant: the GUID is stored before ReuseCredential is asked
    /\ net[a].t = "DeviceSvcInfoRdy20"
    /\ Decrypts(a) /\ SessionVoucher(a) # Nil
    /\ \E g \in Guids \ used, rv \in Rvs :
          /\ row' = [row EXCEPT ![a] = [@ EXCEPT !.setupDv = TRUE, !.replGuid = g, !.rv = rv]]
          /\ used' = used \cup {g}
    /\ Respond(a, [t |-> "SetupDevice20", guid |-> Nil, rv |-> Nil], "live")
    /\ UNCHANGED <<clientVars, errNet, running, job, vouchers, transit, ownerKey, rotations, deviceDone>>

setupDevice20(a) ==
    /\ net[a].t = "DeviceSvcInfoRdy20"
    /\ \/ /\ Decrypts(a) /\ SessionVoucher(a) # Nil
          /\ \/ /\ row' = [row EXCEPT ![a] = [@ EXCEPT !.setupDv = TRUE]]
                /\ Respond(a, [t |-> "SetupDevice20", guid |-> Nil, rv |-> Nil], "live")
                /\ UNCHANGED used
             \/ \E g \in Guids \ used, rv \in Rvs :
                   /\ row' = [row EXCEPT ![a] = [@ EXCEPT !.setupDv = TRUE, !.replGuid = g, !.rv = rv]]
                   /\ Respond(a, [t |-> "SetupDevice20", guid |-> g, rv |-> rv], "live")
                   /\ used' = used \cup {g}
       \/ /\ ~(Decrypts(a) /\ SessionVoucher(a) # Nil)
          /\ RespondError(a)
          /\ UNCHANGED <<row, used>>
    /\ UNCHANGED <<clientVars, errNet, running, job, vouchers, transit, ownerKey, rotations, deviceDone>>

\* The modules of the owner are not asked; a failure cleans them up.
ownerSvcInfo20(a) ==
    /\ net[a].t = "DeviceSvcInfo20"
    /\ \/ /\ Decrypts(a) /\ SessionVoucher(a) # Nil
          /\ Respond(a, [t |-> "OwnerSvcInfo20"], "live")
          /\ UNCHANGED running
       \/ /\ ~(Decrypts(a) /\ SessionVoucher(a) # Nil)
          /\ RespondError(a)
          /\ running' = [running EXCEPT ![a] = FALSE]
    /\ UNCHANGED <<clientVars, errNet, row, job, ownerVars, deviceDone>>

\* The voucher of to2Done2, with the HMAC of this message.
ReplacementVoucher20(a) == [ReplacementVoucher(a) EXCEPT !.hmac = net[a].hmac]

\* Without an HMAC the call is over; with one the voucher is replaced, by the
\* steps of ReplaceVoucher that TO2 has for to2Done2.  DoneAck20, as Done2,
\* carries nothing but a nonce and is written Done2.
doneAck20_NoGuidCheck(a) ==              \* mutant: a missing replacement GUID is not an error
    /\ net[a].t = "Done20" /\ job[a] = NoJob
    /\ Decrypts(a) /\ HasEntries(SessionVoucher(a))
    /\ running' = [running EXCEPT ![a] = FALSE]
    /\ job' = [job EXCEPT ![a] = [st |-> "add", ov |-> ReplacementVoucher20(a)]]
    /\ UNCHANGED <<clientVars, errNet, row, net, sess, ownerVars, deviceDone>>

doneAck20(a) ==
    /\ net[a].t = "Done20"
    /\ job[a] = NoJob
    /\ running' = IF Decrypts(a) THEN [running EXCEPT ![a] = FALSE] ELSE running
    /\ LET proved      == Decrypts(a) /\ row[a].setupDv /\ row[a].proveDv
           replaceable == HasEntries(SessionVoucher(a)) /\ row[a].rv # Nil /\ row[a].replGuid # Nil
       IN  \/ /\ proved /\ net[a].hmac = Nil
              /\ Respond(a, [t |-> "Done2"], "dead")
              /\ UNCHANGED job
           \/ /\ proved /\ net[a].hmac # Nil /\ replaceable
              /\ job' = [job EXCEPT ![a] = [st |-> "add", ov |-> ReplacementVoucher20(a)]]
              /\ UNCHANGED <<net, sess>>
           \/ /\ ~proved \/ (net[a].hmac # Nil /\ ~replaceable)
              /\ RespondError(a)
              /\ UNCHANGED job
    /\ UNCHANGED <<clientVars, errNet, row, ownerVars, deviceDone>>

------------------------------------------------------------------------------
Init20 == Init /\ deviceDone = [a \in Attempts |-> FALSE]

DeviceStep20(a) ==
    \/ recvHelloDeviceAck20(a) \/ recvProveOVHdr20(a) \/ recvOVNextEntry20(a)
    \/ recvSetupDevice20(a) \/ recvOwnerSvcInfo20(a) \/ recvDoneAck20(a)
    \/ recvError(a) /\ UNCHANGED deviceDone

ServerStep20(a) ==
    \/ helloDeviceAck20(a) \/ proveOVHdr20(a) \/ ovNextEntry20(a)
    \/ setupDevice20(a) \/ ownerSvcInfo20(a) \/ doneAck20(a)
    \/ /\ ReplaceAdd(a) \/ ReplaceRemove(a) \/ ReplaceUndo(a) \/ RefuseRequest(a)
       /\ UNCHANGED deviceDone

Next20 ==
    \/ \E a \in V200 :
          \/ \E d \in Devices : sendHelloDeviceProbe(a, d)
          \/ DeviceStep20(a) \/ ServerStep20(a)
    \/ \E a \in Attempts \ V200 :
          \/ \E d \in Devices : sendHelloDevice(a, d) /\ UNCHANGED deviceDone
          \/ (DeviceStep(a) \/ ServerStep(a)) /\ UNCHANGED deviceDone
    \/ \E a \in Attempts : (Timeout(a) \/ HandleError(a) \/ Lose(a) \/ Crash(a)) /\ UNCHANGED deviceDone
    \/ OwnerStep /\ UNCHANGED deviceDone

Spec20 == Init20 /\ [][Next20]_vars20

FairSpec20 ==
    /\ Spec20
    /\ \A a \in V200 : WF_vars20(DeviceStep20(a)) /\ WF_vars20(ServerStep20(a))
    /\ \A a \in Attempts \ V200 :
          /\ WF_vars20(DeviceStep(a) /\ UNCHANGED deviceDone)
          /\ WF_vars20(ServerStep(a) /\ UNCHANGED deviceDone)
    /\ \A a \in Attempts :
          WF_vars20(net[a] = Quiet /\ Timeout(a) /\ UNCHANGED deviceDone)

------------------------------------------------------------------------------
(* Properties.                                                               *)

\* Every variable has its type, a message being one of 1.01 or of 2.0.
TypeOK20 == Types(Message20) /\ deviceDone \in [Attempts -> BOOLEAN]

\* Device and owner service end a call of TO2 with the same outcome: a device
\* whose call succeeds goes by the replacement GUID its session holds or, when
\* the session holds none, by the GUID it came with.
EndsAgree ==
    [][\A a \in Attempts : pc[a] # "ok" /\ pc'[a] = "ok" =>
          cred'[dev[a]].guid = IF row[a].replGuid = Nil THEN row[a].guid ELSE row[a].replGuid]_vars20
=============================================================================
