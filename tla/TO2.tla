------------------------------- MODULE TO2 -------------------------------
(***************************************************************************)
(* The FDO 1.01 Transfer Ownership 2 protocol: the device's TO2 function,  *)
(* the message handlers of TO2Server behind the HTTP handler, the session  *)
(* rows and the vouchers the owner service persists, and the owner's own   *)
(* operations on its vouchers and keys.                                    *)
(*                                                                         *)
(* An attempt is one call of TO2.  It opens at most one server session, so *)
(* attempts also name sessions.  The device waits for each response, so an *)
(* attempt has at most one message in flight; when the device gives up its *)
(* request stays in flight and may still be processed.                     *)
(***************************************************************************)
EXTENDS Naturals, Sequences

CONSTANTS
    Attempts,             \* calls of TO2, and the server sessions they open
    Devices,              \* devices, each with its own attestation key and HMAC secret
    Guids,                \* GUIDs in a voucher or drawn at random
    Keys,                 \* owner and manufacturer public keys
    Rvs,                  \* rendezvous directives
    Nil,                  \* absent value
    MaxEntries,           \* bound: extensions of a voucher
    MaxRounds,            \* 68/69 exchanges the device allows (1e6 in the code); bound on their count
    MaxModules,           \* bound: owner modules of the module state machine
    MaxRotations,         \* bound: replacements of the owner key
    AllowCredentialReuse, \* TO2Config.AllowCredentialReuse
    ErrorsReachServer,    \* whether the Transport delivers ErrorMessage (255); the repository's do not
    InitGuid, InitMfg     \* GUID of each device's first credential, its manufacturer key

ASSUME ConstantsAssumption ==
    /\ MaxEntries \in Nat /\ MaxRounds \in Nat /\ MaxModules \in Nat /\ MaxRotations \in Nat
    /\ AllowCredentialReuse \in BOOLEAN /\ ErrorsReachServer \in BOOLEAN
    /\ Nil \notin Guids \cup Keys \cup Rvs \cup Devices
    /\ InitGuid \in [Devices -> Guids]
    /\ InitMfg \in Keys
    /\ \A d, e \in Devices : InitGuid[d] = InitGuid[e] => d = e

VARIABLES
    cred,      \* device: stored DeviceCredential
    pc,        \* attempt: the request the device waits on, or how TO2 ended
    failedAt,  \* attempt: value of pc when TO2 failed
    dev,       \* attempt: the device running it
    info,      \* attempt: OvhValidationContext taken from ProveOVHdr
    got,       \* attempt: owner keys of the voucher entries fetched so far
    repl,      \* attempt: replacementOVH, Nil while unknown or when reusing
    rounds,    \* attempt: service info exchanges so far
    net,       \* attempt: the message in flight
    errNet,    \* attempt: an ErrorMessage is on its way to the server
    sess,      \* session: "none", "live", "dead" (its responder failed or is done, or an
               \* error was reported) or "cut" (the HTTP handler took the token by itself)
    row,       \* session: columns of to2_sessions, replacement_vouchers, key_exchanges
    running,   \* session: an owner module has been started and not cleaned up
    job,       \* session: progress of ReplaceVoucher inside to2Done2
    vouchers,  \* GUID: the persisted voucher or Nil
    transit,   \* vouchers removed for resale and not added back
    ownerKey,  \* the key OwnerKeys.OwnerKey returns
    used,      \* GUIDs drawn or in use
    rotations  \* number of owner key replacements

clientVars == <<cred, pc, failedAt, dev, info, got, repl, rounds>>
sessionVars == <<sess, row, running>>
ownerVars == <<vouchers, transit, ownerKey, used, rotations>>
vars == <<clientVars, net, errNet, sessionVars, job, ownerVars>>

------------------------------------------------------------------------------
(* Data.  A header keeps what the protocol tells apart: dev stands for       *)
(* DeviceInfo and CertChainHash.  An HMAC is the pair of the device whose    *)
(* secret computed it and the header it was computed over.                   *)

VoucherHeader == [guid : Guids, rv : Rvs, mfg : Keys, dev : Devices]
Hmac == [secret : Devices, over : VoucherHeader]
Voucher == [hdr : VoucherHeader, hmac : Hmac, entries : Seq(Keys)]
DeviceCredential == [guid : Guids, rv : Rvs, mfg : Keys]

ASSUME NilAssumption == Nil \notin VoucherHeader \cup Hmac \cup Voucher

HmacOf(d, hdr) == [secret |-> d, over |-> hdr]

OwnerPublicKey(ov) ==
    IF ov.entries = <<>> THEN ov.hdr.mfg ELSE ov.entries[Len(ov.entries)]

SessionRow == [guid : Guids \cup {Nil}, proveDv : BOOLEAN, setupDv : BOOLEAN,
               xsession : {"none", "begun", "complete"},
               replGuid : Guids \cup {Nil}, rv : Rvs \cup {Nil}, hmac : Hmac \cup {Nil},
               devmod : {"none", "partial", "complete"}, modules : 0 .. MaxModules]

EmptyRow == [guid |-> Nil, proveDv |-> FALSE, setupDv |-> FALSE, xsession |-> "none",
             replGuid |-> Nil, rv |-> Nil, hmac |-> Nil, devmod |-> "none", modules |-> 0]

Message ==
         [t : {"none", "ProveDevice", "OwnerReady", "Done", "Done2", "Error"}]
    \cup [t : {"HelloDevice"}, guid : Guids]
    \cup [t : {"ProveOVHdr"}, hdr : VoucherHeader, hmac : Hmac, owner : Keys, n : Nat]
    \cup [t : {"GetOVNextEntry"}, i : Nat]
    \cup [t : {"OVNextEntry"}, key : Keys]
    \cup [t : {"SetupDevice"}, guid : Guids, rv : Rvs, owner2 : Keys]
    \cup [t : {"DeviceReady"}, hmac : Hmac \cup {Nil}]
    \cup [t : {"DeviceInfo"}, more : BOOLEAN]
    \cup [t : {"OwnerInfo"}, more : BOOLEAN, done : BOOLEAN]

Requests == {"HelloDevice", "GetOVNextEntry", "ProveDevice", "DeviceReady", "DeviceInfo", "Done",
             "HelloDeviceProbe", "ProveDevice20", "GetOVNextEntry20", "DeviceSvcInfoRdy20",
             "DeviceSvcInfo20", "Done20"}       \* of 1.01, and of 2.0 (TO2v200)

Quiet == [t |-> "none"]
ErrorMessage == [t |-> "Error"]

\* While service info is exchanged, "more" is the wait for the answer to a message
\* after which the device has more to send, "info" for that to any other.
Waiting == {"hello", "entry", "prove", "ready", "more", "info", "done"}
Idle(a) == pc[a] = "idle"
Over(a) == pc[a] \in {"ok", "failed"}

------------------------------------------------------------------------------
(* Device: the TO2 function.                                                 *)

\* The local variables of TO2 are gone when it returns.
Return(a) ==
    /\ info' = [info EXCEPT ![a] = Nil]
    /\ got' = [got EXCEPT ![a] = <<>>]
    /\ repl' = [repl EXCEPT ![a] = Nil]
    /\ rounds' = [rounds EXCEPT ![a] = 0]

\* TO2 returns an error.  errorMsg sends nothing before a response was captured
\* (heard), and what it sends only reaches the server through a transport that
\* accepts it.
Fail(a, heard) ==
    /\ pc' = [pc EXCEPT ![a] = "failed"]
    /\ failedAt' = [failedAt EXCEPT ![a] = pc[a]]
    /\ errNet' = [errNet EXCEPT ![a] = ErrorsReachServer /\ heard]
    /\ Return(a)
    /\ UNCHANGED <<cred, dev>>

Send(a, next, m) ==
    /\ pc' = [pc EXCEPT ![a] = next]
    /\ net' = [net EXCEPT ![a] = m]

\* A device runs one TO2 at a time.
sendHelloDevice(a, d) ==
    /\ Idle(a)
    /\ \A b \in Attempts : dev[b] = d => Over(b)
    /\ dev' = [dev EXCEPT ![a] = d]
    /\ Send(a, "hello", [t |-> "HelloDevice", guid |-> cred[d].guid])
    /\ UNCHANGED <<cred, failedAt, info, got, repl, rounds, errNet, sessionVars, job, ownerVars>>

\* VerifyCrypto on the header, the fetched entries and the claimed owner key:
\* header HMAC, manufacturer key hash, end of the entry chain.
VerifyCrypto(d, i, keys) ==
    /\ i.hmac = HmacOf(d, i.hdr)
    /\ i.hdr.mfg = cred[d].mfg
    /\ OwnerPublicKey([hdr |-> i.hdr, hmac |-> i.hmac, entries |-> keys]) = i.owner

\* The next GetOVNextEntry or, once all entries are there, VerifyCrypto and
\* ProveDevice.
verifyVoucher(a, i, keys) ==
    \/ /\ Len(keys) < i.n \/ VerifyCrypto(dev[a], i, keys)
       /\ info' = [info EXCEPT ![a] = i]
       /\ got' = [got EXCEPT ![a] = keys]
       /\ IF Len(keys) < i.n
          THEN Send(a, "entry", [t |-> "GetOVNextEntry", i |-> Len(keys)])
          ELSE Send(a, "prove", [t |-> "ProveDevice"])
       /\ UNCHANGED <<cred, failedAt, dev, repl, rounds, errNet>>
    \/ /\ Len(keys) >= i.n
       /\ ~VerifyCrypto(dev[a], i, keys)
       /\ net' = [net EXCEPT ![a] = Quiet]
       /\ Fail(a, TRUE)

recvProveOVHdr(a) ==
    /\ pc[a] = "hello"
    /\ net[a].t = "ProveOVHdr"
    /\ LET i == [hdr |-> net[a].hdr, hmac |-> net[a].hmac, owner |-> net[a].owner, n |-> net[a].n]
       IN  verifyVoucher(a, i, <<>>)
    /\ UNCHANGED <<sessionVars, job, ownerVars>>

recvOVNextEntry(a) ==
    /\ pc[a] = "entry"
    /\ net[a].t = "OVNextEntry"
    /\ verifyVoucher(a, info[a], Append(got[a], net[a].key))
    /\ UNCHANGED <<sessionVars, job, ownerVars>>

\* reuseCredentials: SetupDevice repeats the device's own credential.
IsReuse(a, m) ==
    /\ m.guid = cred[dev[a]].guid
    /\ m.rv = cred[dev[a]].rv
    /\ m.owner2 = info[a].owner

ReplacementOVH(a, m) ==
    [guid |-> m.guid, rv |-> m.rv, mfg |-> m.owner2, dev |-> info[a].hdr.dev]

recvSetupDevice(a) ==
    /\ pc[a] = "prove"
    /\ net[a].t = "SetupDevice"
    /\ \/ /\ IsReuse(a, net[a]) /\ AllowCredentialReuse
          /\ Send(a, "ready", [t |-> "DeviceReady", hmac |-> Nil])
          /\ UNCHANGED <<cred, failedAt, dev, info, got, repl, rounds, errNet>>
       \/ /\ IsReuse(a, net[a]) /\ ~AllowCredentialReuse
          /\ net' = [net EXCEPT ![a] = Quiet]
          /\ Fail(a, TRUE)
       \/ /\ ~IsReuse(a, net[a])
          /\ LET ovh == ReplacementOVH(a, net[a])
             IN  /\ repl' = [repl EXCEPT ![a] = ovh]
                 /\ Send(a, "ready", [t |-> "DeviceReady", hmac |-> HmacOf(dev[a], ovh)])
          /\ UNCHANGED <<cred, failedAt, dev, info, got, rounds, errNet>>
    /\ UNCHANGED <<sessionVars, job, ownerVars>>

\* What the modules have to send may need one message or more.
sendDeviceServiceInfo(a) ==
    \E more \in BOOLEAN : Send(a, IF more THEN "more" ELSE "info", [t |-> "DeviceInfo", more |-> more])

\* The first DeviceServiceInfo carries devmod.
recvOwnerReady(a) ==
    /\ pc[a] = "ready"
    /\ net[a].t = "OwnerReady"
    /\ sendDeviceServiceInfo(a)
    /\ UNCHANGED <<cred, failedAt, dev, info, got, repl, rounds, errNet, sessionVars, job, ownerVars>>

\* The answer to a message ends the round unless one of the two sides said that it
\* has more to send.
RoundEnds(a) == pc[a] = "info" /\ net[a].t = "OwnerInfo" /\ ~net[a].more


recvOwnerInfo(a) ==
    /\ pc[a] \in {"info", "more"}
    /\ net[a].t = "OwnerInfo"
    /\ \/ /\ RoundEnds(a) => rounds[a] + 1 < MaxRounds
          /\ rounds' = [rounds EXCEPT ![a] = IF @ < MaxRounds THEN @ + 1 ELSE @]
          /\ \/ RoundEnds(a) /\ net[a].done /\ Send(a, "done", [t |-> "Done"])
             \/ ~(RoundEnds(a) /\ net[a].done) /\ sendDeviceServiceInfo(a)
          /\ UNCHANGED <<cred, failedAt, dev, info, got, repl, errNet>>
       \/ /\ RoundEnds(a) /\ rounds[a] + 1 >= MaxRounds
          /\ net' = [net EXCEPT ![a] = Quiet]
          /\ Fail(a, TRUE)
    /\ UNCHANGED <<sessionVars, job, ownerVars>>

\* TO2 returns the replacement credential, or nil when credentials were reused.
recvDone2_OldKey(a) ==                   \* mutant: the public key hash is not replaced
    /\ pc[a] = "done"
    /\ net[a].t = "Done2"
    /\ Send(a, "ok", Quiet)
    /\ cred' = IF repl[a] = Nil THEN cred
               ELSE [cred EXCEPT ![dev[a]] = [guid |-> repl[a].guid, rv |-> repl[a].rv, mfg |-> @.mfg]]
    /\ Return(a)
    /\ UNCHANGED <<failedAt, dev, errNet, sessionVars, job, ownerVars>>

recvDone2(a) ==
    /\ pc[a] = "done"
    /\ net[a].t = "Done2"
    /\ Send(a, "ok", Quiet)
    /\ cred' = IF repl[a] = Nil THEN cred
               ELSE [cred EXCEPT ![dev[a]] = [guid |-> repl[a].guid, rv |-> repl[a].rv, mfg |-> repl[a].mfg]]
    /\ Return(a)
    /\ UNCHANGED <<failedAt, dev, errNet, sessionVars, job, ownerVars>>

\* A response the device cannot use: an error message.
recvError(a) ==
    /\ pc[a] \in Waiting
    /\ net[a].t = "Error"
    /\ net' = [net EXCEPT ![a] = Quiet]
    /\ Fail(a, pc[a] # "hello")
    /\ UNCHANGED <<sessionVars, job, ownerVars>>

\* The device's context expires or its HTTP request fails.  A request already
\* in flight stays there, a response is gone with the connection.
Timeout(a) ==
    /\ pc[a] \in Waiting
    /\ Fail(a, pc[a] # "hello")
    /\ net' = IF net[a].t \in Requests THEN net ELSE [net EXCEPT ![a] = Quiet]
    /\ UNCHANGED <<sessionVars, job, ownerVars>>

------------------------------------------------------------------------------
(* Owner service: the HTTP handler and TO2Server.Respond.                    *)

\* No response reaches a device that has hung up.
Reply(a, m) == net' = [net EXCEPT ![a] = IF Over(a) THEN Quiet ELSE m]

NoJob == [st |-> "none", ov |-> Nil]

\* The HTTP handler itself takes a session's token, in a context of its own, and
\* answers with an error: the responder and its modules learn nothing of it.
CutOff(a) ==
    /\ Reply(a, ErrorMessage)
    /\ sess' = [sess EXCEPT ![a] = IF @ = "dead" THEN @ ELSE "cut"]

\* A responder answers and leaves its session in state s; the handler cuts the
\* session off when it cannot encrypt, encode or write the answer.
Respond(a, m, s) ==
    \/ Reply(a, m) /\ sess' = [sess EXCEPT ![a] = s]
    \/ CutOff(a)

\* A request the handler refuses before a responder sees it: its length is not
\* accepted, or it cannot be decrypted (the context of a device that hung up is
\* cancelled).
RefuseRequest(a) ==
    /\ net[a].t \in Requests
    /\ job[a] = NoJob
    /\ CutOff(a)
    /\ UNCHANGED <<clientVars, errNet, row, running, job, ownerVars>>

\* A responder fails: the response is an error message and the token is
\* invalidated, with the request's context, which a device that hung up has
\* cancelled.
RespondError(a) ==
    /\ Reply(a, ErrorMessage)
    /\ \/ sess' = [sess EXCEPT ![a] = IF @ = "cut" THEN @ ELSE "dead"]
       \/ /\ Over(a)
          /\ sess' = [sess EXCEPT ![a] = IF @ \in {"dead", "cut"} THEN @ ELSE "live"]

\* The voucher Session.GUID names, as every handler after HelloDevice fetches it.
SessionVoucher(a) == IF row[a].guid = Nil THEN Nil ELSE vouchers[row[a].guid]

HasEntries(ov) == ov # Nil /\ ov.entries # <<>>

\* NewToken, then SetGUID, voucher lookup, owner key check, nonce, key exchange.
proveOVHdr(a) ==
    /\ net[a].t = "HelloDevice"
    /\ LET g  == net[a].guid
           ov == vouchers[g]
       IN  \/ /\ HasEntries(ov) /\ OwnerPublicKey(ov) = ownerKey
              /\ row' = [row EXCEPT ![a] = [EmptyRow EXCEPT !.guid = g, !.proveDv = TRUE, !.xsession = "begun"]]
              /\ Respond(a, [t |-> "ProveOVHdr", hdr |-> ov.hdr, hmac |-> ov.hmac,
                             owner |-> ownerKey, n |-> Len(ov.entries)], "live")
           \/ /\ ~(HasEntries(ov) /\ OwnerPublicKey(ov) = ownerKey)
              /\ row' = [row EXCEPT ![a] = EmptyRow]
              /\ RespondError(a)
    /\ UNCHANGED <<clientVars, errNet, running, job, ownerVars>>

ovNextEntry(a) ==
    /\ net[a].t = "GetOVNextEntry"
    /\ LET ov == SessionVoucher(a)
           ok == sess[a] = "live" /\ HasEntries(ov) /\ net[a].i < Len(ov.entries)
       IN  \/ ok /\ Respond(a, [t |-> "OVNextEntry", key |-> ov.entries[net[a].i + 1]], "live")
           \/ ~ok /\ RespondError(a)
    /\ UNCHANGED <<clientVars, errNet, row, running, job, ownerVars>>

\* replacementCredential: the current credential when the owner reuses it,
\* otherwise a random GUID and new directives, both stored in the session.
replacementCredential(a, ov, g, rv) ==
    \/ /\ g = ov.hdr.guid /\ rv = ov.hdr.rv
       /\ row' = [row EXCEPT ![a] = [@ EXCEPT !.setupDv = TRUE, !.xsession = "complete"]]
       /\ UNCHANGED used
    \/ /\ g \in Guids \ used
       /\ row' = [row EXCEPT ![a] = [@ EXCEPT !.setupDv = TRUE, !.xsession = "complete",
                                             !.replGuid = g, !.rv = rv]]
       /\ used' = used \cup {g}

\* The proof is checked against the device key of the voucher.  The SetupDevice
\* nonce is stored before the checks, but a failed check invalidates the token.
setupDevice(a) ==
    /\ net[a].t = "ProveDevice"
    /\ LET ov == SessionVoucher(a)
           ok == /\ sess[a] = "live" /\ HasEntries(ov)
                 /\ ov.hdr.dev = dev[a]
                 /\ row[a].proveDv /\ row[a].xsession = "begun"
       IN  \/ /\ ok
              /\ \E g \in Guids, rv \in Rvs :
                    /\ replacementCredential(a, ov, g, rv)
                    /\ Respond(a, [t |-> "SetupDevice", guid |-> g, rv |-> rv, owner2 |-> ownerKey], "live")
           \/ /\ ~ok
              /\ RespondError(a)
              /\ row' = IF sess[a] = "live" THEN [row EXCEPT ![a] = [@ EXCEPT !.setupDv = TRUE]] ELSE row
              /\ UNCHANGED used
    /\ UNCHANGED <<clientVars, errNet, running, job, vouchers, transit, ownerKey, rotations>>

\* Encrypted messages need a completed key exchange of a live session.
Decrypts(a) == sess[a] = "live" /\ row[a].xsession = "complete"

\* The HMAC is stored before the owner's limit on messages is asked for, which
\* needs the voucher and may fail.
ownerServiceInfoReady(a) ==
    /\ net[a].t = "DeviceReady"
    /\ \/ /\ Decrypts(a)
          /\ row' = IF net[a].hmac = Nil THEN row ELSE [row EXCEPT ![a] = [@ EXCEPT !.hmac = net[a].hmac]]
          /\ Respond(a, [t |-> "OwnerReady"], "live") \/ RespondError(a)
       \/ /\ ~Decrypts(a)
          /\ RespondError(a)
          /\ UNCHANGED row
    /\ UNCHANGED <<clientVars, errNet, running, job, ownerVars>>

\* The current module answers.  devmod, while incomplete, is the module; then
\* the module state machine supplies one.  A device with more to send gets an
\* empty answer.  The module may fail, may block the device, may complete; when
\* it completes NextModule starts the next one or ends service info.
ServiceInfoFails_NoCleanup(a) ==         \* mutant: CleanupModules is not called
    /\ RespondError(a)
    /\ UNCHANGED <<row, running>>

ServiceInfoFails(a) ==
    /\ RespondError(a)
    /\ running' = [running EXCEPT ![a] = FALSE]
    /\ UNCHANGED row

\* SetDevmod stores devmod as incomplete as long as it is the current module.
DevmodState(a) == IF row[a].devmod = "complete" THEN "complete" ELSE "partial"

produceOwnerServiceInfo(a) ==
    \/ \E block \in BOOLEAN :
          /\ row' = [row EXCEPT ![a] = [@ EXCEPT !.devmod = DevmodState(a)]]
          /\ Respond(a, [t |-> "OwnerInfo", more |-> block /\ row[a].devmod = "complete", done |-> FALSE], "live")
          /\ UNCHANGED running
    \/ /\ row[a].modules < MaxModules
       /\ row' = [row EXCEPT ![a] = [@ EXCEPT !.devmod = "complete", !.modules = row[a].modules + 1]]
       /\ running' = [running EXCEPT ![a] = TRUE]
       /\ Respond(a, [t |-> "OwnerInfo", more |-> FALSE, done |-> FALSE], "live")
    \/ /\ row' = [row EXCEPT ![a] = [@ EXCEPT !.devmod = "complete"]]
       /\ Respond(a, [t |-> "OwnerInfo", more |-> FALSE, done |-> TRUE], "live")
       /\ UNCHANGED running

ownerServiceInfo(a) ==
    /\ net[a].t = "DeviceInfo"
    /\ \/ /\ Decrypts(a)
          /\ row[a].devmod = "complete" => SessionVoucher(a) # Nil
          /\ \/ /\ net[a].more
                /\ row' = [row EXCEPT ![a] = [@ EXCEPT !.devmod = DevmodState(a)]]
                /\ Respond(a, [t |-> "OwnerInfo", more |-> FALSE, done |-> FALSE], "live")
                /\ UNCHANGED running
             \/ ~net[a].more /\ produceOwnerServiceInfo(a)
       \/ /\ Decrypts(a)
          /\ ServiceInfoFails(a)
       \/ /\ ~Decrypts(a)
          /\ RespondError(a)
          /\ UNCHANGED <<row, running>>
    /\ UNCHANGED <<clientVars, errNet, job, ownerVars>>

\* The voucher to2Done2 builds from the current one and the session.
ReplacementVoucher_OldMfg(a) ==          \* mutant: the manufacturer key is carried over
    LET cur == SessionVoucher(a)
    IN  [hdr |-> [guid |-> row[a].replGuid, rv |-> row[a].rv, mfg |-> cur.hdr.mfg, dev |-> cur.hdr.dev],
         hmac |-> row[a].hmac, entries |-> <<>>]

ReplacementVoucher(a) ==
    LET cur == SessionVoucher(a)
    IN  [hdr |-> [guid |-> row[a].replGuid, rv |-> row[a].rv, mfg |-> ownerKey, dev |-> cur.hdr.dev],
         hmac |-> row[a].hmac, entries |-> <<>>]

\* Respond cleans up modules, then to2Done2 validates the nonce and either
\* completes at once (no replacement HMAC) or goes on to ReplaceVoucher.
to2Done2_NoReuse(a) ==                   \* mutant: a missing HMAC is not taken for reuse
    /\ net[a].t = "Done" /\ job[a] = NoJob
    /\ Decrypts(a) /\ row[a].proveDv /\ row[a].setupDv /\ HasEntries(SessionVoucher(a))
    /\ running' = [running EXCEPT ![a] = FALSE]
    /\ job' = [job EXCEPT ![a] = [st |-> "add", ov |-> ReplacementVoucher(a)]]
    /\ UNCHANGED <<clientVars, errNet, row, net, sess, ownerVars>>

to2Done2(a) ==
    /\ net[a].t = "Done"
    /\ job[a] = NoJob
    /\ \/ /\ Decrypts(a) /\ row[a].proveDv /\ row[a].setupDv
          /\ running' = [running EXCEPT ![a] = FALSE]
          /\ \/ /\ row[a].hmac = Nil
                /\ Respond(a, [t |-> "Done2"], "dead")
                /\ UNCHANGED job
             \/ /\ row[a].hmac # Nil
                /\ HasEntries(SessionVoucher(a)) /\ row[a].rv # Nil /\ row[a].replGuid # Nil
                /\ job' = [job EXCEPT ![a] = [st |-> "add", ov |-> ReplacementVoucher(a)]]
                /\ UNCHANGED <<net, sess>>
             \/ /\ row[a].hmac # Nil
                /\ ~(HasEntries(SessionVoucher(a)) /\ row[a].rv # Nil /\ row[a].replGuid # Nil)
                /\ RespondError(a)
                /\ UNCHANGED job
       \/ /\ ~(Decrypts(a) /\ row[a].proveDv /\ row[a].setupDv)
          /\ RespondError(a)
          /\ running' = IF Decrypts(a) THEN [running EXCEPT ![a] = FALSE] ELSE running
          /\ UNCHANGED job
    /\ UNCHANGED <<clientVars, errNet, row, ownerVars>>

\* ReplaceVoucher, not a transaction: insert the new voucher,
ReplaceAdd_RemoveFirst(a) ==             \* mutant: delete the old voucher, then insert the new one
    /\ job[a].st = "add"
    /\ IF vouchers[row[a].guid] # Nil
       THEN /\ vouchers' = [vouchers EXCEPT ![row[a].guid] = Nil]
            /\ UNCHANGED <<job, net, sess>>
       ELSE /\ vouchers' = [vouchers EXCEPT ![job[a].ov.hdr.guid] = job[a].ov]
            /\ job' = [job EXCEPT ![a] = NoJob]
            /\ Respond(a, [t |-> "Done2"], "dead")
    /\ UNCHANGED <<clientVars, errNet, row, running, transit, ownerKey, used, rotations>>

ReplaceAdd(a) ==
    /\ job[a].st = "add"
    /\ LET g == job[a].ov.hdr.guid
       IN  \/ /\ vouchers[g] = Nil
              /\ vouchers' = [vouchers EXCEPT ![g] = job[a].ov]
              /\ job' = [job EXCEPT ![a] = [@ EXCEPT !.st = "remove"]]
              /\ UNCHANGED <<net, sess>>
           \/ /\ job' = [job EXCEPT ![a] = NoJob]     \* refused, or the database fails
              /\ RespondError(a)
              /\ UNCHANGED vouchers
    /\ UNCHANGED <<clientVars, errNet, row, running, transit, ownerKey, used, rotations>>

\* remove the old one, which fails when it is gone (or the request is cancelled),
ReplaceRemove(a) ==
    /\ job[a].st = "remove"
    /\ \/ /\ vouchers[row[a].guid] # Nil
          /\ vouchers' = [vouchers EXCEPT ![row[a].guid] = Nil]
          /\ job' = [job EXCEPT ![a] = NoJob]
          /\ Respond(a, [t |-> "Done2"], "dead")
       \/ /\ job' = [job EXCEPT ![a] = [@ EXCEPT !.st = "undo"]]
          /\ UNCHANGED <<vouchers, net, sess>>
    /\ UNCHANGED <<clientVars, errNet, row, running, transit, ownerKey, used, rotations>>

\* and then take the new one out again, which may fail too.
ReplaceUndo(a) ==
    /\ job[a].st = "undo"
    /\ \/ vouchers' = [vouchers EXCEPT ![job[a].ov.hdr.guid] = Nil]
       \/ UNCHANGED vouchers
    /\ job' = [job EXCEPT ![a] = NoJob]
    /\ RespondError(a)
    /\ UNCHANGED <<clientVars, errNet, row, running, transit, ownerKey, used, rotations>>

\* A request that may change the owner's modules is still being answered.
ModulesBusy(a) == net[a].t = "DeviceInfo" /\ Decrypts(a)

\* Handler.handleError: HandleError cleans up modules, then the token goes.  A
\* ServiceInfo message of a call its device gave up may be handled meanwhile, and
\* start a module after the others were cleaned up.
HandleError(a) ==
    /\ errNet[a]
    /\ errNet' = [errNet EXCEPT ![a] = FALSE]
    /\ \/ /\ running' = [running EXCEPT ![a] = FALSE]
          /\ sess' = [sess EXCEPT ![a] = IF @ = "live" THEN "dead" ELSE @]
       \/ /\ ModulesBusy(a)
          /\ running' = [running EXCEPT ![a] = TRUE]
          /\ sess' = [sess EXCEPT ![a] = "cut"]
    /\ UNCHANGED <<clientVars, net, row, job, ownerVars>>

------------------------------------------------------------------------------
(* Faults, and the owner's own operations.                                   *)

\* A request or a response is lost.
Lose(a) ==
    /\ net[a].t # "none"
    /\ job[a] = NoJob
    /\ net' = [net EXCEPT ![a] = Quiet]
    /\ UNCHANGED <<clientVars, errNet, sessionVars, job, ownerVars>>

\* The handler stops inside ReplaceVoucher, with the service or by a panic; what
\* the database holds stays.
Crash(a) ==
    /\ job[a] # NoJob
    /\ job' = [job EXCEPT ![a] = NoJob]
    /\ net' = [net EXCEPT ![a] = Quiet]
    /\ UNCHANGED <<clientVars, errNet, sessionVars, ownerVars>>

\* TO2Server.Resell: RemoveVoucher, then ExtendVoucher, which needs the key of
\* the last entry; on failure the unextended voucher is returned.
Resell_Drop(g, next) ==                  \* mutant: the voucher is not returned on failure
    /\ vouchers[g] # Nil
    /\ vouchers' = [vouchers EXCEPT ![g] = Nil]
    /\ LET ov == vouchers[g]
       IN  \/ /\ OwnerPublicKey(ov) = ownerKey /\ Len(ov.entries) < MaxEntries
              /\ transit' = transit \cup {[ov EXCEPT !.entries = Append(ov.entries, next)]}
           \/ /\ OwnerPublicKey(ov) # ownerKey
              /\ UNCHANGED transit
    /\ UNCHANGED <<clientVars, net, errNet, sessionVars, job, ownerKey, used, rotations>>

Resell(g, next) ==
    /\ vouchers[g] # Nil
    /\ vouchers' = [vouchers EXCEPT ![g] = Nil]
    /\ LET ov == vouchers[g]
       IN  \/ /\ OwnerPublicKey(ov) = ownerKey /\ Len(ov.entries) < MaxEntries
              /\ transit' = transit \cup {[ov EXCEPT !.entries = Append(ov.entries, next)]}
           \/ /\ OwnerPublicKey(ov) # ownerKey
              /\ transit' = transit \cup {ov}
    /\ UNCHANGED <<clientVars, net, errNet, sessionVars, job, ownerKey, used, rotations>>

\* AddVoucher: an insert, refused when the GUID is present.
AddVoucher(ov) ==
    /\ ov \in transit
    /\ vouchers[ov.hdr.guid] = Nil
    /\ vouchers' = [vouchers EXCEPT ![ov.hdr.guid] = ov]
    /\ transit' = transit \ {ov}
    /\ UNCHANGED <<clientVars, net, errNet, sessionVars, job, ownerKey, used, rotations>>

\* The key the OwnerKeyPersistentState returns changes.  DB.AddOwnerKey ignores a
\* second key of a type; the keys are replaced behind the interface, as the owner
\* key check of proveOVHdr expects.
ReplaceOwnerKey(k) ==
    /\ rotations < MaxRotations
    /\ k # ownerKey
    /\ ownerKey' = k
    /\ rotations' = rotations + 1
    /\ UNCHANGED <<clientVars, net, errNet, sessionVars, job, vouchers, transit, used>>

------------------------------------------------------------------------------
\* The owner starts with one voucher per device, sold to it by the manufacturer.
InitHeader(d, rv) == [guid |-> InitGuid[d], rv |-> rv, mfg |-> InitMfg, dev |-> d]

Init ==
    /\ ownerKey \in Keys
    /\ \E rv \in Rvs :
          /\ cred = [d \in Devices |-> [guid |-> InitGuid[d], rv |-> rv, mfg |-> InitMfg]]
          /\ vouchers = [g \in Guids |->
                            IF \E d \in Devices : InitGuid[d] = g
                            THEN LET d == CHOOSE d \in Devices : InitGuid[d] = g
                                 IN  [hdr |-> InitHeader(d, rv), hmac |-> HmacOf(d, InitHeader(d, rv)),
                                      entries |-> <<ownerKey>>]
                            ELSE Nil]
    /\ used = {InitGuid[d] : d \in Devices}
    /\ pc = [a \in Attempts |-> "idle"]
    /\ failedAt = [a \in Attempts |-> "idle"]
    /\ dev = [a \in Attempts |-> Nil]
    /\ info = [a \in Attempts |-> Nil]
    /\ got = [a \in Attempts |-> <<>>]
    /\ repl = [a \in Attempts |-> Nil]
    /\ rounds = [a \in Attempts |-> 0]
    /\ net = [a \in Attempts |-> Quiet]
    /\ errNet = [a \in Attempts |-> FALSE]
    /\ sess = [a \in Attempts |-> "none"]
    /\ row = [a \in Attempts |-> EmptyRow]
    /\ running = [a \in Attempts |-> FALSE]
    /\ job = [a \in Attempts |-> NoJob]
    /\ transit = {}
    /\ rotations = 0

DeviceStep(a) ==
    \/ recvProveOVHdr(a) \/ recvOVNextEntry(a) \/ recvSetupDevice(a)
    \/ recvOwnerReady(a) \/ recvOwnerInfo(a) \/ recvDone2(a) \/ recvError(a)

ServerStep(a) ==
    \/ proveOVHdr(a) \/ ovNextEntry(a) \/ setupDevice(a)
    \/ ownerServiceInfoReady(a) \/ ownerServiceInfo(a) \/ to2Done2(a)
    \/ ReplaceAdd(a) \/ ReplaceRemove(a) \/ ReplaceUndo(a) \/ RefuseRequest(a)

OwnerStep ==
    \/ \E g \in Guids, k \in Keys : Resell(g, k)
    \/ \E ov \in transit : AddVoucher(ov)
    \/ \E k \in Keys : ReplaceOwnerKey(k)

Next ==
    \/ \E a \in Attempts :
          \/ \E d \in Devices : sendHelloDevice(a, d)
          \/ DeviceStep(a) \/ Timeout(a)
          \/ ServerStep(a) \/ HandleError(a)
          \/ Lose(a) \/ Crash(a)
    \/ OwnerStep

Spec == Init /\ [][Next]_vars

\* Handlers answer what reaches them, the device acts on what reaches it and gives
\* up when nothing will.
FairSpec ==
    /\ Spec
    /\ \A a \in Attempts :
          /\ WF_vars(DeviceStep(a)) /\ WF_vars(ServerStep(a))
          /\ WF_vars(net[a] = Quiet /\ Timeout(a))

------------------------------------------------------------------------------
(* Properties.                                                               *)

OptVoucher == Voucher \cup {Nil}

Info == [hdr : VoucherHeader, hmac : Hmac, owner : Keys, n : Nat]

\* Every variable has its type, a message in flight one of M.
Types(M) ==
    /\ cred \in [Devices -> DeviceCredential]
    /\ pc \in [Attempts -> Waiting \cup {"idle", "ok", "failed"}]
    /\ failedAt \in [Attempts -> Waiting \cup {"idle"}]
    /\ dev \in [Attempts -> Devices \cup {Nil}]
    /\ info \in [Attempts -> Info \cup {Nil}]
    /\ got \in [Attempts -> Seq(Keys)]
    /\ repl \in [Attempts -> VoucherHeader \cup {Nil}]
    /\ rounds \in [Attempts -> Nat]
    /\ net \in [Attempts -> M]
    /\ errNet \in [Attempts -> BOOLEAN]
    /\ sess \in [Attempts -> {"none", "live", "dead", "cut"}]
    /\ row \in [Attempts -> SessionRow]
    /\ running \in [Attempts -> BOOLEAN]
    /\ job \in [Attempts -> {NoJob} \cup [st : {"add", "remove", "undo"}, ov : Voucher]]
    /\ vouchers \in [Guids -> OptVoucher]
    /\ transit \subseteq Voucher
    /\ ownerKey \in Keys
    /\ used \subseteq Guids
    /\ rotations \in Nat

\* Every variable has its type.
TypeOK == Types(Message)

Stored == {vouchers[g] : g \in Guids} \ {Nil}
HeldVouchers == Stored \cup transit
Held(g) == \E ov \in HeldVouchers : ov.hdr.guid = g

Authentic(ov) == ov.hmac = HmacOf(ov.hdr.dev, ov.hdr)

\* As long as the owner key was not replaced, every voucher the owner stores,
\* resells or is about to store carries an HMAC its device computed over exactly
\* the header stored with it: to2Done2 rebuilds the header from the session, the
\* device from SetupDevice.
VoucherAuthentic ==
    rotations = 0 =>
        /\ \A ov \in HeldVouchers : Authentic(ov)
        /\ \A a \in Attempts : job[a].ov # Nil => Authentic(job[a].ov)

\* The header checks of VerifyCrypto hold for every voucher held under the GUID
\* of a device's credential: the device can run TO2 again.
Accepts(d) ==
    \A ov \in HeldVouchers : ov.hdr.guid = cred[d].guid =>
        /\ ov.hmac = HmacOf(d, ov.hdr)
        /\ ov.hdr.mfg = cred[d].mfg
        /\ ov.hdr.rv = cred[d].rv

\* A device accepts the voucher its owner holds for it, as long as the owner key
\* was not replaced: setupDevice names the key at message 65, to2Done2 reads it again at
\* message 70.
DeviceAcceptsItsVoucher == rotations = 0 => \A d \in Devices : Accepts(d)

\* The owner holds no voucher under a device's current GUID only if a TO2.Done
\* of a session for that very GUID was processed and its Done2 did not reach
\* the device (yet).
StrandedOnlyByLostDone ==
    \A d \in Devices :
        \/ Held(cred[d].guid)
        \/ \E a \in Attempts :
              /\ dev[a] = d /\ row[a].guid = cred[d].guid
              /\ pc[a] = "done" \/ failedAt[a] = "done"

\* Whatever ends a session for its responder (an error, an error report or the last
\* message) stops its owner modules first: a module that runs on without a valid
\* token is one of a session the HTTP handler cut off by itself, or a message
\* started it beside an error report.
ModulesStopped == \A a \in Attempts : running[a] => sess[a] \in {"live", "cut"}

\* All of TO2, its messages, sessions, handlers, the statements of ReplaceVoucher
\* and the owner's own operations, is an implementation of Ownership: the store
\* inserts and deletes vouchers, and the device replaces its credential, only as
\* that contract allows.
Own == INSTANCE Ownership
           WITH goesBy <- [d \in Devices |-> cred[d].guid],
                held <- {[guid |-> ov.hdr.guid, dev |-> ov.hdr.dev] : ov \in HeldVouchers}

ImplementsOwnership == Own!Spec

\* The round of service info call a is in never ends, while the owner keeps
\* answering.
RoundForever(a) ==
    /\ <>[](pc[a] \in {"info", "more"} /\ ~RoundEnds(a))
    /\ []<>(net[a].t = "OwnerInfo")


------------------------------------------------------------------------------
(* The parts of the inductive invariant of the proofs, for 1.01 and for 2.0   *)
(* (TO2v200): a message's type tells which of the two a call uses.           *)

\* The device has read ProveOVHdr: in 1.01 before it proves itself, in 2.0 after.
KnowsVoucher(a) ==
    \/ pc[a] \in {"entry", "ready", "more", "info", "done"}
    \/ pc[a] = "prove" /\ net[a].t \in {"ProveDevice", "SetupDevice"}

\* What TO2's local variables hold while it runs.
LocalsOK ==
    \A a \in Attempts :
        /\ pc[a] \in Waiting => dev[a] \in Devices
        /\ KnowsVoucher(a) => info[a] \in Info

\* GUID g was given to device d: at manufacture, or by a session as replacement.
Belongs(g, d) ==
    \/ d \in Devices /\ InitGuid[d] = g
    \/ \E a \in Attempts : row[a].replGuid = g /\ dev[a] = d

\* GUIDs are drawn once.
GuidsOK ==
    /\ \A d \in Devices : InitGuid[d] \in used
    /\ \A a \in Attempts : row[a].replGuid # Nil =>
          /\ row[a].replGuid \in used
          /\ \A d \in Devices : InitGuid[d] # row[a].replGuid
          /\ \A b \in Attempts : row[b].replGuid = row[a].replGuid => b = a

\* Vouchers are stored under their GUID and name the device it was given to.
VouchersOK ==
    /\ \A g \in Guids : vouchers[g] # Nil => vouchers[g].hdr.guid = g /\ Belongs(g, vouchers[g].hdr.dev)
    /\ \A ov \in transit : Belongs(ov.hdr.guid, ov.hdr.dev)
    /\ \A a \in Attempts : job[a] # NoJob =>
          job[a].ov.hdr.guid = row[a].replGuid /\ job[a].ov.hdr.dev = dev[a]

\* The messages of 2.0 before the owner answers DeviceSvcInfoRdy20.
BeforeSetup20 == {"HelloDeviceAck20", "ProveDevice20", "ProveOVHdr20",
                  "GetOVNextEntry20", "OVNextEntry20", "DeviceSvcInfoRdy20"}

\* A session is empty until the first message is processed; it has a replacement
\* GUID and HMAC only after the device has proved itself against its voucher, and
\* in 2.0 after it has seen all of it.
SessionOK(a) ==
    /\ Idle(a) => net[a] = Quiet
    /\ Idle(a) \/ net[a].t \in {"HelloDevice", "HelloDeviceProbe"} => row[a] = EmptyRow /\ job[a] = NoJob
    /\ net[a].t \in BeforeSetup20 => row[a].replGuid = Nil /\ row[a].hmac = Nil
    /\ row[a].xsession # "complete" => row[a].replGuid = Nil /\ row[a].hmac = Nil
    /\ row[a].xsession = "complete" => row[a].guid # Nil /\ Belongs(row[a].guid, dev[a])

SessionsOK == \A a \in Attempts : SessionOK(a)

\* TO2 puts the replacement header together once, after the owner was asked for
\* its half.
ReplsOK ==
    \A a \in Attempts :
        pc[a] \notin {"ready", "more", "info", "done"} \/ net[a].t \in {"ProveDevice", "DeviceSvcInfoRdy20"}
            => repl[a] = Nil

\* The header both sides must arrive at for session a.
AgreedHeader(a) == [guid |-> row[a].replGuid, rv |-> row[a].rv, mfg |-> ownerKey, dev |-> dev[a]]

\* What the device knows of the voucher is authentic, and names the owner's key
\* and, once it was verified, the device.
VoucherSeen(a) ==
    /\ net[a].t \in {"ProveOVHdr", "ProveOVHdr20"} =>
          net[a].hmac = HmacOf(net[a].hdr.dev, net[a].hdr) /\ net[a].owner = ownerKey
    /\ KnowsVoucher(a) => info[a].hmac = HmacOf(info[a].hdr.dev, info[a].hdr) /\ info[a].owner = ownerKey
    /\ KnowsVoucher(a) /\ pc[a] # "entry" => info[a].hmac = HmacOf(dev[a], info[a].hdr)

\* The halves of the replacement header and the HMACs on their way between
\* device and owner agree.
HmacOK(a) ==
    /\ VoucherSeen(a)
    /\ row[a].replGuid # Nil =>
          /\ net[a].t = "SetupDevice" =>
                net[a].guid = row[a].replGuid /\ net[a].rv = row[a].rv /\ net[a].owner2 = ownerKey
          /\ net[a].t = "SetupDevice20" /\ net[a].guid # Nil =>
                net[a].guid = row[a].replGuid /\ net[a].rv = row[a].rv
          /\ repl[a] \in {Nil, AgreedHeader(a)}
          /\ net[a].t \in {"DeviceReady", "Done20"} => net[a].hmac \in {Nil, HmacOf(dev[a], AgreedHeader(a))}
          /\ row[a].hmac \in {Nil, HmacOf(dev[a], AgreedHeader(a))}

HmacsOK == rotations = 0 => \A a \in Attempts : HmacOK(a)

Agreed == LocalsOK /\ GuidsOK /\ VouchersOK /\ SessionsOK /\ ReplsOK /\ HmacsOK /\ VoucherAuthentic
=============================================================================
