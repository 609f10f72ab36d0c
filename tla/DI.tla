-------------------------------- MODULE DI --------------------------------
(***************************************************************************)
(* Device initialization: the device's DI function, the handlers of        *)
(* DIServer, the session tables they use, and the callbacks AllInOne       *)
(* offers for a service that is manufacturer, owner and rendezvous at      *)
(* once: Extend before a new voucher is persisted, RegisterOwnerAddr       *)
(* after.                                                                  *)
(*                                                                         *)
(* A call is one DI; it opens at most one session and has at most one      *)
(* message in flight.  A call that fails tells the server nothing: the     *)
(* HTTP transport does not send the report.                                *)
(***************************************************************************)
EXTENDS Naturals, Sequences

CONSTANTS
    Calls,       \* calls of DI, and the server sessions they open
    Devices,     \* devices, each with its own key and HMAC secret
    Guids,       \* GUIDs drawn at random
    Rvs,         \* rendezvous directives the RvInfo callback returns
    MfgKey,      \* the key the DeviceInfo callback returns
    OwnerKey,    \* the owner key of the service
    AutoExtend,  \* whether AllInOne.Extend is the BeforeVoucherPersist callback
    AutoTO0,     \* whether AllInOne.RegisterOwnerAddr is the AfterVoucherPersist callback
    Nil          \* absent value

ASSUME DIAssumption ==
    /\ AutoExtend \in BOOLEAN /\ AutoTO0 \in BOOLEAN
    /\ Nil \notin Devices \cup Guids \cup Rvs \cup {MfgKey, OwnerKey}

VARIABLES
    cred,      \* device: the credential it keeps, or Nil
    pc,        \* call: the request DI waits on, or how it ended
    dev,       \* call: the device running it
    ovh,       \* call: the voucher header the device received
    net,       \* call: the message in flight
    sess,      \* session: "none", "live" or "dead" (row of the sessions table)
    chain,     \* session: device certificate chain (device_info), named by its device
    header,    \* session: header of incomplete_vouchers
    job,       \* session: diDone between persisting the voucher and its answer
    vouchers,  \* GUID: the persisted voucher or Nil
    blobs,     \* GUID: the voucher of the row of rv_blobs, or Nil
    used       \* GUIDs drawn

deviceVars == <<cred, pc, dev, ovh>>
tables == <<vouchers, blobs, used>>
vars == <<deviceVars, net, sess, chain, header, job, tables>>

------------------------------------------------------------------------------
(* Data.                                                                     *)

\* dev stands for DeviceInfo and CertChainHash.
VoucherHeader == [guid : Guids, rv : Rvs, mfg : {MfgKey}, dev : Devices]
Hmac == [secret : Devices, over : VoucherHeader]
Voucher == [hdr : VoucherHeader, hmac : Hmac, certs : Devices, entries : {<<>>, <<OwnerKey>>}]
DeviceCredential == [guid : Guids, rv : Rvs, mfg : {MfgKey}]

ASSUME NilAssumption == Nil \notin VoucherHeader \cup Voucher \cup DeviceCredential

HmacOf(d, hdr) == [secret |-> d, over |-> hdr]

Message ==
         [t : {"none", "Done", "Error"}]
    \cup [t : {"AppStart"}, csr : Devices]
    \cup [t : {"SetCredentials"}, hdr : VoucherHeader]
    \cup [t : {"SetHMAC"}, hmac : Hmac]

Requests == {"AppStart", "SetHMAC"}

Quiet == [t |-> "none"]
ErrorMessage == [t |-> "Error"]

Waiting == {"appStart", "setHmac"}
Over(a) == pc[a] \in {"ok", "failed"}

Put(a, m) == net' = [net EXCEPT ![a] = m]

------------------------------------------------------------------------------
(* Device: DI.                                                               *)

\* A device runs one DI at a time.  It may run it again, after a failure or to
\* be initialized anew.
appStart(a, d) ==
    /\ pc[a] = "idle"
    /\ \A b \in Calls : dev[b] = d => Over(b)
    /\ pc' = [pc EXCEPT ![a] = "appStart"]
    /\ dev' = [dev EXCEPT ![a] = d]
    /\ Put(a, [t |-> "AppStart", csr |-> d])
    /\ UNCHANGED <<cred, ovh, sess, chain, header, job, tables>>

setHmac(a) ==
    /\ pc[a] = "appStart"
    /\ net[a].t = "SetCredentials"
    /\ pc' = [pc EXCEPT ![a] = "setHmac"]
    /\ ovh' = [ovh EXCEPT ![a] = net[a].hdr]
    /\ Put(a, [t |-> "SetHMAC", hmac |-> HmacOf(dev[a], net[a].hdr)])
    /\ UNCHANGED <<cred, dev, sess, chain, header, job, tables>>

\* DI returns the credential and the caller stores it.
recvDone(a) ==
    /\ pc[a] = "setHmac"
    /\ net[a].t = "Done"
    /\ pc' = [pc EXCEPT ![a] = "ok"]
    /\ cred' = [cred EXCEPT ![dev[a]] = [guid |-> ovh[a].guid, rv |-> ovh[a].rv, mfg |-> ovh[a].mfg]]
    /\ Put(a, Quiet)
    /\ UNCHANGED <<dev, ovh, sess, chain, header, job, tables>>

\* DI fails: on an error message, or at any time on a timeout, which leaves a
\* request that was sent in flight.
Fail(a) ==
    /\ pc[a] \in Waiting
    /\ pc' = [pc EXCEPT ![a] = "failed"]
    /\ IF net[a].t \in Requests THEN UNCHANGED net ELSE Put(a, Quiet)
    /\ UNCHANGED <<cred, dev, ovh, sess, chain, header, job, tables>>

------------------------------------------------------------------------------
(* Manufacturer: DIServer behind the HTTP handler.                           *)

\* No response reaches a device that has hung up.
Respond(a, m) == Put(a, IF Over(a) THEN Quiet ELSE m)

\* The session ends: incomplete_vouchers goes with it (ON DELETE CASCADE), the
\* row of device_info is detached from it (ON DELETE SET NULL).
InvalidateToken(a) ==
    /\ sess' = [sess EXCEPT ![a] = "dead"]
    /\ chain' = [chain EXCEPT ![a] = Nil]
    /\ header' = [header EXCEPT ![a] = Nil]

\* An error response invalidates the token, unless the device's hanging up has
\* cancelled the context this needs.
RespondError(a) ==
    /\ Respond(a, ErrorMessage)
    /\ \/ InvalidateToken(a)
       \/ Over(a) /\ UNCHANGED <<sess, chain, header>>

\* NewToken; sign the CSR and store the chain; get the device info; draw a GUID
\* and get the directives; store the header.  Any of it may fail.
setCredentials(a) ==
    /\ net[a].t = "AppStart"
    /\ \/ \E g \in Guids \ used, rv \in Rvs :
             LET hdr == [guid |-> g, rv |-> rv, mfg |-> MfgKey, dev |-> net[a].csr]
             IN  /\ used' = used \cup {g}
                 /\ sess' = [sess EXCEPT ![a] = "live"]
                 /\ chain' = [chain EXCEPT ![a] = net[a].csr]
                 /\ header' = [header EXCEPT ![a] = hdr]
                 /\ Respond(a, [t |-> "SetCredentials", hdr |-> hdr])
       \/ /\ RespondError(a)
          /\ UNCHANGED used
    /\ UNCHANGED <<deviceVars, job, vouchers, blobs>>

\* The voucher diDone makes from the session and the HMAC, as the
\* BeforeVoucherPersist callback leaves it.
NewVoucher(a) ==
    [hdr |-> header[a], hmac |-> net[a].hmac, certs |-> chain[a],
     entries |-> IF AutoExtend THEN <<OwnerKey>> ELSE <<>>]

\* diDone up to AddVoucher.  No session, a failing callback or a failing insert
\* is an error.
diDone_OtherSession(a) ==                \* mutant: the header of any open session is taken
    /\ net[a].t = "SetHMAC"
    /\ job[a] = Nil
    /\ \E b \in Calls :
          /\ header[b] # Nil
          /\ LET ov == [NewVoucher(a) EXCEPT !.hdr = header[b], !.certs = chain[b]]
             IN  /\ vouchers' = [vouchers EXCEPT ![header[b].guid] = ov]
                 /\ job' = [job EXCEPT ![a] = ov]
    /\ UNCHANGED <<deviceVars, net, sess, chain, header, blobs, used>>

diDone_IgnoreError(a) ==                 \* mutant: an error of AddVoucher is ignored
    /\ net[a].t = "SetHMAC"
    /\ job[a] = Nil
    /\ sess[a] = "live" /\ header[a] # Nil /\ chain[a] # Nil
    /\ \/ vouchers' = [vouchers EXCEPT ![header[a].guid] = NewVoucher(a)]
       \/ UNCHANGED vouchers
    /\ job' = [job EXCEPT ![a] = NewVoucher(a)]
    /\ UNCHANGED <<deviceVars, net, sess, chain, header, blobs, used>>

diDone(a) ==
    /\ net[a].t = "SetHMAC"
    /\ job[a] = Nil
    /\ \/ /\ sess[a] = "live" /\ header[a] # Nil /\ chain[a] # Nil
          /\ vouchers[header[a].guid] = Nil
          /\ vouchers' = [vouchers EXCEPT ![header[a].guid] = NewVoucher(a)]
          /\ job' = [job EXCEPT ![a] = NewVoucher(a)]
          /\ UNCHANGED <<net, sess, chain, header>>
       \/ /\ RespondError(a)
          /\ UNCHANGED <<vouchers, job>>
    /\ UNCHANGED <<deviceVars, blobs, used>>

\* diDone from the AfterVoucherPersist callback to its answer.  When the callback
\* fails the voucher stays and the device gets an error.
AfterVoucherPersist_Early(a) ==          \* mutant: the callback's error is ignored
    /\ job[a] # Nil
    /\ job' = [job EXCEPT ![a] = Nil]
    /\ \/ blobs' = [blobs EXCEPT ![job[a].hdr.guid] = job[a]]
       \/ UNCHANGED blobs
    /\ Respond(a, [t |-> "Done"])
    /\ InvalidateToken(a)
    /\ UNCHANGED <<deviceVars, vouchers, used>>

AfterVoucherPersist(a) ==
    /\ job[a] # Nil
    /\ job' = [job EXCEPT ![a] = Nil]
    /\ \/ /\ blobs' = IF AutoTO0 THEN [blobs EXCEPT ![job[a].hdr.guid] = job[a]] ELSE blobs
          /\ Respond(a, [t |-> "Done"])
          /\ InvalidateToken(a)
       \/ /\ AutoTO0
          /\ RespondError(a)
          /\ UNCHANGED blobs
    /\ UNCHANGED <<deviceVars, vouchers, used>>

------------------------------------------------------------------------------
(* Faults.                                                                   *)

Lose(a) ==
    /\ net[a] # Quiet
    /\ job[a] = Nil
    /\ Put(a, Quiet)
    /\ UNCHANGED <<deviceVars, sess, chain, header, job, tables>>

\* The handler stops between AddVoucher and the callback.
Crash(a) ==
    /\ job[a] # Nil
    /\ job' = [job EXCEPT ![a] = Nil]
    /\ Put(a, Quiet)
    /\ UNCHANGED <<deviceVars, sess, chain, header, tables>>

------------------------------------------------------------------------------
Init ==
    /\ cred = [d \in Devices |-> Nil]
    /\ pc = [a \in Calls |-> "idle"]
    /\ dev = [a \in Calls |-> Nil]
    /\ ovh = [a \in Calls |-> Nil]
    /\ net = [a \in Calls |-> Quiet]
    /\ sess = [a \in Calls |-> "none"]
    /\ chain = [a \in Calls |-> Nil]
    /\ header = [a \in Calls |-> Nil]
    /\ job = [a \in Calls |-> Nil]
    /\ vouchers = [g \in Guids |-> Nil]
    /\ blobs = [g \in Guids |-> Nil]
    /\ used = {}

DeviceStep(a) == setHmac(a) \/ recvDone(a) \/ Fail(a)
ServerStep(a) == setCredentials(a) \/ diDone(a) \/ AfterVoucherPersist(a)

Next ==
    \E a \in Calls :
        \/ \E d \in Devices : appStart(a, d)
        \/ DeviceStep(a) \/ ServerStep(a)
        \/ Lose(a) \/ Crash(a)

Spec == Init /\ [][Next]_vars

------------------------------------------------------------------------------
(* Properties.                                                               *)

\* Every variable has its type.
TypeOK ==
    /\ cred \in [Devices -> DeviceCredential \cup {Nil}]
    /\ pc \in [Calls -> Waiting \cup {"idle", "ok", "failed"}]
    /\ dev \in [Calls -> Devices \cup {Nil}]
    /\ ovh \in [Calls -> VoucherHeader \cup {Nil}]
    /\ net \in [Calls -> Message]
    /\ sess \in [Calls -> {"none", "live", "dead"}]
    /\ chain \in [Calls -> Devices \cup {Nil}]
    /\ header \in [Calls -> VoucherHeader \cup {Nil}]
    /\ job \in [Calls -> Voucher \cup {Nil}]
    /\ vouchers \in [Guids -> Voucher \cup {Nil}]
    /\ blobs \in [Guids -> Voucher \cup {Nil}]
    /\ used \subseteq Guids

\* What a device initialized as d with credential c needs of the voucher: the
\* checks of VerifyCrypto on its header, and the device's own certificates.
Matches(ov, d, c) ==
    /\ ov.hdr.guid = c.guid /\ ov.hdr.rv = c.rv /\ ov.hdr.mfg = c.mfg
    /\ ov.hmac = HmacOf(d, ov.hdr)
    /\ ov.hdr.dev = d /\ ov.certs = d

\* A device that has a credential has a voucher: persisted, for its GUID, over
\* the header its HMAC was computed for, with its own certificates, however
\* other devices' sessions, lost answers and failed attempts interleave.
CredentialBacked ==
    \A d \in Devices : cred[d] # Nil =>
        /\ vouchers[cred[d].guid] # Nil
        /\ Matches(vouchers[cred[d].guid], d, cred[d])

\* With AutoTO0, such a device is registered for rendezvous with that voucher.
InitializedIsRegistered ==
    AutoTO0 => \A d \in Devices : cred[d] # Nil =>
        blobs[cred[d].guid] = vouchers[cred[d].guid]

\* A persisted voucher that no device holds the credential of comes from a call
\* that failed, has not been answered, or whose device was initialized again.
OrphansExplained ==
    \A g \in Guids : vouchers[g] # Nil /\ (\A d \in Devices : cred[d] = Nil \/ cred[d].guid # g) =>
        \E a \in Calls :
            /\ dev[a] = vouchers[g].hdr.dev
            /\ ovh[a] = vouchers[g].hdr
            /\ \/ pc[a] \in Waiting \cup {"failed"}
               \/ pc[a] = "ok" /\ \E b \in Calls \ {a} : dev[b] = dev[a] /\ pc[b] = "ok"

------------------------------------------------------------------------------
(* The inductive invariant behind CredentialBacked.                          *)

\* The voucher of a call's header is persisted and is the device's.
Persisted(a) ==
    /\ vouchers[ovh[a].guid] # Nil
    /\ Matches(vouchers[ovh[a].guid], dev[a], ovh[a])

\* What a session, the message in flight and the device know of a call agrees.
CallOK(a) ==
    /\ pc[a] = "idle" => net[a] = Quiet /\ header[a] = Nil /\ job[a] = Nil
    /\ pc[a] # "idle" => dev[a] \in Devices
    /\ net[a].t = "AppStart" => net[a].csr = dev[a]
    /\ header[a] # Nil => header[a].dev = dev[a] /\ chain[a] = dev[a]
    /\ net[a].t = "SetCredentials" => net[a].hdr.dev = dev[a] /\ header[a] \in {Nil, net[a].hdr}
    /\ net[a].t = "SetHMAC" =>
          /\ ovh[a] # Nil /\ ovh[a].dev = dev[a]
          /\ net[a].hmac = HmacOf(dev[a], ovh[a])
          /\ header[a] \in {Nil, ovh[a]}
    /\ job[a] # Nil => net[a].t = "SetHMAC" /\ job[a].hdr = ovh[a] /\ Persisted(a)
    /\ net[a].t = "Done" => ovh[a] # Nil /\ Persisted(a)

CallsOK == \A a \in Calls : CallOK(a)

IndInv == TypeOK /\ CallsOK /\ CredentialBacked
=============================================================================
