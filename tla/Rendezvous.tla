---------------------------- MODULE Rendezvous ----------------------------
(***************************************************************************)
(* The rendezvous service: owners register where a device finds them       *)
(* (TO0Client.RegisterBlob against TO0Server), devices look it up (TO1     *)
(* against TO1Server), and registered blobs expire.  Vouchers change hands *)
(* meanwhile (Resell and AddVoucher at the owner services).                *)
(*                                                                         *)
(* A call is one RegisterBlob or one TO1; it opens at most one session and *)
(* has at most one message in flight.  The nonces are random, so a session *)
(* and the messages answering its nonce are named by the call.  A call     *)
(* that fails tells the server nothing: RegisterBlob does not report       *)
(* errors, and the HTTP transport sends no report of TO1.                  *)
(***************************************************************************)
EXTENDS Naturals, Sequences

CONSTANTS
    Regs,        \* calls of RegisterBlob
    Lookups,     \* calls of TO1
    Owners,      \* owner services; each stands for its address and its key too
    Guids,       \* GUIDs; each stands for the device that has it too
    Nil,         \* absent value
    TTLs,        \* times to live, in seconds, that are requested or granted
    Ticks,       \* readings of the clock per second
    MaxTime,     \* bound: last reading of the clock
    MaxEntries   \* bound: extensions of a voucher

ASSUME RendezvousAssumption ==
    /\ Regs \cap Lookups = {}
    /\ Nil \notin Owners \cup Guids
    /\ TTLs \subseteq Nat \ {0}
    /\ Ticks \in Nat \ {0}
    /\ MaxTime \in Nat /\ MaxEntries \in Nat

Calls == Regs \cup Lookups

VARIABLES
    now,      \* the rendezvous server's clock, in ticks
    held,     \* owner: voucher it stores for each GUID
    transit,  \* vouchers removed for resale and not added back
    reg,      \* RegisterBlob: its arguments, where it is, what it returned
    look,     \* TO1: its argument, where it is, what it returned
    net,      \* call: the message in flight
    sess,     \* call: row of the sessions table with the nonce of the call
    blobs,    \* GUID: row of the rv_blobs table
    log       \* history: every SetRVBlob, in order

ownerVars == <<held, transit>>
vars == <<now, ownerVars, reg, look, net, sess, blobs, log>>

------------------------------------------------------------------------------
(* Data.                                                                     *)

Voucher == [guid : Guids, mfg : Owners, entries : Seq(Owners)]

\* The owner key at the end of the chain.
OwnerPublicKey(ov) ==
    IF ov.entries = <<>> THEN ov.mfg ELSE ov.entries[Len(ov.entries)]

IsExtended(ov) == ov # Nil /\ ov.entries # <<>>

\* to1d says where the owner is; its hash of to0d says which registration it is.
RVBlob == [to0d : Regs, rv : Owners, ov : Voucher, exp : Nat]

ASSUME NilAssumption == Nil \notin Voucher \cup RVBlob

Message ==
         [t : {"none", "Hello", "HelloAck", "HelloRVAck", "ProveToRV", "Error"}]
    \cup [t : {"OwnerSign"}, rv : Owners, ov : Voucher, wait : TTLs]
    \cup [t : {"AcceptOwner"}, wait : TTLs]
    \cup [t : {"HelloRV"}, guid : Guids]
    \cup [t : {"RVRedirect"}, blob : RVBlob]

Requests == {"Hello", "OwnerSign", "HelloRV", "ProveToRV"}

Quiet == [t |-> "none"]
ErrorMessage == [t |-> "Error"]

IdleReg == [st |-> "idle", owner |-> Nil, guid |-> Nil, ttl |-> 0, refresh |-> 0]
IdleLook == [st |-> "idle", guid |-> Nil, blob |-> Nil, since |-> 0]

Over(c) == IF c \in Regs THEN reg[c].st \in {"ok", "failed"} ELSE look[c].st \in {"ok", "failed"}

Put(c, m) == net' = [net EXCEPT ![c] = m]

------------------------------------------------------------------------------
(* Owner: TO0Client.                                                         *)

\* A call of RegisterBlob for a GUID sends TO0.Hello.
hello(r, o, g, ttl) ==
    /\ reg[r].st = "idle"
    /\ reg' = [reg EXCEPT ![r] = [IdleReg EXCEPT !.st = "hello", !.owner = o, !.guid = g, !.ttl = ttl]]
    /\ Put(r, [t |-> "Hello"])
    /\ UNCHANGED <<now, ownerVars, look, sess, blobs, log>>

\* Only after TO0.HelloAck is the voucher looked up; it needs an entry.
ownerSign_Unchecked(r) ==                \* mutant: a voucher that is gone is not noticed
    /\ reg[r].st = "hello"
    /\ net[r].t = "HelloAck"
    /\ reg' = [reg EXCEPT ![r].st = "sign"]
    /\ Put(r, [t |-> "OwnerSign", rv |-> reg[r].owner, ov |-> held[reg[r].owner][reg[r].guid],
               wait |-> reg[r].ttl])
    /\ UNCHANGED <<now, ownerVars, look, sess, blobs, log>>

ownerSign(r) ==
    /\ reg[r].st = "hello"
    /\ net[r].t = "HelloAck"
    /\ LET ov == held[reg[r].owner][reg[r].guid]
       IN  \/ /\ IsExtended(ov)
              /\ reg' = [reg EXCEPT ![r].st = "sign"]
              /\ Put(r, [t |-> "OwnerSign", rv |-> reg[r].owner, ov |-> ov, wait |-> reg[r].ttl])
           \/ /\ ~IsExtended(ov)
              /\ reg' = [reg EXCEPT ![r].st = "failed"]
              /\ Put(r, Quiet)
    /\ UNCHANGED <<now, ownerVars, look, sess, blobs, log>>

\* RegisterBlob returns the seconds until the next registration.
recvAcceptOwner(r) ==
    /\ reg[r].st = "sign"
    /\ net[r].t = "AcceptOwner"
    /\ reg' = [reg EXCEPT ![r].st = "ok", ![r].refresh = net[r].wait]
    /\ Put(r, Quiet)
    /\ UNCHANGED <<now, ownerVars, look, sess, blobs, log>>

------------------------------------------------------------------------------
(* Device: TO1.                                                              *)

\* since only serves the properties: the registrations made before the call.
helloRv(l, g) ==
    /\ look[l].st = "idle"
    /\ look' = [look EXCEPT ![l] = [IdleLook EXCEPT !.st = "hello", !.guid = g, !.since = Len(log)]]
    /\ Put(l, [t |-> "HelloRV", guid |-> g])
    /\ UNCHANGED <<now, ownerVars, reg, sess, blobs, log>>

proveToRv(l) ==
    /\ look[l].st = "hello"
    /\ net[l].t = "HelloRVAck"
    /\ look' = [look EXCEPT ![l].st = "prove"]
    /\ Put(l, [t |-> "ProveToRV"])
    /\ UNCHANGED <<now, ownerVars, reg, sess, blobs, log>>

recvRVRedirect(l) ==
    /\ look[l].st = "prove"
    /\ net[l].t = "RVRedirect"
    /\ look' = [look EXCEPT ![l].st = "ok", ![l].blob = net[l].blob]
    /\ Put(l, Quiet)
    /\ UNCHANGED <<now, ownerVars, reg, sess, blobs, log>>

\* A call fails: on an error message, or at any time on a timeout, which leaves
\* a request that was sent in flight.
Fail(c) ==
    /\ IF c \in Regs
       THEN reg[c].st \in {"hello", "sign"} /\ reg' = [reg EXCEPT ![c].st = "failed"] /\ UNCHANGED look
       ELSE look[c].st \in {"hello", "prove"} /\ look' = [look EXCEPT ![c].st = "failed"] /\ UNCHANGED reg
    /\ IF net[c].t \in Requests THEN UNCHANGED net ELSE Put(c, Quiet)
    /\ UNCHANGED <<now, ownerVars, sess, blobs, log>>

------------------------------------------------------------------------------
(* Rendezvous server: TO0Server and TO1Server behind the HTTP handler.       *)

\* No response reaches a call that has ended.
Respond(c, m) == Put(c, IF Over(c) THEN Quiet ELSE m)

\* An error response invalidates the token, unless the caller's hanging up has
\* cancelled the context this needs.
RespondError(c) ==
    /\ Respond(c, ErrorMessage)
    /\ \/ sess' = [sess EXCEPT ![c] = "dead"]
       \/ Over(c) /\ UNCHANGED sess

\* TO0SignNonce and TO1ProofNonce find the nonce of a session that is valid.
HasNonce(c) == sess[c] = "live"

\* NewToken and SetTO0SignNonce.
helloAck(r) ==
    /\ net[r].t = "Hello"
    /\ sess' = [sess EXCEPT ![r] = "live"]
    /\ Respond(r, [t |-> "HelloAck"])
    /\ UNCHANGED <<now, ownerVars, reg, look, blobs, log>>

\* SetRVBlob: one row per GUID, the last registration wins; the expiration is
\* stored in whole seconds.
SetRVBlob_Ignore(r, m, ttl) ==           \* mutant: an existing row is kept
    /\ blobs' = [blobs EXCEPT ![m.ov.guid] =
                    IF @ # Nil THEN @
                    ELSE [to0d |-> r, rv |-> m.rv, ov |-> m.ov, exp |-> (now + ttl * Ticks) \div Ticks]]
    /\ log' = Append(log, [to0d |-> r, guid |-> m.ov.guid, until |-> now + ttl * Ticks])

SetRVBlob(r, m, ttl) ==
    /\ blobs' = [blobs EXCEPT ![m.ov.guid] =
                    [to0d |-> r, rv |-> m.rv, ov |-> m.ov, exp |-> (now + ttl * Ticks) \div Ticks]]
    /\ log' = Append(log, [to0d |-> r, guid |-> m.ov.guid, until |-> now + ttl * Ticks])

\* AcceptVoucher decides on the time to live and whether to accept at all.
\* Whether the signer of to1d owns the voucher is not looked at.
acceptOwner(r) ==
    /\ net[r].t = "OwnerSign"
    /\ \/ /\ HasNonce(r)
          /\ IsExtended(net[r].ov)
          /\ \E ttl \in TTLs :
                /\ SetRVBlob(r, net[r], ttl)
                /\ Respond(r, [t |-> "AcceptOwner", wait |-> ttl])
          /\ sess' = [sess EXCEPT ![r] = "dead"]
       \/ /\ RespondError(r)                 \* rejected, no session, or the database fails
          /\ UNCHANGED <<blobs, log>>
    /\ UNCHANGED <<now, ownerVars, reg, look>>

\* RVBlob finds a row that has not expired.
Expired(b) == now > b.exp * Ticks
Found(g) == blobs[g] # Nil /\ ~Expired(blobs[g])

helloRVAck(l) ==
    /\ net[l].t = "HelloRV"
    /\ \/ /\ Found(net[l].guid)
          /\ sess' = [sess EXCEPT ![l] = "live"]
          /\ Respond(l, [t |-> "HelloRVAck"])
       \/ /\ ~Found(net[l].guid)
          /\ RespondError(l)
    /\ UNCHANGED <<now, ownerVars, reg, look, blobs, log>>

\* The blob is looked up again: it may have expired or been replaced since
\* HelloRV.  The proof is signed with the key in the stored voucher.
rvRedirect_NoExpiry(l) ==                \* mutant: trusts the check of HelloRV
    /\ net[l].t = "ProveToRV"
    /\ \/ /\ HasNonce(l) /\ blobs[look[l].guid] # Nil
          /\ sess' = [sess EXCEPT ![l] = "dead"]
          /\ Respond(l, [t |-> "RVRedirect", blob |-> blobs[look[l].guid]])
       \/ /\ ~(HasNonce(l) /\ blobs[look[l].guid] # Nil)
          /\ RespondError(l)
    /\ UNCHANGED <<now, ownerVars, reg, look, blobs, log>>

rvRedirect(l) ==
    /\ net[l].t = "ProveToRV"
    /\ \/ /\ HasNonce(l) /\ Found(look[l].guid)
          /\ sess' = [sess EXCEPT ![l] = "dead"]
          /\ Respond(l, [t |-> "RVRedirect", blob |-> blobs[look[l].guid]])
       \/ /\ ~(HasNonce(l) /\ Found(look[l].guid))
          /\ RespondError(l)
    /\ UNCHANGED <<now, ownerVars, reg, look, blobs, log>>

------------------------------------------------------------------------------
(* Time, the network, and vouchers changing hands.                           *)

Tick ==
    /\ now < MaxTime
    /\ now' = now + 1
    /\ UNCHANGED <<ownerVars, reg, look, net, sess, blobs, log>>

Lose(c) ==
    /\ net[c] # Quiet
    /\ Put(c, Quiet)
    /\ UNCHANGED <<now, ownerVars, reg, look, sess, blobs, log>>

\* Resell takes the voucher out of the store and extends it with the owner's
\* key, which must be the one at the end of the chain.
Resell_Keep(o, g, next) ==               \* mutant: the voucher stays in the seller's store
    /\ held[o][g] # Nil
    /\ OwnerPublicKey(held[o][g]) = o
    /\ Len(held[o][g].entries) < MaxEntries
    /\ transit' = transit \cup {[held[o][g] EXCEPT !.entries = Append(@, next)]}
    /\ UNCHANGED <<now, held, reg, look, net, sess, blobs, log>>

Resell(o, g, next) ==
    /\ held[o][g] # Nil
    /\ held' = [held EXCEPT ![o] = [@ EXCEPT ![g] = Nil]]
    /\ LET ov == held[o][g]
       IN  \/ /\ OwnerPublicKey(ov) = o
              /\ Len(ov.entries) < MaxEntries
              /\ transit' = transit \cup {[ov EXCEPT !.entries = Append(@, next)]}
           \/ /\ OwnerPublicKey(ov) # o
              /\ transit' = transit \cup {ov}
    /\ UNCHANGED <<now, reg, look, net, sess, blobs, log>>

\* AddVoucher does not compare the voucher with the service's keys.
AddVoucher(o, ov) ==
    /\ ov \in transit
    /\ held[o][ov.guid] = Nil
    /\ held' = [held EXCEPT ![o] = [@ EXCEPT ![ov.guid] = ov]]
    /\ transit' = transit \ {ov}
    /\ UNCHANGED <<now, reg, look, net, sess, blobs, log>>

------------------------------------------------------------------------------
\* The manufacturer of each device stores the voucher DI left, or one it has
\* extended for itself (AllInOne.Extend).
Init ==
    /\ now = 0
    /\ \E mfg \in [Guids -> Owners], ext \in [Guids -> BOOLEAN] :
          held = [o \in Owners |-> [g \in Guids |->
                    IF mfg[g] = o
                    THEN [guid |-> g, mfg |-> o, entries |-> IF ext[g] THEN <<o>> ELSE <<>>]
                    ELSE Nil]]
    /\ transit = {}
    /\ reg = [r \in Regs |-> IdleReg]
    /\ look = [l \in Lookups |-> IdleLook]
    /\ net = [c \in Calls |-> Quiet]
    /\ sess = [c \in Calls |-> "none"]
    /\ blobs = [g \in Guids |-> Nil]
    /\ log = <<>>

RegisterStep(r) ==
    \/ \E o \in Owners, g \in Guids, ttl \in TTLs : hello(r, o, g, ttl)
    \/ ownerSign(r) \/ recvAcceptOwner(r) \/ helloAck(r) \/ acceptOwner(r)

LookupStep(l) ==
    \/ \E g \in Guids : helloRv(l, g)
    \/ proveToRv(l) \/ recvRVRedirect(l) \/ helloRVAck(l) \/ rvRedirect(l)

OwnerStep ==
    \/ \E o \in Owners, g \in Guids, next \in Owners : Resell(o, g, next)
    \/ \E o \in Owners : \E ov \in transit : AddVoucher(o, ov)

Next ==
    \/ \E r \in Regs : RegisterStep(r)
    \/ \E l \in Lookups : LookupStep(l)
    \/ \E c \in Calls : Fail(c) \/ Lose(c)
    \/ OwnerStep
    \/ Tick

Spec == Init /\ [][Next]_vars

------------------------------------------------------------------------------
(* Properties.                                                               *)

RegState == [st : {"idle", "hello", "sign", "ok", "failed"}, owner : Owners \cup {Nil},
             guid : Guids \cup {Nil}, ttl : TTLs \cup {0}, refresh : TTLs \cup {0}]

LookState == [st : {"idle", "hello", "prove", "ok", "failed"}, guid : Guids \cup {Nil},
              blob : RVBlob \cup {Nil}, since : Nat]

\* Every variable has its type.
TypeOK ==
    /\ now \in Nat
    /\ held \in [Owners -> [Guids -> Voucher \cup {Nil}]]
    /\ transit \subseteq Voucher
    /\ reg \in [Regs -> RegState]
    /\ look \in [Lookups -> LookState]
    /\ net \in [Calls -> Message]
    /\ sess \in [Calls -> {"none", "live", "dead"}]
    /\ blobs \in [Guids -> RVBlob \cup {Nil}]
    /\ log \in Seq([to0d : Regs, guid : Guids, until : Nat])

\* Vouchers somebody stores or has taken out for resale.
Vouchers == ({held[o][g] : o \in Owners, g \in Guids} \ {Nil}) \cup transit

\* Vouchers copied into registrations.
CopiedVouchers ==
         {blobs[g].ov : g \in {h \in Guids : blobs[h] # Nil}}
    \cup {net[r].ov : r \in {s \in Regs : net[s].t = "OwnerSign"}}
    \cup {net[l].blob.ov : l \in {m \in Lookups : net[m].t = "RVRedirect"}}
    \cup {look[l].blob.ov : l \in {m \in Lookups : look[m].blob # Nil}}

Prefix(s, t) == Len(s) <= Len(t) /\ \A i \in 1 .. Len(s) : s[i] = t[i]

\* However calls, resales and lost messages interleave, a GUID has one voucher,
\* and every voucher that takes part in a registration is an earlier state of
\* it: a device is only ever redirected by services that once held its voucher,
\* and the chain of the blob it gets leads to its present owner.
OneChain ==
    /\ \A ov, ow \in Vouchers : ov.guid = ow.guid => ov = ow
    /\ \A old \in CopiedVouchers, ov \in Vouchers :
          old.guid = ov.guid => old.mfg = ov.mfg /\ Prefix(old.entries, ov.entries)

Last(g) == {i \in 1 .. Len(log) : log[i].guid = g /\ \A j \in i + 1 .. Len(log) : log[j].guid # g}

\* A registration the rendezvous server accepted stays until the time to live it
\* granted is over, short of the second lost to storing whole seconds, or until
\* another one is accepted for the GUID.
AcceptedStays ==
    \A g \in Guids : \A i \in Last(g) :
        /\ blobs[g].to0d = log[i].to0d
        /\ now + Ticks <= log[i].until => Found(g)

\* The registration a redirect hands out was accepted, and had neither expired
\* when it was handed out nor been replaced before the device called TO1.
RedirectsAreCurrent ==
    [][\A l \in Lookups :
          net'[l].t = "RVRedirect" /\ net[l].t # "RVRedirect" =>
              \E i \in 1 .. Len(log) :
                  /\ log[i].to0d = net'[l].blob.to0d
                  /\ log[i].guid = look[l].guid
                  /\ now <= log[i].until
                  /\ \A j \in i + 1 .. look[l].since : log[j].guid # log[i].guid]_vars
=============================================================================
