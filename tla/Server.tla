------------------------------- MODULE Server -------------------------------
(***************************************************************************)
(* The commands of the example program that work on one database file:     *)
(* the all-in-one server, which makes its keys when it finds no file,      *)
(* initializes devices and answers them; printing an owner key; importing  *)
(* a voucher; registering a rendezvous blob, possibly signed by a          *)
(* delegate; selling a voucher; and creating a delegate chain.  Commands   *)
(* run at the same time, statement by statement; one that takes no further *)
(* step has been killed.                                                   *)
(*                                                                         *)
(* Bounds: each process runs one command, the flags of which are chosen    *)
(* where they are used; a server initializes one device; at most           *)
(* MaxFirstStarts processes find no file.                                  *)
(***************************************************************************)
EXTENDS Delegates, FiniteSets

CONSTANTS
    Procs,
    KeyTypes,               \* of the keys of a first start, in the order of generateKeys
    MaxFirstStarts,
    Names,                  \* of delegates
    CreateKeys              \* the key types given to delegate create

VARIABLES
    file,                   \* the database file is there
    mfg_keys, owner_keys,   \* tables: rows [type, key]
    delegate_keys,          \* name -> [key, chain]
    vouchers,               \* guid -> [type, mfg, owner]
    rv_blobs,               \* guid -> [signer, chain, owner]
    cmd, pc, job,           \* of a process: its command, where it is, what it has read
    output                  \* what it printed or returned: [kind, type, key]

tables == <<mfg_keys, owner_keys, delegate_keys, vouchers, rv_blobs>>
vars == <<file, tables, cmd, pc, job, output>>

------------------------------------------------------------------------------
(* Keys.                                                                     *)

Algs == {"rsa2048", "rsa3072", "ec256", "ec384"}

\* The last key is of the type that device certificates are signed with.
ASSUME KeyTypesAssumption ==
    /\ KeyTypes \in Seq({"RSA2048RESTR", "RSAPKCS", "RSAPSS", "SECP256R1", "SECP384R1"})
    /\ KeyTypes # <<>>
    /\ \A i \in DOMAIN KeyTypes : KeyTypes[i] = "SECP384R1" <=> i = Len(KeyTypes)
ASSUME CreateKeysAssumption == \A algs \in CreateKeys : algs \in Seq(Algs)

Types == {KeyTypes[i] : i \in DOMAIN KeyTypes}
NumTypes == Len(KeyTypes)

AlgOf(t) ==
    CASE t = "RSA2048RESTR" -> "rsa2048"
      [] t \in {"RSAPKCS", "RSAPSS"} -> "rsa3072"
      [] t = "SECP256R1" -> "ec256"
      [] t = "SECP384R1" -> "ec384"

NoKey == [role |-> "none", by |-> "none", alg |-> "none", i |-> 0]

\* What a process draws: RSAPKCS and RSAPSS share a key.
Drawn(p, role, t) == [role |-> role, by |-> p, alg |-> AlgOf(t), i |-> 0]
DrawnFor(p, algs) == [i \in DOMAIN algs |-> [role |-> "delegate", by |-> p, alg |-> algs[i], i |-> i]]

\* rsa_bits of a row; NULL for EC keys, which the primary key takes for different from
\* any other.
Null == -1
RsaBits(t) == CASE t = "RSA2048RESTR" -> 2048
                [] t \in {"RSAPKCS", "RSAPSS"} -> 3072
                [] OTHER -> Null

InsertOrIgnore_Replace(table, row) ==    \* mutant: ON CONFLICT DO UPDATE
    IF \E i \in DOMAIN table : table[i].type = row.type
    THEN [i \in DOMAIN table |-> IF table[i].type = row.type THEN row ELSE table[i]]
    ELSE Append(table, row)

InsertOrIgnore(table, row) ==
    IF RsaBits(row.type) # Null /\ \E i \in DOMAIN table : table[i].type = row.type
    THEN table ELSE Append(table, row)

\* The first row of the type, and of the size when the type leaves it open.
ReadKey(table, t, bits) ==
    LET found == {i \in DOMAIN table :
                     table[i].type = t /\ (t \in {"RSAPKCS", "RSAPSS"} => RsaBits(t) = bits)}
    IN IF found = {} THEN NoKey ELSE table[CHOOSE i \in found : \A j \in found : i <= j].key

ManufacturerKey(t, bits) == ReadKey(mfg_keys, t, bits)
OwnerKey(t, bits) == ReadKey(owner_keys, t, bits)

\* The name given for a delegate: none, or "=", which stands for the key type.
NoName == ""
TypeName == "="
Resolve(name, t) == IF name = TypeName THEN t ELSE name

With(fn, x, y) == [z \in DOMAIN fn \cup {x} |-> IF z = x THEN y ELSE fn[z]]

------------------------------------------------------------------------------
(* Start of a command.                                                       *)

CreatePerms == {{"redirect"}, OnboardPerms}
NoJob == [of |-> "none"]
Nothing == [kind |-> "nothing", type |-> "none", key |-> NoKey]
Error == [Nothing EXCEPT !.kind = "error"]
Commands == {"server", "print", "import", "to0", "resell", "create"}

Init ==
    /\ file = FALSE
    /\ mfg_keys = <<>> /\ owner_keys = <<>>
    /\ delegate_keys = [n \in {} |-> NoJob]
    /\ vouchers = [g \in {} |-> NoJob]
    /\ rv_blobs = [g \in {} |-> NoJob]
    /\ cmd = [p \in Procs |-> ""]
    /\ pc = [p \in Procs |-> "idle"]
    /\ job = [p \in Procs |-> NoJob]
    /\ output = [p \in Procs |-> Nothing]

\* Vouchers of other manufacturers are extended to the keys printed here.
Printed == {output[p].key : p \in {q \in Procs : output[q].kind = "printed"}}
Vouchers == [type : Types, mfg : {NoKey}, owner : Printed]

\* Goes to a place with what is known there; ends with an output.
Go(p, place, known) ==
    pc' = [pc EXCEPT ![p] = place] /\ job' = [job EXCEPT ![p] = known] /\ UNCHANGED output
End(p, result) ==
    pc' = [pc EXCEPT ![p] = "done"] /\ job' = [job EXCEPT ![p] = NoJob]
    /\ output' = [output EXCEPT ![p] = result]

FirstStarts == {p \in Procs : pc[p] = "generate" \/ (pc[p] = "open" /\ job[p].absent)}

\* "server" asks whether the file is there before it opens it.
Start(p) ==
    /\ pc[p] = "idle"
    /\ file \/ Cardinality(FirstStarts) < MaxFirstStarts
    /\ \E c \in Commands :
           /\ cmd' = [cmd EXCEPT ![p] = c]
           /\ Go(p, "open", [of |-> "open", absent |-> c # "create" /\ ~file])
    /\ UNCHANGED <<file, tables>>

Open(p) ==
    /\ pc[p] = "open"
    /\ file' = TRUE
    /\ IF job[p].absent THEN Go(p, "generate", [of |-> "generate", n |-> 1])
                        ELSE Go(p, "run", NoJob)
    /\ UNCHANGED <<tables, cmd>>

\* generateKeys draws all keys and adds one after the other, manufacturer keys first.
TypeAt_Reversed(n) ==                    \* mutant: the last type first
    KeyTypes[NumTypes + 1 - IF n > NumTypes THEN n - NumTypes ELSE n]

TypeAt(n) == KeyTypes[IF n > NumTypes THEN n - NumTypes ELSE n]

AddKey(p) ==
    LET n == job[p].n  t == TypeAt(n) IN
    /\ pc[p] = "generate"
    /\ IF n <= NumTypes
       THEN /\ mfg_keys' = InsertOrIgnore(mfg_keys, [type |-> t, key |-> Drawn(p, "mfg", t)])
            /\ UNCHANGED owner_keys
       ELSE /\ owner_keys' = InsertOrIgnore(owner_keys, [type |-> t, key |-> Drawn(p, "owner", t)])
            /\ UNCHANGED mfg_keys
    /\ IF n < 2 * NumTypes THEN Go(p, "generate", [of |-> "generate", n |-> n + 1])
                           ELSE Go(p, "run", NoJob)
    /\ UNCHANGED <<file, delegate_keys, vouchers, rv_blobs, cmd>>

Runs(p, name) == pc[p] = "run" /\ cmd[p] = name

------------------------------------------------------------------------------
(* server                                                                    *)

\* newHandler needs the key that signs device certificates.
Serve(p) ==
    /\ Runs(p, "server")
    /\ IF ManufacturerKey("SECP384R1", 0) = NoKey THEN End(p, Error)
                                                  ELSE Go(p, "serving", NoJob)
    /\ UNCHANGED <<file, tables, cmd>>

\* DI.AppStart: the header gets the manufacturer key of the device's type.
AppStart(p) ==
    /\ pc[p] = "serving"
    /\ \E t \in Types :
           LET k == ManufacturerKey(t, 3072) IN
           /\ k # NoKey /\ <<"DI", p>> \notin DOMAIN vouchers
           /\ Go(p, "header", [of |-> "voucher", guid |-> <<"DI", p>>,
                               voucher |-> [type |-> t, mfg |-> k, owner |-> k]])
    /\ UNCHANGED <<file, tables, cmd>>

\* DI.SetHMAC: the keys of the header's type and size are read and the voucher, which
\* has to be the manufacturer's, extended to the owner.
Extend(p) ==
    LET v == job[p].voucher
        mfg == ManufacturerKey(v.type, RsaBits(v.type))
        owner == OwnerKey(v.type, RsaBits(v.type)) IN
    /\ pc[p] = "header"
    /\ IF mfg # v.owner \/ owner = NoKey THEN Go(p, "serving", NoJob)
       ELSE Go(p, "extended", [job[p] EXCEPT !.voucher.owner = owner])
    /\ UNCHANGED <<file, tables, cmd>>

AddVoucher(p) ==
    /\ pc[p] = "extended"
    /\ vouchers' = With(vouchers, job[p].guid, job[p].voucher)
    /\ Go(p, "register", job[p]) \/ Go(p, "serving", NoJob)
    /\ UNCHANGED <<file, mfg_keys, owner_keys, delegate_keys, rv_blobs, cmd>>

\* The owner key is read again to sign the blob.
RegisterOwnerAddr(p) ==
    LET v == job[p].voucher  k == OwnerKey(v.type, RsaBits(v.type)) IN
    /\ pc[p] = "register"
    /\ IF k = NoKey THEN UNCHANGED rv_blobs
       ELSE rv_blobs' = With(rv_blobs, job[p].guid, [signer |-> k, chain |-> <<>>, owner |-> v.owner])
    /\ Go(p, "serving", NoJob)
    /\ UNCHANGED <<file, mfg_keys, owner_keys, delegate_keys, vouchers, cmd>>

------------------------------------------------------------------------------
(* The commands that end.                                                    *)

doPrintOwnerPubKey(p) ==
    /\ Runs(p, "print")
    /\ \E t \in Types :
           LET k == OwnerKey(t, 3072) IN
           End(p, IF k = NoKey THEN Error ELSE [kind |-> "printed", type |-> t, key |-> k])
    /\ UNCHANGED <<file, tables, cmd>>

\* What the owner key of the type in the header is, if it is the voucher's owner.
ImportKey_Any(v) == v.owner              \* mutant: does not ask whose voucher it is

ImportKey(v) ==
    IF OwnerKey(v.type, 3072) = v.owner THEN v.owner ELSE NoKey

doImportVoucher(p) ==
    /\ Runs(p, "import")
    /\ \E v \in Vouchers :
           LET g == <<"import", v.type>> IN
           IF ImportKey(v) = NoKey \/ g \in DOMAIN vouchers
           THEN End(p, Error) /\ UNCHANGED vouchers
           ELSE End(p, Nothing) /\ vouchers' = With(vouchers, g, v)
    /\ UNCHANGED <<file, mfg_keys, owner_keys, delegate_keys, rv_blobs, cmd>>

\* What TO0 signs: with the owner key, or with the delegate's and its chain in the header.
Blob(v, name) ==
    LET owner == OwnerKey(v.type, RsaBits(v.type))
        n == Resolve(name, v.type)
    IN IF name = NoName THEN [signer |-> owner, chain |-> <<>>, owner |-> v.owner]
       ELSE IF n \in DOMAIN delegate_keys /\ ChainKeyFits(delegate_keys[n].chain, Class(owner))
       THEN [signer |-> delegate_keys[n].key, chain |-> delegate_keys[n].chain, owner |-> v.owner]
       ELSE [signer |-> NoKey, chain |-> <<>>, owner |-> v.owner]

\* TO0.OwnerSign: the voucher, the owner key of its type and the delegate are read.
ownerSign(p) ==
    /\ Runs(p, "to0")
    /\ \E g \in DOMAIN vouchers, name \in Names \cup {NoName, TypeName} :
           LET v == vouchers[g]  blob == Blob(v, name) IN
           IF OwnerKey(v.type, RsaBits(v.type)) = NoKey \/ blob.signer = NoKey
           THEN End(p, Error)
           ELSE Go(p, "signed", [of |-> "blob", guid |-> g, blob |-> blob])
    /\ UNCHANGED <<file, tables, cmd>>

\* The rendezvous service, here the one of the same database, takes it.
acceptOwner(p) ==
    /\ pc[p] = "signed"
    /\ rv_blobs' = With(rv_blobs, job[p].guid, job[p].blob)
    /\ End(p, Nothing)
    /\ UNCHANGED <<file, mfg_keys, owner_keys, delegate_keys, vouchers, cmd>>

\* The service that is built to sell a voucher is given no store to take it from.
resell(p) ==
    /\ Runs(p, "resell") /\ DOMAIN vouchers # {}
    /\ End(p, Error)
    /\ UNCHANGED <<file, tables, cmd>>

\* delegate create: the owner key is asked for without a size.
createDelegateCertificate(p) ==
    /\ Runs(p, "create")
    /\ \E t \in Types, perms \in CreatePerms, algs \in CreateKeys, name \in Names :
           LET owner == OwnerKey(t, 0)
               keys == DrawnFor(p, algs) IN
           IF owner = NoKey \/ ~CanGenerate(owner, keys) THEN End(p, Error)
           ELSE Go(p, "created", [of |-> "delegate", name |-> name, key |-> LastKey(owner, keys),
                                  chain |-> CreateChain(owner, name, t, perms, keys)])
    /\ UNCHANGED <<file, tables, cmd>>

\* A chain of the same name is replaced.
AddDelegateKey(p) ==
    /\ pc[p] = "created"
    /\ delegate_keys' = With(delegate_keys, job[p].name, [key |-> job[p].key, chain |-> job[p].chain])
    /\ End(p, Nothing)
    /\ UNCHANGED <<file, mfg_keys, owner_keys, vouchers, rv_blobs, cmd>>

Next ==
    \E p \in Procs :
        \/ Start(p) \/ Open(p) \/ AddKey(p)
        \/ Serve(p) \/ AppStart(p) \/ Extend(p) \/ AddVoucher(p) \/ RegisterOwnerAddr(p)
        \/ doPrintOwnerPubKey(p) \/ doImportVoucher(p) \/ resell(p)
        \/ ownerSign(p) \/ acceptOwner(p)
        \/ createDelegateCertificate(p) \/ AddDelegateKey(p)

Spec == Init /\ [][Next]_vars

------------------------------------------------------------------------------
(* What a device finds.                                                      *)

\* TO2.HelloDevice of a server that is given the name of a delegate, and what the device
\* makes of TO2.ProveOVHdr.
ProveOVHdr(name, v) ==
    LET n == Resolve(name, v.type)
        owner == OwnerKey(v.type, RsaBits(v.type))
        d == delegate_keys[n] IN
    IF owner = NoKey THEN "refused"
    ELSE IF name = NoName THEN IF owner = v.owner THEN "accepted" ELSE "refused"
    ELSE IF \/ n \notin DOMAIN delegate_keys
            \/ ~VerifyDelegateChain(d.chain, v.owner, AnyPerm) \/ ~DelegateCanOnboard(d.chain)
            \/ Class(d.key) = "RSA" /\ Class(owner) = "EC"
         THEN "refused"
    ELSE IF ChainKeyFits(d.chain, Class(owner)) /\ d.chain[1].key = d.key /\ owner = v.owner
         THEN "accepted" ELSE "rejected"

\* The device verifies a redirect with the delegate's key if there is one, else with
\* the owner's.
To1dVerifies(blob) ==
    blob.signer = IF blob.chain # <<>> THEN blob.chain[1].key ELSE blob.owner

------------------------------------------------------------------------------
(* Properties.                                                               *)

\* A key that was found once is what is found from then on, however many first starts
\* add keys at the same time: vouchers extended to it, blobs signed with it and keys
\* printed stay good.
KeysNeverChange ==
    [][\A t \in Types :
           /\ OwnerKey(t, 3072) # NoKey => OwnerKey(t, 3072)' = OwnerKey(t, 3072)
           /\ ManufacturerKey(t, 3072) # NoKey => ManufacturerKey(t, 3072)' = ManufacturerKey(t, 3072)]_vars

\* Of a chain made by delegate create, the leaf's permissions, which the services look
\* at, are what the chain verifies for.
LeafSpeaksForChain ==
    \A n \in DOMAIN delegate_keys :
        LET chain == delegate_keys[n].chain
            owner == OwnerKey(chain[Len(chain)].issuer[2], 0)
        IN chain # <<>> =>
               /\ VerifyDelegateChain(chain, owner, AnyPerm)
               /\ \A oid \in Perms :
                      DelegateHasPermission(chain, oid) <=> VerifyDelegateChain(chain, owner, oid)

\* The commands find the keys they need.  The server that signs device certificates
\* has a manufacturer key for every type, also when it found a file whose first start
\* was killed or is still adding keys; and a voucher extended to the key that was
\* printed for its type is not refused as somebody else's.
KeysAreFound ==
    /\ \A p \in Procs : pc[p] = "serving" => \A t \in Types : ManufacturerKey(t, 3072) # NoKey
    /\ \A p \in Procs :
           output[p].kind = "printed" =>
               ImportKey([type |-> output[p].type, mfg |-> NoKey, owner |-> output[p].key]) # NoKey

\* A server without a delegate, and one whose delegate was made for the type of the
\* voucher with a permission to onboard and a key of its class.
CanServe(v, name) ==
    \/ name = NoName
    \/ LET n == Resolve(name, v.type)
           chain == delegate_keys[n].chain
       IN /\ n \in DOMAIN delegate_keys
          /\ ChainKeyFits(chain, Class(v.owner)) /\ DelegateCanOnboard(chain)
          /\ chain[Len(chain)].issuer[2] = v.type

\* Such a server answers the device of every stored voucher, and the device accepts
\* the answer; and every redirect a device may be given verifies with the owner in its
\* voucher or the delegate in its header.
DevicesAreServed ==
    /\ \A g \in DOMAIN vouchers, name \in Names \cup {NoName, TypeName} :
           CanServe(vouchers[g], name) => ProveOVHdr(name, vouchers[g]) = "accepted"
    /\ \A g \in DOMAIN rv_blobs : To1dVerifies(rv_blobs[g])
=============================================================================
