--------------------------- MODULE ServerProof ---------------------------
(***************************************************************************)
(* Proofs about the commands on one database: for any number of processes, *)
(* first starts and delegates, and any key types that generateKeys adds.   *)
(***************************************************************************)
EXTENDS Server, TLAPS, SequenceTheorems, WellFoundedInduction

------------------------------------------------------------------------------
(* Chains of delegates.                                                      *)

\* A created chain is as long as its keys and holds their certificates, leaf first.
LEMMA ChainOfKeys ==
    ASSUME NEW K, NEW keys \in Seq(K), NEW owner, NEW name, NEW t, NEW perms
    PROVE  LET chain == CreateChain(owner, name, t, perms, keys) IN
           /\ chain \in Seq({chain[j] : j \in DOMAIN keys})
           /\ DOMAIN chain = DOMAIN keys /\ Len(chain) = Len(keys)
           /\ \A j \in DOMAIN keys :
                  chain[j] = Cert(owner, name, t, perms, keys, Len(keys) - j)
<1> DEFINE chain == CreateChain(owner, name, t, perms, keys)
<1>1. DOMAIN keys = 1..Len(keys) /\ Len(keys) \in Nat
    OBVIOUS
<1>2. DOMAIN chain = DOMAIN keys
    BY DEF CreateChain
<1>3. chain \in Seq({chain[j] : j \in DOMAIN keys})
    <2> DEFINE S == {chain[j] : j \in DOMAIN keys}
    <2>1. chain = [j \in 1..Len(keys) |-> Cert(owner, name, t, perms, keys, Len(keys) - j)]
        BY <1>1 DEF CreateChain
    <2>2. \A j \in 1..Len(keys) : chain[j] \in S
        BY <1>1
    <2>3. chain \in [1..Len(keys) -> S]
        BY <2>1, <2>2
    <2> HIDE DEF S
    <2>4. [1..Len(keys) -> S] \subseteq Seq(S)
        BY <1>1
    <2> QED
        BY <2>3, <2>4 DEF S
<1>4. Len(chain) = Len(keys)
    <2> HIDE DEF chain
    <2> QED
        BY <1>1, <1>2, <1>3
<1>5. \A j \in DOMAIN keys : chain[j] = Cert(owner, name, t, perms, keys, Len(keys) - j)
    BY DEF CreateChain
<1> QED
    BY <1>2, <1>3, <1>4, <1>5

\* What a device and the services make of a chain that delegate create made: it verifies
\* with the owner key it was made with, for the permissions its leaf has.
LEMMA CreatedVerifies ==
    ASSUME NEW K, NEW keys \in Seq(K), keys # <<>>,
           NEW owner, NEW name, NEW t, NEW perms
    PROVE  LET chain == CreateChain(owner, name, t, perms, keys) IN
           /\ chain # <<>>
           /\ chain[1].key = LastKey(owner, keys) /\ chain[1].perms = perms
           /\ chain[Len(chain)].issuer[2] = t
           /\ VerifyDelegateChain(chain, owner, AnyPerm)
           /\ \A oid \in Perms :
                  VerifyDelegateChain(chain, owner, oid) <=> DelegateHasPermission(chain, oid)
<1> DEFINE chain == CreateChain(owner, name, t, perms, keys)
           n == Len(keys)
<1>1. DOMAIN keys = 1..n /\ n = Len(keys)
    OBVIOUS
<1>0. n \in Nat /\ n > 0
    BY EmptySeq
<1>2. /\ chain \in Seq({chain[j] : j \in DOMAIN keys})
      /\ DOMAIN chain = DOMAIN keys /\ Len(chain) = Len(keys)
      /\ \A j \in DOMAIN keys :
             chain[j] = Cert(owner, name, t, perms, keys, Len(keys) - j)
    BY ChainOfKeys
<1> HIDE DEF chain, n
<1>3. \A j \in 1..n :
          /\ chain[j].key = keys[n - j + 1]
          /\ chain[j].signer = IF j = n THEN owner ELSE keys[n - j]
          /\ chain[j].perms = perms
          /\ j # 1 => chain[j].ca
          /\ chain[j].subject = <<name, keys[n - j + 1].alg, n - j>>
          /\ chain[j].issuer = IF j = n THEN <<name, t, -1>> ELSE <<name, keys[n - j].alg, n - j - 1>>
    <2> TAKE j \in 1..n
    <2>1. chain[j] = GenerateDelegate(Signer(owner, keys, n - j), Flag(n - j, n),
                         keys[n - j + 1], <<name, keys[n - j + 1].alg, n - j>>,
                         IF n - j = 0 THEN <<name, t, -1>> ELSE <<name, keys[n - j].alg, n - j - 1>>,
                         perms)
        BY <1>1, <1>2 DEF Cert
    <2>2. j # 1 => Flag(n - j, n) # "leaf"
        BY <1>0 DEF Flag
    <2>3. Signer(owner, keys, n - j) = IF j = n THEN owner ELSE keys[n - j]
        BY <1>0 DEF Signer
    <2>4. n - j = 0 <=> j = n
        BY <1>0
    <2>5. \A signer, flag, key, subject, issuer :
              LET c == GenerateDelegate(signer, flag, key, subject, issuer, perms) IN
              /\ c.signer = signer /\ c.key = key /\ c.subject = subject
              /\ c.issuer = issuer /\ c.perms = perms
        BY DEF GenerateDelegate
    <2>6. j # 1 => chain[j].ca
        <3>1. \A signer, flag, key, subject, issuer :
                  GenerateDelegate(signer, flag, key, subject, issuer, perms).ca = (flag # "leaf")
            BY Zenon DEF GenerateDelegate
        <3>2. PICK signer, key, subject, issuer :
                  chain[j] = GenerateDelegate(signer, Flag(n - j, n), key, subject, issuer, perms)
            BY <2>1, Zenon
        <3> QED
            <4>1. j # 1 => chain[j].ca = TRUE
                <5>1. chain[j].ca = (Flag(n - j, n) # "leaf")
                    BY <3>1, <3>2
                <5>2. j # 1 => (Flag(n - j, n) # "leaf") = TRUE
                    BY <2>2
                <5> QED
                    BY <5>1, <5>2
            <4> QED
                BY <4>1
    <2> QED
        <3>1. /\ chain[j].key = keys[n - j + 1]
              /\ chain[j].signer = Signer(owner, keys, n - j)
              /\ chain[j].perms = perms
              /\ chain[j].subject = <<name, keys[n - j + 1].alg, n - j>>
              /\ chain[j].issuer = IF n - j = 0 THEN <<name, t, -1>> ELSE <<name, keys[n - j].alg, n - j - 1>>
            BY <2>1, <2>5
        <3> QED
            BY <2>3, <2>4, <2>6, <3>1
<1>4. chain # <<>> /\ chain[1].key = LastKey(owner, keys) /\ chain[1].perms = perms
      /\ chain[Len(chain)].issuer[2] = t
    <2>1. 1 \in 1..n /\ n \in 1..n /\ n # 0 /\ n - 1 + 1 = n
        BY <1>0
    <2>2. LastKey(owner, keys) = keys[n]
        BY <1>1, <2>1 DEF LastKey, Signer
    <2>3. chain # <<>>
        BY <1>1, <1>2, <2>1
    <2>4. Len(chain) = n /\ <<name, t, -1>>[2] = t
        BY <1>1, <1>2
    <2> QED
        BY <1>3, <2>1, <2>2, <2>3, <2>4
<1>5. ASSUME NEW oid
      PROVE  VerifyDelegateChain(chain, owner, oid) <=> (oid # AnyPerm => oid \in perms)
    <2> DEFINE root == OwnerRoot(chain, owner, oid)
               full == Append(chain, root)
    <2>1. /\ root.key = owner /\ root.ca /\ root.subject = <<name, t, -1>>
          /\ oid # AnyPerm => oid \in root.perms
        <3>1. chain[Len(chain)].issuer = <<name, t, -1>>
            <4>1. Len(chain) = n /\ n \in 1..n
                BY <1>0, <1>1, <1>2
            <4> QED
                BY <4>1, <1>3
        <3> QED
            BY <3>1 DEF OwnerRoot, GenerateDelegate
    <2> HIDE DEF root
    <2>2. Len(full) = n + 1 /\ DOMAIN full = 1..(n + 1)
          /\ (\A i \in 1..n : full[i] = chain[i]) /\ full[n + 1] = root
        <3> DEFINE S == {chain[j] : j \in DOMAIN keys} \cup {root}
        <3>1. chain \in Seq(S) /\ root \in S
            BY <1>2, SeqMonotonic
        <3> HIDE DEF S
        <3> QED
            BY <1>1, <1>2, <1>0, <3>1, AppendProperties
    <2> HIDE DEF full
    <2>3. \A i \in 1..(n + 1) : i < n + 1 => SignedBy(full[i], full[i + 1])
        <3> SUFFICES ASSUME NEW i \in 1..n PROVE SignedBy(full[i], full[i + 1])
            BY <1>0
        <3>1. CASE i = n
            BY <1>0, <1>3, <2>1, <2>2, <3>1 DEF SignedBy
        <3>2. CASE i # n
            <4>1. i + 1 \in 1..n /\ i + 1 # 1 /\ n - (i + 1) + 1 = n - i /\ n - (i + 1) = n - i - 1
                BY <1>0, <3>2
            <4>2. full[i] = chain[i] /\ full[i + 1] = chain[i + 1]
                BY <4>1, <2>2
            <4> QED
                <5>1. chain[i].signer = keys[n - i] /\ chain[i].issuer = <<name, keys[n - i].alg, n - i - 1>>
                    BY <1>3, <3>2
                <5>2. chain[i + 1].key = keys[n - i] /\ chain[i + 1].ca
                      /\ chain[i + 1].subject = <<name, keys[n - i].alg, n - i - 1>>
                    BY <1>3, <4>1
                <5> QED
                    BY <4>2, <5>1, <5>2, Zenon DEF SignedBy
        <3> QED
            BY <3>1, <3>2
    <2>4. \A i \in 1..(n + 1) :
              /\ i # 1 => full[i].ca
              /\ oid # AnyPerm => (oid \in full[i].perms <=> (i = n + 1 \/ oid \in perms))
        <3> TAKE i \in 1..(n + 1)
        <3>1. CASE i = n + 1
            BY <2>1, <2>2, <3>1
        <3>2. CASE i # n + 1
            <4>1. i \in 1..n
                BY <1>0, <3>2
            <4> QED
                BY <1>3, <2>2, <3>2, <4>1
        <3> QED
            BY <3>1, <3>2
    <2>5. 1 \in 1..(n + 1) /\ 1 # n + 1
        BY <1>0
    <2>6. VerifyDelegateChain(chain, owner, oid) <=>
              \A i \in 1..(n + 1) :
                  /\ i < n + 1 => SignedBy(full[i], full[i + 1])
                  /\ oid # AnyPerm => oid \in full[i].perms
                  /\ i # 1 => full[i].ca
        BY <1>4, <2>2 DEF VerifyDelegateChain, full, root
    <2>7. (oid # AnyPerm => oid \in perms) =>
              \A i \in 1..(n + 1) : oid # AnyPerm => oid \in full[i].perms
        BY <2>4
    <2>8. (\A i \in 1..(n + 1) : oid # AnyPerm => oid \in full[i].perms) =>
              (oid # AnyPerm => oid \in perms)
        BY <2>4, <2>5, Zenon
    <2> QED
        <3>1. \A i \in 1..(n + 1) : (i < n + 1 => SignedBy(full[i], full[i + 1])) /\ (i # 1 => full[i].ca)
            BY <2>3, <2>4, Zenon
        <3> QED
            BY <3>1, <2>6, <2>7, <2>8, Zenon
<1>6. VerifyDelegateChain(chain, owner, AnyPerm)
    BY <1>5
<1>7. ASSUME NEW oid \in Perms
      PROVE  VerifyDelegateChain(chain, owner, oid) <=> DelegateHasPermission(chain, oid)
    <2>1. oid # AnyPerm
        BY DEF Perms, OnboardPerms, AnyPerm
    <2> QED
        BY <1>4, <1>5, <2>1 DEF DelegateHasPermission
<1> QED
    BY <1>4, <1>6, <1>7 DEF chain

------------------------------------------------------------------------------
(* Tables of keys.                                                           *)

Key == [role : {"mfg", "owner"}, by : Procs, alg : Algs, i : {0}]
Row == [type : Types, key : Key]
TypesIn(table) == {table[i].type : i \in DOMAIN table}

\* The size asked for is left open by the type, or is the type's.
SizeFits(t, bits) == t \in {"RSAPKCS", "RSAPSS"} => RsaBits(t) = bits
Found(table, t, bits) == {i \in DOMAIN table : table[i].type = t /\ SizeFits(t, bits)}

\* Of the key types, the last is the one that device certificates are signed with.
LEMMA TypeFacts ==
    /\ NumTypes \in Nat /\ NumTypes > 0 /\ DOMAIN KeyTypes = 1..NumTypes
    /\ Types \subseteq {"RSA2048RESTR", "RSAPKCS", "RSAPSS", "SECP256R1", "SECP384R1"}
    /\ \A i \in 1..NumTypes : KeyTypes[i] \in Types
    /\ \A i \in 1..NumTypes : KeyTypes[i] = "SECP384R1" <=> i = NumTypes
    /\ "SECP384R1" \in Types
<1>1. NumTypes \in Nat /\ NumTypes > 0 /\ DOMAIN KeyTypes = 1..NumTypes
    BY KeyTypesAssumption, EmptySeq DEF NumTypes
<1>2. \A i \in 1..NumTypes : KeyTypes[i] \in Types
    BY <1>1 DEF Types
<1>3. Types \subseteq {"RSA2048RESTR", "RSAPKCS", "RSAPSS", "SECP256R1", "SECP384R1"}
    BY <1>1, KeyTypesAssumption DEF Types
<1>4. \A i \in 1..NumTypes : KeyTypes[i] = "SECP384R1" <=> i = NumTypes
    BY <1>1, KeyTypesAssumption DEF NumTypes
<1>5. NumTypes \in 1..NumTypes
    BY <1>1
<1> QED
    BY <1>1, <1>2, <1>3, <1>4, <1>5

\* A set of numbers has a least one.
LEMMA LeastOf ==
    ASSUME NEW S \in SUBSET Nat, S # {}
    PROVE  \E n \in S : \A m \in S : n <= m
<1> DEFINE less == {ss \in Nat \X Nat : ss[1] < ss[2]}
<1>1. IsWellFoundedOn(less, Nat)
    BY NatLessThanWellFounded DEF OpToRel
<1> HIDE DEF less
<1>2. PICK n \in S : \A m \in S : <<m, n>> \notin less
    BY <1>1, WFMin
<1>3. \A m \in S : ~(m < n)
    BY <1>2 DEF less
<1> QED
    BY <1>2, <1>3

\* What is read of a table: the key of the first row found, or none.
LEMMA ReadFirst ==
    ASSUME NEW table \in Seq(Row), NEW t, NEW bits
    PROVE  \/ Found(table, t, bits) = {} /\ ReadKey(table, t, bits) = NoKey
           \/ \E i \in Found(table, t, bits) :
                  /\ \A j \in Found(table, t, bits) : i <= j
                  /\ ReadKey(table, t, bits) = table[i].key /\ table[i].key \in Key
                  /\ ReadKey(table, t, bits) # NoKey
<1> DEFINE found == Found(table, t, bits)
           first == CHOOSE i \in found : \A j \in found : i <= j
<1>1. ReadKey(table, t, bits) = IF found = {} THEN NoKey ELSE table[first].key
    BY DEF ReadKey, Found, SizeFits
<1>2. found \subseteq DOMAIN table /\ DOMAIN table \subseteq Nat
    BY DEF Found
<1> HIDE DEF found
<1>3. CASE found = {}
    BY <1>1, <1>3 DEF found
<1>4. CASE found # {}
    <2>1. \E i \in found : \A j \in found : i <= j
        BY <1>2, <1>4, LeastOf
    <2>2. first \in found /\ \A j \in found : first <= j
        BY <2>1
    <2>3. table[first] \in Row
        BY <1>2, <2>2, ElementOfSeq
    <2>4. table[first].key \in Key
        BY <2>3 DEF Row
    <2>5. NoKey \notin Key
        BY DEF NoKey, Key
    <2> QED
        BY <1>1, <1>4, <2>2, <2>4, <2>5 DEF found
<1> QED
    BY <1>3, <1>4

\* A key is found when there is a row of the type and the size fits.
LEMMA ReadFinds ==
    ASSUME NEW table \in Seq(Row), NEW t, NEW bits
    PROVE  ReadKey(table, t, bits) # NoKey <=> t \in TypesIn(table) /\ SizeFits(t, bits)
<1>1. Found(table, t, bits) # {} <=> t \in TypesIn(table) /\ SizeFits(t, bits)
    BY DEF Found, TypesIn
<1> QED
    BY <1>1, ReadFirst

\* A key that is found is the same whatever size was asked for.
LEMMA ReadAnySize ==
    ASSUME NEW table, NEW t, NEW b, NEW c, SizeFits(t, b), SizeFits(t, c)
    PROVE  ReadKey(table, t, b) = ReadKey(table, t, c)
<1>1. Found(table, t, b) = Found(table, t, c)
    BY DEF Found
<1>2. \A bits : ReadKey(table, t, bits) =
          LET found == Found(table, t, bits) IN
          IF found = {} THEN NoKey ELSE table[CHOOSE i \in found : \A j \in found : i <= j].key
    BY DEF ReadKey, Found, SizeFits
<1> QED
    BY <1>1, <1>2

\* Every type is found under the sizes the services ask for.
LEMMA UsualSizes ==
    ASSUME NEW t
    PROVE  SizeFits(t, 3072) /\ SizeFits(t, RsaBits(t))
    BY DEF SizeFits, RsaBits

\* A row that is added after the one that is found changes nothing.
LEMMA ReadAppend ==
    ASSUME NEW table \in Seq(Row), NEW row \in Row, NEW t, NEW bits,
           ReadKey(table, t, bits) # NoKey
    PROVE  ReadKey(Append(table, row), t, bits) = ReadKey(table, t, bits)
<1> DEFINE longer == Append(table, row)
<1>1. longer \in Seq(Row) /\ Len(longer) = Len(table) + 1
      /\ \A i \in 1..Len(table) : longer[i] = table[i]
    BY AppendProperties
<1>2. DOMAIN table = 1..Len(table) /\ DOMAIN longer = 1..(Len(table) + 1) /\ Len(table) \in Nat
    BY <1>1
<1> HIDE DEF longer
<1>3. PICK i \in Found(table, t, bits) :
          (\A j \in Found(table, t, bits) : i <= j) /\ ReadKey(table, t, bits) = table[i].key
    BY ReadFirst
<1>4. i \in 1..Len(table) /\ i \in Found(longer, t, bits)
    BY <1>1, <1>2, <1>3 DEF Found
<1>5. PICK k \in Found(longer, t, bits) :
          (\A j \in Found(longer, t, bits) : k <= j) /\ ReadKey(longer, t, bits) = longer[k].key
    BY <1>1, <1>4, ReadFirst
<1>6. k <= i /\ k \in 1..Len(table)
    BY <1>2, <1>4, <1>5 DEF Found
<1>7. k \in Found(table, t, bits)
    BY <1>1, <1>2, <1>5, <1>6 DEF Found
<1>8. k = i
    BY <1>3, <1>4, <1>6, <1>7
<1> QED
    BY <1>1, <1>3, <1>5, <1>6, <1>8 DEF longer

\* Adding a key of a type: there is one then, and whatever was found is found again.
LEMMA InsertKeeps ==
    ASSUME NEW table \in Seq(Row), NEW row \in Row
    PROVE  LET after == InsertOrIgnore(table, row) IN
           /\ after \in Seq(Row)
           /\ TypesIn(after) = TypesIn(table) \cup {row.type}
           /\ \A t, bits : ReadKey(table, t, bits) # NoKey =>
                               ReadKey(after, t, bits) = ReadKey(table, t, bits)
<1> DEFINE after == InsertOrIgnore(table, row)
<1>1. CASE after = table /\ row.type \in TypesIn(table)
    BY <1>1
<1>2. CASE after = Append(table, row)
    <2>1. /\ after \in Seq(Row) /\ Len(after) = Len(table) + 1
          /\ \A i \in 1..Len(table) : after[i] = table[i]
          /\ after[Len(table) + 1] = row
        BY <1>2, AppendProperties
    <2>2. DOMAIN table = 1..Len(table) /\ DOMAIN after = 1..(Len(table) + 1) /\ Len(table) \in Nat
        BY <2>1
    <2> HIDE DEF after
    <2>3. DOMAIN after = DOMAIN table \cup {Len(table) + 1}
        BY <2>2
    <2>4. TypesIn(after) = TypesIn(table) \cup {row.type}
        BY <2>1, <2>2, <2>3 DEF TypesIn
    <2> QED
        BY <1>2, <2>1, <2>4, ReadAppend DEF after
<1>3. \/ after = table /\ row.type \in TypesIn(table)
      \/ after = Append(table, row)
    BY DEF InsertOrIgnore, TypesIn
<1> QED
    BY <1>1, <1>2, <1>3

\* What a process draws for a type makes a row of it.
LEMMA DrawnRow ==
    ASSUME NEW p \in Procs, NEW role \in {"mfg", "owner"}, NEW t \in Types
    PROVE  [type |-> t, key |-> Drawn(p, role, t)] \in Row
<1>1. AlgOf(t) \in Algs
    BY TypeFacts DEF AlgOf, Algs
<1> QED
    BY <1>1 DEF Row, Key, Drawn

------------------------------------------------------------------------------
(* The inductive invariant.                                                  *)

\* What is stored or held and was made with keys of a table of owner keys.
VoucherIn(table, v) ==
    v.type \in Types /\ v.owner # NoKey /\ v.owner = ReadKey(table, v.type, 3072)
DelegateIn(table, d) ==
    \E t \in Types, perms \in CreatePerms, algs \in CreateKeys, name \in Names, p \in Procs :
        LET owner == ReadKey(table, t, 0)
            keys == DrawnFor(p, algs)
        IN /\ owner # NoKey
           /\ d.chain = CreateChain(owner, name, t, perms, keys) /\ d.key = LastKey(owner, keys)
PrintedIn(table, o) ==
    o.type \in Types /\ o.key # NoKey /\ o.key = ReadKey(table, o.type, 3072)

Shape ==
    /\ mfg_keys \in Seq(Row) /\ owner_keys \in Seq(Row)
    /\ pc = [p \in Procs |-> pc[p]]
    /\ job = [p \in Procs |-> job[p]]
    /\ output = [p \in Procs |-> output[p]]

\* The key that a server needs to start is added after all other manufacturer keys.
AllMfgKeys == Types \subseteq TypesIn(mfg_keys)
LastMeansAll == "SECP384R1" \in TypesIn(mfg_keys) => AllMfgKeys

\* A process knows what it needs for its next step, and what it printed is good.
GenerateOK(p) ==
    pc[p] = "generate" =>
        /\ job[p].n \in 1..(2 * NumTypes)
        /\ \A k \in 1..NumTypes : k < job[p].n => KeyTypes[k] \in TypesIn(mfg_keys)
ServingOK(p) ==
    /\ pc[p] \in {"serving", "header", "extended", "register"} => AllMfgKeys
    /\ pc[p] = "header" =>
           LET v == job[p].voucher IN
           /\ job[p] = [of |-> "voucher", guid |-> job[p].guid,
                        voucher |-> [type |-> v.type, mfg |-> v.mfg, owner |-> v.owner]]
           /\ v.type \in Types
    /\ pc[p] \in {"extended", "register"} => VoucherIn(owner_keys, job[p].voucher)
SignedOK(p) ==
    /\ pc[p] = "signed" => To1dVerifies(job[p].blob)
    /\ pc[p] = "created" => DelegateIn(owner_keys, job[p])
OutputOK(p) == output[p].kind = "printed" => PrintedIn(owner_keys, output[p])
ProcOK(p) == GenerateOK(p) /\ ServingOK(p) /\ SignedOK(p) /\ OutputOK(p)

StoredOK ==
    /\ \A g \in DOMAIN vouchers : VoucherIn(owner_keys, vouchers[g])
    /\ \A g \in DOMAIN rv_blobs : To1dVerifies(rv_blobs[g])
    /\ \A n \in DOMAIN delegate_keys : DelegateIn(owner_keys, delegate_keys[n])

Inv == Shape /\ LastMeansAll /\ StoredOK /\ \A p \in Procs : ProcOK(p)

------------------------------------------------------------------------------
(* Steps keep what is found.                                                 *)

\* A later state of a table of keys.
Keeps(table, later) ==
    /\ later \in Seq(Row)
    /\ TypesIn(table) \subseteq TypesIn(later)
    /\ \A t, bits : ReadKey(table, t, bits) # NoKey =>
                        ReadKey(later, t, bits) = ReadKey(table, t, bits)
TablesKept == Keeps(mfg_keys, mfg_keys') /\ Keeps(owner_keys, owner_keys')

\* What was made with keys of a table is good for any later one.
LEMMA MadeKept ==
    ASSUME NEW table, NEW later, Keeps(table, later)
    PROVE  \A x : /\ VoucherIn(table, x) => VoucherIn(later, x)
                  /\ DelegateIn(table, x) => DelegateIn(later, x)
                  /\ PrintedIn(table, x) => PrintedIn(later, x)
<1> TAKE x
<1>1. VoucherIn(table, x) => VoucherIn(later, x)
    BY DEF Keeps, VoucherIn
<1>2. PrintedIn(table, x) => PrintedIn(later, x)
    BY DEF Keeps, PrintedIn
<1>3. ASSUME DelegateIn(table, x) PROVE DelegateIn(later, x)
    <2>1. PICK t \in Types, perms \in CreatePerms, algs \in CreateKeys, name \in Names, p \in Procs :
              LET owner == ReadKey(table, t, 0)
                  keys == DrawnFor(p, algs)
              IN /\ owner # NoKey
                 /\ x.chain = CreateChain(owner, name, t, perms, keys) /\ x.key = LastKey(owner, keys)
        BY <1>3 DEF DelegateIn
    <2>2. ReadKey(later, t, 0) = ReadKey(table, t, 0)
        BY <2>1 DEF Keeps
    <2> QED
        BY <2>1, <2>2 DEF DelegateIn
<1> QED
    BY <1>1, <1>2, <1>3

\* A step of one process.
Moves(p) ==
    /\ pc' = [pc EXCEPT ![p] = pc'[p]]
    /\ job' = [job EXCEPT ![p] = job'[p]]
    /\ output' = [output EXCEPT ![p] = output'[p]]

\* A process goes on without an output.
LEMMA Goes ==
    ASSUME Shape, NEW p \in Procs, NEW place, NEW known, Go(p, place, known)
    PROVE  Moves(p) /\ pc'[p] = place /\ job'[p] = known /\ output'[p] = output[p]
    BY DEF Shape, Go, Moves

\* A process ends.
LEMMA Ends ==
    ASSUME Shape, NEW p \in Procs, NEW result, End(p, result)
    PROVE  Moves(p) /\ pc'[p] = "done" /\ output'[p] = result
    BY DEF Shape, End, Moves

\* A step of a process keeps the invariant when it leaves the process with what it needs,
\* and the tables with what is good.
LEMMA StepKeeps ==
    ASSUME Inv, TablesKept, NEW p \in Procs, Moves(p),
           GenerateOK(p)', ServingOK(p)', SignedOK(p)',
           output'[p] = output[p] \/ OutputOK(p)', StoredOK', LastMeansAll'
    PROVE  Inv'
<1>1. Shape'
    BY DEF Inv, Shape, Moves, TablesKept, Keeps
<1>2. \A x : /\ VoucherIn(owner_keys, x) => VoucherIn(owner_keys', x)
             /\ DelegateIn(owner_keys, x) => DelegateIn(owner_keys', x)
             /\ PrintedIn(owner_keys, x) => PrintedIn(owner_keys', x)
    BY MadeKept DEF TablesKept
<1>3. TypesIn(mfg_keys) \subseteq TypesIn(mfg_keys')
    BY DEF TablesKept, Keeps
<1>4. OutputOK(p)'
    BY <1>2 DEF OutputOK, Inv, ProcOK
<1>5. ASSUME NEW q \in Procs, q # p
      PROVE  ProcOK(q)'
    <2>1. pc'[q] = pc[q] /\ job'[q] = job[q] /\ output'[q] = output[q]
        BY <1>5 DEF Moves, Inv, Shape
    <2>2. ProcOK(q)
        BY DEF Inv
    <2>3. GenerateOK(q)'
        BY <1>3, <2>1, <2>2 DEF ProcOK, GenerateOK
    <2>4. ServingOK(q)'
        BY <1>2, <1>3, <2>1, <2>2 DEF ProcOK, ServingOK, AllMfgKeys
    <2>5. SignedOK(q)'
        BY <1>2, <2>1, <2>2 DEF ProcOK, SignedOK
    <2>6. OutputOK(q)'
        BY <1>2, <2>1, <2>2 DEF ProcOK, OutputOK
    <2> QED
        BY <2>3, <2>4, <2>5, <2>6 DEF ProcOK
<1>6. ProcOK(p)'
    BY <1>4 DEF ProcOK
<1> QED
    BY <1>1, <1>5, <1>6 DEF Inv

\* A step that leaves the tables of keys alone keeps what is found in them.
LEMMA KeysSame ==
    ASSUME Inv, UNCHANGED <<mfg_keys, owner_keys>>
    PROVE  TablesKept /\ LastMeansAll'
<1>1. TablesKept
    BY DEF Inv, Shape, TablesKept, Keeps
<1>2. LastMeansAll'
    BY DEF Inv, LastMeansAll, AllMfgKeys
<1> QED
    BY <1>1, <1>2

\* What is stored stays good when no step stores anything.
LEMMA StoredSame ==
    ASSUME Inv, TablesKept, UNCHANGED <<delegate_keys, vouchers, rv_blobs>>
    PROVE  StoredOK'
    BY MadeKept DEF Inv, StoredOK, TablesKept

\* A step that only reads.
LEMMA ReadKeeps ==
    ASSUME Inv, UNCHANGED tables, NEW p \in Procs, Moves(p),
           GenerateOK(p)', ServingOK(p)', SignedOK(p)',
           output'[p] = output[p] \/ OutputOK(p)'
    PROVE  Inv'
<1>1. UNCHANGED <<mfg_keys, owner_keys>> /\ UNCHANGED <<delegate_keys, vouchers, rv_blobs>>
    BY DEF tables
<1> QED
    BY <1>1, KeysSame, StoredSame, StepKeeps

\* A process at one of the other places needs nothing.
LEMMA AtRest ==
    ASSUME NEW p, pc'[p] \in {"open", "run", "done"}
    PROVE  GenerateOK(p)' /\ ServingOK(p)' /\ SignedOK(p)'
    BY DEF GenerateOK, ServingOK, SignedOK

\* A process that ends without a key keeps the invariant if the tables do.
LEMMA EndKeeps ==
    ASSUME Inv, UNCHANGED tables, NEW p \in Procs, NEW result, End(p, result),
           result.kind # "printed"
    PROVE  Inv'
<1>1. Moves(p) /\ pc'[p] = "done" /\ output'[p] = result
    BY Ends DEF Inv
<1>2. OutputOK(p)'
    BY <1>1 DEF OutputOK
<1>3. GenerateOK(p)' /\ ServingOK(p)' /\ SignedOK(p)'
    BY <1>1 DEF GenerateOK, ServingOK, SignedOK
<1> QED
    BY <1>1, <1>2, <1>3, ReadKeeps

\* So does one that goes on to a place where it needs nothing.
LEMMA RestKeeps ==
    ASSUME Inv, UNCHANGED tables, NEW p \in Procs, NEW place, NEW known, Go(p, place, known),
           place \in {"open", "run"}
    PROVE  Inv'
<1>1. Moves(p) /\ pc'[p] = place /\ output'[p] = output[p]
    BY Goes DEF Inv
<1> QED
    BY <1>1, AtRest, ReadKeeps

------------------------------------------------------------------------------
(* The steps, one by one.                                                    *)

\* A command starts.
LEMMA StartInv ==
    ASSUME Inv, NEW p \in Procs, Start(p)
    PROVE  Inv'
<1>1. PICK c \in Commands : Go(p, "open", [of |-> "open", absent |-> c # "create" /\ ~file])
    BY DEF Start
<1> QED
    BY <1>1, RestKeeps DEF Start

\* A first start begins with the first key.
LEMMA OpenInv ==
    ASSUME Inv, NEW p \in Procs, Open(p)
    PROVE  Inv'
<1>0. UNCHANGED tables
    BY DEF Open
<1>1. CASE Go(p, "generate", [of |-> "generate", n |-> 1])
    <2>1. Moves(p) /\ pc'[p] = "generate" /\ job'[p] = [of |-> "generate", n |-> 1]
          /\ output'[p] = output[p]
        BY <1>1, Goes DEF Inv
    <2>2. GenerateOK(p)'
        BY <2>1, TypeFacts DEF GenerateOK
    <2>3. ServingOK(p)' /\ SignedOK(p)'
        BY <2>1 DEF ServingOK, SignedOK
    <2> QED
        BY <1>0, <2>1, <2>2, <2>3, ReadKeeps
<1>2. CASE Go(p, "run", NoJob)
    BY <1>0, <1>2, RestKeeps
<1> QED
    BY <1>1, <1>2 DEF Open

\* A first start adds keys of all types, in the order of the key types, and manufacturer
\* keys first.
LEMMA AddKeyInserts ==
    ASSUME Inv, NEW p \in Procs, AddKey(p)
    PROVE  /\ TablesKept
           /\ IF job[p].n <= NumTypes
              THEN TypesIn(mfg_keys') = TypesIn(mfg_keys) \cup {KeyTypes[job[p].n]}
              ELSE mfg_keys' = mfg_keys
<1> DEFINE n == job[p].n
           t == TypeAt(n)
<1>1. n \in 1..(2 * NumTypes)
    BY DEF Inv, ProcOK, GenerateOK, AddKey
<1>2. t \in Types /\ (n <= NumTypes => t = KeyTypes[n])
    BY <1>1, TypeFacts DEF TypeAt
<1>3. mfg_keys \in Seq(Row) /\ owner_keys \in Seq(Row)
    BY DEF Inv, Shape
<1>4. CASE n <= NumTypes
    <2> DEFINE row == [type |-> t, key |-> Drawn(p, "mfg", t)]
    <2>1. row \in Row /\ row.type = t
        BY <1>2, DrawnRow
    <2>2. mfg_keys' = InsertOrIgnore(mfg_keys, row) /\ owner_keys' = owner_keys
        BY <1>4 DEF AddKey
    <2> HIDE DEF row
    <2> QED
        BY <1>2, <1>3, <1>4, <2>1, <2>2, InsertKeeps DEF TablesKept, Keeps
<1>5. CASE ~(n <= NumTypes)
    <2> DEFINE row == [type |-> t, key |-> Drawn(p, "owner", t)]
    <2>1. row \in Row /\ row.type = t
        BY <1>2, DrawnRow
    <2>2. owner_keys' = InsertOrIgnore(owner_keys, row) /\ mfg_keys' = mfg_keys
        BY <1>5 DEF AddKey
    <2> HIDE DEF row
    <2> QED
        BY <1>2, <1>3, <1>5, <2>1, <2>2, InsertKeeps DEF TablesKept, Keeps
<1> QED
    BY <1>4, <1>5

\* When the last manufacturer key is added, the others are there.
LEMMA AddKeyInv ==
    ASSUME Inv, NEW p \in Procs, AddKey(p)
    PROVE  Inv'
<1> DEFINE n == job[p].n
<1>1. n \in 1..(2 * NumTypes) /\ \A k \in 1..NumTypes : k < n => KeyTypes[k] \in TypesIn(mfg_keys)
    BY DEF Inv, ProcOK, GenerateOK, AddKey
<1>2. TablesKept
    BY AddKeyInserts
<1>3. \A k \in 1..NumTypes : k < n + 1 => KeyTypes[k] \in TypesIn(mfg_keys')
    <2> SUFFICES ASSUME NEW k \in 1..NumTypes, k < n + 1 PROVE KeyTypes[k] \in TypesIn(mfg_keys')
        OBVIOUS
    <2>1. CASE k < n
        BY <1>1, <1>2, <2>1 DEF TablesKept, Keeps
    <2>2. CASE k = n
        BY <2>2, AddKeyInserts
    <2> QED
        BY <1>1, <2>1, <2>2, TypeFacts
<1>4. LastMeansAll'
    <2>1. CASE TypesIn(mfg_keys') = TypesIn(mfg_keys)
        BY <2>1 DEF Inv, LastMeansAll, AllMfgKeys
    <2>2. CASE n <= NumTypes /\ TypesIn(mfg_keys') = TypesIn(mfg_keys) \cup {KeyTypes[n]}
        <3>1. CASE n = NumTypes
            <4>1. \A k \in 1..NumTypes : KeyTypes[k] \in TypesIn(mfg_keys')
                BY <1>1, <1>3, <3>1, TypeFacts
            <4> QED
                BY <4>1, TypeFacts DEF LastMeansAll, AllMfgKeys, Types
        <3>2. CASE n # NumTypes
            <4>1. KeyTypes[n] # "SECP384R1"
                BY <1>1, <2>2, <3>2, TypeFacts
            <4> QED
                BY <2>2, <4>1 DEF Inv, LastMeansAll, AllMfgKeys
        <3> QED
            BY <3>1, <3>2
    <2> QED
        BY <2>1, <2>2, AddKeyInserts
<1>5. StoredOK'
    <2>1. UNCHANGED <<delegate_keys, vouchers, rv_blobs>>
        BY DEF AddKey
    <2> QED
        BY <1>2, <2>1, StoredSame
<1>6. CASE n < 2 * NumTypes
    <2>1. Go(p, "generate", [of |-> "generate", n |-> n + 1])
        BY <1>6 DEF AddKey
    <2>2. Moves(p) /\ pc'[p] = "generate" /\ job'[p].n = n + 1 /\ output'[p] = output[p]
        BY <2>1, Goes DEF Inv
    <2>3. GenerateOK(p)'
        BY <1>1, <1>3, <1>6, <2>2, TypeFacts DEF GenerateOK
    <2>4. ServingOK(p)' /\ SignedOK(p)'
        BY <2>2 DEF ServingOK, SignedOK
    <2> QED
        BY <1>2, <1>4, <1>5, <2>2, <2>3, <2>4, StepKeeps
<1>7. CASE ~(n < 2 * NumTypes)
    <2>1. Go(p, "run", NoJob)
        BY <1>7 DEF AddKey
    <2>2. Moves(p) /\ pc'[p] = "run" /\ output'[p] = output[p]
        BY <2>1, Goes DEF Inv
    <2> QED
        BY <1>2, <1>4, <1>5, <2>2, AtRest, StepKeeps
<1> QED
    BY <1>6, <1>7

\* A server that starts has manufacturer keys of all types.
LEMMA ServeInv ==
    ASSUME Inv, NEW p \in Procs, Serve(p)
    PROVE  Inv'
<1>0. UNCHANGED tables /\ mfg_keys' = mfg_keys
    BY DEF Serve, tables
<1>1. CASE End(p, Error)
    BY <1>0, <1>1, EndKeeps DEF Error, Nothing
<1>2. CASE ManufacturerKey("SECP384R1", 0) # NoKey /\ Go(p, "serving", NoJob)
    <2>1. Moves(p) /\ pc'[p] = "serving" /\ output'[p] = output[p]
        BY <1>2, Goes DEF Inv
    <2>2. AllMfgKeys'
        BY <1>0, <1>2, ReadFinds DEF ManufacturerKey, Inv, Shape, LastMeansAll, AllMfgKeys
    <2>3. GenerateOK(p)' /\ ServingOK(p)' /\ SignedOK(p)'
        BY <2>1, <2>2 DEF GenerateOK, ServingOK, SignedOK
    <2> QED
        BY <1>0, <2>1, <2>3, ReadKeeps
<1> QED
    BY <1>1, <1>2 DEF Serve

\* A server that goes on serving keeps its manufacturer keys.
LEMMA ServingKeeps ==
    ASSUME Inv, NEW p \in Procs, NEW known, Go(p, "serving", known), UNCHANGED tables, AllMfgKeys
    PROVE  Inv'
<1>1. Moves(p) /\ pc'[p] = "serving" /\ output'[p] = output[p]
    BY Goes DEF Inv
<1>2. AllMfgKeys'
    BY DEF AllMfgKeys, tables
<1>3. GenerateOK(p)' /\ ServingOK(p)' /\ SignedOK(p)'
    BY <1>1, <1>2 DEF GenerateOK, ServingOK, SignedOK
<1> QED
    BY <1>1, <1>3, ReadKeeps

\* A device is initialized with the manufacturer key of its type.
LEMMA AppStartInv ==
    ASSUME Inv, NEW p \in Procs, AppStart(p)
    PROVE  Inv'
<1>0. UNCHANGED tables /\ AllMfgKeys'
    <2>1. AllMfgKeys
        <3>1. pc[p] = "serving"
            BY DEF AppStart
        <3> QED
            BY <3>1 DEF Inv, ProcOK, ServingOK
    <2>2. UNCHANGED tables
        BY DEF AppStart
    <2>3. mfg_keys' = mfg_keys
        BY <2>2 DEF tables
    <2> QED
        BY <2>1, <2>2, <2>3 DEF AllMfgKeys
<1>1. PICK t \in Types :
          Go(p, "header", [of |-> "voucher", guid |-> <<"DI", p>>,
                           voucher |-> [type |-> t, mfg |-> ManufacturerKey(t, 3072),
                                        owner |-> ManufacturerKey(t, 3072)]])
    BY DEF AppStart
<1>2. PICK k : k = ManufacturerKey(t, 3072)
    OBVIOUS
<1>3. /\ Moves(p) /\ pc'[p] = "header" /\ output'[p] = output[p]
      /\ job'[p] = [of |-> "voucher", guid |-> <<"DI", p>>,
                    voucher |-> [type |-> t, mfg |-> k, owner |-> k]]
    BY <1>1, <1>2, Goes DEF Inv
<1>4. GenerateOK(p)' /\ ServingOK(p)' /\ SignedOK(p)'
    BY <1>0, <1>3 DEF GenerateOK, ServingOK, SignedOK
<1> QED
    BY <1>0, <1>3, <1>4, ReadKeeps

\* A voucher is extended to the owner key that is found for its type.
LEMMA ExtendInv ==
    ASSUME Inv, NEW p \in Procs, Extend(p)
    PROVE  Inv'
<1>0. UNCHANGED tables /\ owner_keys' = owner_keys /\ AllMfgKeys /\ AllMfgKeys'
    BY DEF Extend, tables, Inv, ProcOK, ServingOK, AllMfgKeys
<1> DEFINE v == job[p].voucher
           owner == OwnerKey(v.type, RsaBits(v.type))
<1>1. CASE Go(p, "serving", NoJob)
    BY <1>0, <1>1, ServingKeeps
<1>2. CASE owner # NoKey /\ Go(p, "extended", [job[p] EXCEPT !.voucher.owner = owner])
    <2>1. /\ job[p] = [of |-> "voucher", guid |-> job[p].guid,
                       voucher |-> [type |-> v.type, mfg |-> v.mfg, owner |-> v.owner]]
          /\ v.type \in Types
        BY DEF Extend, Inv, ProcOK, ServingOK
    <2>2. /\ Moves(p) /\ pc'[p] = "extended" /\ output'[p] = output[p]
          /\ job'[p] = [job[p] EXCEPT !.voucher.owner = owner]
        BY <1>2, Goes DEF Inv
    <2>3. job'[p].voucher.type = v.type /\ job'[p].voucher.owner = owner
        BY <2>1, <2>2
    <2>4. owner = ReadKey(owner_keys, v.type, 3072)
        BY ReadAnySize, UsualSizes DEF OwnerKey
    <2>5. VoucherIn(owner_keys', job'[p].voucher)
        BY <1>0, <1>2, <2>1, <2>3, <2>4 DEF VoucherIn
    <2>6. GenerateOK(p)' /\ ServingOK(p)' /\ SignedOK(p)'
        BY <1>0, <2>2, <2>5 DEF GenerateOK, ServingOK, SignedOK
    <2> QED
        BY <1>0, <2>2, <2>6, ReadKeeps
<1> QED
    BY <1>1, <1>2 DEF Extend

\* A map with one value put in.
LEMMA WithPuts ==
    ASSUME NEW fn, NEW x, NEW y
    PROVE  \A z \in DOMAIN With(fn, x, y) :
               \/ With(fn, x, y)[z] = y
               \/ z \in DOMAIN fn /\ With(fn, x, y)[z] = fn[z]
    BY DEF With

\* The voucher is stored, and perhaps registered next.
LEMMA AddVoucherInv ==
    ASSUME Inv, NEW p \in Procs, AddVoucher(p)
    PROVE  Inv'
<1>1. VoucherIn(owner_keys, job[p].voucher) /\ AllMfgKeys
    BY DEF AddVoucher, Inv, ProcOK, ServingOK
<1>2. TablesKept /\ LastMeansAll' /\ AllMfgKeys' /\ owner_keys' = owner_keys
    BY <1>1, KeysSame DEF AddVoucher, AllMfgKeys
<1>3. StoredOK'
    <2>1. vouchers' = With(vouchers, job[p].guid, job[p].voucher)
          /\ rv_blobs' = rv_blobs /\ delegate_keys' = delegate_keys
        BY DEF AddVoucher
    <2> QED
        BY <1>1, <1>2, <2>1, WithPuts DEF Inv, StoredOK
<1>4. /\ Moves(p) /\ output'[p] = output[p]
      /\ \/ pc'[p] = "register" /\ job'[p] = job[p]
         \/ pc'[p] = "serving"
    BY Goes DEF Inv, AddVoucher
<1>5. GenerateOK(p)' /\ ServingOK(p)' /\ SignedOK(p)'
    BY <1>1, <1>2, <1>4 DEF GenerateOK, ServingOK, SignedOK
<1> QED
    BY <1>2, <1>3, <1>4, <1>5, StepKeeps

\* What is signed for a voucher with the owner key of its type verifies with its owner.
LEMMA OwnerSigns ==
    ASSUME NEW v, VoucherIn(owner_keys, v)
    PROVE  OwnerKey(v.type, RsaBits(v.type)) = v.owner
    BY ReadAnySize, UsualSizes DEF VoucherIn, OwnerKey

\* The owner key that is read again is the voucher's owner.
LEMMA RegisterInv ==
    ASSUME Inv, NEW p \in Procs, RegisterOwnerAddr(p)
    PROVE  Inv'
<1> DEFINE v == job[p].voucher
           k == OwnerKey(v.type, RsaBits(v.type))
           blob == [signer |-> k, chain |-> <<>>, owner |-> v.owner]
<1>1. VoucherIn(owner_keys, v) /\ AllMfgKeys
    BY DEF RegisterOwnerAddr, Inv, ProcOK, ServingOK
<1>2. TablesKept /\ LastMeansAll' /\ AllMfgKeys' /\ owner_keys' = owner_keys
    BY <1>1, KeysSame DEF RegisterOwnerAddr, AllMfgKeys
<1>3. To1dVerifies(blob)
    BY <1>1, OwnerSigns DEF To1dVerifies
<1>4. rv_blobs' = rv_blobs \/ rv_blobs' = With(rv_blobs, job[p].guid, blob)
    BY DEF RegisterOwnerAddr
<1>5. StoredOK'
    <2>1. vouchers' = vouchers /\ delegate_keys' = delegate_keys
        BY DEF RegisterOwnerAddr
    <2> HIDE DEF blob
    <2>2. \A g \in DOMAIN rv_blobs' : To1dVerifies(rv_blobs'[g])
        BY <1>3, <1>4, WithPuts DEF Inv, StoredOK
    <2> QED
        BY <1>2, <2>1, <2>2 DEF Inv, StoredOK
<1>6. Moves(p) /\ output'[p] = output[p] /\ pc'[p] = "serving"
    BY Goes DEF Inv, RegisterOwnerAddr
<1>7. GenerateOK(p)' /\ ServingOK(p)' /\ SignedOK(p)'
    BY <1>2, <1>6 DEF GenerateOK, ServingOK, SignedOK
<1> QED
    BY <1>2, <1>5, <1>6, <1>7, StepKeeps

\* The owner key that is printed is the one found for the type.
LEMMA PrintInv ==
    ASSUME Inv, NEW p \in Procs, doPrintOwnerPubKey(p)
    PROVE  Inv'
<1>0. UNCHANGED tables
    BY DEF doPrintOwnerPubKey
<1>1. PICK t \in Types :
          End(p, IF OwnerKey(t, 3072) = NoKey THEN Error
                 ELSE [kind |-> "printed", type |-> t, key |-> OwnerKey(t, 3072)])
    BY DEF doPrintOwnerPubKey
<1>2. CASE OwnerKey(t, 3072) = NoKey
    BY <1>0, <1>1, <1>2, EndKeeps DEF Error, Nothing
<1>3. CASE OwnerKey(t, 3072) # NoKey
    <2>1. PICK k : k = OwnerKey(t, 3072)
        OBVIOUS
    <2>2. End(p, [kind |-> "printed", type |-> t, key |-> k])
        BY <1>1, <1>3, <2>1
    <2>3. Moves(p) /\ pc'[p] = "done" /\ output'[p] = [kind |-> "printed", type |-> t, key |-> k]
        BY <2>2, Ends DEF Inv
    <2>4. owner_keys' = owner_keys
        BY <1>0 DEF tables
    <2>5. OutputOK(p)'
        <3>0. output'[p] = [kind |-> "printed", type |-> t, key |-> k]
            BY <2>3
        <3>1. output'[p].type = t /\ output'[p].key = k
            BY <3>0
        <3>2. k # NoKey /\ k = ReadKey(owner_keys', t, 3072)
            BY <1>3, <2>1, <2>4 DEF OwnerKey
        <3> QED
            BY <3>1, <3>2 DEF OutputOK, PrintedIn
    <2>6. pc'[p] \in {"open", "run", "done"}
        BY <2>3
    <2>7. GenerateOK(p)' /\ ServingOK(p)' /\ SignedOK(p)'
        BY <2>6, AtRest
    <2> QED
        BY <1>0, <2>3, <2>5, <2>7, ReadKeeps
<1> QED
    BY <1>2, <1>3

\* A voucher is imported when its owner is the key found for its type.
LEMMA ImportInv ==
    ASSUME Inv, NEW p \in Procs, doImportVoucher(p)
    PROVE  Inv'
<1>1. PICK v \in Vouchers :
          \/ End(p, Error) /\ UNCHANGED vouchers
          \/ /\ ImportKey(v) # NoKey /\ End(p, Nothing)
             /\ vouchers' = With(vouchers, <<"import", v.type>>, v)
    BY DEF doImportVoucher
<1>2. UNCHANGED <<mfg_keys, owner_keys, delegate_keys, rv_blobs>>
    BY DEF doImportVoucher
<1>3. CASE End(p, Error) /\ UNCHANGED vouchers
    <2>1. UNCHANGED tables
        BY <1>2, <1>3 DEF tables
    <2> QED
        BY <1>3, <2>1, EndKeeps DEF Error, Nothing
<1>4. CASE /\ ImportKey(v) # NoKey /\ End(p, Nothing)
           /\ vouchers' = With(vouchers, <<"import", v.type>>, v)
    <2>1. VoucherIn(owner_keys, v)
        <3>1. v.type \in Types
            BY DEF Vouchers
        <3> QED
            BY <1>4, <3>1 DEF ImportKey, OwnerKey, VoucherIn
    <2>2. TablesKept /\ LastMeansAll'
        BY <1>2, KeysSame
    <2>3. StoredOK'
        BY <1>2, <1>4, <2>1, WithPuts DEF Inv, StoredOK
    <2>4. Moves(p) /\ pc'[p] = "done" /\ output'[p] = Nothing
        BY <1>4, Ends DEF Inv
    <2>5. OutputOK(p)'
        <3>0. output'[p] = Nothing
            BY <2>4
        <3>1. output'[p].kind = "nothing"
            BY <3>0 DEF Nothing
        <3> QED
            BY <3>1 DEF OutputOK
    <2>6. pc'[p] \in {"open", "run", "done"}
        BY <2>4
    <2>7. GenerateOK(p)' /\ ServingOK(p)' /\ SignedOK(p)'
        BY <2>6, AtRest
    <2> QED
        BY <2>2, <2>3, <2>4, <2>5, <2>7, StepKeeps
<1> QED
    BY <1>1, <1>3, <1>4

\* Selling ends in an error.
LEMMA ResellInv ==
    ASSUME Inv, NEW p \in Procs, resell(p)
    PROVE  Inv'
    BY EndKeeps DEF resell, Error, Nothing

\* The keys a process draws for a chain are as many as the key types given.
LEMMA DrawnSeq ==
    ASSUME NEW p \in Procs, NEW algs \in CreateKeys
    PROVE  \E K : DrawnFor(p, algs) \in Seq(K) /\ (DrawnFor(p, algs) # <<>> <=> algs # <<>>)
<1>1. algs \in Seq(Algs)
    BY CreateKeysAssumption
<1>2. DOMAIN algs = 1..Len(algs) /\ Len(algs) \in Nat
    BY <1>1
<1> DEFINE keys == DrawnFor(p, algs)
           K == {keys[i] : i \in 1..Len(algs)}
<1>3. DOMAIN keys = 1..Len(algs)
    BY <1>2 DEF DrawnFor
<1>4. keys \in [1..Len(algs) -> K]
    <2>1. keys = [i \in 1..Len(algs) |-> keys[i]]
        BY <1>2 DEF DrawnFor
    <2> HIDE DEF keys
    <2> QED
        BY <2>1
<1> HIDE DEF keys
<1>5. [1..Len(algs) -> K] \subseteq Seq(K)
    BY <1>2
<1>6. keys \in Seq(K) /\ Len(keys) = Len(algs)
    BY <1>2, <1>3, <1>4, <1>5
<1>7. keys # <<>> <=> algs # <<>>
    BY <1>1, <1>6, EmptySeq
<1> QED
    BY <1>6, <1>7 DEF keys

\* The key of a delegate is its leaf's.
LEMMA DelegateKey ==
    ASSUME NEW d, DelegateIn(owner_keys, d), d.chain # <<>>
    PROVE  d.chain[1].key = d.key
<1>1. PICK t \in Types, perms \in CreatePerms, algs \in CreateKeys, name \in Names, p \in Procs :
          LET owner == ReadKey(owner_keys, t, 0)
              keys == DrawnFor(p, algs)
          IN d.chain = CreateChain(owner, name, t, perms, keys) /\ d.key = LastKey(owner, keys)
    BY DEF DelegateIn
<1>2. PICK K : DrawnFor(p, algs) \in Seq(K) /\ (DrawnFor(p, algs) # <<>> <=> algs # <<>>)
    BY DrawnSeq
<1>3. DrawnFor(p, algs) # <<>>
    BY <1>1, <1>2 DEF CreateChain
<1> QED
    BY <1>1, <1>2, <1>3, CreatedVerifies

\* A blob is signed with a key that verifies it.
LEMMA BlobVerifies ==
    ASSUME StoredOK, NEW v, VoucherIn(owner_keys, v), NEW name, Blob(v, name).signer # NoKey
    PROVE  To1dVerifies(Blob(v, name))
<1> DEFINE owner == OwnerKey(v.type, RsaBits(v.type))
           n == Resolve(name, v.type)
<1>1. CASE name = NoName
    BY <1>1, OwnerSigns DEF Blob, To1dVerifies
<1>2. CASE name # NoName /\ n \in DOMAIN delegate_keys /\ ChainKeyFits(delegate_keys[n].chain, Class(owner))
    <2>1. delegate_keys[n].chain # <<>> /\ DelegateIn(owner_keys, delegate_keys[n])
        BY <1>2 DEF ChainKeyFits, StoredOK
    <2>2. delegate_keys[n].chain[1].key = delegate_keys[n].key
        BY <2>1, DelegateKey
    <2>3. Blob(v, name) = [signer |-> delegate_keys[n].key, chain |-> delegate_keys[n].chain,
                           owner |-> v.owner]
        BY <1>2 DEF Blob
    <2> QED
        BY <2>1, <2>2, <2>3 DEF To1dVerifies
<1>3. CASE name # NoName /\ ~(n \in DOMAIN delegate_keys /\ ChainKeyFits(delegate_keys[n].chain, Class(owner)))
    BY <1>3 DEF Blob
<1> QED
    BY <1>1, <1>2, <1>3

\* A redirect is signed for a stored voucher.
LEMMA SignInv ==
    ASSUME Inv, NEW p \in Procs, ownerSign(p)
    PROVE  Inv'
<1>0. UNCHANGED tables
    BY DEF ownerSign
<1>1. PICK g \in DOMAIN vouchers, name \in Names \cup {NoName, TypeName} :
          \/ End(p, Error)
          \/ /\ Blob(vouchers[g], name).signer # NoKey
             /\ Go(p, "signed", [of |-> "blob", guid |-> g, blob |-> Blob(vouchers[g], name)])
    BY DEF ownerSign
<1>2. CASE End(p, Error)
    BY <1>0, <1>2, EndKeeps DEF Error, Nothing
<1>3. CASE /\ Blob(vouchers[g], name).signer # NoKey
           /\ Go(p, "signed", [of |-> "blob", guid |-> g, blob |-> Blob(vouchers[g], name)])
    <2>1. PICK b : b = Blob(vouchers[g], name)
        OBVIOUS
    <2>2. To1dVerifies(b)
        BY <1>3, <2>1, BlobVerifies DEF Inv, StoredOK
    <2>3. Moves(p) /\ pc'[p] = "signed" /\ job'[p].blob = b /\ output'[p] = output[p]
        <3>1. Go(p, "signed", [of |-> "blob", guid |-> g, blob |-> b])
            BY <1>3, <2>1
        <3>2. Moves(p) /\ pc'[p] = "signed" /\ job'[p] = [of |-> "blob", guid |-> g, blob |-> b]
              /\ output'[p] = output[p]
            BY <3>1, Goes DEF Inv
        <3>3. job'[p] = [of |-> "blob", guid |-> g, blob |-> b]
            BY <3>2
        <3>4. job'[p].blob = b
            BY <3>3
        <3> QED
            BY <3>2, <3>4
    <2>4. GenerateOK(p)' /\ ServingOK(p)' /\ SignedOK(p)'
        BY <2>2, <2>3 DEF GenerateOK, ServingOK, SignedOK
    <2> QED
        BY <1>0, <2>3, <2>4, ReadKeeps
<1> QED
    BY <1>1, <1>2, <1>3

\* A process that stored what it held ends.
LEMMA DoneKeeps ==
    ASSUME Inv, UNCHANGED <<mfg_keys, owner_keys>>, NEW p \in Procs, End(p, Nothing), StoredOK'
    PROVE  Inv'
<1>1. TablesKept /\ LastMeansAll'
    BY KeysSame
<1>2. Moves(p) /\ pc'[p] = "done" /\ output'[p] = Nothing
    BY Ends DEF Inv
<1>3. OutputOK(p)'
    <2>0. output'[p] = Nothing
        BY <1>2
    <2>1. output'[p].kind = "nothing"
        BY <2>0 DEF Nothing
    <2> QED
        BY <2>1 DEF OutputOK
<1>4. pc'[p] \in {"open", "run", "done"}
    BY <1>2
<1>5. GenerateOK(p)' /\ ServingOK(p)' /\ SignedOK(p)'
    BY <1>4, AtRest
<1> QED
    BY <1>1, <1>2, <1>3, <1>5, StepKeeps

\* The blob that is registered verifies.
LEMMA AcceptInv ==
    ASSUME Inv, NEW p \in Procs, acceptOwner(p)
    PROVE  Inv'
<1>1. To1dVerifies(job[p].blob)
    BY DEF acceptOwner, Inv, ProcOK, SignedOK
<1>2. rv_blobs' = With(rv_blobs, job[p].guid, job[p].blob)
      /\ UNCHANGED <<mfg_keys, owner_keys, delegate_keys, vouchers>> /\ End(p, Nothing)
    BY DEF acceptOwner
<1>3. StoredOK'
    BY <1>1, <1>2, WithPuts DEF Inv, StoredOK
<1> QED
    BY <1>2, <1>3, DoneKeeps

\* A delegate is made with the owner key of its type.
LEMMA CreateInv ==
    ASSUME Inv, NEW p \in Procs, createDelegateCertificate(p)
    PROVE  Inv'
<1>0. UNCHANGED tables /\ owner_keys' = owner_keys
    BY DEF createDelegateCertificate, tables
<1>1. PICK t \in Types, perms \in CreatePerms, algs \in CreateKeys, name \in Names :
          LET owner == OwnerKey(t, 0)
              keys == DrawnFor(p, algs)
          IN \/ End(p, Error)
             \/ /\ owner # NoKey
                /\ Go(p, "created", [of |-> "delegate", name |-> name, key |-> LastKey(owner, keys),
                                     chain |-> CreateChain(owner, name, t, perms, keys)])
    BY DEF createDelegateCertificate
<1>2. CASE End(p, Error)
    BY <1>0, <1>2, EndKeeps DEF Error, Nothing
<1>3. ASSUME ~End(p, Error) PROVE Inv'
    <2>1. PICK owner : owner = OwnerKey(t, 0)
        OBVIOUS
    <2>2. PICK d : d = [of |-> "delegate", name |-> name, key |-> LastKey(owner, DrawnFor(p, algs)),
                        chain |-> CreateChain(owner, name, t, perms, DrawnFor(p, algs))]
        OBVIOUS
    <2>3. owner # NoKey /\ Go(p, "created", d)
        BY <1>1, <1>3, <2>1, <2>2
    <2>4. DelegateIn(owner_keys, d)
        BY <2>1, <2>2, <2>3 DEF DelegateIn, OwnerKey
    <2>5. Moves(p) /\ pc'[p] = "created" /\ job'[p] = d /\ output'[p] = output[p]
        BY <2>3, Goes DEF Inv
    <2>6. GenerateOK(p)' /\ ServingOK(p)' /\ SignedOK(p)'
        BY <1>0, <2>4, <2>5 DEF GenerateOK, ServingOK, SignedOK
    <2> QED
        BY <1>0, <2>5, <2>6, ReadKeeps
<1> QED
    BY <1>2, <1>3

\* The delegate that is stored is the one that was made.
LEMMA AddDelegateInv ==
    ASSUME Inv, NEW p \in Procs, AddDelegateKey(p)
    PROVE  Inv'
<1> DEFINE d == [key |-> job[p].key, chain |-> job[p].chain]
<1>1. DelegateIn(owner_keys, job[p])
    BY DEF AddDelegateKey, Inv, ProcOK, SignedOK
<1>2. DelegateIn(owner_keys, d)
    BY <1>1 DEF DelegateIn
<1>3. delegate_keys' = With(delegate_keys, job[p].name, d)
      /\ UNCHANGED <<mfg_keys, owner_keys, rv_blobs, vouchers>> /\ End(p, Nothing)
    BY DEF AddDelegateKey
<1> HIDE DEF d
<1>4. StoredOK'
    BY <1>2, <1>3, WithPuts DEF Inv, StoredOK
<1> QED
    BY <1>3, <1>4, DoneKeeps

------------------------------------------------------------------------------
(* The invariant holds, and what follows from it.                            *)

\* Nothing is there at first.
LEMMA InitInv == Init => Inv
<1> SUFFICES ASSUME Init PROVE Inv
    OBVIOUS
<1>0. mfg_keys = <<>> /\ owner_keys = <<>>
    BY Zenon DEF Init
<1>1. Shape
    <2>1. /\ pc = [p \in Procs |-> "idle"] /\ job = [p \in Procs |-> NoJob]
          /\ output = [p \in Procs |-> Nothing]
        BY Zenon DEF Init
    <2>2. <<>> \in Seq(Row)
        BY EmptySeq
    <2> QED
        BY <1>0, <2>1, <2>2 DEF Shape
<1>2. LastMeansAll
    <2>1. TypesIn(<<>>) = {}
        BY DEF TypesIn
    <2> QED
        BY <1>0, <2>1 DEF LastMeansAll
<1>3. StoredOK
    BY DEF Init, StoredOK
<1>4. ASSUME NEW p \in Procs PROVE ProcOK(p)
    <2>1. pc[p] = "idle"
        BY DEF Init
    <2>2. output[p].kind = "nothing"
        BY DEF Init, Nothing
    <2> QED
        BY <2>1, <2>2 DEF ProcOK, GenerateOK, ServingOK, SignedOK, OutputOK
<1> QED
    BY <1>1, <1>2, <1>3, <1>4 DEF Inv

\* A step that changes nothing keeps everything.
LEMMA StutterInv ==
    ASSUME Inv, UNCHANGED vars
    PROVE  Inv' /\ TablesKept
<1>1. UNCHANGED <<mfg_keys, owner_keys, delegate_keys, vouchers, rv_blobs, pc, job, output>>
    BY DEF vars, tables
<1>2. TablesKept
    BY <1>1, KeysSame
<1> QED
    BY <1>1, <1>2 DEF Inv, Shape, LastMeansAll, AllMfgKeys, StoredOK, ProcOK, GenerateOK,
                      ServingOK, SignedOK, OutputOK

\* Every step keeps the invariant and what is found in the tables of keys.
LEMMA NextInv ==
    ASSUME Inv, [Next]_vars
    PROVE  Inv' /\ TablesKept
<1>1. CASE UNCHANGED vars
    BY <1>1, StutterInv
<1>2. ASSUME NEW p \in Procs, AddKey(p)
      PROVE  Inv' /\ TablesKept
    BY <1>2, AddKeyInv, AddKeyInserts
<1>3. ASSUME NEW p \in Procs,
             \/ Start(p) \/ Open(p)
             \/ Serve(p) \/ AppStart(p) \/ Extend(p) \/ AddVoucher(p) \/ RegisterOwnerAddr(p)
             \/ doPrintOwnerPubKey(p) \/ doImportVoucher(p) \/ resell(p)
             \/ ownerSign(p) \/ acceptOwner(p)
             \/ createDelegateCertificate(p) \/ AddDelegateKey(p)
      PROVE  Inv' /\ TablesKept
    <2>1. UNCHANGED <<mfg_keys, owner_keys>>
        BY <1>3 DEF Start, Open, Serve, AppStart, Extend, AddVoucher, RegisterOwnerAddr,
                    doPrintOwnerPubKey, doImportVoucher, resell, ownerSign, acceptOwner,
                    createDelegateCertificate, AddDelegateKey, tables
    <2>2. Inv'
        BY <1>3, StartInv, OpenInv, ServeInv, AppStartInv, ExtendInv, AddVoucherInv,
           RegisterInv, PrintInv, ImportInv, ResellInv, SignInv, AcceptInv, CreateInv,
           AddDelegateInv
    <2> QED
        BY <2>1, <2>2, KeysSame
<1> QED
    BY <1>1, <1>2, <1>3 DEF Next

\* The invariant of all behaviours.
LEMMA Invariant == Spec => []Inv
    BY InitInv, NextInv, PTL DEF Spec

\* A server that starts finds the manufacturer keys of all types, although the first start
\* that adds them may be killed or still be at it; and a voucher extended to a key that
\* was printed for its type is imported.
THEOREM FindsKeys == Spec => []KeysAreFound
<1>1. Inv => KeysAreFound
    <2> SUFFICES ASSUME Inv PROVE KeysAreFound
        OBVIOUS
    <2>1. ASSUME NEW p \in Procs, pc[p] = "serving", NEW t \in Types
          PROVE  ManufacturerKey(t, 3072) # NoKey
        <3>1. t \in TypesIn(mfg_keys) /\ mfg_keys \in Seq(Row)
            BY <2>1 DEF Inv, Shape, ProcOK, ServingOK, AllMfgKeys
        <3> QED
            BY <3>1, ReadFinds, UsualSizes DEF ManufacturerKey
    <2>2. ASSUME NEW p \in Procs, output[p].kind = "printed"
          PROVE  ImportKey([type |-> output[p].type, mfg |-> NoKey, owner |-> output[p].key]) # NoKey
        <3>1. PrintedIn(owner_keys, output[p])
            BY <2>2 DEF Inv, ProcOK, OutputOK
        <3> QED
            BY <3>1 DEF PrintedIn, ImportKey, OwnerKey
    <2> QED
        BY <2>1, <2>2 DEF KeysAreFound
<1> QED
    BY <1>1, Invariant, PTL

\* Whatever first starts run at the same time, a key that was found stays the key found.
THEOREM KeysStay == Spec => KeysNeverChange
<1>1. ASSUME Inv, [Next]_vars, NEW t \in Types
      PROVE  /\ OwnerKey(t, 3072) # NoKey => OwnerKey(t, 3072)' = OwnerKey(t, 3072)
             /\ ManufacturerKey(t, 3072) # NoKey =>
                    ManufacturerKey(t, 3072)' = ManufacturerKey(t, 3072)
    BY <1>1, NextInv DEF TablesKept, Keeps, OwnerKey, ManufacturerKey
<1>2. Inv /\ [Next]_vars =>
          [\A t \in Types :
              /\ OwnerKey(t, 3072) # NoKey => OwnerKey(t, 3072)' = OwnerKey(t, 3072)
              /\ ManufacturerKey(t, 3072) # NoKey =>
                     ManufacturerKey(t, 3072)' = ManufacturerKey(t, 3072)]_vars
    BY <1>1
<1> QED
    BY <1>2, Invariant, PTL DEF Spec, KeysNeverChange

\* What a stored delegate was made with.
LEMMA DelegateMade ==
    ASSUME NEW d, DelegateIn(owner_keys, d), d.chain # <<>>
    PROVE  LET t == d.chain[Len(d.chain)].issuer[2]
               owner == OwnerKey(t, 0)
           IN /\ owner # NoKey /\ d.chain[1].key = d.key
              /\ VerifyDelegateChain(d.chain, owner, AnyPerm)
              /\ \A oid \in Perms :
                     VerifyDelegateChain(d.chain, owner, oid) <=> DelegateHasPermission(d.chain, oid)
<1>1. PICK t \in Types, perms \in CreatePerms, algs \in CreateKeys, name \in Names, p \in Procs :
          LET owner == ReadKey(owner_keys, t, 0)
              keys == DrawnFor(p, algs)
          IN /\ owner # NoKey
             /\ d.chain = CreateChain(owner, name, t, perms, keys) /\ d.key = LastKey(owner, keys)
    BY DEF DelegateIn
<1>2. PICK K : DrawnFor(p, algs) \in Seq(K) /\ (DrawnFor(p, algs) # <<>> <=> algs # <<>>)
    BY DrawnSeq
<1>3. DrawnFor(p, algs) # <<>>
    BY <1>1, <1>2 DEF CreateChain
<1> DEFINE owner == ReadKey(owner_keys, t, 0)
<1>4. owner # NoKey /\ d.chain = CreateChain(owner, name, t, perms, DrawnFor(p, algs))
      /\ d.key = LastKey(owner, DrawnFor(p, algs))
    BY <1>1
<1> HIDE DEF owner
<1>5. /\ d.chain[1].key = d.key /\ d.chain[Len(d.chain)].issuer[2] = t
      /\ VerifyDelegateChain(d.chain, owner, AnyPerm)
      /\ \A oid \in Perms :
             VerifyDelegateChain(d.chain, owner, oid) <=> DelegateHasPermission(d.chain, oid)
    BY <1>2, <1>3, <1>4, CreatedVerifies
<1>6. OwnerKey(t, 0) = owner
    BY DEF OwnerKey, owner
<1> QED
    BY <1>4, <1>5, <1>6

\* The leaf of a delegate's chain has a permission exactly when the whole chain, with the
\* owner key at its root, verifies for it.
THEOREM LeafSpeaks == Spec => []LeafSpeaksForChain
<1>1. Inv => LeafSpeaksForChain
    <2> SUFFICES ASSUME Inv, NEW n \in DOMAIN delegate_keys, delegate_keys[n].chain # <<>>
                 PROVE  LET chain == delegate_keys[n].chain
                            owner == OwnerKey(chain[Len(chain)].issuer[2], 0)
                        IN /\ VerifyDelegateChain(chain, owner, AnyPerm)
                           /\ \A oid \in Perms :
                                 DelegateHasPermission(chain, oid) <=> VerifyDelegateChain(chain, owner, oid)
        BY DEF LeafSpeaksForChain
    <2>1. DelegateIn(owner_keys, delegate_keys[n])
        BY DEF Inv, StoredOK
    <2> QED
        BY <2>1, DelegateMade
<1> QED
    BY <1>1, Invariant, PTL

\* The device of a stored voucher accepts the answer of a server that has no delegate, or
\* one made for the voucher's type with a key of its class and a permission to onboard;
\* and every redirect that is registered verifies.
THEOREM DevicesServed == Spec => []DevicesAreServed
<1>1. ASSUME Inv, NEW g \in DOMAIN vouchers, NEW name, CanServe(vouchers[g], name)
      PROVE  ProveOVHdr(name, vouchers[g]) = "accepted"
    <2> DEFINE v == vouchers[g]
               owner == OwnerKey(v.type, RsaBits(v.type))
               n == Resolve(name, v.type)
               d == delegate_keys[n]
    <2>1. owner = v.owner /\ owner # NoKey
        BY <1>1, OwnerSigns DEF Inv, StoredOK, VoucherIn
    <2>2. CASE name = NoName
        BY <2>1, <2>2 DEF ProveOVHdr
    <2>3. CASE name # NoName
        <3>1. n \in DOMAIN delegate_keys /\ ChainKeyFits(d.chain, Class(v.owner))
              /\ DelegateCanOnboard(d.chain) /\ d.chain[Len(d.chain)].issuer[2] = v.type
            BY <1>1, <2>3 DEF CanServe
        <3>2. d.chain # <<>> /\ Class(d.chain[1].key) = Class(v.owner)
            BY <3>1 DEF ChainKeyFits
        <3>3. DelegateIn(owner_keys, d)
            BY <1>1, <3>1 DEF Inv, StoredOK
        <3>4. OwnerKey(v.type, 0) # NoKey /\ d.chain[1].key = d.key
              /\ VerifyDelegateChain(d.chain, OwnerKey(v.type, 0), AnyPerm)
            BY <3>1, <3>2, <3>3, DelegateMade
        <3>5. OwnerKey(v.type, 0) = v.owner
            <4>1. owner_keys \in Seq(Row)
                BY <1>1 DEF Inv, Shape
            <4>2. SizeFits(v.type, 0)
                BY <3>4, <4>1, ReadFinds DEF OwnerKey
            <4> QED
                BY <2>1, <4>2, ReadAnySize, UsualSizes DEF OwnerKey
        <3> HIDE DEF n
        <3> QED
            BY <2>1, <2>3, <3>1, <3>2, <3>4, <3>5 DEF ProveOVHdr, n
    <2> QED
        BY <2>2, <2>3
<1>2. Inv => DevicesAreServed
    BY <1>1 DEF DevicesAreServed, Inv, StoredOK
<1> QED
    BY <1>2, Invariant, PTL
=============================================================================
