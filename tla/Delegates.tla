------------------------------ MODULE Delegates ------------------------------
(***************************************************************************)
(* Delegate certificate chains: how "delegate create" makes one and how    *)
(* VerifyDelegateChain and the DelegateCan... functions judge it.  A       *)
(* certificate is a record of what they look at; a signature is the key    *)
(* that made it.  A key is a record with a field alg.                      *)
(***************************************************************************)
EXTENDS Integers, Sequences

\* The permissions, without the base OID, which stands for all of onboarding, and the
\* legacy ones.
OnboardPerms == {"onboard-new-cred", "onboard-reuse-cred", "onboard-fdo-disable"}
Perms == OnboardPerms \cup {"redirect"}
AnyPerm == ""

Class(key) == IF key.alg \in {"ec256", "ec384"} THEN "EC" ELSE "RSA"

\* Certificates of roots and intermediates may sign others.
GenerateDelegate(signer, flag, key, subject, issuer, perms) ==
    [subject |-> subject, issuer |-> issuer, key |-> key, signer |-> signer,
     ca |-> flag # "leaf", perms |-> perms]

------------------------------------------------------------------------------
(* delegate create chain perms ownerKeyType keyType...                       *)

Flag_LeafFirst(i, n) ==                  \* mutant: the flags follow the order of the chain
    CASE i = 0 -> "leaf"
      [] i = n - 1 /\ i # 0 -> "root"
      [] OTHER -> "intermediate"

Flag(i, n) ==
    CASE i = 0 -> "root"
      [] i = n - 1 /\ i # 0 -> "leaf"
      [] OTHER -> "intermediate"

Signer(owner, keys, i) == IF i = 0 THEN owner ELSE keys[i]

\* The signature algorithm of an rsa3072 key is kept for the certificates after it,
\* its own included, which an EC key signs in vain.
CanGenerate(owner, keys) ==
    \A i \in DOMAIN keys :
        (\E k \in 1..i : keys[k].alg = "rsa3072") => Class(Signer(owner, keys, i - 1)) = "RSA"

\* The certificate of keys[i + 1], signed by the key before it, the first by the owner.
Cert(owner, name, type, perms, keys, i) ==
    GenerateDelegate(Signer(owner, keys, i), Flag(i, Len(keys)), keys[i + 1],
                     <<name, keys[i + 1].alg, i>>,
                     IF i = 0 THEN <<name, type, -1>> ELSE <<name, keys[i].alg, i - 1>>,
                     perms)

\* The chain has the leaf first.  It is empty when no key types are given.
CreateChain(owner, name, type, perms, keys) ==
    [j \in DOMAIN keys |-> Cert(owner, name, type, perms, keys, Len(keys) - j)]

\* The last key, which the delegate signs with.
LastKey(owner, keys) == Signer(owner, keys, Len(keys))

------------------------------------------------------------------------------
(* Verification.                                                             *)

\* A certificate of the owner key is put at the root.
OwnerRoot(chain, ownerKey, oid) ==
    LET issuer == chain[Len(chain)].issuer
    IN GenerateDelegate(ownerKey, "root", ownerKey, issuer, issuer, IF oid = AnyPerm THEN {} ELSE {oid})

SignedBy(cert, parent) ==
    cert.signer = parent.key /\ parent.ca /\ cert.issuer = parent.subject

\* An empty chain has no root: the check panics.
VerifyDelegateChain(chain, ownerKey, oid) ==
    /\ chain # <<>>
    /\ LET full == Append(chain, OwnerRoot(chain, ownerKey, oid)) IN
       \A i \in DOMAIN full :
           /\ i < Len(full) => SignedBy(full[i], full[i + 1])
           /\ oid # AnyPerm => oid \in full[i].perms
           /\ i # 1 => full[i].ca

\* Only the leaf is asked.
DelegateHasPermission(chain, oid) == chain # <<>> /\ oid \in chain[1].perms
DelegateCanOnboard(chain) == \E oid \in OnboardPerms : DelegateHasPermission(chain, oid)

\* The key of an X5Chain is the leaf's, which has to be of the class of the type it is
\* given out for.
ChainKeyFits(chain, class) == chain # <<>> /\ Class(chain[1].key) = class
=============================================================================
