------------------------------ MODULE MCServer ------------------------------
(***************************************************************************)
(* Commands of the example program on one database, for TLC.               *)
(***************************************************************************)
EXTENDS Server, TLC

\* Without RSAPSS, which is RSAPKCS again, and SECP256R1, which no command needs.
MCKeyTypes == <<"RSA2048RESTR", "RSAPKCS", "SECP384R1">>
MCCreateKeys == {<<>>, <<"rsa3072">>, <<"rsa2048", "ec384", "ec256">>}

Symmetry == Permutations(Procs)
=============================================================================
