------------------------------ MODULE MCFsim ------------------------------
(***************************************************************************)
(* Instances of Fsim for TLC.                                              *)
(***************************************************************************)
EXTENDS Fsim

MCKinds == {"download", "upload", "wget", "command"}

\* A file transfer first, if there is one: all rounds it is charged are its own.
MCLists == {<<"download">>, <<"upload">>, <<"wget">>, <<"command">>,
            <<"download", "download">>, <<"upload", "command">>, <<"download", "wget">>}

MCContents == {<<>>, <<"x">>, <<"x", "y">>, <<"y", "x">>}
=============================================================================
