----------------------------- MODULE MCPlugin -----------------------------
(***************************************************************************)
(* Instances of Plugin for TLC.                                            *)
(***************************************************************************)
EXTENDS Plugin

L(c) == Line(c, "")
On == <<Line("K", "active"), Line("7", "1")>>
Off == <<Line("K", "active"), Line("7", "0")>>

\* [[], 5], a tag, a value that breaks off, a command that is none.
MCReplies ==
    [device |-> {<<L("Y")>>,
                 <<Line("K", "r"), L("5"), Line("3", "k"), L("4"), Line("1", "1"), L("9"), L("9"), L("B"), L("Y")>>,
                 <<Line("K", "r"), L("Y")>>},
     owner  |-> {On \o <<L("Y")>>,
                 <<Line("K", "a"), L("4"), L("4"), L("9"), Line("1", "5"), L("9"),
                   Line("K", "b"), L("8"), L("Y")>>,
                 Off \o <<L("Y")>>,
                 <<L("B")>>,
                 <<Line("K", "a"), Line("6", "1"), Line("2", "x"), L("D")>>,
                 <<L("D")>>,
                 <<L("9"), L("E")>>}]

MCNames == {"m", ""}
=============================================================================
