------------------------ MODULE ServiceInfoModules ------------------------
(***************************************************************************)
(* The service info exchange of TO2 as its modules see it: the owner       *)
(* modules of a session run one after the other, each in turns with the    *)
(* device module of its name.  In the owner's turn the current module      *)
(* handles what the device sent and then produces; in the device's turn    *)
(* the messages are handed to the modules and the last module yields.      *)
(*                                                                         *)
(* The device's modules outlive a call of TO2 that fails: a later call     *)
(* meets them as they were left.  The owner's are made anew.  Messages     *)
(* are whole; how they are cut to the MTU is in ServiceInfoChunk.          *)
(***************************************************************************)
EXTENDS Integers, Sequences, FiniteSets, SequencesExt

CONSTANTS
    Kinds,                  \* the module names
    Lists,                  \* the lists of owner modules a session may run
    Contents,               \* the contents a file may have, sequences of chunks
    ChunkSize,              \* chunks of a file in one data message
    MaxRounds,              \* stands for the limit of 1e6 rounds
    MaxCalls,               \* calls of TO2 by the device
    Nil

ASSUME ModulesAssumption ==
    /\ Lists \subseteq Seq(Kinds)
    /\ ChunkSize \in Nat \ {0} /\ MaxRounds \in Nat /\ MaxCalls \in Nat \ {0}

VARIABLES
    list,                   \* the owner modules of every session of this device
    modules,                \* those left, the current one first
    turn,                   \* whose turn it is
    toDevice, toOwner,      \* service info on its way
    active,                 \* deviceModuleMap.active
    prevModule,             \* name of the last module a message was for
    heldModule,             \* prevModule as this turn of the device began
    isDone,                 \* the owner's last message said IsDone
    rounds,                 \* totalRounds
    call,                   \* number of the call of TO2
    result                  \* how the exchange ended

exchangeVars == <<list, modules, turn, toDevice, toOwner, active, prevModule, heldModule, isDone, rounds, call, result>>

\* A service info message: module, message name, and value.
KV(k, m, v) == [mod |-> k, msg |-> m, val |-> v]

ExchangeInit ==
    /\ list \in Lists /\ modules = list
    /\ turn = "device"                  \* it answered devmod, without modules
    /\ toDevice = <<>> /\ toOwner = <<>>
    /\ active = [k \in Kinds |-> FALSE]
    /\ prevModule = Nil /\ heldModule = Nil
    /\ isDone = FALSE
    /\ rounds = 0
    /\ call = 1
    /\ result = "running"

Running == result = "running"

Over(how) ==
    /\ result' = how
    /\ toDevice' = <<>> /\ toOwner' = <<>>
    /\ UNCHANGED <<list, modules, turn, active, prevModule, heldModule, isDone, rounds, call>>

------------------------------------------------------------------------------
(* The device's turn: handleOwnerModuleMessages.                             *)

DeviceTurn == Running /\ turn = "device"

\* The next message is m for module k.
Received(k, m) ==
    /\ DeviceTurn
    /\ toDevice # <<>>
    /\ toDevice[1].mod = k /\ toDevice[1].msg = m

\* The message is handled, with the given responses.
Handled(kvs) ==
    /\ toDevice' = Tail(toDevice)
    /\ toOwner' = toOwner \o kvs
    /\ prevModule' = toDevice[1].mod
    /\ UNCHANGED <<list, modules, turn, active, heldModule, isDone, rounds, call, result>>

\* The handler responds and goes on with the same message.
Responds(kvs) ==
    /\ toOwner' = toOwner \o kvs
    /\ UNCHANGED <<list, modules, turn, toDevice, active, prevModule, heldModule, isDone, rounds, call, result>>

\* An error of a device module ends TO2, except after IsDone, where it is
\* dropped and the messages left are not handled.
DeviceFails == Over(IF isDone THEN "done" ELSE "failed")

\* A device that is told to be active, and was not, answers.
handleActive(k) ==
    /\ Received(k, "active")
    /\ toDevice' = Tail(toDevice)
    /\ prevModule' = k
    /\ active' = [active EXCEPT ![k] = TRUE]
    /\ toOwner' = IF active[k] THEN toOwner ELSE Append(toOwner, KV(k, "active", TRUE))
    /\ UNCHANGED <<list, modules, turn, heldModule, isDone, rounds, call, result>>

\* All messages are handled: module k, the last one that was sent a message,
\* yields.
Yields(k) ==
    /\ DeviceTurn
    /\ toDevice = <<>>
    /\ prevModule = k
    /\ active[k]

\* The turn goes to the owner with the responses of Yield; after IsDone they are
\* discarded and the exchange is over.
Yielded(kvs) ==
    IF isDone
    THEN Over("done")
    ELSE /\ turn' = "owner"
         /\ toOwner' = toOwner \o kvs
         /\ UNCHANGED <<list, modules, toDevice, active, prevModule, heldModule, isDone, rounds, call, result>>

\* No module was sent a message yet, or the last one is not active.
NothingToYield ==
    /\ DeviceTurn
    /\ toDevice = <<>>
    /\ \A k \in Kinds : prevModule = k => ~active[k]
    /\ Yielded(<<>>)

------------------------------------------------------------------------------
(* The owner's turn: ownerServiceInfo and produceOwnerServiceInfo.           *)

Current(k) == Running /\ modules # <<>> /\ modules[1] = k

\* Messages go to the current module, whatever module they name.  The device may
\* send its first messages while it still handles the owner's.
HandleInfo(k, m) ==
    /\ Current(k)
    /\ toOwner # <<>>
    /\ toOwner[1].msg = m

InfoHandled ==
    /\ toOwner' = Tail(toOwner)
    /\ UNCHANGED <<list, modules, turn, toDevice, active, prevModule, heldModule, isDone, rounds, call, result>>

OwnerFails == Over("failed")

ProduceInfo(k) ==
    /\ Current(k)
    /\ turn = "owner"
    /\ toOwner = <<>>

\* The message the owner's turn ends with.  more is IsMoreServiceInfo; complete
\* moves the module state machine on.  The messages that come with IsDone are
\* handled from the module name of the turn before: should there be none, it is
\* that module that yields.
Produced(kvs, more, complete) ==
    /\ rounds' = rounds + 1
    /\ modules' = IF complete THEN Tail(modules) ELSE modules
    /\ isDone' = (complete /\ Len(modules) = 1)
    /\ toDevice' = toDevice \o kvs
    /\ turn' = IF more /\ ~complete THEN "owner" ELSE "device"
    /\ result' = IF turn' = "device" /\ rounds' >= MaxRounds THEN "rounds" ELSE result
    /\ prevModule' = IF isDone' THEN heldModule ELSE prevModule
    /\ heldModule' = IF turn' = "device" THEN prevModule' ELSE heldModule
    /\ UNCHANGED <<list, toOwner, active, call>>

------------------------------------------------------------------------------
(* Calls of TO2.                                                             *)

\* Anything else that ends TO2: the transport, a handler, the process of the
\* owner service.
Interrupted == Running /\ Over("failed")

\* The device tries TO2 again: new owner modules, no device module active.
Retry ==
    /\ result \in {"failed", "rounds"}
    /\ call < MaxCalls
    /\ call' = call + 1
    /\ modules' = list
    /\ turn' = "device"
    /\ active' = [k \in Kinds |-> FALSE]
    /\ toDevice' = <<>> /\ toOwner' = <<>>
    /\ prevModule' = Nil /\ heldModule' = Nil
    /\ isDone' = FALSE
    /\ rounds' = 0
    /\ result' = "running"
    /\ UNCHANGED list
=============================================================================
