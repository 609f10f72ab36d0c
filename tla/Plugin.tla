------------------------------ MODULE Plugin ------------------------------
(***************************************************************************)
(* Service info modules run as plugins: processes that speak a protocol of *)
(* lines with the adapters DeviceModule and OwnerModule.  A plugin of the  *)
(* owner service and one of the device, of one module, exchange messages   *)
(* through their adapters and TO2; the plugins are stopped when their      *)
(* module completes and when TO2 is over.                                  *)
(*                                                                         *)
(* What a plugin writes is up to it: Replies.  A plugin may exit whenever  *)
(* it likes and need not heed a graceful stop.                             *)
(***************************************************************************)
EXTENDS Integers, Sequences, FiniteSets, SequencesExt

CONSTANTS
    Replies,                \* Replies[s]: what plugin s may write when it is told to yield
    Names,                  \* what a plugin may answer to the module name command
    MaxRounds,              \* stands for the limit of 1e6 rounds, up to which they are counted
    MaxCalls                \* calls of TO2 by the device

ASSUME PluginAssumption == MaxRounds \in Nat /\ MaxCalls \in Nat \ {0}

Sides == {"device", "owner"}

VARIABLES
    proc,                   \* proc[s]: "none", "up" or "exited", the process of the plugin
    toPlugin, fromPlugin,   \* lines written to the plugin and by it, not yet read
    said, heard,            \* lines of the messages the plugin wrote and read
    once, err,              \* the adapter's once and err
    pc,                     \* the adapter: "idle", "name", "loop", "value" or "stop"
    key, stack,             \* the message being decoded and its open collections
    active,                 \* deviceModuleMap.active
    toDevice, toOwner,      \* messages on their way
    prev, held,             \* prevModuleName is the module, now and before this turn
    handler,                \* handleOwnerModuleMessages of this turn, "live" or "over"
    late,                   \* it was live when the plugins were stopped
    stopping,               \* stopDevicePlugins: "no", "asked", "grace over" or "stopped"
    isDone, rounds, call,
    stray,                  \* the device's plugin was left running by an earlier call
    result                  \* how the call of TO2 ended

adapterVars == <<once, err, pc, key, stack>>
plugVars == <<proc, toPlugin, fromPlugin, said, heard>>
to2Vars == <<active, toDevice, toOwner, prev, held, handler, late, stopping, isDone, rounds, call, stray, result>>
vars == <<plugVars, adapterVars, to2Vars>>

Line(c, p) == [c |-> c, p |-> p]
Blank == Line("", "")

\* A value, a tree; of a map, keys and values alternate.
Val(t, p, of) == [t |-> t, p |-> p, of |-> of]
Msg(k, v) == [key |-> k, val |-> v]

Scalars == {"1", "2", "3", "7", "8"}
Collections == {"4", "5", "6"}         \* a tag encloses one value
Running == result = "running"
Owners == Running /\ handler = "over" /\ stopping = "no"       \* the owner's turn
Live(s) == result # "panic" /\ IF s = "device" THEN handler = "live" ELSE Owners

Init ==
    /\ proc = [s \in Sides |-> "none"]
    /\ toPlugin = [s \in Sides |-> <<>>] /\ fromPlugin = [s \in Sides |-> <<>>]
    /\ said = [s \in Sides |-> <<>>] /\ heard = [s \in Sides |-> <<>>]
    /\ once = [s \in Sides |-> FALSE] /\ err = [s \in Sides |-> FALSE]
    /\ pc = [s \in Sides |-> "idle"]
    /\ key = [s \in Sides |-> ""] /\ stack = [s \in Sides |-> <<>>]
    /\ active = FALSE
    /\ toDevice = <<>> /\ toOwner = <<>>
    /\ prev = FALSE /\ held = FALSE
    /\ handler = "over" /\ late = FALSE
    /\ stopping = "no"
    /\ isDone = FALSE /\ rounds = 0 /\ call = 1 /\ stray = FALSE
    /\ result = "running"

------------------------------------------------------------------------------
(* The protocol.                                                             *)

\* EncodeValue: the lines of a value.  Numbers and booleans are printed with a
\* newline of their own, so that an empty line follows.
RECURSIVE EncodeValue(_)
EncodeValue_EmptyOpen(v) ==                 \* mutant: an empty collection is not ended
    CASE v.t \in {"1", "7"}      -> <<Line(v.t, v.p), Blank>>
      [] v.t \in {"2", "3", "8"} -> <<Line(v.t, v.p)>>
      [] v.t \in {"4", "5"}      -> <<Line(v.t, "")>> \o FlattenSeq([i \in DOMAIN v.of |-> EncodeValue(v.of[i])])
                                        \o (IF v.of = <<>> THEN <<>> ELSE <<Line("9", "")>>)

EncodeValue(v) ==
    CASE v.t \in {"1", "7"}      -> <<Line(v.t, v.p), Blank>>
      [] v.t \in {"2", "3", "8"} -> <<Line(v.t, v.p)>>
      [] v.t \in {"4", "5"}      -> <<Line(v.t, "")>> \o FlattenSeq([i \in DOMAIN v.of |-> EncodeValue(v.of[i])])
                                        \o <<Line("9", "")>>

\* A tag, which CBOR decodes to a struct, makes EncodeValue panic.
RECURSIVE Encodable(_)
Encodable(v) == v.t # "6" /\ \A i \in DOMAIN v.of : Encodable(v.of[i])

\* A value is read within the collections st: the last one takes it, and a tag is
\* then complete itself.
RECURSIVE Put(_, _)
Put(st, v) ==
    IF st = <<>> THEN [complete |-> TRUE, val |-> v, st |-> <<>>]
    ELSE IF Last(st).t = "6" THEN Put(Front(st), [Last(st) EXCEPT !.of = <<v>>])
    ELSE [complete |-> FALSE, val |-> v,
          st |-> Append(Front(st), [Last(st) EXCEPT !.of = Append(@, v)])]

\* The collections that an end command may end: an array, a map before a key.  The
\* error that stands for the end passes through the others, which are lost.
CanEnd(st) == {i \in DOMAIN st : st[i].t = "4" \/ (st[i].t = "5" /\ Len(st[i].of) % 2 = 0)}

\* DecodeValue reads line l.
DecodeValue(st, l) ==
    CASE l.c \in Scalars -> Put(st, Val(l.c, l.p, <<>>))
      [] l.c \in Collections -> [complete |-> FALSE, val |-> l, st |-> Append(st, Val(l.c, l.p, <<>>))]
      [] l.c = "9" -> Put(SubSeq(st, 1, Max(CanEnd(st)) - 1), st[Max(CanEnd(st))])

Malformed(st, l) ==
    \/ l.c \notin Scalars \cup Collections \cup {"9"}
    \/ l.c = "9" /\ CanEnd(st) = {}

\* The plugin's end of the protocol, modelled from how the adapters use it.
IsData(l) == l.c \notin {"M", "Y", "D", "E", "B", ""}

PluginReads(s) ==
    /\ proc[s] = "up"
    /\ toPlugin[s] # <<>>
    /\ LET l == Head(toPlugin[s]) IN
       \E reply \in CASE l.c = "M" -> {<<Line("M", n)>> : n \in Names}
                      [] l.c = "Y" -> Replies[s]
                      [] OTHER -> {<<>>} :
          /\ fromPlugin' = [fromPlugin EXCEPT ![s] = @ \o reply]
          /\ said' = [said EXCEPT ![s] = @ \o SelectSeq(reply, IsData)]
          /\ heard' = [heard EXCEPT ![s] = IF IsData(l) THEN Append(@, l) ELSE @]
    /\ toPlugin' = [toPlugin EXCEPT ![s] = Tail(@)]
    /\ UNCHANGED <<proc, adapterVars, to2Vars>>

PluginExits(s) ==
    /\ proc[s] = "up"
    /\ proc' = [proc EXCEPT ![s] = "exited"]
    /\ UNCHANGED <<toPlugin, fromPlugin, said, heard, adapterVars, to2Vars>>

------------------------------------------------------------------------------
(* How a call of TO2 goes on and ends.                                       *)

Ends(how) ==
    /\ result' = how
    /\ UNCHANGED <<active, toDevice, toOwner, prev, held, late, stopping, isDone, rounds, call, stray>>

\* The handler ends with an error, which ends TO2 unless the owner is done.  A
\* handler that is late has nobody to tell.
HandlerFails ==
    /\ handler' = "over"
    /\ Ends(IF ~Running THEN result ELSE IF isDone THEN "done" ELSE "failed")

\* The handler is through with the owner's messages.
HandlerEnds ==
    /\ handler' = "over"
    /\ Ends(IF Running /\ isDone THEN "done" ELSE result)

\* A panic of the device's adapter ends the device; a handler of the owner service
\* that panics or fails only ends its session.
Fails(s) ==
    IF s = "device" THEN HandlerFails ELSE Ends("failed") /\ UNCHANGED handler

Panics(s) ==
    Ends(IF s = "device" THEN "panic" ELSE "failed") /\ UNCHANGED handler

\* The message of the owner's turn.  With more the device may not answer yet, and the
\* limit of rounds is not looked at.
OwnerSends(more) ==
    /\ rounds' = Min({rounds + 1, MaxRounds})
    /\ handler' = IF more \/ rounds' >= MaxRounds THEN "over" ELSE "live"
    /\ result' = IF ~more /\ rounds' >= MaxRounds THEN "rounds" ELSE result
    /\ held' = IF more THEN held ELSE prev
    /\ UNCHANGED <<active, toDevice, toOwner, prev, late, stopping, isDone, call, stray>>

------------------------------------------------------------------------------
(* The adapters, DeviceModule and OwnerModule.                               *)

Idle(s) == Live(s) /\ pc[s] = "idle"

\* The handler is to call Receive or Yield; the owner service ProduceInfo.
Yielding == toDevice = <<>> /\ active /\ prev
Receiving == toDevice # <<>> /\ toDevice[1].key # "active"
DeviceCalls == active /\ (Yielding \/ Receiving)
Calls(s) == Idle(s) /\ (IF s = "device" THEN DeviceCalls ELSE toOwner = <<>>)

\* The first call starts the plugin and asks for its name.
Start(s) ==
    /\ Calls(s)
    /\ ~once[s]
    /\ once' = [once EXCEPT ![s] = TRUE]
    /\ proc' = [proc EXCEPT ![s] = "up"]
    /\ toPlugin' = [toPlugin EXCEPT ![s] = <<Line("M", "")>>]
    /\ fromPlugin' = [fromPlugin EXCEPT ![s] = <<>>]
    /\ pc' = [pc EXCEPT ![s] = "name"]
    /\ UNCHANGED <<said, heard, err, key, stack, to2Vars>>

StartFails(s) ==
    /\ Calls(s)
    /\ ~once[s]
    /\ once' = [once EXCEPT ![s] = TRUE]
    /\ err' = [err EXCEPT ![s] = TRUE]
    /\ UNCHANGED <<plugVars, pc, key, stack, to2Vars>>

\* Recv: the next line that is not empty; none if the plugin is gone.
Unread(s) == SelectSeq(fromPlugin[s], LAMBDA l : l # Blank)
Line1(s) == Head(Unread(s))
Gone_Never(s) == FALSE                      \* mutant: end of file is not noticed

Gone(s) == Unread(s) = <<>> /\ proc[s] # "up"

Recv(s) ==
    /\ Unread(s) # <<>>
    /\ fromPlugin' = [fromPlugin EXCEPT ![s] = Tail(Unread(s))]

\* The module name.  The device's adapter does not forget an error of an earlier start.
ModuleName(s) ==
    /\ Live(s) /\ pc[s] = "name"
    /\ \/ Recv(s) /\ ~(Line1(s).c = "M" /\ Line1(s).p = "")
       \/ Gone(s) /\ UNCHANGED fromPlugin
    /\ pc' = [pc EXCEPT ![s] = "idle"]
    /\ LET named == ~Gone(s) /\ Line1(s).c = "M"
       IN err' = [err EXCEPT ![s] = IF named THEN s = "device" /\ @ ELSE TRUE]
    /\ UNCHANGED <<proc, toPlugin, said, heard, once, key, stack, to2Vars>>

\* An answer without a name makes the adapter panic.
NoName(s) ==
    /\ Live(s) /\ pc[s] = "name"
    /\ Recv(s)
    /\ Line1(s) = Line("M", "")
    /\ pc' = [pc EXCEPT ![s] = "idle"]
    /\ Panics(s)
    /\ UNCHANGED <<proc, toPlugin, said, heard, once, err, key, stack>>

Send(s, lines) == toPlugin' = [toPlugin EXCEPT ![s] = @ \o lines]
CanSend(s) == once[s] /\ ~err[s] /\ proc[s] = "up"

\* A message for the plugin is sent on: by Receive and HandleInfo.
Relay(s, m) ==
    /\ CanSend(s)
    /\ IF Encodable(m.val)
       THEN /\ Send(s, <<Line("K", m.key)>> \o EncodeValue(m.val))
            /\ IF s = "device" THEN toDevice' = Tail(toDevice) /\ UNCHANGED toOwner
                               ELSE toOwner' = Tail(toOwner) /\ UNCHANGED toDevice
            /\ prev' = (s = "device" \/ prev)
            /\ UNCHANGED <<active, held, handler, late, stopping, isDone, rounds, call, stray, result>>
       ELSE Panics(s) /\ UNCHANGED toPlugin
    /\ UNCHANGED <<proc, fromPlugin, said, heard, adapterVars>>

Receive == Idle("device") /\ active /\ Receiving /\ Relay("device", toDevice[1])
HandleInfo == Idle("owner") /\ toOwner # <<>> /\ Relay("owner", toOwner[1])

\* Nothing can be sent: the plugin did not start or is gone.
CannotSend(s) ==
    /\ Idle(s)
    /\ \/ s = "device" /\ DeviceCalls /\ once[s]
       \/ s = "owner" /\ (toOwner # <<>> \/ (once[s] /\ ~err[s]))
    /\ ~CanSend(s)
    /\ Fails(s)
    /\ UNCHANGED <<plugVars, adapterVars>>

\* Yield and ProduceInfo tell the plugin to write.
Yield(s) ==
    /\ Calls(s)
    /\ s = "device" => Yielding
    /\ CanSend(s)
    /\ Send(s, <<Line("Y", "")>>)
    /\ pc' = [pc EXCEPT ![s] = "loop"]
    /\ UNCHANGED <<proc, fromPlugin, said, heard, once, err, key, stack, to2Vars>>

\* When the startup failed, ProduceInfo returns another variable of the name err,
\* which is nil: nothing is produced, and the module goes on.
ProduceNothing ==
    /\ Calls("owner")
    /\ once["owner"] /\ err["owner"]
    /\ OwnerSends(FALSE)
    /\ UNCHANGED <<plugVars, adapterVars>>

\* What the plugin wrote is read up to its end of turn.
Reads(s, cs) == pc[s] = "loop" /\ Live(s) /\ Recv(s) /\ Line1(s).c \in cs
ReadsTo(s, where) ==
    /\ pc' = [pc EXCEPT ![s] = where]
    /\ UNCHANGED <<proc, toPlugin, said, heard, once, err>>

ReadKey(s) ==
    /\ Reads(s, {"K"})
    /\ key' = [key EXCEPT ![s] = Line1(s).p]
    /\ ReadsTo(s, "value")
    /\ UNCHANGED <<stack, to2Vars>>

ReadYield(s) ==
    /\ Reads(s, {"Y"})
    /\ IF s = "device" THEN HandlerEnds ELSE OwnerSends(FALSE)
    /\ ReadsTo(s, "idle")
    /\ UNCHANGED <<key, stack>>

ReadBreak(s) ==
    /\ Reads(s, {"B"})
    /\ IF s = "device" THEN UNCHANGED to2Vars ELSE OwnerSends(TRUE)
    /\ ReadsTo(s, IF s = "device" THEN "loop" ELSE "idle")
    /\ UNCHANGED <<key, stack>>

ReadDone ==
    /\ Reads("owner", {"D"})
    /\ ReadsTo("owner", "stop")
    /\ UNCHANGED <<key, stack, to2Vars>>

\* Any other command, or that the plugin is gone, is an error.
ReadError(s) ==
    /\ Live(s)
    /\ \/ pc[s] \in {"loop", "value"} /\ Gone(s) /\ UNCHANGED fromPlugin
       \/ pc[s] = "value" /\ Recv(s) /\ Malformed(stack[s], Line1(s))
       \/ Reads(s, Scalars \cup Collections \cup {"9", "M", "E", "?"})
       \/ s = "device" /\ Reads(s, {"D"})
    /\ ReadsTo(s, "idle")
    /\ stack' = [stack EXCEPT ![s] = <<>>]
    /\ Fails(s)
    /\ UNCHANGED key

ReadValue(s) ==
    /\ Live(s) /\ pc[s] = "value"
    /\ Recv(s)
    /\ ~Malformed(stack[s], Line1(s))
    /\ LET d == DecodeValue(stack[s], Line1(s)) IN
       /\ stack' = [stack EXCEPT ![s] = d.st]
       /\ ReadsTo(s, IF d.complete THEN "loop" ELSE "value")
       /\ IF ~d.complete THEN UNCHANGED <<toDevice, toOwner>>
          ELSE IF s = "device"
          THEN toOwner' = Append(toOwner, Msg(key[s], d.val)) /\ UNCHANGED toDevice
          ELSE toDevice' = Append(toDevice, Msg(key[s], d.val)) /\ UNCHANGED toOwner
    /\ UNCHANGED <<key, active, prev, held, handler, late, stopping, isDone, rounds, call, stray, result>>

\* A message larger than what is left of the owner's is an error.
TooLarge ==
    /\ pc["owner"] = "value" /\ Owners
    /\ Recv("owner")
    /\ ~Malformed(stack["owner"], Line1("owner"))
    /\ DecodeValue(stack["owner"], Line1("owner")).complete
    /\ ReadsTo("owner", "idle")
    /\ stack' = [stack EXCEPT !["owner"] = <<>>]
    /\ Fails("owner")
    /\ UNCHANGED key

------------------------------------------------------------------------------
(* The device's handler and the end of a call.                               *)

\* Messages active are TO2's own.
HandleActive ==
    /\ Idle("device") /\ toDevice # <<>> /\ toDevice[1].key = "active"
    /\ active' = (toDevice[1].val.p = "1")
    /\ toOwner' = IF active' /\ ~active THEN Append(toOwner, toDevice[1]) ELSE toOwner
    /\ toDevice' = Tail(toDevice)
    /\ prev' = TRUE
    /\ UNCHANGED <<plugVars, adapterVars, held, handler, late, stopping, isDone, rounds, call, stray, result>>

NotActive ==
    /\ Idle("device")
    /\ \/ Receiving /\ ~active /\ HandlerFails
       \/ toDevice = <<>> /\ ~Yielding /\ HandlerEnds
    /\ UNCHANGED <<plugVars, adapterVars>>

\* The transport fails: while the device waits for the owner, or while its handler
\* runs and responses of it are being sent.
TransportFails ==
    /\ Running
    /\ handler = "over" \/ (toOwner # <<>> /\ ~isDone)
    /\ Ends("failed")
    /\ UNCHANGED <<plugVars, adapterVars, handler>>

\* stopOwnerPlugin: the module is complete.  NextModule finds no other.
StopOwnerPlugin_Gracefully ==               \* mutant: the plugin is only asked to stop
    /\ Owners
    /\ pc["owner"] = "stop"
    /\ pc' = [pc EXCEPT !["owner"] = "idle"]
    /\ isDone' = TRUE
    /\ rounds' = Min({rounds + 1, MaxRounds})
    /\ handler' = IF rounds' >= MaxRounds THEN "over" ELSE "live"
    /\ result' = IF rounds' >= MaxRounds THEN "rounds" ELSE result
    /\ prev' = held
    /\ UNCHANGED <<plugVars, once, err, key, stack>>
    /\ UNCHANGED <<active, toDevice, toOwner, held, late, stopping, call, stray>>

StopOwnerPlugin ==
    /\ Owners
    /\ pc["owner"] = "stop"
    /\ pc' = [pc EXCEPT !["owner"] = "idle"]
    /\ proc' = [proc EXCEPT !["owner"] = "none"]
    /\ fromPlugin' = [fromPlugin EXCEPT !["owner"] = <<>>]
    /\ toPlugin' = [toPlugin EXCEPT !["owner"] = <<>>]
    /\ isDone' = TRUE
    /\ rounds' = Min({rounds + 1, MaxRounds})
    /\ handler' = IF rounds' >= MaxRounds THEN "over" ELSE "live"
    /\ result' = IF rounds' >= MaxRounds THEN "rounds" ELSE result
    /\ prev' = held
    /\ UNCHANGED <<said, heard, once, err, key, stack>>
    /\ UNCHANGED <<active, toDevice, toOwner, held, late, stopping, call, stray>>

\* stopDevicePlugins stops the plugins of active modules: it asks them to stop, and
\* stops them when that returns or after five seconds.
StopDevicePlugins ==
    /\ ~Running /\ result # "panic"
    /\ stopping = "no"
    /\ stopping' = IF active THEN "asked" ELSE "stopped"
    /\ late' = (handler = "live")
    /\ UNCHANGED <<plugVars, adapterVars, active, toDevice, toOwner, prev, held, handler, isDone, rounds, call, stray, result>>

GracefulStop ==
    /\ stopping = "asked"
    /\ stopping' = "grace over"
    /\ UNCHANGED <<plugVars, adapterVars, active, toDevice, toOwner, prev, held, handler, late, isDone, rounds, call, stray, result>>

Expires ==
    /\ stopping = "asked"
    /\ stopping' = "grace over"
    /\ UNCHANGED <<plugVars, adapterVars, active, toDevice, toOwner, prev, held, handler, late, isDone, rounds, call, stray, result>>

\* Stop, after which a call starts the plugin again.
Stop ==
    /\ stopping = "grace over"
    /\ stopping' = "stopped"
    /\ proc' = [proc EXCEPT !["device"] = "none"]
    /\ fromPlugin' \in {fromPlugin, [fromPlugin EXCEPT !["device"] = <<>>]}
    /\ once' = [once EXCEPT !["device"] = FALSE]
    /\ UNCHANGED <<toPlugin, said, heard, err, pc, key, stack>>
    /\ UNCHANGED <<active, toDevice, toOwner, prev, held, handler, late, isDone, rounds, call, stray, result>>

\* The device tries again; the owner service has a new module and plugin for it.
NewCall ==
    /\ result \in {"failed", "rounds"}
    /\ stopping = "stopped" /\ handler = "over"
    /\ call < MaxCalls
    /\ call' = call + 1
    /\ proc' = [proc EXCEPT !["owner"] = "none"]
    /\ toPlugin' = [toPlugin EXCEPT !["owner"] = <<>>]
    /\ fromPlugin' = [fromPlugin EXCEPT !["owner"] = <<>>]
    /\ said' = [s \in Sides |-> <<>>] /\ heard' = [s \in Sides |-> <<>>]
    /\ once' = [once EXCEPT !["owner"] = FALSE]
    /\ err' = [err EXCEPT !["owner"] = FALSE]
    /\ pc' = [pc EXCEPT !["owner"] = "idle"]
    /\ stack' = [stack EXCEPT !["owner"] = <<>>]
    /\ active' = FALSE /\ prev' = FALSE /\ held' = FALSE
    /\ toDevice' = <<>> /\ toOwner' = <<>>
    /\ stopping' = "no" /\ late' = FALSE
    /\ isDone' = FALSE /\ rounds' = 0
    /\ stray' = (stray \/ proc["device"] = "up")
    /\ result' = "running"
    /\ UNCHANGED <<key, handler>>

------------------------------------------------------------------------------

Adapter(s) ==
    \/ Start(s) \/ StartFails(s) \/ ModuleName(s) \/ NoName(s)
    \/ CannotSend(s) \/ Yield(s)
    \/ ReadKey(s) \/ ReadYield(s) \/ ReadBreak(s) \/ ReadValue(s) \/ ReadError(s)

TO2Step ==
    \/ Receive \/ HandleInfo \/ ProduceNothing \/ ReadDone \/ TooLarge
    \/ HandleActive \/ NotActive \/ StopOwnerPlugin
    \/ StopDevicePlugins \/ Expires \/ Stop

Next ==
    \/ \E s \in Sides : Adapter(s) \/ PluginReads(s) \/ PluginExits(s)
    \/ TO2Step \/ GracefulStop \/ TransportFails \/ NewCall

Spec == Init /\ [][Next]_vars

\* The adapters run, and plugins answer; they need not exit nor stop gracefully.
Fairness ==
    /\ \A s \in Sides : WF_vars(Adapter(s)) /\ WF_vars(PluginReads(s))
    /\ WF_vars(TO2Step)

FairSpec == Spec /\ Fairness

------------------------------------------------------------------------------
(* Properties.                                                               *)

\* What a plugin reads are the messages the plugin of the peer wrote, command for
\* command and in their order: none is lost, repeated or put together wrongly by
\* decodeAndProduce, Receive, Yield and HandleInfo.  Messages active are not told
\* apart from those of TO2, and a plugin left over from an earlier call is not held
\* to it.
Own(lines) == SelectSeq(lines, LAMBDA l : l.c # "7" /\ l # Line("K", "active"))

HearEachOther ==
    Running /\ ~stray =>
        /\ IsPrefix(heard["device"], Own(said["owner"]))
        /\ IsPrefix(Own(heard["owner"]), said["device"])

\* A module that completes has its owner's plugin stopped, and once stopDevicePlugins
\* has returned and the handler has ended, the device's plugin is stopped, unless its
\* module was deactivated or the handler was late and started it again.
StoppedWithModule ==
    /\ isDone => proc["owner"] = "none"
    /\ stopping = "stopped" /\ handler = "over" /\ ~stray /\ proc["device"] # "none"
           => ~active \/ late

\* The owner's plugin ends every turn with a break: within a round nothing counts.
BreaksForever == []<><<ReadBreak("owner")>>_vars

\* A call of TO2 ends when the plugins answer, at the limit of rounds at the latest,
\* unless the owner's plugin breaks forever; and stopDevicePlugins returns although
\* GracefulStop does not.
CallEnds ==
    /\ (Running ~> ~Running) \/ BreaksForever
    /\ stopping \in {"asked", "grace over"} ~> stopping = "stopped"
=============================================================================
