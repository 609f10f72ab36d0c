--------------------------- MODULE Ownership ---------------------------
(***************************************************************************)
(* What onboarding promises, whatever messages, sessions and database      *)
(* statements it is made of: every device has a voucher, a voucher is only *)
(* given up when the device has another one, and a device goes by the GUID *)
(* of a voucher that is there.                                             *)
(***************************************************************************)
CONSTANTS
    Devices,     \* devices
    Guids,       \* names of vouchers
    InitGuid     \* the GUID each device is manufactured with

VARIABLES
    goesBy,      \* device: the GUID it goes by
    held         \* the vouchers owners hold, each the GUID and the device it is for

vars == <<goesBy, held>>

Voucher == [guid : Guids, dev : Devices]

Init ==
    /\ goesBy = InitGuid
    /\ held = {[guid |-> InitGuid[d], dev |-> d] : d \in Devices}

\* A voucher is issued for a device that has one, under a GUID nobody uses.
Issue(v) ==
    /\ \A w \in held : w.guid # v.guid
    /\ \A d \in Devices : goesBy[d] # v.guid
    /\ \E w \in held : w.dev = v.dev
    /\ held' = held \cup {v}
    /\ UNCHANGED goesBy

\* A voucher is given up for another one of its device.
Discard(v) ==
    /\ v \in held
    /\ \E w \in held : w # v /\ w.dev = v.dev
    /\ held' = held \ {v}
    /\ UNCHANGED goesBy

\* A device takes on the GUID of a voucher held for it.
Adopt(v) ==
    /\ v \in held
    /\ goesBy' = [goesBy EXCEPT ![v.dev] = v.guid]
    /\ UNCHANGED held

Next == \E v \in Voucher : Issue(v) \/ Discard(v) \/ Adopt(v)

Spec == Init /\ [][Next]_vars

\* The contract keeps every device onboardable: some voucher of it is held.
EveryDeviceHeld == \A d \in Devices : \E v \in held : v.dev = d
=============================================================================
