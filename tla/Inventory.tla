------------------------------ MODULE Inventory ------------------------------
(***************************************************************************)
(* What the graph DB's picture of a network promises: a device is in it    *)
(* only if somebody asked for it or a cable led to it from a device that   *)
(* was in it, and a link only if there has been such a cable, between two  *)
(* devices that are in it.  Whatever fails, moves or is deleted meanwhile. *)
(***************************************************************************)
CONSTANTS
    Devices,
    Ports, Owner,   \* the interfaces of all devices, and whose each is
    Asked           \* the devices that discoveries are asked to begin with

VARIABLES
    known,   \* the devices in the picture
    links,   \* the links between their ports
    met,     \* the devices that have ever been known
    wired    \* the pairs of ports that have ever been connected

NextTo(ds, pairs) == {Owner[r[2]] : r \in {q \in pairs : Owner[q[1]] \in ds}}

Init ==
    /\ known = {} /\ links = {} /\ met = {}
    /\ wired \subseteq Ports \X Ports

Wire ==
    /\ wired \subseteq wired' /\ wired' \subseteq Ports \X Ports
    /\ UNCHANGED <<known, links, met>>

Learn(d) ==
    /\ d \in Asked \cup NextTo(met, wired)
    /\ known' = known \cup {d}
    /\ met' = met \cup {d}
    /\ UNCHANGED <<links, wired>>

Link ==
    /\ links \subseteq links'
    /\ \A r \in links' \ links : r \in wired /\ Owner[r[1]] \in known /\ Owner[r[2]] \in known
    /\ UNCHANGED <<known, met, wired>>

Forget(d) ==
    /\ known' = known \ {d}
    /\ links' = {r \in links : d \notin {Owner[r[1]], Owner[r[2]]}}
    /\ UNCHANGED <<met, wired>>

Next == Wire \/ Link \/ \E d \in Devices : Learn(d) \/ Forget(d)

Spec == Init /\ [][Next]_<<known, links, met, wired>>
=============================================================================
