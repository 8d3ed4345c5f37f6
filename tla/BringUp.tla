------------------------------- MODULE BringUp -------------------------------
(***************************************************************************)
(* What the boot promises about secondary CPUs, with no cores, caches or   *)
(* flags: CPUs register one at a time and in order, the system page is     *)
(* published when all have, then they leave the startup program one at a   *)
(* time and in order, and only then does the kernel start.                 *)
(***************************************************************************)
EXTENDS Integers

CONSTANT CpuLimit       \* CPU numbers are 0 .. CpuLimit - 1

VARIABLES
    n,         \* how many CPUs are brought up, the boot CPU included
    state,     \* of each secondary CPU
    page,      \* the system page
    outcome    \* of the boot

vars == <<n, state, page, outcome>>

Numbers == 1 .. CpuLimit - 1
CpuState == {"off", "building", "waiting", "leaving", "parked"}

Before(i) == {j \in Numbers : j < i}
Move(i, from, to) ==
    state[i] = from /\ state' = [state EXCEPT ![i] = to]

Init ==
    /\ n = 1
    /\ state = [i \in Numbers |-> "off"]
    /\ page = "building" /\ outcome = "booting"

\* The number of CPUs is settled before any of them runs.
Choose ==
    /\ outcome = "booting" /\ page = "building"
    /\ \A i \in Numbers : state[i] = "off"
    /\ n' \in 1 .. CpuLimit
    /\ UNCHANGED <<state, page, outcome>>

\* CPU i starts to add itself to the system page.
Begin(i) ==
    /\ outcome = "booting" /\ page = "building" /\ i < n
    /\ \A j \in Before(i) : state[j] = "waiting"
    /\ Move(i, "off", "building")
    /\ UNCHANGED <<n, page, outcome>>

Registered(i) ==
    /\ Move(i, "building", "waiting")
    /\ UNCHANGED <<n, page, outcome>>

Publish ==
    /\ outcome = "booting" /\ page = "building"
    /\ \A i \in Before(n) : state[i] = "waiting"
    /\ page' = "written"
    /\ UNCHANGED <<n, state, outcome>>

Leave(i) ==
    /\ outcome = "booting" /\ page = "written"
    /\ \A j \in Before(i) : state[j] = "parked"
    /\ Move(i, "waiting", "leaving")
    /\ UNCHANGED <<n, page, outcome>>

Park(i) ==
    /\ Move(i, "leaving", "parked")
    /\ UNCHANGED <<n, page, outcome>>

Boot ==
    /\ outcome = "booting" /\ page = "written"
    /\ \A i \in Before(n) : state[i] = "parked"
    /\ outcome' = "kernel"
    /\ UNCHANGED <<n, state, page>>

\* A CPU that cannot be started ends the boot, before the page is published.
Crash ==
    /\ outcome = "booting" /\ page = "building"
    /\ outcome' = "crashed"
    /\ UNCHANGED <<n, state, page>>

Next == \/ Choose \/ Publish \/ Boot \/ Crash
        \/ \E i \in Numbers : Begin(i) \/ Registered(i) \/ Leave(i) \/ Park(i)

Spec == Init /\ [][Next]_vars
=============================================================================
