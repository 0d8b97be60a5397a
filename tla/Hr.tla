---------------------------------- MODULE Hr ----------------------------------
(***************************************************************************)
(* What the modules of the hr service share: the requests it works on at a *)
(* time, each between two of its awaits, and the faults they meet.         *)
(***************************************************************************)
EXTENDS Naturals

CONSTANTS
    Employees, Requests,
    None,       \* nobody, and nothing
    MaxFaults   \* bound: requests that fail or stop, messages not sent or expired

VARIABLES
    job,    \* what each request is at, with what it has in memory
    faults

Do(r, j) == job' = [job EXCEPT ![r] = j]
Fail     == faults < MaxFaults /\ faults' = faults + 1
=============================================================================
