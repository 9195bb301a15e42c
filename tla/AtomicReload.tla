---------------------------- MODULE AtomicReload -----------------------------
(***************************************************************************)
(* What a hot reload promises the main thread, as long as the process is   *)
(* not being stopped and no reload fails or is given up half way: a        *)
(* request is applied at one instant between its invocation and its        *)
(* answer, at most once, and the answer says whether it was.  Module       *)
(* Reload is the implementation, one shared access per step.               *)
(***************************************************************************)
EXTENDS Naturals

CONSTANT MaxVersion   \* versions of the configuration

Versions == 1..MaxVersion
NoVersion == 0

VARIABLES reported,   \* the version the main thread takes for the running one
          asked,      \* the version it asked for and was not answered about
          runs,       \* the version the dataplane runs
          broken      \* the promise no longer binds

vars == <<reported, asked, runs, broken>>

Init == /\ reported \in Versions
        /\ runs = reported
        /\ asked = NoVersion
        /\ broken = FALSE

Ask(v) == /\ ~broken /\ asked = NoVersion
          /\ v > reported
          /\ asked' = v
          /\ UNCHANGED <<reported, runs, broken>>

Pending == ~broken /\ asked # NoVersion

(* The dataplane changes over. *)
Apply == /\ Pending /\ runs = reported
         /\ runs' = asked
         /\ UNCHANGED <<reported, asked, broken>>

(* The answer "applied". *)
Commit == /\ Pending /\ runs = asked
          /\ reported' = asked /\ asked' = NoVersion
          /\ UNCHANGED <<runs, broken>>

(* The answer "failed": nothing changed, and nothing will. *)
Refuse == /\ Pending /\ runs = reported
          /\ asked' = NoVersion
          /\ UNCHANGED <<reported, runs, broken>>

(* A stop, a restart of the dataplane or a reload that broke off. *)
GiveUp == /\ broken' = TRUE
          /\ reported' \in Versions \cup {NoVersion}
          /\ asked' \in Versions \cup {NoVersion}
          /\ runs' \in Versions \cup {NoVersion}

Next == \/ \E v \in Versions : Ask(v)
        \/ Apply \/ Commit \/ Refuse \/ GiveUp

Spec == Init /\ [][Next]_vars
==============================================================================
