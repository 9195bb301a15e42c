---------------------------- MODULE Daemon_proofs ----------------------------
(***************************************************************************)
(* Proofs about the daemon, for any profiles, any number of changes of the *)
(* database and of notifications, and about the decisions of ConfigDiff,   *)
(* for any two configurations; MCDaemon states the latter for those of its *)
(* runs.                                                                   *)
(***************************************************************************)
EXTENDS MCDaemon, SequenceTheorems, TLAPS

(* The inductive invariant.  has_thread is the truth about the thread, and   *)
(* each step of the main thread knows whether there is one.                  *)
ThreadKnown ==
  /\ hasThread <=> tpc # "none"
  /\ mpc \in {"retry", "decide", "stop", "join"} => hasThread
  /\ mpc = "start" => ~hasThread
  /\ mpc \in {"stop", "join"} => after \in {"idle", "restart", "leave"}

(* The active ids are those of the dataplane, except for the profile whose   *)
(* notification is being handled; what was read is for the ids as they are.  *)
IdsFollow == hasThread /\ ~unloadFailed =>
  /\ mpc \in {"idle", "check"} => DOMAIN cfg = ids
  /\ mpc \in {"build", "retry", "decide"} =>
       /\ added => cur \in ids /\ DOMAIN cfg = ids \ {cur}
       /\ ~added /\ cur \in ids => DOMAIN cfg = ids
ReadIsFor ==
  /\ mpc \in {"decide", "start"} => DOMAIN newCfg = ids
  /\ mpc \in {"stop", "join"} /\ after = "restart" => DOMAIN newCfg = ids

IInv == ThreadKnown /\ IdsFollow /\ ReadIsFor

USE DEF MainGoes, ThreadGoes, database, handler, history, mainPart

------------------------------------------------------------------------------
(* ConfigDiff. *)

(* Unchanged means that the profiles are the same. *)
LEMMA NonePreserves == \A a, b : Path(a, b) = "none" => a.profiles = b.profiles
  BY DEF Path, IncrementalPath, ConfigDbUnchanged, ProfilesFullyUnchanged

(* Whatever the two configurations, an incremental reload that fails is not  *)
(* followed by a restart (apply_active_configs repeats its predicates).      *)
THEOREM FailureKeeps ==
  \A prev, new : Path(prev, new) \in IncrementalPaths => AfterFailure(prev, new) = "kept"
<1> SUFFICES ASSUME NEW prev, NEW new, Path(prev, new) \in IncrementalPaths
             PROVE  AfterFailure(prev, new) = "kept"
  OBVIOUS
<1>1. ~SameTopology(prev, new) /\ IncrementalPath(prev, new) # "restart"
  BY DEF Path, IncrementalPath, IncrementalPaths
<1>2. \/ CanAdd(prev, new) \/ CanRemove(prev, new)
      \/ CanDelta(prev, new) \/ IsWanOnlyRemoval(prev, new)
  BY <1>1 DEF IncrementalPath, AddOnly
<1> QED BY <1>1, <1>2 DEF AfterFailure

(* Interfaces that come or go never restart the dataplane, whatever else     *)
(* changes, as long as the rows of the others are the same.                  *)
THEOREM PlugIsIncremental ==
  \A prev, new : Path(prev, new) = "restart" /\ SharedRowsUnchanged(prev, new)
                   => SameTopology(prev, new)
<1> SUFFICES ASSUME NEW prev, NEW new, SharedRowsUnchanged(prev, new), ~SameTopology(prev, new)
             PROVE  Path(prev, new) # "restart"
  OBVIOUS
<1>1. HasAddition(prev, new) \/ HasRemoval(prev, new)
  BY DEF SameTopology, HasAddition, HasRemoval
<1>2. CanDelta(prev, new) BY <1>1 DEF CanDelta
<1>3. IncrementalPath(prev, new) \in {"add", "delta"} BY <1>2 DEF IncrementalPath
<1> QED BY <1>3 DEF Path

------------------------------------------------------------------------------
LEMMA InitIInv == Init => IInv
  BY DEF Init, IInv, ThreadKnown, IdsFollow, ReadIsFor

(* The environment and the forwarder thread touch neither ids nor slots. *)
LEMMA OthersKeep == IInv /\ (Environment \/ ForwarderThread \/ Gone) => IInv'
<1> SUFFICES ASSUME IInv, Environment \/ ForwarderThread \/ Gone PROVE IInv' OBVIOUS
<1>1. /\ UNCHANGED <<mpc, cur, added, after, ids, hasThread, cfg, newCfg, unloadFailed>>
      /\ tpc' = "none" <=> tpc = "none"
  BY DEF Environment, Edit, Notify, ConnectionReset, Signal, ForwarderThread, InitContinues,
     Aborts, OpenFails, InitEnds, RunEnds, Gone, vars
<1> QED BY <1>1 DEF IInv, ThreadKnown, IdsFollow, ReadIsFor

(* Giving up takes back what was added, or remembers what was deleted. *)
LEMMA GiveUpKeeps ==
  ASSUME IInv, mpc \in {"build", "retry", "decide", "start"}, GiveUp,
         UNCHANGED <<cur, added, hasThread, cfg, tpc>>
  PROVE  IInv'
  BY DEF IInv, ThreadKnown, IdsFollow, ReadIsFor, GiveUp

LEMMA MainKeeps == IInv /\ MainThread => IInv'
<1> SUFFICES ASSUME IInv PROVE MainThread => IInv' OBVIOUS
<1> USE DEF IInv, ThreadKnown, IdsFollow, ReadIsFor
<1>1. Take \/ Unknown => IInv'
  BY DEF Take, Unknown
<1>8. ASSUME Load PROVE IInv'
  <2>1. /\ mpc = "check" /\ mpc' = "build" /\ cur \in ids'
        /\ UNCHANGED <<cur, after, hasThread, cfg, newCfg, tpc, unloadFailed>>
    BY <1>8 DEF Load
  <2>2. hasThread => ids' = ids \cup {cur} /\ (added' <=> cur \notin ids)
    BY <1>8 DEF Load
  <2> QED BY <2>1, <2>2
<1>9. Delete => IInv'
  BY DEF Delete
<1>2. BuildFails \/ ReloadKept \/ StartFails => IInv'
  BY GiveUpKeeps DEF BuildFails, ReloadKept, StartFails
<1>3. BuildFirst => IInv'
  BY DEF BuildFirst, ReadAll
<1>4. ASSUME Build PROVE IInv'
  <2>1. DOMAIN newCfg' = ids BY <1>4 DEF Build, ReadAll
  <2>2. PathTo(newCfg') = "none" => DOMAIN cfg = ids
    <3>1. PathTo(newCfg') = "none" => ConfigOf(cfg).profiles = ConfigOf(newCfg').profiles
      BY NonePreserves DEF PathTo
    <3> QED BY <2>1, <3>1 DEF ConfigOf
  <2>3. /\ mpc \in {"build", "retry"} /\ hasThread
        /\ \/ mpc' = "decide"
           \/ PathTo(newCfg') = "none" /\ mpc' \in {"retry", "idle"}
        /\ UNCHANGED <<cur, added, after, ids, hasThread, cfg, tpc, unloadFailed>>
    BY <1>4 DEF Build
  <2> QED BY <2>1, <2>2, <2>3
<1>5. ReloadApplied \/ RestartNeeded => IInv'
  BY DEF ReloadApplied, RestartNeeded
<1>6. Stop => IInv'
  BY DEF Stop
<1>10. ASSUME Join PROVE IInv'
  <2>1. after \in {"idle", "restart", "leave"} BY <1>10 DEF Join
  <2>2. mpc' = IF after = "restart" THEN "start" ELSE IF after = "idle" THEN "idle" ELSE "gone"
    BY <1>10, <2>1 DEF Join, Joined
  <2>3. hasThread' = FALSE /\ tpc' = "none" BY <1>10 DEF Join, Joined
  <2> QED BY <1>10, <2>1, <2>2, <2>3 DEF Join, Joined
<1>7. Start \/ Leave => IInv'
  BY DEF Start, Leave
<1> QED BY <1>1, <1>2, <1>3, <1>4, <1>5, <1>6, <1>7, <1>8, <1>9, <1>10 DEF MainThread

LEMMA NextKeeps == IInv /\ [Next]_vars => IInv'
<1>1. IInv /\ UNCHANGED vars => IInv'
  BY DEF vars, IInv, ThreadKnown, IdsFollow, ReadIsFor
<1> QED BY <1>1, OthersKeep, MainKeeps DEF Next

(* The two parts hold after any sequence of notifications, failures, stops   *)
(* and signals.                                                              *)
THEOREM Invariant == Spec => []IInv
<1>1. Init => IInv BY InitIInv
<1>2. IInv /\ [Next]_vars => IInv' BY NextKeeps
<1> QED BY <1>1, <1>2, PTL DEF Spec

(* Type correctness, in two halves; the second needs the other parts. *)
DataTyped == /\ db \in [Profiles -> Rows \cup {Absent}] /\ edits \in 0..MaxEdits
             /\ notes \in Seq(Profiles) /\ Len(notes) \in 0..MaxNotes
ControlTyped ==
  /\ gstop \in BOOLEAN /\ running \in BOOLEAN
  /\ mpc \in {"idle", "check", "build", "retry", "decide", "stop", "join", "start", "gone"}
  /\ cur \in Profiles /\ added \in BOOLEAN
  /\ after \in {"idle", "first", "restart", "leave"}
  /\ ids \subseteq Profiles /\ hasThread \in BOOLEAN
  /\ Rowed(cfg) /\ Rowed(newCfg)
  /\ tpc \in {"none", "init", "opening", "checked", "ready", "up", "done"}
  /\ restarted \in BOOLEAN /\ openFailed \in BOOLEAN
  /\ overwritten \in BOOLEAN /\ unloadFailed \in BOOLEAN

LEMMA Halves == TypeOK <=> DataTyped /\ ControlTyped /\ (hasThread <=> tpc # "none")
  BY DEF TypeOK, DataTyped, ControlTyped

LEMMA DataKept == DataTyped /\ [Next]_vars => DataTyped'
<1> SUFFICES ASSUME DataTyped, [Next]_vars PROVE DataTyped' OBVIOUS
<1> USE DEF DataTyped
<1>1. ASSUME NEW p \in Profiles, Edit(p) PROVE DataTyped'
  BY <1>1, BoundsAssumption DEF Edit
<1>2. ASSUME NEW p \in Profiles, Notify(p) PROVE DataTyped'
  <2>1. notes' \in Seq(Profiles) /\ Len(notes') = Len(notes) + 1
    BY <1>2, AppendProperties DEF Notify
  <2> QED BY <1>2, <2>1, BoundsAssumption DEF Notify
<1>3. ConnectionReset => DataTyped'
  BY EmptySeq, BoundsAssumption DEF ConnectionReset
<1>4. ASSUME Take PROVE DataTyped'
  <2>1. notes \in Seq(Profiles) /\ notes # <<>> BY <1>4 DEF Take
  <2>2. /\ Tail(notes) \in Seq(Profiles) /\ Len(Tail(notes)) = Len(notes) - 1 /\ Len(notes) # 0
    BY <2>1, HeadTailProperties, EmptySeq
  <2> QED BY <1>4, <2>2, BoundsAssumption DEF Take
<1>5. ASSUME UNCHANGED <<db, edits, notes>> PROVE DataTyped'
  BY <1>5
<1>6. MainThread => Take \/ UNCHANGED <<db, edits, notes>>
  BY DEF MainThread, Load, Unknown, Delete, BuildFails, BuildFirst, Build, ReloadApplied,
     ReloadKept, RestartNeeded, Stop, Join, Joined, Start, StartFails, Leave
<1>7. ForwarderThread \/ Signal \/ Gone \/ UNCHANGED vars => UNCHANGED <<db, edits, notes>>
  BY DEF ForwarderThread, InitContinues, Aborts, OpenFails, InitEnds, RunEnds, Signal, Gone, vars
<1> QED BY <1>1, <1>2, <1>3, <1>4, <1>5, <1>6, <1>7 DEF Next, Environment

LEMMA ControlKept == DataTyped /\ ControlTyped /\ IInv /\ [Next]_vars => ControlTyped'
<1> SUFFICES ASSUME DataTyped, ControlTyped, IInv PROVE [Next]_vars => ControlTyped' OBVIOUS
<1>1. ASSUME Take PROVE ControlTyped'
  <2>1. Head(notes) \in Profiles BY <1>1, HeadTailProperties, EmptySeq DEF Take, DataTyped
  <2> QED BY <1>1, <2>1 DEF Take, ControlTyped
<1>2. ASSUME BuildFirst \/ Build PROVE ControlTyped'
  <2>1. Rowed(newCfg')
    BY <1>2 DEF BuildFirst, Build, ReadAll, Rowed, DataTyped, ControlTyped, Absent
  <2>2. mpc' \in {"start", "decide", "retry", "idle"} BY <1>2 DEF BuildFirst, Build
  <2>3. after' \in {"idle", "first", "restart", "leave"}
    BY <1>2 DEF BuildFirst, Build, ControlTyped
  <2> QED BY <1>2, <2>1, <2>2, <2>3 DEF BuildFirst, Build, ControlTyped
<1>3. ASSUME Join PROVE ControlTyped'
  <2>1. after \in {"idle", "restart", "leave"} BY <1>3 DEF Join, IInv, ThreadKnown
  <2>2. mpc' \in {"start", "idle", "gone"} BY <1>3, <2>1 DEF Join, Joined
  <2> QED BY <1>3, <2>2 DEF Join, Joined, ControlTyped
<1>4. Load => ControlTyped' BY DEF Load, ControlTyped
<1>5. Unknown => ControlTyped' BY DEF Unknown, ControlTyped
<1>6. Delete => ControlTyped' BY DEF Delete, ControlTyped
<1>7. BuildFails => ControlTyped' BY DEF BuildFails, GiveUp, ControlTyped
<1>8. ReloadApplied => ControlTyped' BY DEF ReloadApplied, ControlTyped
<1>9. ReloadKept => ControlTyped' BY DEF ReloadKept, GiveUp, ControlTyped
<1>10. RestartNeeded => ControlTyped' BY DEF RestartNeeded, ControlTyped
<1>11. Stop => ControlTyped' BY DEF Stop, ControlTyped
<1>12. Start => ControlTyped' BY DEF Start, ControlTyped
<1>13. StartFails => ControlTyped' BY DEF StartFails, GiveUp, ControlTyped
<1>14. Leave => ControlTyped' BY DEF Leave, ControlTyped
<1>15. MainThread => ControlTyped'
  BY <1>1, <1>2, <1>3, <1>4, <1>5, <1>6, <1>7, <1>8, <1>9, <1>10, <1>11, <1>12, <1>13, <1>14
     DEF MainThread
<1>16. InitContinues => ControlTyped' BY DEF InitContinues, ControlTyped
<1>17. Aborts \/ RunEnds => ControlTyped' BY DEF Aborts, RunEnds, ControlTyped
<1>18. OpenFails => ControlTyped' BY DEF OpenFails, ControlTyped
<1>19. InitEnds => ControlTyped' BY DEF InitEnds, ControlTyped
<1>20. ForwarderThread => ControlTyped'
  BY <1>16, <1>17, <1>18, <1>19 DEF ForwarderThread
<1>21. Signal => ControlTyped' BY DEF Signal, ControlTyped
<1>22. ConnectionReset \/ (\E p \in Profiles : Edit(p) \/ Notify(p)) => ControlTyped'
  BY DEF ConnectionReset, Edit, Notify, ControlTyped
<1>23. Gone \/ UNCHANGED vars => ControlTyped' BY DEF Gone, vars, ControlTyped
<1> QED BY <1>15, <1>20, <1>21, <1>22, <1>23 DEF Next, Environment

(* Every variable keeps its type. *)
THEOREM TypeCorrect == Spec => []TypeOK
<1>1. Init => DataTyped
  BY BoundsAssumption, EmptySeq DEF Init, DataTyped, Rows
<1>2. Init => ControlTyped
  <2>1. DOMAIN << >> = {} OBVIOUS
  <2>2. Rowed(<< >>) BY <2>1 DEF Rowed
  <2>3. Init => Rowed(cfg) /\ Rowed(newCfg) BY <2>2 DEF Init
  <2> QED BY <2>3 DEF Init, ControlTyped
<1>3. IInv => (hasThread <=> tpc # "none") BY DEF IInv, ThreadKnown
<1>4. IInv /\ DataTyped /\ ControlTyped => TypeOK BY <1>3, Halves
<1> QED BY <1>1, <1>2, <1>4, DataKept, ControlKept, Invariant, PTL DEF Spec

(* The dataplane is configured for the active profiles. *)
THEOREM IdsMatch == Spec => []ActiveIdsMatch
<1>1. IInv => ActiveIdsMatch BY DEF IInv, IdsFollow, ActiveIdsMatch
<1> QED BY <1>1, Invariant, PTL

(* Two forwarders are never alive at once. *)
THEOREM OneAtATime == Spec => OneForwarder
<1>1. IInv /\ [Next]_vars => [tpc' = "init" /\ tpc # "init" => tpc = "none"]_vars
  <2> SUFFICES ASSUME IInv, Next, tpc' = "init", tpc # "init" PROVE tpc = "none"
    BY DEF vars
  <2>1. Start
    <3>1. ~Environment /\ ~ForwarderThread /\ ~Gone
      BY DEF Environment, Edit, Notify, ConnectionReset, Signal, ForwarderThread, InitContinues,
         Aborts, OpenFails, InitEnds, RunEnds, Gone, vars
    <3> QED BY <3>1 DEF Next, MainThread, Take, Load, Unknown, Delete, BuildFails, BuildFirst,
              Build, ReloadApplied, ReloadKept, RestartNeeded, Stop, Join, Joined, StartFails,
              Leave
  <2> QED BY <2>1 DEF Start, IInv, ThreadKnown
<1> QED BY <1>1, Invariant, PTL DEF Spec, OneForwarder

(* Interfaces that only come or go never restart the dataplane: the property *)
(* that apply_active_configs is run with, of any two configurations.         *)
THEOREM PlugNeverRestarts == Spec => []PlugAndUnplugNeverRestarts
<1>1. PlugAndUnplugNeverRestarts BY PlugIsIncremental DEF PlugAndUnplugNeverRestarts
<1> QED BY <1>1, PTL

(* An incremental reload that fails leaves the dataplane as it is: the test  *)
(* after the failure covers every branch of apply_active_configs.            *)
THEOREM FailureNeverRestarts == Spec => []FailedIncrementalIsKept
<1>1. FailedIncrementalIsKept BY FailureKeeps DEF FailedIncrementalIsKept
<1> QED BY <1>1, PTL
==============================================================================
