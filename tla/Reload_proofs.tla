---------------------------- MODULE Reload_proofs ----------------------------
(***************************************************************************)
(* Proofs about the hand-shake of a reload, for any number of reloads.     *)
(***************************************************************************)
EXTENDS Reload, TLAPS

(* The inductive invariant.  While nothing has gone wrong and no stop was    *)
(* requested, the worker is at a request only as long as the main thread     *)
(* waits for it, and both speak of the slot that is not active.              *)
Quiet == running /\ ~tainted
Waiting == mpc \in {"test", "asleep"}
Loaded == wpc \in {"load_mode", "apply", "rebuild", "publish", "reset_mode",
                   "clear_pending", "set_done"}
HandShake == Quiet =>
  /\ HasRequest => Waiting /\ ~done
  /\ pending => Waiting /\ ~done /\ wpc # "set_done"
  /\ mpc = "set_pending" => ~done
  /\ mpc \in {"clear_done", "set_pending", "test", "asleep"} => reqSlot = Other(active)
  /\ Loaded => wslot = Other(active)

(* What the dataplane runs, before and after the request is carried out, and *)
(* what the result that travels from the worker to the main thread says.     *)
Before == fwdCfg = active /\ built = slot[active]
After == fwdCfg = Other(active) /\ built = slot[Other(active)]
Says(r) == (r = "ok" => After) /\ (r = "fail" => Before)
WorkerSays == Quiet =>
  /\ wpc \in {"load_cfg", "load_mode", "apply"} => Before
  /\ wpc = "rebuild" => fwdCfg = wslot /\ built = slot[active]
  /\ wpc \in {"publish", "reset_mode", "clear_pending", "set_done"} => Says(wrc)
  /\ wpc \in {"reset_mode", "clear_pending", "set_done"} => rc = wrc
MainSays == Quiet =>
  /\ mpc \in {"idle", "ready", "clear_done", "set_pending"} => Before
  /\ mpc \in {"test", "asleep", "read"} /\ ~done /\ ~HasRequest => Before
  /\ mpc \in {"test", "asleep", "read"} /\ done => Says(rc)
  /\ mpc = "unlocked" => IF done THEN Says(mrc) ELSE Before
  /\ mpc = "answered" => Says(mrc)

(* A reported success outlasts a stop request. *)
SuccessLasts == mpc = "answered" /\ mrc = "ok" /\ ~tainted => After /\ ~HasRequest

IInv == TypeOK /\ HandShake /\ WorkerSays /\ MainSays /\ SuccessLasts

USE DEF MainGoes, WorkerGoes, HasRequest, Slots, Other, Results, Kinds

LEMMA SlotFacts == \A s \in Slots : Other(s) \in Slots /\ Other(s) # s /\ Other(Other(s)) = s
  OBVIOUS

LEMMA InitIInv == Init => IInv
<1> SUFFICES ASSUME Init PROVE IInv OBVIOUS
<1>1. TypeOK
  <2>1. 1 \in Versions BY VersionAssumption DEF Versions
  <2>2. slot \in [Slots -> Versions \cup {NoVersion}] BY <2>1 DEF Init
  <2>3. wpc = "down" /\ mpc = "idle" BY DEF Init
  <2> QED BY <2>1, <2>2, <2>3 DEF Init, TypeOK
<1>2. HandShake /\ WorkerSays BY DEF Init, HandShake, WorkerSays, Waiting, Loaded
<1>3. MainSays /\ SuccessLasts BY DEF Init, MainSays, SuccessLasts, Before
<1> QED BY <1>1, <1>2, <1>3 DEF IInv

------------------------------------------------------------------------------
(* Type correctness. *)

LEMMA MainTyped ==
  TypeOK /\ ((\E k \in Kinds : Notify(k)) \/ MainStep \/ SpuriousWakeup \/ TimeOut) => TypeOK'
<1> SUFFICES ASSUME TypeOK PROVE ((\E k \in Kinds : Notify(k)) \/ MainStep \/ SpuriousWakeup \/ TimeOut) => TypeOK'
  OBVIOUS
<1> USE DEF TypeOK, config, plane, flags, request, mainVars, workerVars
<1>1. ASSUME NEW k \in Kinds, Notify(k) PROVE TypeOK'
  BY <1>1, VersionAssumption DEF Notify, Versions, NoVersion
<1>2. Refuse => TypeOK'
  BY DEF Refuse
<1>7. ClearDone => TypeOK'
  BY DEF ClearDone
<1>8. Fill => TypeOK'
  BY DEF Fill
<1>6. SetPending \/ Test => TypeOK'
  BY DEF SetPending, Test
<1>3. SpuriousWakeup \/ TimeOut \/ ReadRc \/ Judge => TypeOK'
  BY DEF SpuriousWakeup, TimeOut, ReadRc, Judge
<1>4. Applied \/ Kept \/ Restart \/ LeaveLoop => TypeOK'
  BY DEF Applied, Kept, Restart, LeaveLoop, SwitchSlot
<1>5. StopForwarder \/ ReloadShutdown \/ Join => TypeOK'
  BY DEF StopForwarder, ReloadShutdown, Join
<1> QED BY <1>1, <1>2, <1>3, <1>4, <1>5, <1>6, <1>7, <1>8 DEF MainStep

LEMMA WorkerTyped == TypeOK /\ (WorkerStep \/ Signal) => TypeOK'
<1> SUFFICES ASSUME TypeOK PROVE WorkerStep \/ Signal => TypeOK'
  OBVIOUS
<1> USE DEF TypeOK, config, plane, flags, request, mainVars, workerVars
<1>1. ThreadsUp \/ Exit \/ Poll \/ LoadCfg \/ LoadMode => TypeOK'
  BY DEF ThreadsUp, Exit, Poll, LoadCfg, LoadMode
<1>2. ApplyRefused \/ ApplyCfg \/ Rebuild \/ RebuildFails => TypeOK'
  BY DEF ApplyRefused, ApplyCfg, Rebuild, RebuildFails, NoVersion
<1>3. PublishRc \/ ResetMode \/ ClearPending \/ SetDone \/ Wake \/ Signal => TypeOK'
  BY DEF PublishRc, ResetMode, ClearPending, SetDone, Wake, Signal
<1> QED BY <1>1, <1>2, <1>3 DEF WorkerStep

------------------------------------------------------------------------------
(* The steps of the main thread. *)

LEMMA NotifyKeeps == ASSUME IInv, NEW k \in Kinds, Notify(k) PROVE IInv'
<1> USE DEF IInv, TypeOK, config, plane, flags, request, mainVars, workerVars
<1>1. TypeOK' BY MainTyped
<1>2. /\ active' = active /\ slot'[active] = slot[active]
      /\ UNCHANGED <<fwdCfg, built, running, pending, done, wpc, wslot, wrc, rc, tainted>>
  BY SlotFacts DEF Notify
<1>3. (HandShake /\ WorkerSays)'
  BY <1>2 DEF Notify, HandShake, WorkerSays, MainSays, Quiet, Waiting, Loaded, Before, After, Says
<1>4. (MainSays /\ SuccessLasts)'
  BY <1>2 DEF Notify, MainSays, SuccessLasts, Quiet, Before, After, Says
<1> QED BY <1>1, <1>3, <1>4

LEMMA RefuseKeeps == IInv /\ Refuse => IInv'
<1> SUFFICES ASSUME IInv, Refuse PROVE IInv' OBVIOUS
<1> USE DEF IInv, Refuse, TypeOK, config, plane, flags, request, mainVars, workerVars
<1>1. TypeOK' BY MainTyped DEF MainStep
<1>2. HandShake' BY DEF HandShake, WorkerSays, MainSays, Quiet, Waiting, Loaded
<1>3. WorkerSays'
  BY DEF HandShake, WorkerSays, MainSays, Quiet, Waiting, Loaded, Before, After, Says
<1>4. MainSays'
  BY DEF HandShake, WorkerSays, MainSays, Quiet, Waiting, Loaded, Before, After, Says
<1>5. SuccessLasts'
  BY DEF HandShake, MainSays, SuccessLasts, Quiet, Waiting, Before, After, Says
<1> QED BY <1>1, <1>2, <1>3, <1>4, <1>5

LEMMA FillKeeps == IInv /\ Fill => IInv'
<1> SUFFICES ASSUME IInv, Fill PROVE IInv' OBVIOUS
<1> USE DEF IInv, Fill, TypeOK, config, plane, flags, request, mainVars, workerVars
<1>1. TypeOK' BY MainTyped DEF MainStep
<1>2. HandShake' BY DEF HandShake, WorkerSays, MainSays, Quiet, Waiting, Loaded
<1>3. WorkerSays'
  BY DEF HandShake, WorkerSays, MainSays, Quiet, Waiting, Loaded, Before, After, Says
<1>4. MainSays'
  BY DEF HandShake, WorkerSays, MainSays, Quiet, Waiting, Loaded, Before, After, Says
<1>5. SuccessLasts'
  BY DEF HandShake, MainSays, SuccessLasts, Quiet, Waiting, Before, After, Says
<1> QED BY <1>1, <1>2, <1>3, <1>4, <1>5

LEMMA ClearDoneKeeps == IInv /\ ClearDone => IInv'
<1> SUFFICES ASSUME IInv, ClearDone PROVE IInv' OBVIOUS
<1> USE DEF IInv, ClearDone, TypeOK, config, plane, flags, request, mainVars, workerVars
<1>1. TypeOK' BY MainTyped DEF MainStep
<1>2. HandShake' BY DEF HandShake, WorkerSays, MainSays, Quiet, Waiting, Loaded
<1>3. WorkerSays'
  BY DEF HandShake, WorkerSays, MainSays, Quiet, Waiting, Loaded, Before, After, Says
<1>4. MainSays'
  BY DEF HandShake, WorkerSays, MainSays, Quiet, Waiting, Loaded, Before, After, Says
<1>5. SuccessLasts'
  BY DEF HandShake, MainSays, SuccessLasts, Quiet, Waiting, Before, After, Says
<1> QED BY <1>1, <1>2, <1>3, <1>4, <1>5

LEMMA SetPendingKeeps == IInv /\ SetPending => IInv'
<1> SUFFICES ASSUME IInv, SetPending PROVE IInv' OBVIOUS
<1> USE DEF IInv, SetPending, TypeOK, config, plane, flags, request, mainVars, workerVars
<1>1. TypeOK' BY MainTyped DEF MainStep
<1>2. HandShake' BY DEF HandShake, WorkerSays, MainSays, Quiet, Waiting, Loaded
<1>3. WorkerSays'
  BY DEF HandShake, WorkerSays, MainSays, Quiet, Waiting, Loaded, Before, After, Says
<1>4. MainSays'
  BY DEF HandShake, WorkerSays, MainSays, Quiet, Waiting, Loaded, Before, After, Says
<1>5. SuccessLasts'
  BY DEF HandShake, MainSays, SuccessLasts, Quiet, Waiting, Before, After, Says
<1> QED BY <1>1, <1>2, <1>3, <1>4, <1>5

LEMMA TestKeeps == IInv /\ Test => IInv'
<1> SUFFICES ASSUME IInv, Test PROVE IInv' OBVIOUS
<1> USE DEF IInv, Test, TypeOK, config, plane, flags, request, mainVars, workerVars
<1>1. TypeOK' BY MainTyped DEF MainStep
<1>2. HandShake' BY DEF HandShake, WorkerSays, MainSays, Quiet, Waiting, Loaded
<1>3. WorkerSays'
  BY DEF HandShake, WorkerSays, MainSays, Quiet, Waiting, Loaded, Before, After, Says
<1>4. MainSays'
  BY DEF HandShake, WorkerSays, MainSays, Quiet, Waiting, Loaded, Before, After, Says
<1>5. SuccessLasts'
  BY DEF HandShake, MainSays, SuccessLasts, Quiet, Waiting, Before, After, Says
<1> QED BY <1>1, <1>2, <1>3, <1>4, <1>5

LEMMA SpuriousWakeupKeeps == IInv /\ SpuriousWakeup => IInv'
<1> SUFFICES ASSUME IInv, SpuriousWakeup PROVE IInv' OBVIOUS
<1> USE DEF IInv, SpuriousWakeup, TypeOK, config, plane, flags, request, mainVars, workerVars
<1>1. TypeOK' BY MainTyped DEF MainStep
<1>2. HandShake' BY DEF HandShake, WorkerSays, MainSays, Quiet, Waiting, Loaded
<1>3. WorkerSays'
  BY DEF HandShake, WorkerSays, MainSays, Quiet, Waiting, Loaded, Before, After, Says
<1>4. MainSays'
  BY DEF HandShake, WorkerSays, MainSays, Quiet, Waiting, Loaded, Before, After, Says
<1>5. SuccessLasts'
  BY DEF HandShake, MainSays, SuccessLasts, Quiet, Waiting, Before, After, Says
<1> QED BY <1>1, <1>2, <1>3, <1>4, <1>5

LEMMA TimeOutKeeps == IInv /\ TimeOut => IInv'
<1> SUFFICES ASSUME IInv, TimeOut PROVE IInv' OBVIOUS
<1> USE DEF IInv, TimeOut, TypeOK, config, plane, flags, request, mainVars, workerVars
<1>1. TypeOK' BY MainTyped DEF MainStep
<1>2. HandShake' BY DEF HandShake, WorkerSays, MainSays, Quiet, Waiting, Loaded
<1>3. WorkerSays'
  BY DEF HandShake, WorkerSays, MainSays, Quiet, Waiting, Loaded, Before, After, Says
<1>4. MainSays'
  BY DEF HandShake, WorkerSays, MainSays, Quiet, Waiting, Loaded, Before, After, Says
<1>5. SuccessLasts'
  BY DEF HandShake, MainSays, SuccessLasts, Quiet, Waiting, Before, After, Says
<1> QED BY <1>1, <1>2, <1>3, <1>4, <1>5

LEMMA ReadRcKeeps == IInv /\ ReadRc => IInv'
<1> SUFFICES ASSUME IInv, ReadRc PROVE IInv' OBVIOUS
<1> USE DEF IInv, ReadRc, TypeOK, config, plane, flags, request, mainVars, workerVars
<1>1. TypeOK' BY MainTyped DEF MainStep
<1>2. HandShake' BY DEF HandShake, WorkerSays, MainSays, Quiet, Waiting, Loaded
<1>3. WorkerSays'
  BY DEF HandShake, WorkerSays, MainSays, Quiet, Waiting, Loaded, Before, After, Says
<1>4. MainSays'
  BY DEF HandShake, WorkerSays, MainSays, Quiet, Waiting, Loaded, Before, After, Says
<1>5. SuccessLasts'
  BY DEF HandShake, MainSays, SuccessLasts, Quiet, Waiting, Before, After, Says
<1> QED BY <1>1, <1>2, <1>3, <1>4, <1>5

LEMMA JudgeKeeps == IInv /\ Judge => IInv'
<1> SUFFICES ASSUME IInv, Judge PROVE IInv' OBVIOUS
<1> USE DEF IInv, Judge, TypeOK, config, plane, flags, request, mainVars, workerVars
<1>1. TypeOK' BY MainTyped DEF MainStep
<1>2. HandShake' BY DEF HandShake, WorkerSays, MainSays, Quiet, Waiting, Loaded
<1>3. WorkerSays'
  BY DEF HandShake, WorkerSays, MainSays, Quiet, Waiting, Loaded, Before, After, Says
<1>4. MainSays'
  BY DEF HandShake, WorkerSays, MainSays, Quiet, Waiting, Loaded, Before, After, Says
<1>5. SuccessLasts'
  BY DEF HandShake, MainSays, SuccessLasts, Quiet, Waiting, Before, After, Says
<1> QED BY <1>1, <1>2, <1>3, <1>4, <1>5

LEMMA AppliedKeeps == IInv /\ Applied => IInv'
<1> SUFFICES ASSUME IInv, Applied PROVE IInv' OBVIOUS
<1> USE DEF IInv, Applied, SwitchSlot, TypeOK, config, plane, flags, request, mainVars, workerVars
<1>1. TypeOK' BY MainTyped DEF MainStep
<1>2. HandShake' BY DEF HandShake, WorkerSays, MainSays, Quiet, Waiting, Loaded
<1>3. WorkerSays'
  BY DEF HandShake, WorkerSays, MainSays, Quiet, Waiting, Loaded, Before, After, Says
<1>4. MainSays'
  BY DEF HandShake, WorkerSays, MainSays, Quiet, Waiting, Loaded, Before, After, Says
<1>5. SuccessLasts'
  BY DEF HandShake, MainSays, SuccessLasts, Quiet, Waiting, Before, After, Says
<1> QED BY <1>1, <1>2, <1>3, <1>4, <1>5

LEMMA KeptKeeps == IInv /\ Kept => IInv'
<1> SUFFICES ASSUME IInv, Kept PROVE IInv' OBVIOUS
<1> USE DEF IInv, Kept, TypeOK, config, plane, flags, request, mainVars, workerVars
<1>1. TypeOK' BY MainTyped DEF MainStep
<1>2. HandShake' BY DEF HandShake, WorkerSays, MainSays, Quiet, Waiting, Loaded
<1>3. WorkerSays'
  BY DEF HandShake, WorkerSays, MainSays, Quiet, Waiting, Loaded, Before, After, Says
<1>4. MainSays'
  BY DEF HandShake, WorkerSays, MainSays, Quiet, Waiting, Loaded, Before, After, Says
<1>5. SuccessLasts'
  BY DEF HandShake, MainSays, SuccessLasts, Quiet, Waiting, Before, After, Says
<1> QED BY <1>1, <1>2, <1>3, <1>4, <1>5

LEMMA RestartKeeps == IInv /\ Restart => IInv'
<1> SUFFICES ASSUME IInv, Restart PROVE IInv' OBVIOUS
<1> USE DEF IInv, Restart, SwitchSlot, TypeOK, config, plane, flags, request, mainVars, workerVars
<1>1. TypeOK' BY MainTyped DEF MainStep
<1>2. HandShake' BY DEF HandShake, WorkerSays, MainSays, Quiet, Waiting, Loaded
<1>3. WorkerSays'
  BY DEF HandShake, WorkerSays, MainSays, Quiet, Waiting, Loaded, Before, After, Says
<1>4. MainSays'
  BY DEF HandShake, WorkerSays, MainSays, Quiet, Waiting, Loaded, Before, After, Says
<1>5. SuccessLasts'
  BY DEF HandShake, MainSays, SuccessLasts, Quiet, Waiting, Before, After, Says
<1> QED BY <1>1, <1>2, <1>3, <1>4, <1>5

LEMMA LeaveLoopKeeps == IInv /\ LeaveLoop => IInv'
<1> SUFFICES ASSUME IInv, LeaveLoop PROVE IInv' OBVIOUS
<1> USE DEF IInv, LeaveLoop, TypeOK, config, plane, flags, request, mainVars, workerVars
<1>1. TypeOK' BY MainTyped DEF MainStep
<1>2. HandShake' BY DEF HandShake, WorkerSays, MainSays, Quiet, Waiting, Loaded
<1>3. WorkerSays'
  BY DEF HandShake, WorkerSays, MainSays, Quiet, Waiting, Loaded, Before, After, Says
<1>4. MainSays'
  BY DEF HandShake, WorkerSays, MainSays, Quiet, Waiting, Loaded, Before, After, Says
<1>5. SuccessLasts'
  BY DEF HandShake, MainSays, SuccessLasts, Quiet, Waiting, Before, After, Says
<1> QED BY <1>1, <1>2, <1>3, <1>4, <1>5

LEMMA StopForwarderKeeps == IInv /\ StopForwarder => IInv'
<1> SUFFICES ASSUME IInv, StopForwarder PROVE IInv' OBVIOUS
<1> USE DEF IInv, StopForwarder, TypeOK, config, plane, flags, request, mainVars, workerVars
<1>1. TypeOK' BY MainTyped DEF MainStep
<1>2. HandShake' BY DEF HandShake, WorkerSays, MainSays, Quiet, Waiting, Loaded
<1>3. WorkerSays'
  BY DEF HandShake, WorkerSays, MainSays, Quiet, Waiting, Loaded, Before, After, Says
<1>4. MainSays'
  BY DEF HandShake, WorkerSays, MainSays, Quiet, Waiting, Loaded, Before, After, Says
<1>5. SuccessLasts'
  BY DEF HandShake, MainSays, SuccessLasts, Quiet, Waiting, Before, After, Says
<1> QED BY <1>1, <1>2, <1>3, <1>4, <1>5

LEMMA ReloadShutdownKeeps == IInv /\ ReloadShutdown => IInv'
<1> SUFFICES ASSUME IInv, ReloadShutdown PROVE IInv' OBVIOUS
<1> USE DEF IInv, ReloadShutdown, TypeOK, config, plane, flags, request, mainVars, workerVars
<1>1. TypeOK' BY MainTyped DEF MainStep
<1>2. HandShake' BY DEF HandShake, WorkerSays, MainSays, Quiet, Waiting, Loaded
<1>3. WorkerSays'
  BY DEF HandShake, WorkerSays, MainSays, Quiet, Waiting, Loaded, Before, After, Says
<1>4. MainSays'
  BY DEF HandShake, WorkerSays, MainSays, Quiet, Waiting, Loaded, Before, After, Says
<1>5. SuccessLasts'
  BY DEF HandShake, MainSays, SuccessLasts, Quiet, Waiting, Before, After, Says
<1> QED BY <1>1, <1>2, <1>3, <1>4, <1>5

LEMMA JoinKeeps == IInv /\ Join => IInv'
<1> SUFFICES ASSUME IInv, Join PROVE IInv' OBVIOUS
<1> USE DEF IInv, Join, TypeOK, config, plane, flags, request, mainVars, workerVars
<1>1. TypeOK' BY MainTyped DEF MainStep
<1>2. HandShake' BY DEF HandShake, WorkerSays, MainSays, Quiet, Waiting, Loaded
<1>3. WorkerSays'
  BY DEF HandShake, WorkerSays, MainSays, Quiet, Waiting, Loaded, Before, After, Says
<1>4. MainSays'
  BY DEF HandShake, WorkerSays, MainSays, Quiet, Waiting, Loaded, Before, After, Says
<1>5. SuccessLasts'
  BY DEF HandShake, MainSays, SuccessLasts, Quiet, Waiting, Before, After, Says
<1> QED BY <1>1, <1>2, <1>3, <1>4, <1>5

------------------------------------------------------------------------------
(* The steps of worker 0, and the signal. *)

LEMMA ThreadsUpKeeps == IInv /\ ThreadsUp => IInv'
<1> SUFFICES ASSUME IInv, ThreadsUp PROVE IInv' OBVIOUS
<1> USE DEF IInv, ThreadsUp, TypeOK, config, plane, flags, request, mainVars, workerVars
<1>1. TypeOK' BY WorkerTyped DEF WorkerStep
<1>2. HandShake' BY DEF HandShake, WorkerSays, MainSays, Quiet, Waiting, Loaded
<1>3. WorkerSays'
  BY DEF HandShake, WorkerSays, MainSays, Quiet, Waiting, Loaded, Before, After, Says
<1>4. MainSays'
  BY DEF HandShake, WorkerSays, MainSays, Quiet, Waiting, Loaded, Before, After, Says
<1>5. SuccessLasts'
  BY DEF HandShake, MainSays, SuccessLasts, Quiet, Waiting, Before, After, Says
<1> QED BY <1>1, <1>2, <1>3, <1>4, <1>5

LEMMA ExitKeeps == IInv /\ Exit => IInv'
<1> SUFFICES ASSUME IInv, Exit PROVE IInv' OBVIOUS
<1> USE DEF IInv, Exit, TypeOK, config, plane, flags, request, mainVars, workerVars
<1>1. TypeOK' BY WorkerTyped DEF WorkerStep
<1>2. HandShake' BY DEF HandShake, WorkerSays, MainSays, Quiet, Waiting, Loaded
<1>3. WorkerSays'
  BY DEF HandShake, WorkerSays, MainSays, Quiet, Waiting, Loaded, Before, After, Says
<1>4. MainSays'
  BY DEF HandShake, WorkerSays, MainSays, Quiet, Waiting, Loaded, Before, After, Says
<1>5. SuccessLasts'
  BY DEF HandShake, MainSays, SuccessLasts, Quiet, Waiting, Before, After, Says
<1> QED BY <1>1, <1>2, <1>3, <1>4, <1>5

LEMMA PollKeeps == IInv /\ Poll => IInv'
<1> SUFFICES ASSUME IInv, Poll PROVE IInv' OBVIOUS
<1> USE DEF IInv, Poll, TypeOK, config, plane, flags, request, mainVars, workerVars
<1>1. TypeOK' BY WorkerTyped DEF WorkerStep
<1>2. HandShake' BY DEF HandShake, WorkerSays, MainSays, Quiet, Waiting, Loaded
<1>3. WorkerSays'
  BY DEF HandShake, WorkerSays, MainSays, Quiet, Waiting, Loaded, Before, After, Says
<1>4. MainSays'
  BY DEF HandShake, WorkerSays, MainSays, Quiet, Waiting, Loaded, Before, After, Says
<1>5. SuccessLasts'
  BY DEF HandShake, MainSays, SuccessLasts, Quiet, Waiting, Before, After, Says
<1> QED BY <1>1, <1>2, <1>3, <1>4, <1>5

LEMMA LoadCfgKeeps == IInv /\ LoadCfg => IInv'
<1> SUFFICES ASSUME IInv, LoadCfg PROVE IInv' OBVIOUS
<1> USE DEF IInv, LoadCfg, TypeOK, config, plane, flags, request, mainVars, workerVars
<1>1. TypeOK' BY WorkerTyped DEF WorkerStep
<1>2. HandShake' BY DEF HandShake, WorkerSays, MainSays, Quiet, Waiting, Loaded
<1>3. WorkerSays'
  BY DEF HandShake, WorkerSays, MainSays, Quiet, Waiting, Loaded, Before, After, Says
<1>4. MainSays'
  BY DEF HandShake, WorkerSays, MainSays, Quiet, Waiting, Loaded, Before, After, Says
<1>5. SuccessLasts'
  BY DEF HandShake, MainSays, SuccessLasts, Quiet, Waiting, Before, After, Says
<1> QED BY <1>1, <1>2, <1>3, <1>4, <1>5

LEMMA LoadModeKeeps == IInv /\ LoadMode => IInv'
<1> SUFFICES ASSUME IInv, LoadMode PROVE IInv' OBVIOUS
<1> USE DEF IInv, LoadMode, TypeOK, config, plane, flags, request, mainVars, workerVars
<1>1. TypeOK' BY WorkerTyped DEF WorkerStep
<1>2. HandShake' BY DEF HandShake, WorkerSays, MainSays, Quiet, Waiting, Loaded
<1>3. WorkerSays'
  BY DEF HandShake, WorkerSays, MainSays, Quiet, Waiting, Loaded, Before, After, Says
<1>4. MainSays'
  BY DEF HandShake, WorkerSays, MainSays, Quiet, Waiting, Loaded, Before, After, Says
<1>5. SuccessLasts'
  BY DEF HandShake, MainSays, SuccessLasts, Quiet, Waiting, Before, After, Says
<1> QED BY <1>1, <1>2, <1>3, <1>4, <1>5

LEMMA ApplyRefusedKeeps == IInv /\ ApplyRefused => IInv'
<1> SUFFICES ASSUME IInv, ApplyRefused PROVE IInv' OBVIOUS
<1> USE DEF IInv, ApplyRefused, TypeOK, config, plane, flags, request, mainVars, workerVars
<1>1. TypeOK' BY WorkerTyped DEF WorkerStep
<1>2. HandShake' BY DEF HandShake, WorkerSays, MainSays, Quiet, Waiting, Loaded
<1>3. WorkerSays'
  BY DEF HandShake, WorkerSays, MainSays, Quiet, Waiting, Loaded, Before, After, Says
<1>4. MainSays'
  BY DEF HandShake, WorkerSays, MainSays, Quiet, Waiting, Loaded, Before, After, Says
<1>5. SuccessLasts'
  BY DEF HandShake, MainSays, SuccessLasts, Quiet, Waiting, Before, After, Says
<1> QED BY <1>1, <1>2, <1>3, <1>4, <1>5

LEMMA ApplyCfgKeeps == IInv /\ ApplyCfg => IInv'
<1> SUFFICES ASSUME IInv, ApplyCfg PROVE IInv' OBVIOUS
<1> USE DEF IInv, ApplyCfg, TypeOK, config, plane, flags, request, mainVars, workerVars
<1>1. TypeOK' BY WorkerTyped DEF WorkerStep
<1>2. HandShake' BY DEF HandShake, WorkerSays, MainSays, Quiet, Waiting, Loaded
<1>3. WorkerSays'
  BY DEF HandShake, WorkerSays, MainSays, Quiet, Waiting, Loaded, Before, After, Says
<1>4. MainSays'
  BY DEF HandShake, WorkerSays, MainSays, Quiet, Waiting, Loaded, Before, After, Says
<1>5. SuccessLasts'
  BY DEF HandShake, MainSays, SuccessLasts, Quiet, Waiting, Before, After, Says
<1> QED BY <1>1, <1>2, <1>3, <1>4, <1>5

LEMMA RebuildKeeps == IInv /\ Rebuild => IInv'
<1> SUFFICES ASSUME IInv, Rebuild PROVE IInv' OBVIOUS
<1> USE DEF IInv, Rebuild, TypeOK, config, plane, flags, request, mainVars, workerVars
<1>1. TypeOK' BY WorkerTyped DEF WorkerStep
<1>2. HandShake' BY DEF HandShake, WorkerSays, MainSays, Quiet, Waiting, Loaded
<1>3. WorkerSays'
  BY DEF HandShake, WorkerSays, MainSays, Quiet, Waiting, Loaded, Before, After, Says
<1>4. MainSays'
  BY DEF HandShake, WorkerSays, MainSays, Quiet, Waiting, Loaded, Before, After, Says
<1>5. SuccessLasts'
  BY DEF HandShake, MainSays, SuccessLasts, Quiet, Waiting, Before, After, Says
<1> QED BY <1>1, <1>2, <1>3, <1>4, <1>5

LEMMA RebuildFailsKeeps == IInv /\ RebuildFails => IInv'
<1> SUFFICES ASSUME IInv, RebuildFails PROVE IInv' OBVIOUS
<1> USE DEF IInv, RebuildFails, TypeOK, config, plane, flags, request, mainVars, workerVars
<1>1. TypeOK' BY WorkerTyped DEF WorkerStep
<1>2. HandShake' BY DEF HandShake, WorkerSays, MainSays, Quiet, Waiting, Loaded
<1>3. WorkerSays'
  BY DEF HandShake, WorkerSays, MainSays, Quiet, Waiting, Loaded, Before, After, Says
<1>4. MainSays'
  BY DEF HandShake, WorkerSays, MainSays, Quiet, Waiting, Loaded, Before, After, Says
<1>5. SuccessLasts'
  BY DEF HandShake, MainSays, SuccessLasts, Quiet, Waiting, Before, After, Says
<1> QED BY <1>1, <1>2, <1>3, <1>4, <1>5

LEMMA PublishRcKeeps == IInv /\ PublishRc => IInv'
<1> SUFFICES ASSUME IInv, PublishRc PROVE IInv' OBVIOUS
<1> USE DEF IInv, PublishRc, TypeOK, config, plane, flags, request, mainVars, workerVars
<1>1. TypeOK' BY WorkerTyped DEF WorkerStep
<1>2. HandShake' BY DEF HandShake, WorkerSays, MainSays, Quiet, Waiting, Loaded
<1>3. WorkerSays'
  BY DEF HandShake, WorkerSays, MainSays, Quiet, Waiting, Loaded, Before, After, Says
<1>4. MainSays'
  BY DEF HandShake, WorkerSays, MainSays, Quiet, Waiting, Loaded, Before, After, Says
<1>5. SuccessLasts'
  BY DEF HandShake, MainSays, SuccessLasts, Quiet, Waiting, Before, After, Says
<1> QED BY <1>1, <1>2, <1>3, <1>4, <1>5

LEMMA ResetModeKeeps == IInv /\ ResetMode => IInv'
<1> SUFFICES ASSUME IInv, ResetMode PROVE IInv' OBVIOUS
<1> USE DEF IInv, ResetMode, TypeOK, config, plane, flags, request, mainVars, workerVars
<1>1. TypeOK' BY WorkerTyped DEF WorkerStep
<1>2. HandShake' BY DEF HandShake, WorkerSays, MainSays, Quiet, Waiting, Loaded
<1>3. WorkerSays'
  BY DEF HandShake, WorkerSays, MainSays, Quiet, Waiting, Loaded, Before, After, Says
<1>4. MainSays'
  BY DEF HandShake, WorkerSays, MainSays, Quiet, Waiting, Loaded, Before, After, Says
<1>5. SuccessLasts'
  BY DEF HandShake, MainSays, SuccessLasts, Quiet, Waiting, Before, After, Says
<1> QED BY <1>1, <1>2, <1>3, <1>4, <1>5

LEMMA ClearPendingKeeps == IInv /\ ClearPending => IInv'
<1> SUFFICES ASSUME IInv, ClearPending PROVE IInv' OBVIOUS
<1> USE DEF IInv, ClearPending, TypeOK, config, plane, flags, request, mainVars, workerVars
<1>1. TypeOK' BY WorkerTyped DEF WorkerStep
<1>2. HandShake' BY DEF HandShake, WorkerSays, MainSays, Quiet, Waiting, Loaded
<1>3. WorkerSays'
  BY DEF HandShake, WorkerSays, MainSays, Quiet, Waiting, Loaded, Before, After, Says
<1>4. MainSays'
  BY DEF HandShake, WorkerSays, MainSays, Quiet, Waiting, Loaded, Before, After, Says
<1>5. SuccessLasts'
  BY DEF HandShake, MainSays, SuccessLasts, Quiet, Waiting, Before, After, Says
<1> QED BY <1>1, <1>2, <1>3, <1>4, <1>5

LEMMA SetDoneKeeps == IInv /\ SetDone => IInv'
<1> SUFFICES ASSUME IInv, SetDone PROVE IInv' OBVIOUS
<1> USE DEF IInv, SetDone, TypeOK, config, plane, flags, request, mainVars, workerVars
<1>1. TypeOK' BY WorkerTyped DEF WorkerStep
<1>2. HandShake' BY DEF HandShake, WorkerSays, MainSays, Quiet, Waiting, Loaded
<1>3. WorkerSays'
  BY DEF HandShake, WorkerSays, MainSays, Quiet, Waiting, Loaded, Before, After, Says
<1>4. MainSays'
  BY DEF HandShake, WorkerSays, MainSays, Quiet, Waiting, Loaded, Before, After, Says
<1>5. SuccessLasts'
  BY DEF HandShake, MainSays, SuccessLasts, Quiet, Waiting, Before, After, Says
<1> QED BY <1>1, <1>2, <1>3, <1>4, <1>5

LEMMA WakeKeeps == IInv /\ Wake => IInv'
<1> SUFFICES ASSUME IInv, Wake PROVE IInv' OBVIOUS
<1> USE DEF IInv, Wake, TypeOK, config, plane, flags, request, mainVars, workerVars
<1>1. TypeOK' BY WorkerTyped DEF WorkerStep
<1>2. HandShake' BY DEF HandShake, WorkerSays, MainSays, Quiet, Waiting, Loaded
<1>3. WorkerSays'
  BY DEF HandShake, WorkerSays, MainSays, Quiet, Waiting, Loaded, Before, After, Says
<1>4. MainSays'
  BY DEF HandShake, WorkerSays, MainSays, Quiet, Waiting, Loaded, Before, After, Says
<1>5. SuccessLasts'
  BY DEF HandShake, MainSays, SuccessLasts, Quiet, Waiting, Before, After, Says
<1> QED BY <1>1, <1>2, <1>3, <1>4, <1>5

LEMMA SignalKeeps == IInv /\ Signal => IInv'
<1> SUFFICES ASSUME IInv, Signal PROVE IInv' OBVIOUS
<1> USE DEF IInv, Signal, TypeOK, config, plane, flags, request, mainVars, workerVars
<1>1. TypeOK' BY WorkerTyped DEF WorkerStep
<1>2. HandShake' BY DEF HandShake, WorkerSays, MainSays, Quiet, Waiting, Loaded
<1>3. WorkerSays'
  BY DEF HandShake, WorkerSays, MainSays, Quiet, Waiting, Loaded, Before, After, Says
<1>4. MainSays'
  BY DEF HandShake, WorkerSays, MainSays, Quiet, Waiting, Loaded, Before, After, Says
<1>5. SuccessLasts'
  BY DEF HandShake, MainSays, SuccessLasts, Quiet, Waiting, Before, After, Says
<1> QED BY <1>1, <1>2, <1>3, <1>4, <1>5

------------------------------------------------------------------------------
(* The theorems. *)

LEMMA NextKeeps == IInv /\ [Next]_vars => IInv'
<1> SUFFICES ASSUME IInv, [Next]_vars PROVE IInv' OBVIOUS
<1>1. CASE UNCHANGED vars
  BY <1>1 DEF vars, IInv, TypeOK, HandShake, WorkerSays, MainSays, SuccessLasts, Quiet, Waiting,
       Loaded, Before, After, Says
<1>2. CASE MainStep \/ SpuriousWakeup \/ TimeOut
  BY <1>2, RefuseKeeps, FillKeeps, ClearDoneKeeps, SetPendingKeeps, TestKeeps, ReadRcKeeps,
     JudgeKeeps, AppliedKeeps, KeptKeeps, RestartKeeps, LeaveLoopKeeps, StopForwarderKeeps,
     ReloadShutdownKeeps, JoinKeeps, SpuriousWakeupKeeps, TimeOutKeeps DEF MainStep
<1>3. CASE WorkerStep \/ Signal
  BY <1>3, ThreadsUpKeeps, ExitKeeps, PollKeeps, LoadCfgKeeps, LoadModeKeeps, ApplyRefusedKeeps,
     ApplyCfgKeeps, RebuildKeeps, RebuildFailsKeeps, PublishRcKeeps, ResetModeKeeps,
     ClearPendingKeeps, SetDoneKeeps, WakeKeeps, SignalKeeps DEF WorkerStep
<1>4. CASE \E k \in Kinds : Notify(k)
  BY <1>4, NotifyKeeps
<1> QED BY <1>1, <1>2, <1>3, <1>4 DEF Next, Stopped

(* The hand-shake holds after any number of reloads, early stops and late    *)
(* completions (forwarder_queue_reload, fwd_reload_apply_if_pending).        *)
THEOREM Invariant == Spec => []IInv
<1>1. Init => IInv BY InitIInv
<1>2. IInv /\ [Next]_vars => IInv' BY NextKeeps
<1> QED BY <1>1, <1>2, PTL DEF Spec

(* Every variable keeps its type. *)
THEOREM TypeCorrect == Spec => []TypeOK
<1>1. IInv => TypeOK BY DEF IInv
<1> QED BY <1>1, Invariant, PTL

(* What apply_active_configs reports as applied, the dataplane runs. *)
THEOREM Applies == Spec => []AppliedIsApplied
<1>1. IInv => AppliedIsApplied BY DEF IInv, SuccessLasts, AppliedIsApplied, After
<1> QED BY <1>1, Invariant, PTL

(* Between requests main thread and dataplane agree. *)
THEOREM Agrees == Spec => []IdleAgrees
<1>1. IInv => IdleAgrees BY DEF IInv, MainSays, IdleAgrees, Quiet, Before
<1> QED BY <1>1, Invariant, PTL

(* The slot that is rewritten is read by nobody. *)
THEOREM RewritesFree == Spec => RewritesFreeSlot
<1>1. IInv /\ [Next]_vars =>
        [\A s \in Slots : slot'[s] # slot[s] => tainted \/ SlotFree(s)]_vars
  <2> SUFFICES ASSUME IInv, [Next]_vars,
                      NEW s \in Slots, slot'[s] # slot[s], ~tainted
               PROVE  SlotFree(s)
    BY DEF vars
  <2>1. PICK k \in Kinds : Notify(k)
    <3>1. ~MainStep /\ ~SpuriousWakeup /\ ~TimeOut
      BY DEF MainStep, Refuse, Fill, ClearDone, SetPending, Test, ReadRc, Judge, Applied, Kept,
         Restart, LeaveLoop, StopForwarder, ReloadShutdown, Join, SpuriousWakeup, TimeOut, config
    <3>2. ~WorkerStep /\ ~Signal /\ ~Stopped /\ ~UNCHANGED vars
      BY DEF WorkerStep, ThreadsUp, Exit, Poll, LoadCfg, LoadMode, ApplyRefused, ApplyCfg,
         Rebuild, RebuildFails, PublishRc, ResetMode, ClearPending, SetDone, Wake, Signal,
         Stopped, config, vars
    <3> QED BY <3>1, <3>2 DEF Next
  <2>2. running /\ mpc = "idle" /\ s = Other(active)
    BY <2>1 DEF Notify, IInv, TypeOK
  <2>3. fwdCfg = active /\ ~HasRequest
    BY <2>2 DEF IInv, MainSays, HandShake, Quiet, Waiting, Before
  <2> QED BY <2>2, <2>3 DEF SlotFree, IInv, TypeOK
<1> QED BY <1>1, Invariant, PTL DEF Spec, RewritesFreeSlot

------------------------------------------------------------------------------
(* Refinement of AtomicReload. *)

(* The slot that is not active holds the newest version while a request is   *)
(* under way, and no slot holds one that was not written.                    *)
Stopping == {"stopping", "shutdown", "joining", "stopped"}
Newest ==
  /\ \A s \in Slots : slot[s] <= version
  /\ mpc \notin Stopping => slot[active] \in Versions
  /\ mpc \notin {"idle"} \cup Stopping =>
        slot[active] < version /\ slot[Other(active)] = version

LEMMA InitNewest == Init => Newest
<1> SUFFICES ASSUME Init PROVE Newest OBVIOUS
<1>1. 1 \in Versions BY VersionAssumption DEF Versions
<1>2. slot[0] = 1 /\ slot[1] = 0 /\ active = 0 /\ version = 1 /\ mpc = "idle"
  BY DEF Init, NoVersion
<1> QED BY <1>1, <1>2 DEF Newest, Stopping

(* Only Notify writes a slot, and only the end of a request switches them. *)
LEMMA NewestSame ==
  TypeOK /\ Newest /\ UNCHANGED config
    /\ (mpc' = mpc \/ mpc' \in {"idle"} \cup Stopping \/ mpc \notin {"idle"} \cup Stopping)
    /\ (mpc \in Stopping => mpc' \in Stopping)
  => Newest'
  BY DEF Newest, Stopping, config

LEMMA NextNewest == TypeOK /\ Newest /\ [Next]_vars => Newest'
<1> SUFFICES ASSUME TypeOK, Newest, [Next]_vars PROVE Newest' OBVIOUS
<1> USE DEF Stopping
<1>1. ASSUME NEW k \in Kinds, Notify(k) PROVE Newest'
  <2>1. /\ version' = version + 1 /\ active' = active /\ mpc = "idle" /\ mpc' = "ready"
        /\ slot' = [slot EXCEPT ![Other(active)] = version + 1]
    BY <1>1 DEF Notify
  <2>2. version \in Nat /\ active \in Slots /\ Other(active) \in Slots /\ Other(active) # active
        /\ \A s \in Slots : slot[s] \in Nat
        /\ DOMAIN slot = Slots
    BY SlotFacts, VersionAssumption DEF TypeOK, Versions, NoVersion
  <2>3. slot'[Other(active)] = version + 1 /\ slot'[active] = slot[active]
    BY <2>1, <2>2
  <2>4. \A s \in Slots : slot'[s] <= version + 1 BY <2>1, <2>2 DEF Newest
  <2> QED BY <2>1, <2>2, <2>3, <2>4 DEF Newest
<1>2. CASE Applied \/ Restart
  <2>1. /\ UNCHANGED <<slot, version>> /\ active' = Other(active)
        /\ mpc = "answered" /\ mpc' \in {"idle", "stopping"}
    BY <1>2 DEF Applied, Restart, SwitchSlot
  <2>2. slot'[active'] = version /\ version \in Versions BY <2>1 DEF Newest, TypeOK
  <2> QED BY <2>1, <2>2 DEF Newest
<1>3. CASE MainStep /\ ~Applied /\ ~Restart
  BY <1>3, NewestSame DEF MainStep, Refuse, Fill, ClearDone, SetPending, Test, ReadRc, Judge,
     Kept, LeaveLoop, StopForwarder, ReloadShutdown, Join, config
<1>4. CASE SpuriousWakeup \/ TimeOut \/ Signal \/ UNCHANGED vars
  BY <1>4, NewestSame DEF SpuriousWakeup, TimeOut, Signal, config, mainVars, vars
<1>5. CASE WorkerStep
  BY <1>5, NewestSame DEF WorkerStep, ThreadsUp, Exit, Poll, LoadCfg, LoadMode, ApplyRefused,
     ApplyCfg, Rebuild, RebuildFails, PublishRc, ResetMode, ClearPending, SetDone, Wake,
     config, mainVars
<1> QED BY <1>1, <1>2, <1>3, <1>4, <1>5 DEF Next, Stopped

(* A stop, a restart or a reload that breaks off is never taken back. *)
LEMMA StaysBroken == TypeOK /\ [Next]_vars /\ Broken => Broken'
<1> SUFFICES ASSUME TypeOK, [Next]_vars, Broken PROVE Broken' OBVIOUS
<1> USE DEF Broken
<1>1. CASE \E k \in Kinds : Notify(k) BY <1>1 DEF Notify
<1>2. CASE MainStep
  BY <1>2 DEF MainStep, Refuse, Fill, ClearDone, SetPending, Test, ReadRc, Judge, Applied,
     Kept, Restart, LeaveLoop, StopForwarder, ReloadShutdown, Join, flags
<1>3. CASE SpuriousWakeup \/ TimeOut \/ Signal \/ UNCHANGED vars
  BY <1>3 DEF SpuriousWakeup, TimeOut, Signal, flags, mainVars, vars, TypeOK
<1>4. CASE WorkerStep
  BY <1>4 DEF WorkerStep, ThreadsUp, Exit, Poll, LoadCfg, LoadMode, ApplyRefused,
     ApplyCfg, Rebuild, RebuildFails, PublishRc, ResetMode, ClearPending, SetDone, Wake,
     flags, mainVars
<1> QED BY <1>1, <1>2, <1>3, <1>4 DEF Next, Stopped

(* From then on every step is GiveUp's. *)
LEMMA GivesUp == TypeOK' /\ Broken' => Atomic!GiveUp
  BY SlotFacts DEF TypeOK, Atomic!GiveUp, Atomic!Versions, Atomic!NoVersion, Versions, NoVersion,
     Runs

(* The steps that neither touch the slots and what the dataplane runs, nor   *)
(* begin or end a request, are stutters.                                     *)
LEMMA Stutters ==
  ASSUME ~Broken, ~Broken', UNCHANGED <<slot, active, fwdCfg, built>>,
         (mpc = "idle") <=> (mpc' = "idle"), (wpc = "rebuild") <=> (wpc' = "rebuild")
  PROVE  UNCHANGED Atomic!vars
<1>1. UNCHANGED slot[active] OBVIOUS
<1>2. UNCHANGED (IF mpc = "idle" THEN NoVersion ELSE slot[Other(active)]) OBVIOUS
<1>3. UNCHANGED Runs BY DEF Runs
<1>4. UNCHANGED Broken BY DEF Broken
<1> QED BY <1>1, <1>2, <1>3, <1>4 DEF Atomic!vars

LEMMA NotifyAsks ==
  ASSUME IInv, Newest, ~Broken, ~Broken', NEW k \in Kinds, Notify(k)
  PROVE  Atomic!Next
<1>1. /\ version' = version + 1 /\ mpc = "idle" /\ mpc' = "ready" /\ version < MaxVersion
      /\ slot' = [slot EXCEPT ![Other(active)] = version + 1]
      /\ UNCHANGED <<active, fwdCfg, built, wpc>>
  BY DEF Notify, plane, workerVars
<1>2. /\ version \in 1..MaxVersion /\ version \in Nat /\ active \in Slots
      /\ Other(active) \in Slots /\ Other(active) # active /\ DOMAIN slot = Slots
      /\ slot[active] \in Nat
  BY SlotFacts, VersionAssumption DEF IInv, TypeOK, Versions, NoVersion
<1>3. slot'[Other(active)] = version + 1 /\ slot'[active] = slot[active] BY <1>1, <1>2
<1>4. version + 1 \in Atomic!Versions /\ version + 1 > slot[active]
  BY <1>1, <1>2, VersionAssumption DEF Newest, Atomic!Versions
<1>5. fwdCfg = active BY <1>1 DEF IInv, MainSays, Quiet, Broken, Before
<1>6. UNCHANGED Runs BY <1>1, <1>3, <1>5 DEF Runs
<1>7. Atomic!Ask(version + 1)
  BY <1>1, <1>3, <1>4, <1>6 DEF Atomic!Ask, Atomic!NoVersion, NoVersion, Broken
<1> QED BY <1>4, <1>7 DEF Atomic!Next

LEMMA RebuildApplies ==
  ASSUME IInv, Newest, ~Broken, ~Broken', Rebuild
  PROVE  Atomic!Next
<1>1. /\ wpc = "rebuild" /\ wpc' = "publish" /\ built' = slot[wslot]
      /\ UNCHANGED <<slot, active, fwdCfg, mpc>>
  BY DEF Rebuild, config, mainVars
<1>2. /\ fwdCfg = wslot /\ built = slot[active] /\ wslot = Other(active)
      /\ mpc \in {"test", "asleep"}
  BY <1>1 DEF IInv, HandShake, WorkerSays, Quiet, Broken, Waiting, Loaded
<1>3. slot[Other(active)] # NoVersion
  BY <1>2, VersionAssumption DEF Newest, Stopping, IInv, TypeOK, Versions, NoVersion
<1>4. Runs = slot[active] /\ Runs' = slot[Other(active)] BY <1>1, <1>2 DEF Runs
<1>5. Atomic!Apply
  BY <1>1, <1>2, <1>3, <1>4 DEF Atomic!Apply, Atomic!Pending, Atomic!NoVersion, NoVersion, Broken
<1> QED BY <1>5 DEF Atomic!Next

LEMMA AppliedCommits ==
  ASSUME IInv, Newest, ~Broken, ~Broken', Applied
  PROVE  Atomic!Next
<1>1. /\ mpc = "answered" /\ mrc = "ok" /\ mpc' = "idle" /\ active' = Other(active)
      /\ UNCHANGED <<slot, fwdCfg, built, wpc>>
  BY DEF Applied, SwitchSlot, plane, workerVars
<1>2. fwdCfg = Other(active) /\ built = slot[Other(active)]
  BY <1>1 DEF IInv, MainSays, Quiet, Broken, Says, After
<1>3. slot[Other(active)] # NoVersion
  BY <1>1, VersionAssumption DEF Newest, Stopping, IInv, TypeOK, Versions, NoVersion
<1>4. Runs = slot[Other(active)] /\ Runs' = Runs BY <1>1, <1>2 DEF Runs
<1>5. Atomic!Commit
  BY <1>1, <1>3, <1>4 DEF Atomic!Commit, Atomic!Pending, Atomic!NoVersion, NoVersion, Broken
<1> QED BY <1>5 DEF Atomic!Next

LEMMA KeptRefuses ==
  ASSUME IInv, Newest, ~Broken, ~Broken', Kept
  PROVE  Atomic!Next
<1>1. /\ mpc = "answered" /\ mrc = "fail" /\ mpc' = "idle"
      /\ UNCHANGED <<slot, active, fwdCfg, built, wpc>>
  BY DEF Kept, config, plane, workerVars
<1>2. fwdCfg = active /\ built = slot[active]
  BY <1>1 DEF IInv, MainSays, Quiet, Broken, Says, Before
<1>3. slot[Other(active)] # NoVersion
  BY <1>1, VersionAssumption DEF Newest, Stopping, IInv, TypeOK, Versions, NoVersion
<1>4. Runs = slot[active] /\ Runs' = Runs BY <1>1, <1>2 DEF Runs
<1>5. Atomic!Refuse
  BY <1>1, <1>3, <1>4 DEF Atomic!Refuse, Atomic!Pending, Atomic!NoVersion, NoVersion, Broken
<1> QED BY <1>5 DEF Atomic!Next

(* fwd->cfg changes over first: the runtime still is the old one. *)
LEMMA ApplyCfgStutters ==
  ASSUME IInv, ~Broken, ~Broken', ApplyCfg
  PROVE  UNCHANGED Atomic!vars
<1>1. wpc = "apply" /\ wpc' = "rebuild" /\ UNCHANGED <<slot, active, built, mpc>>
  BY DEF ApplyCfg, config, mainVars
<1>2. built = slot[fwdCfg] BY <1>1 DEF IInv, WorkerSays, Quiet, Broken, Before
<1>3. UNCHANGED Runs BY <1>1, <1>2 DEF Runs
<1>4. UNCHANGED Broken BY DEF Broken
<1> QED BY <1>1, <1>3, <1>4 DEF Atomic!vars

LEMMA StepMaps ==
  ASSUME IInv, Newest, IInv', [Next]_vars
  PROVE  [Atomic!Next]_Atomic!vars
<1>1. CASE Broken' BY <1>1, GivesUp DEF IInv, Atomic!Next
<1>2. CASE ~Broken'
  <2>1. ~Broken BY <1>2, StaysBroken DEF IInv
  <2>2. CASE \E k \in Kinds : Notify(k) BY <1>2, <2>1, <2>2, NotifyAsks
  <2>3. CASE Rebuild BY <1>2, <2>1, <2>3, RebuildApplies
  <2>4. CASE Applied BY <1>2, <2>1, <2>4, AppliedCommits
  <2>5. CASE Kept BY <1>2, <2>1, <2>5, KeptRefuses
  <2>6. CASE ApplyCfg BY <1>2, <2>1, <2>6, ApplyCfgStutters
  <2>7. CASE MainStep /\ ~Applied /\ ~Kept
    <3>1. ~Restart /\ ~LeaveLoop /\ ~StopForwarder /\ ~ReloadShutdown /\ ~Join
      BY <1>2 DEF Restart, LeaveLoop, StopForwarder, ReloadShutdown, Join, Broken
    <3>2. /\ UNCHANGED <<slot, active, fwdCfg, built, wpc>>
          /\ (mpc = "idle") <=> (mpc' = "idle")
      BY <2>7, <3>1 DEF MainStep, Refuse, Fill, ClearDone, SetPending, Test, ReadRc, Judge,
         config, plane, workerVars
    <3> QED BY <1>2, <2>1, <3>2, Stutters
  <2>8. CASE SpuriousWakeup \/ TimeOut \/ Signal \/ UNCHANGED vars
    <3>1. /\ UNCHANGED <<slot, active, fwdCfg, built, wpc>>
          /\ (mpc = "idle") <=> (mpc' = "idle")
      BY <2>8 DEF SpuriousWakeup, TimeOut, Signal, config, plane, mainVars, workerVars, vars
    <3> QED BY <1>2, <2>1, <3>1, Stutters
  <2>9. CASE WorkerStep /\ ~ApplyCfg /\ ~Rebuild
    <3>1. ~RebuildFails BY <1>2 DEF RebuildFails, Broken
    <3>2. /\ UNCHANGED <<slot, active, fwdCfg, built>>
          /\ (mpc = "idle") <=> (mpc' = "idle")
          /\ (wpc = "rebuild") <=> (wpc' = "rebuild")
      BY <2>9, <3>1 DEF WorkerStep, ThreadsUp, Exit, Poll, LoadCfg, LoadMode, ApplyRefused,
         PublishRc, ResetMode, ClearPending, SetDone, Wake, config, plane, mainVars
    <3> QED BY <1>2, <2>1, <3>2, Stutters
  <2> QED BY <2>2, <2>3, <2>4, <2>5, <2>6, <2>7, <2>8, <2>9 DEF Next, Stopped
<1> QED BY <1>1, <1>2

LEMMA InitMaps == Init => Atomic!Init
<1> SUFFICES ASSUME Init PROVE Atomic!Init OBVIOUS
<1>1. slot[0] = 1 /\ active = 0 /\ fwdCfg = 0 /\ built = 1 /\ mpc = "idle" /\ running /\ ~tainted
  BY DEF Init
<1>2. 1 \in Atomic!Versions BY VersionAssumption DEF Atomic!Versions
<1>3. Runs = 1 /\ ~Broken BY <1>1 DEF Runs, Broken
<1> QED BY <1>1, <1>2, <1>3 DEF Atomic!Init, Atomic!NoVersion, NoVersion

(* forwarder_queue_reload and fwd_reload_apply_if_pending together carry out *)
(* a reload at one instant, and answer what they did.                        *)
THEOREM Implements == Spec => IsAtomic
<1>1. Init => Newest BY InitNewest
<1>2. IInv /\ Newest /\ [Next]_vars => Newest' BY NextNewest DEF IInv
<1>3. Init => Atomic!Init BY InitMaps
<1>4. IInv /\ Newest /\ IInv' /\ [Next]_vars => [Atomic!Next]_Atomic!vars BY StepMaps
<1> QED BY <1>1, <1>2, <1>3, <1>4, Invariant, PTL DEF Spec, IsAtomic, Atomic!Spec
==============================================================================
