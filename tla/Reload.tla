------------------------------- MODULE Reload --------------------------------
(***************************************************************************)
(* Hot reload of the configuration (src/src/core/forwarder_reload.c and    *)
(* the two cfg_slots of apply_active_configs in src/main.c).  The main     *)
(* thread writes the new configuration into the slot that is not active,   *)
(* fills a request and sleeps on a condition variable; worker 0 of the     *)
(* dataplane polls the request between two packets, applies it and wakes   *)
(* the main thread.  The request fields are plain variables, pending and   *)
(* done are atomics, and only the main thread's side is under the mutex.   *)
(***************************************************************************)
EXTENDS Naturals

CONSTANT MaxVersion   \* bound: versions of the configuration ever written

ASSUME VersionAssumption == MaxVersion \in Nat \ {0}

Versions == 1..MaxVersion
NoVersion == 0
Slots == {0, 1}
Other(s) == 1 - s

(* RELOAD_CONFIG, RELOAD_WAN_DRAIN, PROFILE_IFACE_XDP_{ADD,REMOVE,DELTA}. *)
Kinds == {"config", "wan_drain", "iface_add", "iface_remove", "iface_delta"}
Results == {"ok", "fail"}

VARIABLES
  slot,      \* rt->cfg_slots: version in each slot
  active,    \* rt->active_slot
  version,   \* versions written so far
  fwdCfg,    \* fwd->cfg: the slot the dataplane reads
  built,     \* version the crypto runtime was built from, or NoVersion
  running,   \* the flag the signal handler clears (with g_stop_requested)
  started,   \* fwd->threads_started
  pending, done,            \* reload_pending, reload_done
  reqSlot, reqKind, rc,     \* reload_cfg, reload_mode, reload_rc
  mpc, kind, mrc, answer,   \* main thread
  wpc, wslot, wkind, wrc,   \* worker 0
  tainted    \* history: a reload failed or was given up half applied

config  == <<slot, active, version>>
plane   == <<fwdCfg, built>>
flags   == <<running, started>>
request == <<reqSlot, reqKind, rc>>
mainVars   == <<mpc, kind, mrc, answer>>
workerVars == <<wpc, wslot, wkind, wrc>>
vars == <<slot, active, version, fwdCfg, built, running, started, pending, done,
          reqSlot, reqKind, rc, mpc, kind, mrc, answer, wpc, wslot, wkind, wrc, tainted>>

Init == /\ slot = [s \in Slots |-> IF s = 0 THEN 1 ELSE NoVersion]
        /\ active = 0 /\ version = 1
        /\ fwdCfg = 0 /\ built = 1
        /\ running = TRUE /\ started = FALSE
        /\ pending = FALSE /\ done = FALSE
        /\ reqSlot = 0 /\ reqKind = "config" /\ rc = "ok"
        /\ mpc = "idle" /\ kind = "config" /\ mrc = "ok" /\ answer = "none"
        /\ wpc = "down" /\ wslot = 0 /\ wkind = "config" /\ wrc = "ok"
        /\ tainted = FALSE

MainGoes(from, to) == mpc = from /\ mpc' = to
WorkerGoes(from, to) == wpc = from /\ wpc' = to

(* reload_wait_mtx is held by the main thread. *)
MainLocks == mpc \in {"clear_done", "set_pending", "test", "read"}

(* The topology checks compare fwd->cfg with the new slot: an interface or  *)
(* WAN change is refused when they are the same slot.                       *)
Differs(k, s) == k # "config" => fwdCfg # s

------------------------------------------------------------------------------
(* The main thread: apply_active_configs and forwarder_queue_reload. *)

(* A notification: the merged configuration is copied into the other slot, *)
(* and the way it differs from the active one decides the kind of reload.   *)
Notify(k) == /\ MainGoes("idle", "ready") /\ running /\ version < MaxVersion
             /\ version' = version + 1
             /\ slot' = [slot EXCEPT ![Other(active)] = version + 1]
             /\ kind' = k
             /\ UNCHANGED <<active, plane, flags, pending, done, request, mrc, answer,
                            workerVars, tainted>>

(* Stop requested, nothing to do for this kind of change, or the workers   *)
(* were not up within wait_dataplane_workers' five seconds.                *)
Refuse == /\ MainGoes("ready", "answered")
          /\ ~running \/ ~started \/ ~Differs(kind, Other(active))
          /\ mrc' = "fail"
          /\ UNCHANGED <<config, plane, flags, pending, done, request, kind, answer,
                         workerVars, tainted>>

Fill == /\ MainGoes("ready", "clear_done")
        /\ running /\ started /\ Differs(kind, Other(active))
        /\ reqSlot' = Other(active) /\ reqKind' = kind /\ rc' = "fail"
        /\ UNCHANGED <<config, plane, flags, pending, done, kind, mrc, answer,
                       workerVars, tainted>>

(* Mutant: the completion of the previous request is not cleared. *)
KeepDone == /\ MainGoes("clear_done", "set_pending")
            /\ UNCHANGED <<config, plane, flags, pending, done, request, kind, mrc, answer,
                           workerVars, tainted>>

ClearDone == /\ MainGoes("clear_done", "set_pending")
             /\ done' = FALSE
             /\ UNCHANGED <<config, plane, flags, pending, request, kind, mrc, answer,
                            workerVars, tainted>>

SetPending == /\ MainGoes("set_pending", "test")
              /\ pending' = TRUE
              /\ UNCHANGED <<config, plane, flags, done, request, kind, mrc, answer,
                             workerVars, tainted>>

(* The condition of the waiting loop. *)
Test == /\ MainGoes("test", IF done \/ ~running THEN "read" ELSE "asleep")
        /\ UNCHANGED <<config, plane, flags, pending, done, request, kind, mrc, answer,
                       workerVars, tainted>>

SpuriousWakeup == /\ MainGoes("asleep", "test")
                  /\ UNCHANGED <<config, plane, flags, pending, done, request, kind, mrc,
                                 answer, workerVars, tainted>>

(* Mutant: pthread_cond_wait, without a deadline. *)
NoDeadline == FALSE

(* Worker 0 is at a request. *)
HasRequest == wpc \in {"load_cfg", "load_mode", "apply", "rebuild", "publish",
                       "reset_mode", "clear_pending", "set_done"}

(* Mutant: the request is left for the worker to find. *)
TimeOutLeavesRequest ==
  /\ MainGoes("asleep", "read")
  /\ tainted' = (tainted \/ HasRequest)
  /\ UNCHANGED <<config, plane, flags, pending, done, request, kind, mrc, answer, workerVars>>

(* ETIMEDOUT: the request is withdrawn, whether the worker has it or not. *)
TimeOut == /\ MainGoes("asleep", "read")
           /\ pending' = FALSE
           /\ tainted' = (tainted \/ HasRequest)
           /\ UNCHANGED <<config, plane, flags, done, request, kind, mrc, answer, workerVars>>

ReadRc == /\ MainGoes("read", "unlocked")
          /\ mrc' = rc
          /\ UNCHANGED <<config, plane, flags, pending, done, request, kind, answer,
                         workerVars, tainted>>

Judge == /\ MainGoes("unlocked", "answered")
         /\ mrc' = IF ~running \/ ~done THEN "fail" ELSE mrc
         /\ UNCHANGED <<config, plane, flags, pending, done, request, kind, answer,
                        workerVars, tainted>>

(* Mutant: the slot is not switched. *)
SameSlot == active' = active
SwitchSlot == active' = Other(active)

(* "[RELOAD] OK": the new slot becomes the active one. *)
Applied == /\ mrc = "ok" /\ MainGoes("answered", "idle")
           /\ SwitchSlot /\ answer' = "applied"
           /\ UNCHANGED <<slot, version, plane, flags, pending, done, request, kind, mrc,
                          workerVars, tainted>>

(* An interface or WAN change that failed: "running dataplane unchanged". *)
Kept == /\ mrc = "fail" /\ kind # "config" /\ MainGoes("answered", "idle")
        /\ answer' = "kept"
        /\ UNCHANGED <<config, plane, flags, pending, done, request, kind, mrc,
                       workerVars, tainted>>

(* A policy or tuning change that failed: full dataplane restart. *)
Restart == /\ mrc = "fail" /\ kind = "config" /\ MainGoes("answered", "stopping")
           /\ SwitchSlot /\ answer' = "restart"
           /\ UNCHANGED <<slot, version, plane, flags, pending, done, request, kind, mrc,
                          workerVars, tainted>>

(* The main loop ends. *)
LeaveLoop == /\ ~running /\ MainGoes("idle", "stopping")
             /\ UNCHANGED <<config, plane, flags, pending, done, request, kind, mrc, answer,
                            workerVars, tainted>>

(* runtime_stop_forwarder: forwarder_stop, fwd_reload_shutdown, join. *)
StopForwarder == /\ MainGoes("stopping", "shutdown")
                 /\ running' = FALSE
                 /\ UNCHANGED <<config, plane, started, pending, done, request, kind, mrc,
                                answer, workerVars, tainted>>

ReloadShutdown == /\ MainGoes("shutdown", "joining")
                  /\ pending' = FALSE /\ done' = TRUE /\ rc' = "fail"
                  /\ UNCHANGED <<config, plane, flags, reqSlot, reqKind, kind, mrc, answer,
                                 workerVars, tainted>>

Join == /\ wpc = "exited" /\ MainGoes("joining", "stopped")
        /\ UNCHANGED <<config, plane, flags, pending, done, request, kind, mrc, answer,
                       workerVars, tainted>>

------------------------------------------------------------------------------
(* Worker 0: crypto_worker_thread and fwd_reload_apply_if_pending. *)

ThreadsUp == /\ running /\ WorkerGoes("down", "poll")
             /\ started' = TRUE
             /\ UNCHANGED <<config, plane, running, pending, done, request, mainVars,
                            wslot, wkind, wrc, tainted>>

Exit == /\ ~running /\ wpc \in {"down", "poll"} /\ wpc' = "exited"
        /\ UNCHANGED <<config, plane, flags, pending, done, request, mainVars,
                       wslot, wkind, wrc, tainted>>

Poll == /\ running /\ pending /\ WorkerGoes("poll", "load_cfg")
        /\ UNCHANGED <<config, plane, flags, pending, done, request, mainVars,
                       wslot, wkind, wrc, tainted>>

LoadCfg == /\ WorkerGoes("load_cfg", "load_mode")
           /\ wslot' = reqSlot
           /\ UNCHANGED <<config, plane, flags, pending, done, request, mainVars,
                          wkind, wrc, tainted>>

LoadMode == /\ WorkerGoes("load_mode", "apply")
            /\ wkind' = reqKind
            /\ UNCHANGED <<config, plane, flags, pending, done, request, mainVars,
                           wslot, wrc, tainted>>

(* Mutant: the early return reports success. *)
ApplyRefusedOk == /\ WorkerGoes("apply", "publish")
                  /\ ~running \/ ~Differs(wkind, wslot) \/ wkind \in {"iface_add", "iface_delta"}
                  /\ wrc' = "ok"
                  /\ UNCHANGED <<config, fwdCfg, built, flags, pending, done, request, mainVars,
                                 wslot, wkind, tainted>>

(* An early return, before fwd->cfg is touched.  An interface that cannot be *)
(* attached is one (module WanSlots has what is detached by then).           *)
ApplyRefused == /\ WorkerGoes("apply", "publish")
                /\ ~running \/ ~Differs(wkind, wslot) \/ wkind \in {"iface_add", "iface_delta"}
                /\ wrc' = "fail"
                /\ UNCHANGED <<config, fwdCfg, built, flags, pending, done, request, mainVars,
                               wslot, wkind, tainted>>

(* fwd->cfg = cfg, before anything that can still fail. *)
ApplyCfg == /\ WorkerGoes("apply", "rebuild")
            /\ running /\ Differs(wkind, wslot)
            /\ fwdCfg' = wslot
            /\ UNCHANGED <<config, built, flags, pending, done, request, mainVars,
                           wslot, wkind, wrc, tainted>>

(* fwd_crypto_rebuild; a stop requested meanwhile is reported as a failure. *)
Rebuild == /\ WorkerGoes("rebuild", "publish")
           /\ built' = slot[wslot]
           /\ wrc' = IF running THEN "ok" ELSE "fail"
           /\ UNCHANGED <<config, fwdCfg, flags, pending, done, request, mainVars,
                          wslot, wkind, tainted>>

(* No profile slot or hardware address: the runtime stays as it was.  A key *)
(* that cannot be set up: it has been emptied.                              *)
RebuildFails == /\ WorkerGoes("rebuild", "publish")
                /\ built' \in {built, NoVersion}
                /\ wrc' = "fail" /\ tainted' = TRUE
                /\ UNCHANGED <<config, fwdCfg, flags, pending, done, request, mainVars,
                               wslot, wkind>>

PublishRc == /\ WorkerGoes("publish", "reset_mode")
             /\ rc' = wrc
             /\ UNCHANGED <<config, plane, flags, pending, done, reqSlot, reqKind, mainVars,
                            wslot, wkind, wrc, tainted>>

ResetMode == /\ WorkerGoes("reset_mode", "clear_pending")
             /\ reqKind' = "config"
             /\ UNCHANGED <<config, plane, flags, pending, done, reqSlot, rc, mainVars,
                            wslot, wkind, wrc, tainted>>

ClearPending == /\ WorkerGoes("clear_pending", "set_done")
                /\ pending' = FALSE
                /\ UNCHANGED <<config, plane, flags, done, request, mainVars,
                               wslot, wkind, wrc, tainted>>

SetDone == /\ WorkerGoes("set_done", "wake")
           /\ done' = TRUE
           /\ UNCHANGED <<config, plane, flags, pending, request, mainVars,
                          wslot, wkind, wrc, tainted>>

(* Lock, broadcast, unlock. *)
Wake == /\ WorkerGoes("wake", "poll")
        /\ ~MainLocks
        /\ mpc' = IF mpc = "asleep" THEN "test" ELSE mpc
        /\ UNCHANGED <<config, plane, flags, pending, done, request, kind, mrc, answer,
                       wslot, wkind, wrc, tainted>>

------------------------------------------------------------------------------
(* on_stop_signal *)
Signal == /\ running /\ running' = FALSE
          /\ UNCHANGED <<config, plane, started, pending, done, request, mainVars,
                         workerVars, tainted>>

(* The process has stopped its dataplane. *)
Stopped == mpc = "stopped" /\ UNCHANGED vars

MainStep == \/ Refuse \/ Fill \/ ClearDone \/ SetPending \/ Test \/ ReadRc \/ Judge
            \/ Applied \/ Kept \/ Restart \/ LeaveLoop
            \/ StopForwarder \/ ReloadShutdown \/ Join
WorkerStep == \/ ThreadsUp \/ Exit \/ Poll \/ LoadCfg \/ LoadMode
              \/ ApplyRefused \/ ApplyCfg \/ Rebuild \/ RebuildFails
              \/ PublishRc \/ ResetMode \/ ClearPending \/ SetDone \/ Wake

Next == \/ \E k \in Kinds : Notify(k)
        \/ MainStep \/ SpuriousWakeup \/ TimeOut
        \/ WorkerStep
        \/ Signal \/ Stopped

Spec == Init /\ [][Next]_vars

(* Both threads run; the deadline of the wait is absolute, so a thread that  *)
(* keeps being woken still times out.                                        *)
FairSpec == Spec /\ WF_vars(MainStep) /\ SF_vars(TimeOut) /\ WF_vars(WorkerStep)

------------------------------------------------------------------------------
(* Every variable has its type. *)
TypeOK ==
  /\ slot \in [Slots -> Versions \cup {NoVersion}] /\ active \in Slots
  /\ version \in Versions
  /\ fwdCfg \in Slots /\ built \in Versions \cup {NoVersion}
  /\ running \in BOOLEAN /\ started \in BOOLEAN /\ pending \in BOOLEAN /\ done \in BOOLEAN
  /\ reqSlot \in Slots /\ reqKind \in Kinds /\ rc \in Results
  /\ mpc \in {"idle", "ready", "clear_done", "set_pending", "test", "asleep", "read",
              "unlocked", "answered", "stopping", "shutdown", "joining", "stopped"}
  /\ kind \in Kinds /\ mrc \in Results
  /\ answer \in {"none", "applied", "kept", "restart"}
  /\ wpc \in {"down", "poll", "wake", "exited"} \cup
             {"load_cfg", "load_mode", "apply", "rebuild", "publish", "reset_mode",
              "clear_pending", "set_done"}
  /\ wslot \in Slots /\ wkind \in Kinds /\ wrc \in Results
  /\ tainted \in BOOLEAN

(* A reload that is reported as applied is: the dataplane reads the new slot *)
(* and its crypto runtime was built from what the slot holds.                *)
AppliedIsApplied ==
  mpc = "answered" /\ mrc = "ok" /\ ~tainted =>
     fwdCfg = Other(active) /\ built = slot[Other(active)]

(* Between two requests the dataplane runs the active configuration: a late, *)
(* stale or repeated completion never leaves main and worker disagreeing.    *)
IdleAgrees ==
  mpc = "idle" /\ running /\ ~tainted => fwdCfg = active /\ built = slot[active]

(* A slot is rewritten only when neither the dataplane nor a reload in       *)
(* progress reads it: struct app_config is copied without any lock.          *)
SlotFree(s) == fwdCfg # s /\ (HasRequest => wslot # s)
RewritesFreeSlot ==
  [][\A s \in Slots : slot'[s] # slot[s] => tainted \/ SlotFree(s)]_vars

(* The version the dataplane runs: the crypto runtime decides, and it must   *)
(* have been built from the slot fwd->cfg is at, or be about to be.          *)
Runs == IF wpc = "rebuild" \/ built = slot[fwdCfg] THEN built ELSE NoVersion

(* The process stops, restarts its dataplane, or a reload broke off. *)
Broken == ~running \/ tainted \/ mpc \in {"stopping", "shutdown", "joining", "stopped"}

Atomic == INSTANCE AtomicReload WITH
            reported <- slot[active],
            asked    <- IF mpc = "idle" THEN NoVersion ELSE slot[Other(active)],
            runs     <- Runs,
            broken   <- Broken

(* A reload takes effect at one instant between its request and its answer,  *)
(* at most once, and the answer says whether it did: a completion is never   *)
(* taken for another request's, and a refused one is never applied later.    *)
IsAtomic == Atomic!Spec

(* Every request is answered, whatever the worker does.  *)
RequestAnswered == mpc = "ready" ~> mpc \in {"idle", "stopped"}
==============================================================================
