------------------------------- MODULE Daemon --------------------------------
(***************************************************************************)
(* The daemon (src/main.c) and the life of its forwarder thread            *)
(* (forwarder_init and forwarder_run, src/src/core/forwarder.c).  The main *)
(* thread handles one PostgreSQL notification at a time: it re-reads the   *)
(* active profiles and starts, reloads, restarts or stops the dataplane.   *)
(* ConfigDiff decides between reload and restart; how a reload request is  *)
(* carried out is module Reload, here it succeeds or fails.                *)
(***************************************************************************)
EXTENDS ConfigDiff, Sequences

CONSTANTS
  Profiles,   \* profile ids
  MaxEdits,   \* bound: changes of the database
  MaxNotes    \* bound: notifications on their way

ASSUME BoundsAssumption == MaxEdits \in Nat /\ MaxNotes \in Nat

Absent == "absent"
(* The profile as first stored, with another policy, with other window sizes. *)
Rows == {"base", "policy", "window"}

VARIABLES
  db, edits,     \* the profile rows in PostgreSQL
  notes,         \* notifications not yet handled
  gstop,         \* g_stop_requested
  running,       \* the dataplane's flag (forwarder.c)
  mpc, cur, added, after,   \* main thread: the notification it handles
  ids,           \* active_ids
  hasThread,     \* rt->has_thread
  cfg, newCfg,   \* the active slot and the one just read: profile -> row
  tpc,           \* forwarder thread
  restarted, openFailed,   \* history: this thread comes from a full restart; it could not start
  overwritten,   \* history: a stop request was overwritten by the end of forwarder_init
  unloadFailed   \* history: a profile was deleted but the reload without it failed

database == <<db, edits>>
handler  == <<cur, added, after>>
history  == <<restarted, openFailed, overwritten, unloadFailed>>
vars == <<db, edits, notes, gstop, running, mpc, cur, added, after, ids, hasThread,
          cfg, newCfg, tpc, restarted, openFailed, overwritten, unloadFailed>>

Init == /\ db = [p \in Profiles |-> "base"] /\ edits = 0
        /\ notes = <<>>
        /\ gstop = FALSE /\ running = TRUE
        /\ mpc = "idle" /\ cur \in Profiles /\ added = FALSE /\ after = "idle"
        /\ ids = {} /\ hasThread = FALSE /\ cfg = <<>> /\ newCfg = <<>>
        /\ tpc = "none"
        /\ restarted = FALSE /\ openFailed = FALSE
        /\ overwritten = FALSE /\ unloadFailed = FALSE

(* The merged configuration: every profile brings a LAN, a WAN and its policy. *)
ConfigOf(c) == [locals   |-> DOMAIN c,
                wans     |-> [p \in DOMAIN c |->
                                [settings |-> c[p] = "window", dataplane |-> TRUE]],
                policies |-> {<<p, c[p] = "policy">> : p \in DOMAIN c},
                profiles |-> DOMAIN c]
PathTo(c) == Path(ConfigOf(cfg), ConfigOf(c))

------------------------------------------------------------------------------
(* The environment: the database, its notifications, the signals. *)

Edit(p) == /\ edits < MaxEdits
           /\ edits' = edits + 1
           /\ \E r \in Rows \cup {Absent} : r # db[p] /\ db' = [db EXCEPT ![p] = r]
           /\ UNCHANGED <<notes, gstop, running, mpc, handler, ids, hasThread, cfg, newCfg,
                          tpc, history>>

Notify(p) == /\ Len(notes) < MaxNotes
             /\ notes' = Append(notes, p)
             /\ UNCHANGED <<database, gstop, running, mpc, handler, ids, hasThread, cfg,
                            newCfg, tpc, history>>

(* PQreset of the listening connection: what was on its way is gone. *)
ConnectionReset == /\ mpc = "idle" /\ notes # <<>> /\ notes' = <<>>
                   /\ UNCHANGED <<database, gstop, running, mpc, handler, ids, hasThread, cfg,
                                  newCfg, tpc, history>>

(* on_stop_signal *)
Signal == /\ ~gstop \/ running
          /\ gstop' = TRUE /\ running' = FALSE /\ overwritten' = FALSE
          /\ UNCHANGED <<database, notes, mpc, handler, ids, hasThread, cfg, newCfg, tpc,
                         restarted, openFailed, unloadFailed>>

------------------------------------------------------------------------------
(* The main thread. *)
MainGoes(from, to) == mpc = from /\ mpc' = to

Take == /\ MainGoes("idle", "check") /\ ~gstop /\ notes # <<>>
        /\ cur' = Head(notes) /\ notes' = Tail(notes)
        /\ UNCHANGED <<database, gstop, running, added, after, ids, hasThread, cfg, newCfg,
                       tpc, history>>

(* handle_profile_notify, load_profile_and_run: the profile is in the database. *)
Load == /\ MainGoes("check", "build") /\ db[cur] # Absent
        /\ ids' = (IF hasThread THEN ids ELSE {}) \cup {cur}
        /\ added' = (~hasThread \/ cur \notin ids)
        /\ UNCHANGED <<database, notes, gstop, running, cur, after, hasThread, cfg, newCfg,
                       tpc, history>>

(* It is not, or ne_profile_id_exists could not ask. *)
Unknown == /\ MainGoes("check", "idle") /\ cur \notin ids
           /\ UNCHANGED <<database, notes, gstop, running, handler, ids, hasThread, cfg,
                          newCfg, tpc, history>>

Delete == /\ mpc = "check" /\ cur \in ids
          /\ ids' = ids \ {cur} /\ added' = FALSE
          /\ \/ ids' # {} /\ mpc' = "build" /\ after' = after
             \/ ids' = {} /\ hasThread /\ mpc' = "stop" /\ after' = "idle"
             \/ ids' = {} /\ ~hasThread /\ mpc' = "idle" /\ after' = after
          /\ UNCHANGED <<database, notes, gstop, running, cur, hasThread, cfg, newCfg,
                         tpc, history>>

(* Mutant: the id stays. *)
KeepAdded == /\ mpc' = "idle" /\ ids' = ids
             /\ unloadFailed' = (unloadFailed \/ cur \notin ids)

(* The reload after a delete or a load did not happen: the id added for it *)
(* is taken back, one deleted is not put back.                             *)
GiveUp == /\ mpc' = "idle"
          /\ ids' = IF added THEN ids \ {cur} ELSE ids
          /\ unloadFailed' = (unloadFailed \/ cur \notin ids)

(* build_merged_config: one of the active profiles cannot be read. *)
BuildFails == /\ mpc \in {"build", "retry"}
              /\ GiveUp
              /\ UNCHANGED <<database, notes, gstop, running, handler, hasThread, cfg, newCfg,
                             tpc, restarted, openFailed, overwritten>>

ReadAll == /\ \A p \in ids : db[p] # Absent
           /\ newCfg' = [p \in ids |-> db[p]]

BuildFirst == /\ MainGoes("build", "start") /\ ~hasThread
              /\ ReadAll /\ after' = "first"
              /\ UNCHANGED <<database, notes, gstop, running, cur, added, ids, hasThread, cfg,
                             tpc, history>>

(* No change on the first read: the read is repeated after half a second. *)
Build == /\ mpc \in {"build", "retry"} /\ hasThread
         /\ ReadAll
         /\ \/ PathTo(newCfg') # "none" /\ mpc' = "decide"
            \/ PathTo(newCfg') = "none" /\ mpc' = IF mpc = "build" THEN "retry" ELSE "idle"
         /\ UNCHANGED <<database, notes, gstop, running, handler, ids, hasThread, cfg,
                        tpc, history>>

(* forwarder_queue_reload answers success only for a worker that applied it. *)
ReloadApplied == /\ MainGoes("decide", "idle") /\ PathTo(newCfg) # "restart"
                 /\ tpc = "up" /\ running
                 /\ cfg' = newCfg /\ unloadFailed' = FALSE
                 /\ UNCHANGED <<database, notes, gstop, running, handler, ids, hasThread,
                                newCfg, tpc, restarted, openFailed, overwritten>>

ReloadKept == /\ mpc = "decide" /\ PathTo(newCfg) # "restart"
              /\ AfterFailure(ConfigOf(cfg), ConfigOf(newCfg)) = "kept"
              /\ GiveUp
              /\ UNCHANGED <<database, notes, gstop, running, handler, hasThread, cfg, newCfg,
                             tpc, restarted, openFailed, overwritten>>

RestartNeeded == /\ MainGoes("decide", "stop")
                 /\ \/ PathTo(newCfg) = "restart"
                    \/ AfterFailure(ConfigOf(cfg), ConfigOf(newCfg)) = "restart"
                 /\ after' = "restart"
                 /\ UNCHANGED <<database, notes, gstop, running, cur, added, ids, hasThread,
                                cfg, newCfg, tpc, history>>

(* Mutant: without forwarder_stop. *)
StopQuietly == /\ MainGoes("stop", "join")
               /\ UNCHANGED <<database, notes, gstop, running, handler, ids, hasThread, cfg,
                              newCfg, tpc, history>>

(* runtime_stop_forwarder. *)
Stop == /\ MainGoes("stop", "join")
        /\ running' = FALSE
        /\ UNCHANGED <<database, notes, gstop, handler, ids, hasThread, cfg, newCfg,
                       tpc, history>>

Joined == /\ hasThread' = FALSE /\ mpc' = CASE after = "restart" -> "start"
                                            [] after = "idle"    -> "idle"
                                            [] after = "leave"   -> "gone"
          /\ UNCHANGED <<database, notes, gstop, running, handler, ids, cfg, newCfg, history>>

(* Mutant: no pthread_join. *)
Detach == mpc = "join" /\ Joined /\ tpc' = tpc
Join == mpc = "join" /\ tpc = "done" /\ Joined /\ tpc' = "none"

(* runtime_start; a restart is given up when a stop was requested meanwhile. *)
Start == /\ MainGoes("start", "idle") /\ (after = "restart" => ~gstop)
         /\ cfg' = newCfg /\ hasThread' = TRUE /\ tpc' = "init"
         /\ restarted' = (after = "restart") /\ openFailed' = FALSE /\ unloadFailed' = FALSE
         /\ UNCHANGED <<database, notes, gstop, running, handler, ids, newCfg, overwritten>>

StartFails == /\ mpc = "start"
              /\ GiveUp
              /\ UNCHANGED <<database, notes, gstop, running, handler, hasThread, cfg, newCfg,
                             tpc, restarted, openFailed, overwritten>>

(* The main loop ends. *)
Leave == /\ mpc = "idle" /\ gstop
         /\ mpc' = (IF hasThread THEN "stop" ELSE "gone") /\ after' = "leave"
         /\ UNCHANGED <<database, notes, gstop, running, cur, added, ids, hasThread, cfg,
                        newCfg, tpc, history>>

------------------------------------------------------------------------------
(* The forwarder thread: forwarder_thread_main. *)
ThreadGoes(from, to) == tpc = from /\ tpc' = to
mainPart == <<database, notes, gstop, mpc, handler, ids, hasThread, cfg, newCfg>>

(* The tests of the flag in forwarder_init, before and after the sockets are *)
(* opened, and at the head of forwarder_run.                                 *)
InitContinues == /\ running
                 /\ ThreadGoes("init", "opening") \/ ThreadGoes("opening", "checked")
                    \/ ThreadGoes("ready", "up")
                 /\ UNCHANGED <<mainPart, running, history>>

Aborts == /\ ~running
          /\ tpc \in {"init", "opening", "ready"} /\ tpc' = "done"
          /\ UNCHANGED <<mainPart, running, history>>

(* A socket, a ring or a thread cannot be created; forwarder_join_started *)
(* clears the flag for the threads already created.                       *)
OpenFails == /\ tpc \in {"opening", "ready"} /\ tpc' = "done"
             /\ running' = (IF tpc = "ready" THEN FALSE ELSE running)
             /\ openFailed' = TRUE
             /\ UNCHANGED <<mainPart, restarted, overwritten, unloadFailed>>

(* The end of forwarder_init sets the flag, whatever it was. *)
InitEnds == /\ ThreadGoes("checked", "ready")
            /\ running' = TRUE
            /\ overwritten' = (overwritten \/ ~running)
            /\ UNCHANGED <<mainPart, restarted, openFailed, unloadFailed>>

(* Mutant: the workers do not look at the flag. *)
NeverEnds == FALSE
RunEnds == /\ ThreadGoes("up", "done") /\ ~running
           /\ UNCHANGED <<mainPart, running, history>>

------------------------------------------------------------------------------
(* The process has ended. *)
Gone == mpc = "gone" /\ UNCHANGED vars

Environment == \/ \E p \in Profiles : Edit(p) \/ Notify(p)
               \/ ConnectionReset \/ Signal
MainThread == \/ Take \/ Load \/ Unknown \/ Delete \/ BuildFails \/ BuildFirst \/ Build
              \/ ReloadApplied \/ ReloadKept \/ RestartNeeded
              \/ Stop \/ Join \/ Start \/ StartFails \/ Leave
ForwarderThread == InitContinues \/ Aborts \/ OpenFails \/ InitEnds \/ RunEnds

Next == Environment \/ MainThread \/ ForwarderThread \/ Gone

Spec == Init /\ [][Next]_vars

(* Both threads are scheduled. *)
FairSpec == Spec /\ WF_vars(MainThread) /\ WF_vars(ForwarderThread)

------------------------------------------------------------------------------
Rowed(c) == DOMAIN c \subseteq Profiles /\ \A p \in DOMAIN c : c[p] \in Rows

(* Every variable has its type, and has_thread is the truth about the thread. *)
TypeOK ==
  /\ db \in [Profiles -> Rows \cup {Absent}] /\ edits \in 0..MaxEdits
  /\ notes \in Seq(Profiles) /\ Len(notes) \in 0..MaxNotes
  /\ gstop \in BOOLEAN /\ running \in BOOLEAN
  /\ mpc \in {"idle", "check", "build", "retry", "decide", "stop", "join", "start", "gone"}
  /\ cur \in Profiles /\ added \in BOOLEAN
  /\ after \in {"idle", "first", "restart", "leave"}
  /\ ids \subseteq Profiles /\ hasThread \in BOOLEAN
  /\ Rowed(cfg) /\ Rowed(newCfg)
  /\ tpc \in {"none", "init", "opening", "checked", "ready", "up", "done"}
  /\ hasThread <=> tpc # "none"
  /\ restarted \in BOOLEAN /\ openFailed \in BOOLEAN
  /\ overwritten \in BOOLEAN /\ unloadFailed \in BOOLEAN

(* Between two notifications the dataplane is configured for exactly the     *)
(* active profiles, through loads, deletes, failures and restarts; only a    *)
(* delete whose reload failed leaves the deleted profile in.                 *)
ActiveIdsMatch ==
  mpc = "idle" /\ hasThread /\ ~unloadFailed => DOMAIN cfg = ids

(* A forwarder is started, and its configuration slot written, only when no  *)
(* earlier forwarder thread is alive: they share rt->fwd.                    *)
OneForwarder == [][tpc' = "init" /\ tpc # "init" => tpc = "none"]_vars

(* A notification is handled to its end, unless a stop request was           *)
(* overwritten while the main thread waits for the forwarder.                *)
HandlerReturns == mpc = "check" ~> mpc \in {"idle", "gone"} \/ overwritten

(* A signal ends the process, with the same exception. *)
StopHonoured == gstop ~> mpc = "gone" \/ overwritten

(* main.c reports "applied (full restart)" once the new forwarder thread is  *)
(* created: that thread ends only for a stop request or an interface that    *)
(* cannot be opened.                                                         *)
RestartServes == tpc = "done" /\ restarted /\ mpc = "idle" => gstop \/ openFailed
==============================================================================
