------------------------------- MODULE Server -------------------------------
(***************************************************************************)
(* The life of the server process: main of server/server.c with its chain   *)
(* of clean-up labels, the contexts of server/thrdctx.c, the start signal   *)
(* the threads wait for, the ways a worker or the registration thread fails *)
(* to start, the control interface's loop, and the configuration that is    *)
(* loaded at the start, changed by commands and saved at the end            *)
(* (server/servcfg.c, server/servctrl.c).  What the threads do between      *)
(* their start and the shutdown is in Session and Registration.             *)
(***************************************************************************)
EXTENDS Integers, FiniteSets

CONSTANTS
    Workers,    \* nr_worker_threads
    Value,      \* values of an integer field in the file
    MinSize, DefSize,   \* min and default value of max_filesize_b
    CtrlSize,   \* arguments of the command filesize
    TablePow2,  \* cl_htable_size_pow2, the limit of cl_htable_locks_pow2
    NoFile,       \* no file, or a file that is no JSON
    MaxFaults,  \* bound: calls that fail
    MaxChanges,    \* bound: control commands
    MaxRuns     \* bound: starts of the server

Reg == 0
Thread == Reg..Workers

\* serv_cfg: the fields that a command changes, and one that depends on another.
CfgType == [size : Nat, files : BOOLEAN, regs : BOOLEAN, whitelist : BOOLEAN, locks : Nat]

ASSUME ServerAssumption ==
    /\ Workers \in Nat \ {0}
    /\ Value \subseteq Nat /\ CtrlSize \subseteq Nat /\ TablePow2 \in Nat
    /\ {MinSize, DefSize} \subseteq Nat /\ MinSize <= DefSize
    /\ NoFile \notin CfgType
    /\ {MaxFaults, MaxChanges, MaxRuns} \subseteq Nat

\* What the file may say.
Config == [size : Value, files : BOOLEAN, regs : BOOLEAN, whitelist : BOOLEAN, locks : Value]

VARIABLES
    cfg,        \* g_server_cfg
    file,       \* the configuration file
    saved,      \* history: what a server that ended wrote last, or NoFile
    main,         \* main
    held,       \* what main has and must give back
    refs,       \* references to the SSL_CTX
    ctxs,       \* wrk_init_cnt
    thread,     \* none, failed, waiting, starting, running, accepting or ended
    sts,        \* thrd_startup_state
    shutdown,   \* shutdown_efd is readable
    regfail,    \* history: reg_ctx_init has failed
    faults, changes, runs

resVars == <<held, refs, ctxs>>
thrVars == <<thread, sts, shutdown>>
boundVars == <<faults, changes, runs>>
serverVars == <<cfg, file, saved, main, resVars, thrVars, regfail, boundVars>>

Tables == {"whitelist", "std_ipblock", "client_tbl"}

Default == [size |-> DefSize, files |-> TRUE, regs |-> TRUE, whitelist |-> FALSE, locks |-> TablePow2]

ServerInit ==
    /\ main = "load" /\ cfg = Default
    /\ held = {} /\ refs = 0 /\ ctxs = 0
    /\ thread = [t \in Thread |-> "none"] /\ sts = "NONE" /\ shutdown = FALSE
    /\ regfail = FALSE
    /\ file \in {NoFile} \cup Config
    /\ saved = NoFile
    /\ faults = 0 /\ changes = 0 /\ runs = 1

-----------------------------------------------------------------------------
(* The configuration *)

\* A field out of its range gets its default; the locks are reduced last.
Loaded(f) ==
    IF f = NoFile THEN Default
    ELSE [f EXCEPT !.size = IF @ >= MinSize THEN @ ELSE DefSize,
                   !.locks = IF @ > TablePow2 THEN TablePow2 ELSE @]

load_cfg ==
    /\ main = "load" /\ main' = "zlog"
    /\ cfg' = Loaded(file)
    /\ UNCHANGED <<file, saved, resVars, thrVars, regfail, boundVars>>

\* Mutant: the defaults are written.
save_cfg_Default ==
    /\ main = "save" /\ main' = "exited"
    /\ file' = Default /\ saved' = cfg
    /\ UNCHANGED <<cfg, resVars, thrVars, regfail, boundVars>>

save_cfg ==
    /\ main = "save" /\ main' = "exited"
    /\ file' = cfg /\ saved' = cfg
    /\ UNCHANGED <<cfg, resVars, thrVars, regfail, boundVars>>

-----------------------------------------------------------------------------
(* main up to the threads.  A step either succeeds or jumps to its label. *)

Step(from, ok, to, label) ==
    /\ main = from
    /\ main' = IF ok THEN to ELSE label
    /\ ~ok => faults < MaxFaults
    /\ faults' = IF ok THEN faults ELSE faults + 1
    /\ UNCHANGED <<changes, runs>>

dzlog_init(ok) ==
    /\ Step("zlog", ok, "tls", "save")
    /\ held' = IF ok THEN held \cup {"zlog"} ELSE held
    /\ UNCHANGED <<cfg, file, saved, refs, ctxs, thrVars, regfail>>

setup_tls(ok) ==
    /\ Step("tls", ok, "efd", "fini")
    /\ refs' = IF ok THEN 1 ELSE 0
    /\ UNCHANGED <<cfg, file, saved, held, ctxs, thrVars, regfail>>

\* is_if_valid, then the eventfd; then the three tables.
create_eventfd(ok) ==
    /\ Step("efd", ok, "regctx", "fini")
    /\ held' = IF ok THEN held \cup {"efd"} \cup Tables ELSE held
    /\ UNCHANGED <<cfg, file, saved, refs, ctxs, thrVars, regfail>>

\* The context exists also when it could not be completed.
reg_ctx_init(ok) ==
    /\ Step("regctx", ok, "wrkctx", "free_reg")
    /\ held' = held \cup {"rt_ctx"}
    /\ refs' = refs + 1
    /\ regfail' = ~ok
    /\ UNCHANGED <<cfg, file, saved, ctxs, thrVars>>

worker_ctx_init(n) ==
    /\ Step("wrkctx", n = Workers, "create", "free_wrk")
    /\ held' = held \cup {"wt_ctx"}
    /\ ctxs' = n
    /\ refs' = refs + n
    /\ UNCHANGED <<cfg, file, saved, thrVars, regfail>>

\* The registration thread is tried first and whatever comes of it, the workers
\* until one cannot be created.
pthread_create(t, ok) ==
    /\ thread[t] = "none" /\ \A u \in 1..t - 1 : thread[u] # "none"
    /\ t # Reg => thread[Reg] # "none"
    /\ Step("create", ok, IF t = Workers THEN "sync" ELSE "create", IF t = Reg THEN "create" ELSE "sync")
    /\ thread' = [thread EXCEPT ![t] = IF ok THEN "waiting" ELSE "failed"]
    /\ UNCHANGED <<cfg, file, saved, resVars, sts, shutdown, regfail>>

Launched == {t \in Thread : thread[t] \notin {"none", "failed"}}

\* Mutant: the threads are told only of success.
coord_thrd_startup_sync_Silent ==
    /\ main = "sync"
    /\ sts' = IF Launched = Thread THEN "OK" ELSE "NONE"
    /\ main' = IF sts' = "OK" THEN "open" ELSE "join"
    /\ UNCHANGED <<cfg, file, saved, resVars, thread, shutdown, regfail, boundVars>>

coord_thrd_startup_sync ==
    /\ main = "sync"
    /\ sts' = IF Launched = Thread THEN "OK" ELSE "NOK"
    /\ main' = IF sts' = "OK" THEN "open" ELSE "join"
    /\ UNCHANGED <<cfg, file, saved, resVars, thread, shutdown, regfail, boundVars>>

-----------------------------------------------------------------------------
(* The control interface *)

open_ctrl_if(ok) ==
    /\ Step("open", ok, "cmd", "join")
    /\ shutdown' = ~ok
    /\ UNCHANGED <<cfg, file, saved, resVars, thread, sts, regfail>>

SetCfg(c) ==
    /\ main = "cmd" /\ changes < MaxChanges
    /\ changes' = changes + 1
    /\ cfg' = c
    /\ UNCHANGED <<file, saved, main, resVars, thrVars, regfail, faults, runs>>

handle_ctrl_filesize == \E n \in CtrlSize : SetCfg([cfg EXCEPT !.size = n])

\* handle_generic_flag_change: only a flag that really changes.
handle_ctrl_filetransfers == SetCfg([cfg EXCEPT !.files = ~@])
handle_ctrl_whitelist_use == SetCfg([cfg EXCEPT !.whitelist = ~@])
handle_ctrl_registrations == SetCfg([cfg EXCEPT !.regs = ~@])

\* shutdown_server, or the interface cannot be read any more.
handle_ctrl_shutdown_server ==
    /\ main = "cmd" /\ main' = "join"
    /\ shutdown' = TRUE
    /\ UNCHANGED <<cfg, file, saved, resVars, thread, sts, regfail, boundVars>>

-----------------------------------------------------------------------------
(* The threads *)

thrd_startup_sync(t) ==
    /\ thread[t] = "waiting" /\ sts # "NONE"
    /\ thread' = [thread EXCEPT ![t] = IF sts = "OK" THEN "starting" ELSE "ended"]
    /\ UNCHANGED <<cfg, file, saved, main, resVars, sts, shutdown, regfail, boundVars>>

\* Listener, epoll instance and prepared statements; without them the thread
\* ends and the others go on.
thrd_routine(t, ok) ==
    /\ thread[t] = "starting"
    /\ thread' = [thread EXCEPT ![t] = IF ok THEN "running" ELSE "ended"]
    /\ ~ok => faults < MaxFaults
    /\ faults' = IF ok THEN faults ELSE faults + 1
    /\ UNCHANGED <<cfg, file, saved, main, resVars, sts, shutdown, regfail, changes, runs>>

\* Nobody reads shutdown_efd: it stays readable for the others.
thrd_shutdown(t) ==
    /\ thread[t] = "running" /\ shutdown
    /\ thread' = [thread EXCEPT ![t] = "ended"]
    /\ UNCHANGED <<cfg, file, saved, main, resVars, sts, shutdown, regfail, boundVars>>

\* The registration thread is in handle_new_connections while there are
\* connections to accept.  It makes each handshake on a socket that blocks, and
\* nothing makes the peer answer.
handle_new_connections ==
    /\ thread[Reg] = "running"
    /\ thread' = [thread EXCEPT ![Reg] = "accepting"]
    /\ UNCHANGED <<cfg, file, saved, main, resVars, sts, shutdown, regfail, boundVars>>

no_more_connections ==
    /\ thread[Reg] = "accepting"
    /\ thread' = [thread EXCEPT ![Reg] = "running"]
    /\ UNCHANGED <<cfg, file, saved, main, resVars, sts, shutdown, regfail, boundVars>>

-----------------------------------------------------------------------------
(* The labels of main, in the order they follow each other *)

\* Mutant: the workers are not waited for.
thrd_startup_failed_RegOnly ==
    /\ main = "join" /\ main' = "free_wrk"
    /\ Reg \in Launched => thread[Reg] = "ended"
    /\ UNCHANGED <<cfg, file, saved, resVars, thrVars, regfail, boundVars>>

thrd_startup_failed ==
    /\ main = "join" /\ main' = "free_wrk"
    /\ \A t \in Launched : thread[t] = "ended"
    /\ UNCHANGED <<cfg, file, saved, resVars, thrVars, regfail, boundVars>>

wrk_thrd_ctx_init_fail ==
    /\ main = "free_wrk" /\ main' = "free_reg"
    /\ held' = held \ {"wt_ctx", "client_tbl", "std_ipblock"}
    /\ refs' = refs - ctxs
    /\ UNCHANGED <<cfg, file, saved, ctxs, thrVars, regfail, boundVars>>

\* Mutant: the context's reference to the SSL_CTX is forgotten.
reg_thrd_ctx_init_fail_KeepsRef ==
    /\ main = "free_reg" /\ main' = "fini"
    /\ held' = held \ {"rt_ctx", "whitelist", "efd"}
    /\ UNCHANGED <<cfg, file, saved, refs, ctxs, thrVars, regfail, boundVars>>

reg_thrd_ctx_init_fail ==
    /\ main = "free_reg" /\ main' = "fini"
    /\ held' = held \ {"rt_ctx", "whitelist", "efd"}
    /\ refs' = refs - 1
    /\ UNCHANGED <<cfg, file, saved, ctxs, thrVars, regfail, boundVars>>

cfg_init_fail ==
    /\ main = "fini" /\ main' = "save"
    /\ held' = held \ {"zlog"}
    /\ refs' = IF refs > 0 THEN refs - 1 ELSE 0
    /\ UNCHANGED <<cfg, file, saved, ctxs, thrVars, regfail, boundVars>>

\* The process is killed: the configuration of this run is not saved.
Kill ==
    /\ main # "exited" /\ faults < MaxFaults
    /\ faults' = faults + 1
    /\ main' = "exited"
    /\ thread' = [t \in Thread |-> "none"]
    /\ held' = {} /\ refs' = 0
    /\ UNCHANGED <<cfg, file, saved, ctxs, sts, shutdown, regfail, changes, runs>>

Restart ==
    /\ main = "exited" /\ runs < MaxRuns
    /\ runs' = runs + 1
    /\ main' = "load" /\ cfg' = Default
    /\ held' = {} /\ refs' = 0 /\ ctxs' = 0
    /\ thread' = [t \in Thread |-> "none"] /\ sts' = "NONE" /\ shutdown' = FALSE
    /\ regfail' = FALSE
    /\ UNCHANGED <<file, saved, faults, changes>>

-----------------------------------------------------------------------------
Main ==
    \/ load_cfg \/ coord_thrd_startup_sync
    \/ \E ok \in BOOLEAN : \/ dzlog_init(ok) \/ setup_tls(ok) \/ create_eventfd(ok)
                           \/ reg_ctx_init(ok) \/ open_ctrl_if(ok)
                           \/ \E t \in Thread : pthread_create(t, ok)
    \/ \E n \in 0..Workers : worker_ctx_init(n)
    \/ thrd_startup_failed \/ wrk_thrd_ctx_init_fail \/ reg_thrd_ctx_init_fail
    \/ cfg_init_fail \/ save_cfg

Operator ==
    \/ handle_ctrl_filesize \/ handle_ctrl_filetransfers \/ handle_ctrl_whitelist_use
    \/ handle_ctrl_registrations \/ handle_ctrl_shutdown_server

Thrd(t) == thrd_startup_sync(t) \/ thrd_shutdown(t) \/ \E ok \in BOOLEAN : thrd_routine(t, ok)

Peer == handle_new_connections \/ no_more_connections

ServerNext == Main \/ Operator \/ (\E t \in Thread : Thrd(t)) \/ Peer \/ Kill \/ Restart

\* main and the threads run; the operator need not do anything, nor a peer.  A
\* registration thread that comes back to epoll_wait finds the shutdown event in
\* its next batch, whatever else is in it: hence the strong fairness.
ServerSpec ==
    /\ ServerInit /\ [][ServerNext]_serverVars
    /\ WF_serverVars(Main) /\ \A t \in Thread : WF_serverVars(Thrd(t))
    /\ SF_serverVars(thrd_shutdown(Reg))

-----------------------------------------------------------------------------
(* Properties *)

\* A thread that has been let go never sees a table, a context or the log gone:
\* main frees them only when it has waited for every thread it created.
NoUseAfterFree ==
    \A t \in Thread :
        thread[t] \in {"starting", "running", "accepting"} =>
            Tables \cup {"zlog", "efd", "rt_ctx", "wt_ctx"} \subseteq held /\ refs > 0

\* Whatever step failed, the labels give back what was had and nothing twice.
\* Two tables are kept when the registration context failed: its label is
\* behind the place where they are deleted.
GivenBack ==
    main = "exited" =>
        /\ refs = 0
        /\ held \subseteq (IF regfail THEN {"client_tbl", "std_ipblock"} ELSE {})

\* After the signal to shut down, and when main waits for its threads because
\* one could not be created, the process ends: no thread is left waiting for the
\* start signal, and no join waits for a thread that does not end, except for a
\* registration thread whose peers never let it go.
RegHeld == <>[](thread[Reg] = "accepting")
EventuallyExits == RegHeld \/ (shutdown \/ main = "join" ~> main = "exited")

\* What the server had been told when it ended is what it starts with again,
\* with one exception: the console takes every size, but a size under the
\* minimum is not accepted from the file and becomes the default.
RestartKeeps ==
    main = "zlog" /\ saved # NoFile =>
        cfg = [saved EXCEPT !.size = IF @ >= MinSize THEN @ ELSE DefSize]

-----------------------------------------------------------------------------
(* The inductive invariants of ServerProofs *)

Begun == {"zlog", "efd", "rt_ctx"} \cup Tables
Kept == IF regfail THEN {"client_tbl", "std_ipblock"} ELSE {}

\* What main has at each of its steps and labels.
ResInv ==
    /\ regfail \in BOOLEAN
    /\ main \notin {"free_reg", "fini", "save", "exited"} => ~regfail
    /\ \/ main \in {"load", "zlog"} /\ held = {} /\ refs = 0
       \/ main = "tls" /\ held = {"zlog"} /\ refs = 0
       \/ main = "efd" /\ held = {"zlog"} /\ refs = 1
       \/ main = "regctx" /\ held = Begun \ {"rt_ctx"} /\ refs = 1
       \/ main = "wrkctx" /\ held = Begun /\ refs = 2
       \/ /\ main \in {"create", "sync", "open", "cmd", "join", "free_wrk"}
          /\ held = Begun \cup {"wt_ctx"}
          /\ ctxs \in 0..Workers /\ refs = 2 + ctxs
       \/ main = "free_reg" /\ held = {"zlog", "efd", "rt_ctx", "whitelist"} \cup Kept /\ refs = 2
       \/ main = "fini" /\ held = {"zlog"} \cup Kept /\ refs \in {0, 1}
       \/ main \in {"save", "exited"} /\ held \subseteq Kept /\ refs = 0

\* How far a thread can be: none is let go before every one was tried, and none
\* is left when main begins to free.
ThreadInv ==
    /\ thread \in [Thread -> {"none", "failed", "waiting", "starting", "running", "accepting", "ended"}]
    /\ main \notin {"open", "cmd", "join"} => \A t \in Thread : thread[t] \notin {"starting", "running", "accepting"}
    /\ main \notin {"create", "sync", "open", "cmd", "join"} => \A t \in Thread : thread[t] # "waiting"
    /\ main \in {"load", "zlog", "tls", "efd", "regctx", "wrkctx", "create", "sync"} => sts = "NONE"

\* The file holds what the last server to end has saved, and it is not touched
\* by one that is killed.
CfgInv ==
    /\ cfg \in CfgType
    /\ cfg.locks <= TablePow2
    /\ file \in {NoFile} \cup CfgType
    /\ saved # NoFile => file = saved /\ saved.locks <= TablePow2
    /\ main = "zlog" => cfg = Loaded(file)
=============================================================================
