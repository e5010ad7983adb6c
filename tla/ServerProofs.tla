---------------------------- MODULE ServerProofs ----------------------------
(***************************************************************************)
(* Proofs about the server's process and about its registration thread.     *)
(*                                                                          *)
(* Server, for any number of workers, faults, commands and restarts: no     *)
(* thread uses what main has freed, the clean-up labels give back what was  *)
(* taken whatever step failed, and a restart finds the configuration the    *)
(* last server ended with, save for a size the loader does not accept.  The *)
(* invariants are in Server: ResInv says what main has at each step,        *)
(* ThreadInv how far a thread can be, CfgInv what the file is.              *)
(*                                                                          *)
(* Registration, for any sets of clients and addresses and any number of    *)
(* commands: nothing dangles or leaks, and the listener agrees with the     *)
(* flag.  IInv is its invariant.                                            *)
(***************************************************************************)
EXTENDS Server, Registration, TLAPS

USE DEF Reg, Thread, resVars, thrVars, boundVars

-----------------------------------------------------------------------------
(* What main has.                                                           *)

LEMMA ResInit == ServerInit => ResInv
BY DEF ServerInit, ResInv

\* The steps up to the threads.
LEMMA ResSetup ==
    ASSUME ResInv, NEW ok \in BOOLEAN,
           load_cfg \/ dzlog_init(ok) \/ setup_tls(ok) \/ create_eventfd(ok)
    PROVE  ResInv'
<1> USE DEF ResInv, Step, Begun, Tables, Kept
<1>1. CASE load_cfg
  BY <1>1 DEF load_cfg
<1>2. CASE dzlog_init(ok)
  BY <1>2 DEF dzlog_init
<1>3. CASE setup_tls(ok)
  BY <1>3 DEF setup_tls
<1>4. CASE create_eventfd(ok)
  BY <1>4 DEF create_eventfd
<1> QED
  BY <1>1, <1>2, <1>3, <1>4

\* The contexts: each takes a reference to the SSL_CTX, and the one of the
\* registration thread is there also when it failed.
LEMMA ResContexts ==
    ASSUME ResInv, \/ \E ok \in BOOLEAN : reg_ctx_init(ok)
                   \/ \E n \in 0..Workers : worker_ctx_init(n)
    PROVE  ResInv'
<1> USE ServerAssumption DEF ResInv, Step, Begun, Tables, Kept
<1>1. ASSUME NEW ok \in BOOLEAN, reg_ctx_init(ok)
      PROVE  ResInv'
  <2>1. CASE ok
    BY <1>1, <2>1 DEF reg_ctx_init
  <2>2. CASE ~ok
    <3>1. main = "regctx" /\ held = Begun \ {"rt_ctx"} /\ refs = 1
      BY <1>1 DEF reg_ctx_init
    <3>2. main' = "free_reg" /\ refs' = 2 /\ held' = Begun
      BY <1>1, <2>2, <3>1 DEF reg_ctx_init
    <3>3. regfail' = TRUE
      BY <1>1, <2>2, Zenon DEF reg_ctx_init
    <3>4. Begun = {"zlog", "efd", "rt_ctx", "whitelist"} \cup {"client_tbl", "std_ipblock"}
      OBVIOUS
    <3> QED
      BY <3>2, <3>3, <3>4
  <2> QED
    BY <2>1, <2>2
<1>2. ASSUME NEW n \in 0..Workers, worker_ctx_init(n)
      PROVE  ResInv'
  BY <1>2 DEF worker_ctx_init
<1> QED
  BY <1>1, <1>2

\* While the threads are created and run nothing is taken or given back.
LEMMA ResThreads ==
    ASSUME ResInv, \/ \E t \in Thread, ok \in BOOLEAN : pthread_create(t, ok)
                   \/ coord_thrd_startup_sync
                   \/ \E ok \in BOOLEAN : open_ctrl_if(ok)
                   \/ thrd_startup_failed
                   \/ Operator
                   \/ \E t \in Thread : Thrd(t)
                   \/ Peer
    PROVE  ResInv'
<1> USE DEF ResInv, Step, Begun, Tables, Kept
<1>1. ASSUME NEW t \in Thread, NEW ok \in BOOLEAN, pthread_create(t, ok)
      PROVE  ResInv'
  BY <1>1 DEF pthread_create
<1>2. CASE coord_thrd_startup_sync
  BY <1>2 DEF coord_thrd_startup_sync
<1>3. ASSUME NEW ok \in BOOLEAN, open_ctrl_if(ok)
      PROVE  ResInv'
  BY <1>3 DEF open_ctrl_if
<1>4. CASE thrd_startup_failed
  BY <1>4 DEF thrd_startup_failed
<1>5. CASE Operator
  BY <1>5 DEF Operator, handle_ctrl_filesize, handle_ctrl_filetransfers, handle_ctrl_whitelist_use,
     handle_ctrl_registrations, handle_ctrl_shutdown_server, SetCfg
<1>6. ASSUME NEW t \in Thread, Thrd(t)
      PROVE  ResInv'
  BY <1>6 DEF Thrd, thrd_startup_sync, thrd_routine, thrd_shutdown
<1>7. CASE Peer
  BY <1>7 DEF Peer, handle_new_connections, no_more_connections
<1> QED
  BY <1>1, <1>2, <1>3, <1>4, <1>5, <1>6, <1>7

\* The labels, the end of the process and the next one.
LEMMA ResLabels ==
    ASSUME ResInv, \/ wrk_thrd_ctx_init_fail \/ reg_thrd_ctx_init_fail \/ cfg_init_fail
                   \/ save_cfg \/ Kill \/ Restart
    PROVE  ResInv'
<1> USE DEF ResInv, Begun, Tables, Kept
<1>1. CASE wrk_thrd_ctx_init_fail
  BY <1>1, ServerAssumption DEF wrk_thrd_ctx_init_fail
<1>2. CASE reg_thrd_ctx_init_fail
  BY <1>2 DEF reg_thrd_ctx_init_fail
<1>3. CASE cfg_init_fail
  BY <1>3 DEF cfg_init_fail
<1>4. CASE save_cfg
  BY <1>4 DEF save_cfg
<1>5. CASE Kill
  BY <1>5 DEF Kill
<1>6. CASE Restart
  BY <1>6 DEF Restart
<1> QED
  BY <1>1, <1>2, <1>3, <1>4, <1>5, <1>6

LEMMA ResNext == ResInv /\ [ServerNext]_serverVars => ResInv'
<1>1. ASSUME ResInv, ServerNext
      PROVE  ResInv'
  <2>1. TRUE \in BOOLEAN
    OBVIOUS
  <2> QED
    BY <1>1, <2>1, ResSetup, ResContexts, ResThreads, ResLabels DEF ServerNext, Main
<1>2. ASSUME ResInv, UNCHANGED serverVars
      PROVE  ResInv'
  BY <1>2 DEF ResInv, serverVars, Kept
<1> QED
  BY <1>1, <1>2

-----------------------------------------------------------------------------
(* How far the threads are.                                                 *)

LEMMA ThreadInit == ServerInit => ThreadInv
BY DEF ServerInit, ThreadInv

LEMMA ThreadNext == ThreadInv /\ [ServerNext]_serverVars => ThreadInv'
<1> SUFFICES ASSUME ThreadInv, [ServerNext]_serverVars
             PROVE  ThreadInv'
  OBVIOUS
<1> USE DEF ThreadInv
<1>1. CASE load_cfg \/ save_cfg
  BY <1>1 DEF load_cfg, save_cfg
<1>2. ASSUME NEW ok \in BOOLEAN,
             dzlog_init(ok) \/ setup_tls(ok) \/ create_eventfd(ok) \/ reg_ctx_init(ok)
      PROVE  ThreadInv'
  BY <1>2 DEF dzlog_init, setup_tls, create_eventfd, reg_ctx_init, Step
<1>3. ASSUME NEW n \in 0..Workers, worker_ctx_init(n)
      PROVE  ThreadInv'
  BY <1>3 DEF worker_ctx_init, Step
<1>4. ASSUME NEW t \in Thread, NEW ok \in BOOLEAN, pthread_create(t, ok)
      PROVE  ThreadInv'
  BY <1>4 DEF pthread_create, Step
<1>5. CASE coord_thrd_startup_sync
  BY <1>5 DEF coord_thrd_startup_sync
<1>6. ASSUME NEW ok \in BOOLEAN, open_ctrl_if(ok)
      PROVE  ThreadInv'
  BY <1>6 DEF open_ctrl_if, Step
<1>7. CASE thrd_startup_failed
  <2>1. \A t \in Thread : thread[t] \in {"none", "failed", "ended"}
    BY <1>7 DEF thrd_startup_failed, Launched
  <2> QED
    BY <1>7, <2>1 DEF thrd_startup_failed
<1>8. CASE wrk_thrd_ctx_init_fail \/ reg_thrd_ctx_init_fail \/ cfg_init_fail
  BY <1>8 DEF wrk_thrd_ctx_init_fail, reg_thrd_ctx_init_fail, cfg_init_fail
<1>9. CASE Operator
  BY <1>9 DEF Operator, handle_ctrl_filesize, handle_ctrl_filetransfers, handle_ctrl_whitelist_use,
     handle_ctrl_registrations, handle_ctrl_shutdown_server, SetCfg
<1>10. ASSUME NEW t \in Thread, Thrd(t)
       PROVE  ThreadInv'
  <2>1. CASE thrd_startup_sync(t)
    BY <2>1 DEF thrd_startup_sync
  <2>2. CASE thrd_shutdown(t)
    BY <2>2 DEF thrd_shutdown
  <2>3. ASSUME NEW ok \in BOOLEAN, thrd_routine(t, ok)
        PROVE  ThreadInv'
    BY <2>3 DEF thrd_routine
  <2> QED
    BY <1>10, <2>1, <2>2, <2>3 DEF Thrd
<1>11. CASE Kill \/ Restart
  BY <1>11 DEF Kill, Restart
<1>12. CASE UNCHANGED serverVars
  BY <1>12 DEF serverVars
<1>13. CASE Peer
  <2>1. UNCHANGED <<main, sts>> /\ thread[Reg] \in {"running", "accepting"}
    BY <1>13 DEF Peer, handle_new_connections, no_more_connections
  <2>2. PICK st \in {"running", "accepting"} : thread' = [thread EXCEPT ![Reg] = st]
    BY <1>13 DEF Peer, handle_new_connections, no_more_connections
  <2>3. Reg \in Thread /\ \A t \in Thread : t # Reg => thread'[t] = thread[t]
    BY <2>2, ServerAssumption
  <2>4. thread'[Reg] = st
    BY <2>2, <2>3
  <2> QED
    BY <2>1, <2>2, <2>3, <2>4
<1> QED
  BY <1>1, <1>2, <1>3, <1>4, <1>5, <1>6, <1>7, <1>8, <1>9, <1>10, <1>11, <1>12, <1>13 DEF ServerNext, Main

-----------------------------------------------------------------------------
(* The configuration.                                                       *)

\* What the loader makes of a file: only a size under the minimum and a number
\* of locks over the limit are replaced.
LEMMA LoadedFacts ==
    ASSUME NEW f \in {NoFile} \cup CfgType
    PROVE  /\ Loaded(f) \in CfgType /\ Loaded(f).locks <= TablePow2
           /\ f # NoFile /\ f.locks <= TablePow2 =>
                  Loaded(f) = [f EXCEPT !.size = IF @ >= MinSize THEN @ ELSE DefSize]
<1> USE ServerAssumption
<1>1. CASE f = NoFile
  BY <1>1 DEF Loaded, Default, CfgType
<1>2. CASE f # NoFile
  <2>1. f \in CfgType
    BY <1>2
  <2>2. Loaded(f) = [f EXCEPT !.size = IF @ >= MinSize THEN @ ELSE DefSize,
                              !.locks = IF @ > TablePow2 THEN TablePow2 ELSE @]
    BY <1>2 DEF Loaded
  <2>3. /\ Loaded(f) \in CfgType
        /\ Loaded(f).size = (IF f.size >= MinSize THEN f.size ELSE DefSize)
        /\ Loaded(f).locks = (IF f.locks > TablePow2 THEN TablePow2 ELSE f.locks)
        /\ Loaded(f).files = f.files /\ Loaded(f).regs = f.regs /\ Loaded(f).whitelist = f.whitelist
    BY <2>1, <2>2 DEF CfgType
  <2>4. f.size \in Nat /\ f.locks \in Nat
    BY <2>1 DEF CfgType
  <2>5. ASSUME f.locks <= TablePow2
        PROVE  Loaded(f) = [f EXCEPT !.size = IF @ >= MinSize THEN @ ELSE DefSize]
    <3>1. Loaded(f).locks = f.locks
      BY <2>3, <2>4, <2>5
    <3> QED
      BY <2>1, <2>3, <3>1 DEF CfgType
  <2> QED
    BY <2>3, <2>4, <2>5
<1> QED
  BY <1>1, <1>2

\* Steps that leave the configuration and the file alone.
OtherStep ==
    \/ \E ok \in BOOLEAN : \/ dzlog_init(ok) \/ setup_tls(ok) \/ create_eventfd(ok)
                           \/ reg_ctx_init(ok) \/ open_ctrl_if(ok)
                           \/ \E t \in Thread : pthread_create(t, ok)
    \/ \E n \in 0..Workers : worker_ctx_init(n)
    \/ coord_thrd_startup_sync \/ thrd_startup_failed
    \/ wrk_thrd_ctx_init_fail \/ reg_thrd_ctx_init_fail \/ cfg_init_fail
    \/ handle_ctrl_shutdown_server
    \/ \E t \in Thread : Thrd(t)
    \/ Peer
    \/ Kill

LEMMA OtherFacts ==
    ASSUME OtherStep
    PROVE  /\ UNCHANGED <<cfg, file, saved>>
           /\ main' = "zlog" => main = "zlog"
BY DEF OtherStep, dzlog_init, setup_tls, create_eventfd, reg_ctx_init, open_ctrl_if, pthread_create,
   worker_ctx_init, coord_thrd_startup_sync, thrd_startup_failed, wrk_thrd_ctx_init_fail,
   reg_thrd_ctx_init_fail, cfg_init_fail, handle_ctrl_shutdown_server, Thrd, thrd_startup_sync,
   thrd_routine, thrd_shutdown, Peer, handle_new_connections, no_more_connections, Kill, Step

\* A command changes one field.
Commands == \/ handle_ctrl_filesize \/ handle_ctrl_filetransfers
            \/ handle_ctrl_whitelist_use \/ handle_ctrl_registrations

LEMMA NextCases == ServerNext => load_cfg \/ save_cfg \/ Commands \/ Restart \/ OtherStep
BY DEF ServerNext, Main, Operator, Commands, OtherStep

LEMMA CommandFacts ==
    ASSUME CfgInv, Commands
    PROVE  /\ cfg' \in CfgType /\ cfg'.locks = cfg.locks
           /\ cfg'.size = cfg.size \/ cfg'.size \in CtrlSize
           /\ main = "cmd" /\ UNCHANGED <<file, saved, main>>
<1> USE ServerAssumption DEF CfgInv, CfgType
<1>1. ASSUME NEW n \in CtrlSize, SetCfg([cfg EXCEPT !.size = n])
      PROVE  /\ cfg' \in CfgType /\ cfg'.locks = cfg.locks /\ cfg'.size = n
             /\ main = "cmd" /\ UNCHANGED <<file, saved, main>>
  BY <1>1 DEF SetCfg
<1>2. CASE handle_ctrl_filetransfers
  BY <1>2 DEF handle_ctrl_filetransfers, SetCfg
<1>3. CASE handle_ctrl_whitelist_use
  BY <1>3 DEF handle_ctrl_whitelist_use, SetCfg
<1>4. CASE handle_ctrl_registrations
  BY <1>4 DEF handle_ctrl_registrations, SetCfg
<1> QED
  BY <1>1, <1>2, <1>3, <1>4 DEF Commands, handle_ctrl_filesize

LEMMA CfgInit == ServerInit => CfgInv
<1> SUFFICES ASSUME ServerInit
             PROVE  CfgInv
  OBVIOUS
<1>1. Config \subseteq CfgType
  BY ServerAssumption DEF Config, CfgType
<1>2. Default \in CfgType /\ Default.locks <= TablePow2
  BY ServerAssumption DEF Default, CfgType
<1> QED
  BY <1>1, <1>2 DEF ServerInit, CfgInv

LEMMA CfgNext == CfgInv /\ [ServerNext]_serverVars => CfgInv'
<1> SUFFICES ASSUME CfgInv, [ServerNext]_serverVars
             PROVE  CfgInv'
  OBVIOUS
<1>1. CASE load_cfg
  BY <1>1, LoadedFacts DEF load_cfg, CfgInv
<1>2. CASE save_cfg
  BY <1>2 DEF save_cfg, CfgInv
<1>3. CASE Commands
  BY <1>3, CommandFacts DEF CfgInv
<1>4. CASE Restart
  BY <1>4, ServerAssumption DEF Restart, CfgInv, Default, CfgType
<1>5. CASE OtherStep
  BY <1>5, OtherFacts DEF CfgInv
<1>6. CASE UNCHANGED serverVars
  BY <1>6 DEF serverVars, CfgInv
<1> QED
  BY <1>1, <1>2, <1>3, <1>4, <1>5, <1>6, NextCases

-----------------------------------------------------------------------------
(* The theorems.                                                            *)

\* Whatever fails and whenever, main knows what it has and how far its threads
\* are, and the file is what the last server to end has saved.
THEOREM ServerInvariance == ServerSpec => [](ResInv /\ ThreadInv /\ CfgInv)
<1>1. ServerInit => ResInv /\ ThreadInv /\ CfgInv
  BY ResInit, ThreadInit, CfgInit
<1>2. ResInv /\ ThreadInv /\ CfgInv /\ [ServerNext]_serverVars => (ResInv /\ ThreadInv /\ CfgInv)'
  BY ResNext, ThreadNext, CfgNext
<1> QED
  BY <1>1, <1>2, PTL DEF ServerSpec

\* A thread that passed thrd_startup_sync finds the tables, the contexts, the
\* log and the SSL_CTX until it ends.
THEOREM ThreadsSafe == ServerSpec => []NoUseAfterFree
<1>1. ResInv /\ ThreadInv => NoUseAfterFree
  <2> SUFFICES ASSUME ResInv, ThreadInv, NEW t \in Thread, thread[t] \in {"starting", "running", "accepting"}
               PROVE  Tables \cup {"zlog", "efd", "rt_ctx", "wt_ctx"} \subseteq held /\ refs > 0
    BY DEF NoUseAfterFree
  <2>1. main \in {"open", "cmd", "join"}
    BY DEF ThreadInv
  <2> QED
    BY <2>1, ServerAssumption DEF ResInv, Begun
<1> QED
  BY <1>1, ServerInvariance, PTL

\* Every path through the labels of main ends with no reference to the SSL_CTX
\* and with nothing held but the two tables its failed registration context
\* jumps over.
THEOREM LabelsGiveBack == ServerSpec => []GivenBack
<1>1. ResInv => GivenBack
  BY DEF ResInv, GivenBack, Kept
<1> QED
  BY <1>1, ServerInvariance, PTL

\* A restart finds the configuration the last server ended with, through any
\* number of commands, kills and failed starts, whatever sizes the console was
\* given: only one under the minimum, which handle_ctrl_filesize stores and the
\* loader does not accept, is the default after the restart.
THEOREM ConfigurationKept == ServerSpec => []RestartKeeps
<1>1. CfgInv => RestartKeeps
  <2> SUFFICES ASSUME CfgInv, main = "zlog", saved # NoFile
               PROVE  cfg = [saved EXCEPT !.size = IF @ >= MinSize THEN @ ELSE DefSize]
    BY DEF RestartKeeps
  <2>1. file \in {NoFile} \cup CfgType /\ file # NoFile /\ file.locks <= TablePow2
    BY DEF CfgInv
  <2>2. cfg = Loaded(file) /\ saved = file
    BY DEF CfgInv
  <2> QED
    BY <2>1, <2>2, LoadedFacts
<1> QED
  BY <1>1, ServerInvariance, PTL

-----------------------------------------------------------------------------
(* The registration thread.                                                 *)

USE RegistrationAssumption

\* reg_thrd_routine starts in a state that satisfies the invariant.
LEMMA RegistrationInit == Init => IInv
  <1> SUFFICES ASSUME Init PROVE IInv
    OBVIOUS
  <1>1. listener \in BOOLEAN /\ broken \in BOOLEAN /\ allow_registrations \in BOOLEAN
    BY Zenon DEF Init
  <1>2. listener = allow_registrations \/ (broken /\ allow_registrations)
    BY Zenon DEF Init
  <1>3. TypeOK
    <2>1. /\ record \in [Addr -> Statuses]
          /\ mem \in [Client -> {"unused", "live", "freed", "corrupt"}]
          /\ peer \in [Client -> Addr]
      BY DEF Init, Statuses
    <2>2. flg_reg_changed \in Nat /\ cmds \in 0..MaxCmds
      BY DEF Init
    <2>3. QED
      BY <1>1, <2>1, <2>2, Zenon DEF Init, TypeOK
  <1>4. ListInv /\ StepInv
    BY DEF Init, ListInv, StepInv
  <1>5. QED
    BY <1>2, <1>3, <1>4 DEF IInv, ListenerInv

\* handle_ctrl_registrations stores the flag: a change is on its way.
LEMMA SetFlagStep == IInv /\ SetFlag => IInv'
  <1> SUFFICES ASSUME IInv, SetFlag PROVE IInv'
    OBVIOUS
  <1> USE DEF SetFlag, Command, vars, sharedVars, mainVars, listenVars, clientVars, eventVars
  <1>1. TypeOK'
    BY DEF IInv, TypeOK, Statuses, StepInv
  <1>2. ListInv'
    BY DEF IInv, TypeOK, ListInv, StepInv
  <1>3. StepInv'
    BY DEF IInv, TypeOK, StepInv, ListInv
  <1>4. ListenerInv'
    BY DEF IInv, TypeOK, StepInv, ListenerInv
  <1>5. QED
    BY <1>1, <1>2, <1>3, <1>4 DEF IInv

\* The eventfd_write announces it.
LEMMA AnnounceStep == IInv /\ Announce => IInv'
  <1> SUFFICES ASSUME IInv, Announce PROVE IInv'
    OBVIOUS
  <1> USE DEF Announce, vars, sharedVars, mainVars, listenVars, clientVars, eventVars
  <1>1. TypeOK'
    BY DEF IInv, TypeOK, Statuses, StepInv
  <1>2. ListInv'
    BY DEF IInv, TypeOK, ListInv, StepInv
  <1>3. StepInv'
    BY DEF IInv, TypeOK, StepInv, ListInv
  <1>4. ListenerInv'
    BY DEF IInv, TypeOK, StepInv, ListenerInv
  <1>5. QED
    BY <1>1, <1>2, <1>3, <1>4 DEF IInv

\* reg_ipblock and reg_unblock touch only the records.
LEMMA RecordsStep == IInv /\ (\E a \in Addr : reg_ipblock(a) \/ reg_unblock(a) \/ Expire(a)) => IInv'
  <1> SUFFICES ASSUME IInv, (\E a \in Addr : reg_ipblock(a) \/ reg_unblock(a) \/ Expire(a)) PROVE IInv'
    OBVIOUS
  <1> USE DEF reg_ipblock, reg_unblock, Expire, Command, vars, sharedVars, mainVars, listenVars, clientVars, eventVars
  <1>1. TypeOK'
    <2>1. PICK a \in Addr : reg_ipblock(a) \/ reg_unblock(a) \/ Expire(a)
      BY Zenon
    <2>2. record' \in [Addr -> Statuses]
      <3>1. PICK st \in Statuses : record' = [record EXCEPT ![a] = st]
        BY <2>1 DEF IInv, TypeOK, Statuses
      <3>2. QED
        BY <3>1 DEF IInv, TypeOK
    <2>3. cmds' \in 0..MaxCmds
      BY <2>1 DEF IInv, TypeOK
    <2>4. QED
      BY <2>1, <2>2, <2>3, ZenonT(30) DEF IInv, TypeOK
  <1>2. ListInv'
    BY DEF IInv, TypeOK, ListInv, StepInv
  <1>3. StepInv'
    BY DEF IInv, TypeOK, StepInv, ListInv
  <1>4. ListenerInv'
    BY DEF IInv, TypeOK, StepInv, ListenerInv
  <1>5. QED
    BY <1>1, <1>2, <1>3, <1>4 DEF IInv

\* shutdown_server.
LEMMA Shutdown_serverStep == IInv /\ shutdown_server => IInv'
  <1> SUFFICES ASSUME IInv, shutdown_server PROVE IInv'
    OBVIOUS
  <1> USE DEF shutdown_server, vars, sharedVars, mainVars, listenVars, clientVars, eventVars
  <1>1. TypeOK'
    BY DEF IInv, TypeOK, Statuses, StepInv
  <1>2. ListInv'
    BY DEF IInv, TypeOK, ListInv, StepInv
  <1>3. StepInv'
    BY DEF IInv, TypeOK, StepInv, ListInv
  <1>4. ListenerInv'
    BY DEF IInv, TypeOK, StepInv, ListenerInv
  <1>5. QED
    BY <1>1, <1>2, <1>3, <1>4 DEF IInv

\* The clock only moves clients of the heap to due.
LEMMA TickAnyStep == IInv /\ (\E c \in Client : Tick(c)) => IInv'
  <1> SUFFICES ASSUME IInv, (\E c \in Client : Tick(c)) PROVE IInv'
    OBVIOUS
  <1> USE DEF Tick, vars, sharedVars, mainVars, listenVars, clientVars, eventVars
  <1>1. TypeOK'
    BY DEF IInv, TypeOK, Statuses, StepInv
  <1>2. ListInv'
    BY DEF IInv, TypeOK, ListInv, StepInv
  <1>3. StepInv'
    BY DEF IInv, TypeOK, StepInv, ListInv
  <1>4. ListenerInv'
    BY DEF IInv, TypeOK, StepInv, ListenerInv
  <1>5. QED
    BY <1>1, <1>2, <1>3, <1>4 DEF IInv

\* A client that is due leaves every set it was in and is freed once.
LEMMA Handle_clth_timeoutStep == IInv /\ handle_clth_timeout => IInv'
  <1> SUFFICES ASSUME IInv, handle_clth_timeout PROVE IInv'
    OBVIOUS
  <1> USE DEF handle_clth_timeout, cleanup_reg_client, list_remove, Freed, vars, sharedVars, mainVars, listenVars, clientVars, eventVars
  <1>1. TypeOK'
    BY DEF IInv, TypeOK, Statuses, StepInv
  <1>2. ListInv'
    BY DEF IInv, TypeOK, ListInv, StepInv
  <1>3. StepInv'
    BY DEF IInv, TypeOK, StepInv, ListInv
  <1>4. ListenerInv'
    BY DEF IInv, TypeOK, StepInv, ListenerInv
  <1>5. QED
    BY <1>1, <1>2, <1>3, <1>4 DEF IInv

\* The events of a batch are of registered clients.
LEMMA Epoll_waitStep == IInv /\ epoll_wait => IInv'
  <1> SUFFICES ASSUME IInv, epoll_wait PROVE IInv'
    OBVIOUS
  <1> USE DEF epoll_wait, Readable, vars, sharedVars, mainVars, listenVars, clientVars, eventVars
  <1>1. TypeOK'
    BY ZenonT(30) DEF IInv, TypeOK, Statuses, StepInv
  <1>2. ListInv'
    BY DEF IInv, TypeOK, ListInv, StepInv
  <1>3. StepInv'
    BY DEF IInv, TypeOK, StepInv, ListInv
  <1>4. ListenerInv'
    BY DEF IInv, TypeOK, StepInv, ListenerInv
  <1>5. QED
    BY <1>1, <1>2, <1>3, <1>4 DEF IInv

\* The end of a batch.
LEMMA BatchDoneStep == IInv /\ BatchDone => IInv'
  <1> SUFFICES ASSUME IInv, BatchDone PROVE IInv'
    OBVIOUS
  <1> USE DEF BatchDone, vars, sharedVars, mainVars, listenVars, clientVars, eventVars
  <1>1. TypeOK'
    BY DEF IInv, TypeOK, Statuses, StepInv
  <1>2. ListInv'
    BY DEF IInv, TypeOK, ListInv, StepInv
  <1>3. StepInv'
    BY DEF IInv, TypeOK, StepInv, ListInv
  <1>4. ListenerInv'
    BY DEF IInv, TypeOK, StepInv, ListenerInv
  <1>5. QED
    BY <1>1, <1>2, <1>3, <1>4 DEF IInv

\* The change read from the eventfd is applied before the next wait.
LEMMA ReadChangedStep == IInv /\ ReadChanged => IInv'
  <1> SUFFICES ASSUME IInv, ReadChanged PROVE IInv'
    OBVIOUS
  <1> USE DEF ReadChanged, LoopEvent, vars, sharedVars, mainVars, listenVars, clientVars, eventVars
  <1>1. TypeOK'
    BY DEF IInv, TypeOK, Statuses, StepInv
  <1>2. ListInv'
    BY DEF IInv, TypeOK, ListInv, StepInv
  <1>3. StepInv'
    BY DEF IInv, TypeOK, StepInv, ListInv
  <1>4. ListenerInv'
    BY DEF IInv, TypeOK, StepInv, ListenerInv
  <1>5. QED
    BY <1>1, <1>2, <1>3, <1>4 DEF IInv

\* The listener is brought into line, or found broken.
LEMMA ApplyFlagStep == IInv /\ ApplyFlag => IInv'
  <1> SUFFICES ASSUME IInv, ApplyFlag PROVE IInv'
    OBVIOUS
  <1> USE DEF ApplyFlag, vars, sharedVars, mainVars, listenVars, clientVars, eventVars
  <1>1. TypeOK'
    BY DEF IInv, TypeOK, Statuses, StepInv
  <1>2. ListInv'
    BY DEF IInv, TypeOK, ListInv, StepInv
  <1>3. StepInv'
    BY DEF IInv, TypeOK, StepInv, ListInv
  <1>4. ListenerInv'
    BY DEF IInv, TypeOK, StepInv, ListenerInv
  <1>5. QED
    BY <1>1, <1>2, <1>3, <1>4 DEF IInv

\* An unused client is picked for the connection.
LEMMA AcceptStep == IInv /\ Accept => IInv'
  <1> SUFFICES ASSUME IInv, Accept PROVE IInv'
    OBVIOUS
  <1> USE DEF Accept, vars, sharedVars, mainVars, listenVars, clientVars, eventVars
  <1>1. TypeOK'
    BY DEF IInv, TypeOK, Statuses, StepInv
  <1>2. ListInv'
    BY DEF IInv, TypeOK, ListInv, StepInv
  <1>3. StepInv'
    BY DEF IInv, TypeOK, StepInv, ListInv
  <1>4. ListenerInv'
    BY DEF IInv, TypeOK, StepInv, ListenerInv
  <1>5. QED
    BY <1>1, <1>2, <1>3, <1>4 DEF IInv

\* The expired record goes.
LEMMA RemoveExpiredStep == IInv /\ RemoveExpired => IInv'
  <1> SUFFICES ASSUME IInv, RemoveExpired PROVE IInv'
    OBVIOUS
  <1> USE DEF RemoveExpired, vars, sharedVars, mainVars, listenVars, clientVars, eventVars
  <1>1. TypeOK'
    BY DEF IInv, TypeOK, Statuses, StepInv
  <1>2. ListInv'
    BY DEF IInv, TypeOK, ListInv, StepInv
  <1>3. StepInv'
    BY DEF IInv, TypeOK, StepInv, ListInv
  <1>4. ListenerInv'
    BY DEF IInv, TypeOK, StepInv, ListenerInv
  <1>5. QED
    BY <1>1, <1>2, <1>3, <1>4 DEF IInv

\* A client that is tracked is in the list and in epoll.
LEMMA AdmitStep == IInv /\ Admit => IInv'
  <1> SUFFICES ASSUME IInv, Admit PROVE IInv'
    OBVIOUS
  <1> USE DEF Admit, track_new_client, list_add, vars, sharedVars, mainVars, listenVars, clientVars, eventVars
  <1>1. TypeOK'
    BY DEF IInv, TypeOK, Statuses, StepInv
  <1>2. ListInv'
    BY DEF IInv, TypeOK, ListInv, StepInv
  <1>3. StepInv'
    BY DEF IInv, TypeOK, StepInv, ListInv
  <1>4. ListenerInv'
    BY DEF IInv, TypeOK, StepInv, ListenerInv
  <1>5. QED
    BY <1>1, <1>2, <1>3, <1>4 DEF IInv

\* A listener that fails is broken.
LEMMA AcceptDoneStep == IInv /\ AcceptDone => IInv'
  <1> SUFFICES ASSUME IInv, AcceptDone PROVE IInv'
    OBVIOUS
  <1> USE DEF AcceptDone, LoopEvent, vars, sharedVars, mainVars, listenVars, clientVars, eventVars
  <1>1. TypeOK'
    BY DEF IInv, TypeOK, Statuses, StepInv
  <1>2. ListInv'
    BY DEF IInv, TypeOK, ListInv, StepInv
  <1>3. StepInv'
    BY DEF IInv, TypeOK, StepInv, ListInv
  <1>4. ListenerInv'
    <2>1. CASE UNCHANGED listenVars
      BY <2>1 DEF IInv, TypeOK, StepInv, ListenerInv
    <2>2. CASE listener' = FALSE /\ broken' = (broken \/ listener)
      <3>1. CASE listener
        BY <2>2, <3>1 DEF IInv, TypeOK, StepInv, ListenerInv
      <3>2. CASE ~ listener
        BY <2>2, <3>2 DEF IInv, TypeOK, StepInv, ListenerInv
      <3>3. QED
        BY <3>1, <3>2
    <2>3. QED
      BY <2>1, <2>2
  <1>5. QED
    BY <1>1, <1>2, <1>3, <1>4 DEF IInv

\* A hang-up frees the client of the event.
LEMMA Reg_handle_disconnectStep == IInv /\ reg_handle_disconnect => IInv'
  <1> SUFFICES ASSUME IInv, reg_handle_disconnect PROVE IInv'
    OBVIOUS
  <1> USE DEF reg_handle_disconnect, ClientEvent, cleanup_reg_client, list_remove, Freed, vars, sharedVars, mainVars, listenVars, clientVars, eventVars
  <1>1. TypeOK'
    BY DEF IInv, TypeOK, Statuses, StepInv
  <1>2. ListInv'
    BY DEF IInv, TypeOK, ListInv, StepInv
  <1>3. StepInv'
    BY DEF IInv, TypeOK, StepInv, ListInv
  <1>4. ListenerInv'
    BY DEF IInv, TypeOK, StepInv, ListenerInv
  <1>5. QED
    BY <1>1, <1>2, <1>3, <1>4 DEF IInv

\* Receiving frees the client of the event or changes nothing.
LEMMA ReceiveStep == IInv /\ Receive => IInv'
  <1> SUFFICES ASSUME IInv, Receive PROVE IInv'
    OBVIOUS
  <1> USE DEF Receive, ClientEvent, cleanup_reg_client, list_remove, Freed, vars, sharedVars, mainVars, listenVars, clientVars, eventVars
  <1>1. TypeOK'
    BY DEF IInv, TypeOK, Statuses, StepInv
  <1>2. ListInv'
    BY DEF IInv, TypeOK, ListInv, StepInv
  <1>3. StepInv'
    BY DEF IInv, TypeOK, StepInv, ListInv
  <1>4. ListenerInv'
    BY DEF IInv, TypeOK, StepInv, ListenerInv
  <1>5. QED
    BY <1>1, <1>2, <1>3, <1>4 DEF IInv

\* A request frees the client of the event.
LEMMA RequestStep == IInv /\ Request => IInv'
  <1> SUFFICES ASSUME IInv, Request PROVE IInv'
    OBVIOUS
  <1> USE DEF Request, ClientEvent, cleanup_reg_client, list_remove, Freed, manage_reg_ipbr, vars, sharedVars, mainVars, listenVars, clientVars, eventVars
  <1>1. TypeOK'
    BY DEF IInv, TypeOK, Statuses, StepInv
  <1>2. ListInv'
    BY DEF IInv, TypeOK, ListInv, StepInv
  <1>3. StepInv'
    BY DEF IInv, TypeOK, StepInv, ListInv
  <1>4. ListenerInv'
    BY DEF IInv, TypeOK, StepInv, ListenerInv
  <1>5. QED
    BY <1>1, <1>2, <1>3, <1>4 DEF IInv

\* handle_shutdown frees the list, which is everything.
LEMMA Handle_shutdownStep == IInv /\ handle_shutdown => IInv'
  <1> SUFFICES ASSUME IInv, handle_shutdown PROVE IInv'
    OBVIOUS
  <1> USE DEF handle_shutdown, Freed, vars, sharedVars, mainVars, listenVars, clientVars, eventVars
  <1>1. TypeOK'
    BY DEF IInv, TypeOK, Statuses, StepInv
  <1>2. ListInv'
    BY DEF IInv, TypeOK, ListInv, StepInv
  <1>3. StepInv'
    BY DEF IInv, TypeOK, StepInv, ListInv
  <1>4. ListenerInv'
    BY DEF IInv, TypeOK, StepInv, ListenerInv
  <1>5. QED
    BY <1>1, <1>2, <1>3, <1>4 DEF IInv

\* Every step of the thread, of the main thread and of the clock keeps it.
LEMMA RegistrationNext == IInv /\ [Next]_vars => IInv'
  <1> SUFFICES ASSUME IInv, [Next]_vars PROVE IInv'
    OBVIOUS
  <1>1. CASE UNCHANGED vars
    BY <1>1 DEF IInv, TypeOK, ListInv, StepInv, ListenerInv, vars, sharedVars, mainVars,
                listenVars, clientVars, eventVars
  <1>2. CASE Terminated
    BY <1>2 DEF Terminated, IInv, TypeOK, ListInv, StepInv, ListenerInv, vars, sharedVars,
                mainVars, listenVars, clientVars, eventVars
  <1>3. CASE SetFlag
    BY <1>3, SetFlagStep
  <1>4. CASE Announce
    BY <1>4, AnnounceStep
  <1>5. CASE (\E a \in Addr : reg_ipblock(a) \/ reg_unblock(a) \/ Expire(a))
    BY <1>5, RecordsStep
  <1>6. CASE shutdown_server
    BY <1>6, Shutdown_serverStep
  <1>7. CASE (\E c \in Client : Tick(c))
    BY <1>7, TickAnyStep
  <1>8. CASE handle_clth_timeout
    BY <1>8, Handle_clth_timeoutStep
  <1>9. CASE epoll_wait
    BY <1>9, Epoll_waitStep
  <1>10. CASE BatchDone
    BY <1>10, BatchDoneStep
  <1>11. CASE ReadChanged
    BY <1>11, ReadChangedStep
  <1>12. CASE ApplyFlag
    BY <1>12, ApplyFlagStep
  <1>13. CASE Accept
    BY <1>13, AcceptStep
  <1>14. CASE RemoveExpired
    BY <1>14, RemoveExpiredStep
  <1>15. CASE Admit
    BY <1>15, AdmitStep
  <1>16. CASE AcceptDone
    BY <1>16, AcceptDoneStep
  <1>17. CASE reg_handle_disconnect
    BY <1>17, Reg_handle_disconnectStep
  <1>18. CASE Receive
    BY <1>18, ReceiveStep
  <1>19. CASE Request
    BY <1>19, RequestStep
  <1>20. CASE handle_shutdown
    BY <1>20, Handle_shutdownStep
  <1>21. QED
    BY <1>1, <1>2, <1>3, <1>4, <1>5, <1>6, <1>7, <1>8, <1>9, <1>10, <1>11, <1>12, <1>13, <1>14, <1>15, <1>16, <1>17, <1>18, <1>19, <1>20 DEF Next, Handle

\* The inductive invariant holds in every reachable state.
THEOREM RegistrationInvariance == Spec => []IInv
  BY RegistrationInit, RegistrationNext, PTL DEF Spec

\* Nothing the thread can reach through its list, its heap, epoll or a batch
\* of events has been freed.
THEOREM NothingDangles == Spec => []NoDangling
  <1>1. IInv => NoDangling
    BY DEF IInv, ListInv, TypeOK, NoDangling
  <1>2. QED
    BY <1>1, RegistrationInvariance, PTL

\* A waiting thread with no announcement pending serves exactly if allowed.
THEOREM ServiceAgrees == Spec => []ListenerAgrees
  <1>1. IInv => ListenerAgrees
    BY DEF IInv, TypeOK, ListenerInv, ListenerAgrees
  <1>2. QED
    BY <1>1, RegistrationInvariance, PTL

\* handle_shutdown leaves no client behind.
THEOREM NothingLeaks == Spec => []NoLeak
  <1>1. IInv => NoLeak
    BY DEF IInv, ListInv, StepInv, NoLeak
  <1>2. QED
    BY <1>1, RegistrationInvariance, PTL

=============================================================================
