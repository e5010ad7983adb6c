------------------------------- MODULE LogEnv -------------------------------
(***************************************************************************)
(* zlog as the server uses it (lib/zlog/src/zlog.c, thread.c, category.c,   *)
(* consumer.c): the environment behind zlog_env_lock, the context of each   *)
(* thread, a line on its way from a thread to the rules, at once or through *)
(* the queue and the consumer thread, reload of the configuration and the   *)
(* end.  The server has one category.  A rule is handed the lines of the    *)
(* category; what it does with them is not modelled.  A configuration is    *)
(* its number and whether the consumer is enabled.                          *)
(*                                                                          *)
(* loc tells who holds zlog_env_lock: a thread inside a call for reading,   *)
(* one in a reload or in zlog_fini for writing.                             *)
(***************************************************************************)
EXTENDS LogQueue, Sequences, FiniteSets

CONSTANTS
    Threads, Main,
    MsgSizes,   \* payload of a line, in words
    Period,     \* reload_conf_period; 0: never
    MaxMsgs,    \* bound: lines of a thread
    MaxReloads, \* bound: calls of zlog_reload
    MaxFaults   \* bound: calls that fail

ASSUME LogEnvAssumption ==
    /\ Main \in Threads /\ MsgSizes \subseteq Nat \ {0}
    /\ {Period, MaxMsgs, MaxReloads, MaxFaults} \subseteq Nat

VARIABLES
    is_init, conf, version, count,  \* zlog_env_...
    newconf,    \* new_conf of a reload
    rules,      \* fit_rules of the category: the configuration they belong to
    logc,       \* process_data.logc
    th,         \* zlog_thread_t
    loc,        \* where each thread is
    broken,     \* history: a failure after which the code has no valid state
    sent,       \* history: what was put into the queue, in order
    taken,      \* history: how many messages have left it
    handled,    \* history: what the consumer did, in order
    lines, reloads, faults

NoConf == [id |-> 0, en |-> FALSE]
NoConsumer == [pc |-> "none"]

envVars == <<is_init, conf, version, count, newconf, rules>>
histVars == <<sent, taken, handled>>
boundVars == <<lines, reloads, faults>>
logVars == <<envVars, logc, th, loc, broken, histVars, boundVars>>

Reading == {"reserved", "held", "dropped", "signal", "leave"}
Flushing == {"flush", "flushsig", "flushwait"}
Exiting == {"exit", "exitsig", "join"}
Writing == {"update", "consumer", "swap", "fini"} \cup Flushing \cup Exiting

Free == [mem |-> "none", version |-> 0, en |-> FALSE, ref |-> 0, mdc |-> FALSE]

LogInit ==
    /\ is_init = FALSE /\ conf = NoConf /\ version = 0 /\ count = 0
    /\ newconf = NoConf /\ rules = NoConf /\ logc = NoConsumer
    /\ th = [t \in Threads |-> Free]
    /\ loc = [t \in Threads |-> IF t = Main THEN "boot" ELSE "start"]
    /\ broken = FALSE
    /\ sent = <<>> /\ taken = 0 /\ handled = <<>>
    /\ lines = [t \in Threads |-> 0] /\ reloads = 0 /\ faults = 0

Goto(t, l) == loc' = [loc EXCEPT ![t] = l]

CanRead == \A t \in Threads : loc[t] \notin Writing
CanWrite == CanRead /\ \A t \in Threads : loc[t] \notin Reading

\* A call fails or succeeds; the number of failures is bounded.
Outcome(fails) == (fails => faults < MaxFaults) /\ faults' = faults + (IF fails THEN 1 ELSE 0)

-----------------------------------------------------------------------------
(* Start *)

\* What zlog_init_inner leaves.  When no consumer can be created,
\* zlog_fini_inner goes on to destroy it and dereferences NULL.
zlog_init_inner(new, fails) ==
    [conf |-> IF fails \in {"conf", "consumer"} THEN NoConf ELSE new,
     logc |-> IF new.en /\ fails \notin {"conf", "consumer"} THEN log_consumer_create ELSE NoConsumer,
     null |-> new.en /\ fails = "consumer"]

\* Without a category the environment stays as it is, and is not in use.
\* The server ends when the call fails.
dzlog_init(t, en, fails) ==
    LET env == zlog_init_inner([id |-> 1, en |-> en], fails)
    IN  /\ loc[t] = "boot"
        /\ fails = "consumer" => en
        /\ Outcome(fails # "none")
        /\ version' = IF fails = "none" THEN 2 ELSE 1
        /\ is_init' = (fails = "none")
        /\ conf' = env.conf /\ logc' = env.logc /\ broken' = env.null
        /\ rules' = IF fails = "none" THEN env.conf ELSE NoConf
        /\ Goto(t, IF fails = "none" THEN "start" ELSE "ended")
        /\ UNCHANGED <<count, newconf, th, histVars, lines, reloads>>

\* zlog_thread_new
Fresh == [mem |-> "live", version |-> version, en |-> conf.en, ref |-> 1, mdc |-> FALSE]

\* zlog_thread_rebuild_producer
Rebuilt(a) == [a EXCEPT !.en = conf.en, !.ref = 1]

\* The context of the calling thread, rebuilt when the environment changed;
\* what the thread put into its mdc stays.
zlog_fetch_thread(a) ==
    IF a.mem = "none" THEN Fresh
    ELSE IF a.version # version THEN [Rebuilt(a) EXCEPT !.version = version]
    ELSE a

\* What is left of the context when the fetch fails: a new one is deleted,
\* of an old one the producer is rebuilt and the version is not.
NotFetched(a) == IF a.mem # "none" /\ a.version # version THEN Rebuilt(a) ELSE a

\* The first call of every thread of the server; the main thread creates the
\* others.
zlog_put_mdc(t, fails) ==
    /\ loc[t] = "start" /\ CanRead
    /\ t # Main => loc[Main] \notin {"boot", "start", "ended"}
    /\ Outcome(fails)
    /\ th' = IF ~is_init THEN th
             ELSE [th EXCEPT ![t] = IF fails THEN NotFetched(@)
                                    ELSE [zlog_fetch_thread(@) EXCEPT !.mdc = TRUE]]
    /\ Goto(t, "idle")
    /\ UNCHANGED <<envVars, logc, broken, histVars, lines, reloads>>

-----------------------------------------------------------------------------
(* A line: _log and log_producer_send *)

\* Put a message of so many words into the queue.
Enqueue(kind, t, words) ==
    sent' = Append(sent, [kind |-> kind, thread |-> t, at |-> logc.queue.in, words |-> words + HeadSize,
                          conf |-> rules, mdc |-> th[t].mdc, discarded |-> FALSE])

\* The message of a thread that has not committed yet.
Own(t) == CHOOSE i \in 1..Len(sent) :
    sent[i].thread = t /\ sent[i].kind = "line" /\ \A j \in i + 1..Len(sent) : sent[j].thread # t

\* Up to the reservation; without a consumer the rules get the line here.
\* A category whose update failed wants no line.
zlog(t, words, fails) ==
    /\ loc[t] = "idle" /\ CanRead /\ lines[t] < MaxMsgs
    /\ is_init /\ rules # NoConf
    /\ lines' = [lines EXCEPT ![t] = @ + 1]
    /\ Outcome(fails)
    /\ th' = [th EXCEPT ![t] = IF fails THEN NotFetched(@) ELSE zlog_fetch_thread(@)]
    /\ IF conf.en /\ ~fails /\ ~logc.exit /\ HasRoom(logc.queue, words)
       THEN /\ logc' = [logc EXCEPT !.queue = fifo_reserve(@, words, Len(sent) + 1)]
            /\ Enqueue("line", t, words)
            /\ Goto(t, "reserved")
       ELSE Goto(t, IF fails THEN "idle" ELSE "leave") /\ UNCHANGED <<logc, sent>>
    /\ UNCHANGED <<envVars, broken, taken, handled, reloads>>

\* Mutant: no reference is taken.
Hold_NoRef(t, fails) ==
    /\ loc[t] = "reserved"
    /\ Outcome(fails)
    /\ Goto(t, IF fails THEN "dropped" ELSE "held")
    /\ UNCHANGED <<envVars, logc, th, broken, histVars, lines, reloads>>

\* The line is formatted and gets its time, or is given up; in either case
\* the context gets a reference for it.
Hold(t, fails) ==
    /\ loc[t] = "reserved"
    /\ Outcome(fails)
    /\ th' = [th EXCEPT ![t].ref = @ + 1]
    /\ Goto(t, IF fails THEN "dropped" ELSE "held")
    /\ UNCHANGED <<envVars, logc, broken, histVars, lines, reloads>>

log_consumer_queue_commit_signal(t) ==
    /\ loc[t] \in {"held", "dropped"}
    /\ LET discard == loc[t] = "dropped"
           at == sent[Own(t)].at
       IN  /\ logc' = [logc EXCEPT !.queue = IF discard THEN fifo_discard(@, at) ELSE fifo_commit(@, at)]
           /\ sent' = [sent EXCEPT ![Own(t)].discarded = discard]
    /\ Goto(t, "signal")
    /\ UNCHANGED <<envVars, th, broken, taken, handled, boundVars>>

Signal(t) ==
    /\ loc[t] = "signal"
    /\ logc' = enque_signal(logc)
    /\ Goto(t, "leave")
    /\ UNCHANGED <<envVars, th, broken, histVars, boundVars>>

\* The lines are counted under the lock for reading: counts may be lost
\* when several threads are inside.
Leave(t) ==
    /\ loc[t] = "leave"
    /\ \E c \in {count + 1} \cup {count : u \in {u \in Threads \ {t} : loc[u] \in Reading}} :
        /\ count' = IF Period = 0 THEN count ELSE c
        /\ Goto(t, IF Period # 0 /\ c > Period THEN "reload" ELSE "idle")
    /\ UNCHANGED <<is_init, conf, version, newconf, rules, logc, th, broken, histVars, boundVars>>

\* zlog_thread_del: the last reference frees the context.
Deleted(a) == IF a.en /\ a.ref > 1 THEN [a EXCEPT !.ref = @ - 1]
              ELSE [a EXCEPT !.mem = "freed", !.ref = 0]

\* The destructor of the key, and zlog_clean_rest_thread for the main thread.
thread_exit(t) ==
    /\ loc[t] = "idle" /\ (t = Main => ~is_init)
    /\ th' = [th EXCEPT ![t] = IF @.mem = "none" THEN @ ELSE Deleted(@)]
    /\ Goto(t, "ended")
    /\ UNCHANGED <<envVars, logc, broken, histVars, boundVars>>

-----------------------------------------------------------------------------
(* Reload and end *)

\* A thread that has counted Period lines tests again under the lock.
zlog_reload(t, en, fails) ==
    /\ loc[t] = "reload" /\ CanWrite
    /\ IF ~is_init \/ count <= Period
       THEN ~fails /\ Goto(t, "idle") /\ UNCHANGED <<count, newconf, reloads, faults>>
       ELSE /\ reloads < MaxReloads /\ reloads' = reloads + 1
            /\ count' = 0
            /\ Outcome(fails)
            /\ newconf' = IF fails THEN NoConf ELSE [id |-> reloads + 2, en |-> en]
            /\ Goto(t, IF fails THEN "idle" ELSE IF conf.en THEN "flush" ELSE "update")
    /\ UNCHANGED <<is_init, conf, version, rules, logc, th, broken, histVars, lines>>

\* Room is awaited with queue_in_lock held; nobody else wants it then.
EnqueueCmd(t, kind) ==
    /\ HasRoom(logc.queue, CmdSize)
    /\ sent' = Append(sent, [kind |-> kind, thread |-> t, at |-> logc.queue.in, words |-> CmdSize + HeadSize,
                             conf |-> rules, mdc |-> FALSE, discarded |-> FALSE])
    /\ logc' = [logc EXCEPT
                  !.queue = fifo_commit(fifo_reserve(@, CmdSize, Len(sent) + 1), @.in),
                  !.exit = @ \/ kind = "exit",
                  !.flushed = IF kind = "flush" THEN FALSE ELSE @]

log_consumer_queue_flush(t) ==
    /\ loc[t] = "flush"
    /\ EnqueueCmd(t, "flush")
    /\ Goto(t, "flushsig")
    /\ UNCHANGED <<envVars, th, broken, taken, handled, boundVars>>

FlushSignal(t) ==
    /\ loc[t] = "flushsig"
    /\ logc' = enque_signal(logc)
    /\ Goto(t, "flushwait")
    /\ UNCHANGED <<envVars, th, broken, histVars, boundVars>>

\* Mutant: the flush is requested and not awaited.
FlushWait_Not(t) ==
    /\ loc[t] = "flushwait" /\ Goto(t, "update")
    /\ UNCHANGED <<envVars, logc, th, broken, histVars, boundVars>>

FlushWait(t) ==
    /\ loc[t] = "flushwait" /\ logc.flushed
    /\ Goto(t, "update")
    /\ UNCHANGED <<envVars, logc, th, broken, histVars, boundVars>>

\* The rules after an update that fails are NULL.
zlog_category_update_rules(fails) == IF fails THEN NoConf ELSE newconf

\* The update of the category and its commit, which forgets the old rules.
\* A failed update is not rolled back.
UpdateRules(t, fails) ==
    /\ loc[t] = "update"
    /\ Outcome(fails)
    /\ rules' = zlog_category_update_rules(fails)
    /\ newconf' = IF fails THEN NoConf ELSE newconf
    /\ Goto(t, IF fails THEN "idle" ELSE "consumer")
    /\ UNCHANGED <<is_init, conf, version, count, logc, th, broken, histVars, lines, reloads>>

\* Back to the old rules, if they have not been forgotten.
zlog_category_rollback_rules(backup) == IF backup = NoConf THEN rules ELSE backup

\* The old consumer is destroyed when the new one is there.  When it cannot
\* be created the new configuration is deleted, and the rollback finds
\* nothing to roll back: the rules in use are those just deleted.
SwitchConsumer(t, fails) ==
    /\ loc[t] = "consumer"
    /\ fails => newconf.en
    /\ Outcome(fails)
    /\ broken' = (broken \/ fails)
    /\ rules' = IF fails THEN zlog_category_rollback_rules(NoConf) ELSE rules
    /\ newconf' = IF fails THEN NoConf ELSE newconf
    /\ logc' = IF newconf.en /\ ~conf.en /\ ~fails THEN log_consumer_create ELSE logc
    /\ Goto(t, IF fails THEN "idle" ELSE IF conf.en THEN "exit" ELSE "swap")
    /\ UNCHANGED <<is_init, conf, version, count, th, histVars, lines, reloads>>

enque_event_exit(t) ==
    /\ loc[t] = "exit"
    /\ EnqueueCmd(t, "exit")
    /\ Goto(t, "exitsig")
    /\ UNCHANGED <<envVars, th, broken, taken, handled, boundVars>>

ExitSignal(t) ==
    /\ loc[t] = "exitsig"
    /\ logc' = enque_signal(logc)
    /\ Goto(t, "join")
    /\ UNCHANGED <<envVars, th, broken, histVars, boundVars>>

\* The rest of log_consumer_destroy; a reload then publishes its consumer.
log_consumer_destroy(t) ==
    /\ loc[t] = "join" /\ logc.pc = "ended"
    /\ logc' = IF newconf.en THEN log_consumer_create ELSE NoConsumer
    /\ Goto(t, IF newconf = NoConf THEN "fini" ELSE "swap")
    /\ UNCHANGED <<envVars, th, broken, histVars, boundVars>>

Swap(t) ==
    /\ loc[t] = "swap"
    /\ conf' = newconf /\ newconf' = NoConf /\ version' = version + 1
    /\ Goto(t, "idle")
    /\ UNCHANGED <<is_init, count, rules, logc, th, broken, histVars, boundVars>>

zlog_fini(t) ==
    /\ t = Main /\ loc[t] = "idle" /\ is_init /\ CanWrite
    /\ Goto(t, IF conf.en THEN "exit" ELSE "fini")
    /\ UNCHANGED <<envVars, logc, th, broken, histVars, boundVars>>

\* The rest of zlog_fini_inner.
Fini(t) ==
    /\ loc[t] = "fini"
    /\ rules' = NoConf /\ conf' = NoConf /\ is_init' = FALSE
    /\ Goto(t, "idle")
    /\ UNCHANGED <<version, count, newconf, logc, th, broken, histVars, boundVars>>

-----------------------------------------------------------------------------
(* The consumer: logc_func *)

consumerOnly == <<envVars, loc, broken, boundVars>>

\* At the top of the loop, under siglock: sleep, or see what is pending.
Top ==
    /\ logc.pc = "top"
    /\ logc' = IF logc.recv = logc.send THEN [logc EXCEPT !.pc = "asleep"]
               ELSE [logc EXCEPT !.pc = "drain", !.pending = (logc.send - logc.recv) % Word]
    /\ UNCHANGED <<consumerOnly, th, histVars>>

\* pthread_cond_wait may return without a signal.
SpuriousWake ==
    /\ logc.pc = "asleep" /\ logc' = [logc EXCEPT !.pc = "woken"]
    /\ UNCHANGED <<consumerOnly, th, histVars>>

Woken ==
    /\ logc.pc = "woken"
    /\ logc' = [logc EXCEPT !.pc = "drain", !.pending = (logc.send - logc.recv) % Word]
    /\ UNCHANGED <<consumerOnly, th, histVars>>

\* Mutant: a message that is being written is taken for a whole one.
Ready_Reserved(head) == head # NoHead

\* A reserved message is waited for.
Ready(head) == head # NoHead /\ head.flags # "RESERVED"

\* handle_log: the rules of the category get the line, and its reference to
\* the context of its thread is dropped.
handle_log ==
    LET head == fifo_peek(logc.queue)
        m == sent[head.id]
    IN  /\ logc.pc = "drain" /\ ~logc.seen /\ logc.pending > 0 /\ Ready(head)
        /\ logc' = [logc EXCEPT !.pending = @ - 1, !.recv = (@ + 1) % Word, !.seen = TRUE,
                                !.stop = head.flags # "DISCARDED" /\ m.kind = "exit",
                                !.flushed = @ \/ (head.flags # "DISCARDED" /\ m.kind = "flush")]
        /\ IF head.flags = "DISCARDED" THEN UNCHANGED <<handled, th>>
           ELSE /\ handled' = Append(handled, [id |-> head.id, conf |-> rules, mdc |-> th[m.thread].mdc])
                /\ th' = IF m.kind = "line" THEN [th EXCEPT ![m.thread] = Deleted(@)] ELSE th
        /\ UNCHANGED <<consumerOnly, sent, taken>>

Out ==
    /\ logc.pc = "drain" /\ logc.seen
    /\ logc' = [logc EXCEPT !.queue = fifo_out(@), !.seen = FALSE]
    /\ taken' = taken + 1
    /\ UNCHANGED <<consumerOnly, th, sent, handled>>

\* Nothing is pending, or nothing is there.
Drained ==
    /\ logc.pc = "drain" /\ ~logc.seen
    /\ logc.pending = 0 \/ Empty(logc.queue)
    /\ logc' = [logc EXCEPT !.pc = IF logc.stop THEN "ended" ELSE "top"]
    /\ UNCHANGED <<consumerOnly, th, histVars>>

ConsumerStep == Top \/ Woken \/ handle_log \/ Out \/ Drained

-----------------------------------------------------------------------------
\* What a thread does once it is inside a call.
Inside(t) ==
    \/ \E fails \in BOOLEAN : Hold(t, fails) \/ UpdateRules(t, fails) \/ SwitchConsumer(t, fails)
    \/ log_consumer_queue_commit_signal(t) \/ Signal(t) \/ Leave(t)
    \/ log_consumer_queue_flush(t) \/ FlushSignal(t) \/ FlushWait(t)
    \/ enque_event_exit(t) \/ ExitSignal(t) \/ log_consumer_destroy(t)
    \/ Swap(t) \/ Fini(t)

Call(t) ==
    \/ \E en \in BOOLEAN, fails \in {"none", "conf", "consumer", "category"} : dzlog_init(t, en, fails)
    \/ \E fails \in BOOLEAN :
        \/ zlog_put_mdc(t, fails)
        \/ \E words \in MsgSizes : zlog(t, words, fails)
        \/ \E en \in BOOLEAN : zlog_reload(t, en, fails)
    \/ zlog_fini(t) \/ thread_exit(t)

LogNext == SpuriousWake \/ ConsumerStep \/ \E t \in Threads : Inside(t) \/ Call(t)

\* A thread goes on with a call it is in, and the consumer goes on.
LogSpec == LogInit /\ [][LogNext]_logVars /\ WF_logVars(ConsumerStep) /\ \A t \in Threads : WF_logVars(Inside(t))

-----------------------------------------------------------------------------
(* Properties *)

InQueue == taken + 1..Len(sent)

\* How many messages the consumer has seen: the last one may still take room.
Gone == taken + (IF logc.pc # "none" /\ logc.seen THEN 1 ELSE 0)

\* The consumer takes every message that was not given up exactly once, in
\* the order of the reservations, although they are committed in any order
\* (logc_func).
InOrder ==
    /\ \A k \in 1..Len(handled) : \A j \in 1..k - 1 : handled[j].id < handled[k].id
    /\ {handled[k].id : k \in 1..Len(handled)} = {i \in 1..Gone : ~sent[i].discarded}

\* Nothing that was given back is used, as long as no consumer failed to
\* start: a queued line keeps the context of its thread, also when the
\* thread has ended; a thread in a call and the consumer find the queue; the
\* rules of the category belong to a configuration that is still there.
NoUseAfterFree ==
    ~broken =>
        /\ \A i \in InQueue : sent[i].kind = "line" =>
            (i = taken + 1 /\ logc.seen) \/ th[sent[i].thread].mem = "live"
        /\ \A t \in Threads :
            /\ th[t].mem = "freed" => loc[t] = "ended"
            /\ loc[t] \in Flushing \cup Exiting \cup {"reserved", "held", "dropped", "signal"} => logc.pc # "none"
        /\ rules \in {conf, newconf, NoConf}

\* Every line reaches the rules of the configuration it was logged under,
\* with the name its thread had given itself, also through a reload and
\* after the thread has ended (zlog_reload, "ensure all data handled").
AsLogged ==
    \A k \in 1..Len(handled) :
        LET m == sent[handled[k].id]
        IN  m.kind = "line" => handled[k].conf = m.conf /\ handled[k].mdc = m.mdc

\* A thread that has begun a call returns from it, no reload and no end
\* waits for ever for the consumer, and every line that is queued is written:
\* as there are finitely many calls, all come to rest (log_consumer_queue_flush,
\* log_consumer_destroy, enque_signal).
EventuallyWritten ==
    LET Busy == \/ \E t \in Threads : loc[t] \in Reading \cup Writing
                \/ logc.pc # "none" /\ InQueue # {}
    IN  Busy ~> ~Busy

-----------------------------------------------------------------------------
(* The inductive invariant of FacilityProofs *)

Locs == {"boot", "start", "idle", "reload", "ended"} \cup Reading \cup Writing
Working == {"reserved", "held", "dropped"}

ConfType == [id : Nat, en : BOOLEAN]
ThType == [mem : {"none", "live", "freed"}, version : Nat, en : BOOLEAN, ref : Nat, mdc : BOOLEAN]
MsgType == [kind : {"line", "flush", "exit"}, thread : Threads, at : Nat, words : Nat \ {0},
            conf : ConfType, mdc : BOOLEAN, discarded : BOOLEAN]
HeadType == [id : Nat, size : Nat, flags : {"NONE", "PAYLOAD", "RESERVED", "COMMITED", "DISCARDED"}]
FifoType == [size : {FifoSize}, in : 0..Word - 1, out : 0..Word - 1, data : [0..FifoSize - 1 -> HeadType]]
ConsumerType == [queue : FifoType, pc : {"top", "asleep", "woken", "drain", "ended"}, pending : Nat,
                 seen : BOOLEAN, exit : BOOLEAN, stop : BOOLEAN, send : Nat, recv : Nat, flushed : BOOLEAN]

LogType ==
    /\ is_init \in BOOLEAN /\ broken \in BOOLEAN
    /\ {conf, newconf, rules} \subseteq ConfType
    /\ version \in Nat /\ reloads \in Nat
    /\ logc \in ConsumerType \cup {NoConsumer}
    /\ th \in [Threads -> ThType]
    /\ loc \in [Threads -> Locs]
    /\ sent \in Seq(MsgType) /\ taken \in Nat
    /\ handled \in Seq([id : Nat, conf : ConfType, mdc : BOOLEAN])

\* zlog_env_lock; and before dzlog_init there is nothing.
EnvLockInv ==
    /\ \A t, u \in Threads : t # u /\ loc[t] \in Writing => loc[u] \notin Reading \cup Writing
    /\ \A t \in Threads : loc[t] = "boot" => t = Main
    /\ loc[Main] = "boot" =>
        /\ newconf = NoConf /\ sent = <<>> /\ version = 0
        /\ \A t \in Threads : th[t].mem = "none" /\ loc[t] \in {"boot", "start"}

\* Which configuration, rules and consumer there are while a thread is inside.
ConfInv ==
    /\ (\A t \in Threads : loc[t] \notin {"swap", "fini"}) => (logc.pc # "none" <=> conf.en)
    /\ (\A t \in Threads : loc[t] \notin Writing) => newconf = NoConf
    /\ broken \/ rules \in {conf, newconf, NoConf}
    /\ \A t \in Threads :
        /\ loc[t] \in Working \cup {"signal"} \cup Flushing \cup Exiting => conf.en
        /\ loc[t] \in Flushing \cup {"update", "consumer", "swap"} => newconf # NoConf
        /\ loc[t] \in {"consumer", "swap"} => broken \/ rules = newconf
        /\ loc[t] \in Exiting /\ newconf # NoConf => broken \/ rules = newconf
        /\ loc[t] = "swap" => (logc.pc # "none" <=> newconf.en)
        /\ loc[t] = "fini" => logc.pc = "none" /\ newconf = NoConf

\* What is left in the queue: a flush and an exit are the last in it, and who
\* has waited for one finds that nothing is left.
QueueInv ==
    /\ Gone <= Len(sent)
    /\ logc.pc = "none" => taken = Len(sent)
    /\ logc.pc # "none" =>
        /\ logc.seen => logc.pc = "drain"
        /\ logc.stop => Gone = Len(sent) /\ \E t \in Threads : loc[t] \in {"exitsig", "join"}
        /\ logc.pc = "ended" => logc.stop
        /\ \A t \in Threads : loc[t] \in {"flushsig", "flushwait"} /\ logc.flushed => Gone = Len(sent)
    /\ \A i \in Gone + 1..Len(sent) :
        /\ sent[i].kind = "flush" => i = Len(sent) /\ \E t \in Threads : loc[t] \in {"flushsig", "flushwait"}
        /\ sent[i].kind = "exit" => i = Len(sent) /\ \E t \in Threads : loc[t] \in {"exitsig", "join"}
    /\ \A t \in Threads :
        /\ loc[t] = "update" => Gone = Len(sent)
        /\ loc[t] \in {"swap", "fini"} => taken = Len(sent)

\* A message whose thread is still writing it.
Open(i) ==
    /\ sent[i].kind = "line" /\ loc[sent[i].thread] \in Working
    /\ \A j \in i + 1..Len(sent) : sent[j].thread # sent[i].thread

OpenInv ==
    /\ \A t \in Threads : loc[t] \in Working => \E i \in Gone + 1..Len(sent) : sent[i].thread = t /\ Open(i)
    /\ \A i \in 1..Len(sent) : Open(i) => ~sent[i].discarded

\* The ring, by the positions P the messages would have if no index wrapped.
RingInv(P) ==
    /\ logc.queue.out = P[taken + 1] % Word
    /\ logc.queue.in = P[Len(sent) + 1] % Word
    /\ P[Len(sent) + 1] - P[taken + 1] \in 0..FifoSize
    /\ \A i \in InQueue :
        /\ P[i + 1] = P[i] + sent[i].words
        /\ P[taken + 1] <= P[i] /\ P[i] + sent[i].words <= P[Len(sent) + 1]
        /\ \A j \in i + 1..Len(sent) : P[i] + sent[i].words <= P[j]
        /\ sent[i].at = P[i] % Word
        /\ logc.queue.data[P[i] % FifoSize] =
            [id |-> i, size |-> sent[i].words,
             flags |-> IF Open(i) THEN "RESERVED" ELSE IF sent[i].discarded THEN "DISCARDED" ELSE "COMMITED"]

\* The lines of a thread that the consumer has not seen, and those of them
\* that have a reference to its context.
Lines(t) == {i \in Gone + 1..Len(sent) : sent[i].kind = "line" /\ sent[i].thread = t}
Held(t) == {i \in Lines(t) : ~(loc[t] = "reserved" /\ Open(i))}

\* The contexts: one that the environment has outdated has no line left, and
\* the others have a reference for each.
ContextInv(t) ==
    /\ th[t].version <= version
    /\ th[t].mem = "none" => ~th[t].mdc
    /\ th[t].mem = "freed" => loc[t] = "ended"
    /\ loc[t] = "start" => Lines(t) = {}
    /\ is_init /\ th[t].mem = "live" /\ th[t].version = version => th[t].en = conf.en
    /\ Lines(t) # {} => th[t].mem = "live" /\ th[t].version = version /\ th[t].en
    /\ th[t].mem = "live" => th[t].ref >= Cardinality(Held(t)) + (IF loc[t] = "ended" THEN 0 ELSE 1)

\* The lines still to be seen are as the rules and the context are now.
AsNow ==
    \A i \in Gone + 1..Len(sent) :
        sent[i].kind = "line" => sent[i].conf = rules /\ sent[i].mdc = th[sent[i].thread].mdc

LogInv ==
    /\ LogType /\ EnvLockInv /\ ConfInv /\ QueueInv /\ OpenInv
    /\ logc.pc # "none" => \E P \in [Nat -> Nat] : RingInv(P)
    /\ (\A t \in Threads : ContextInv(t)) /\ AsNow /\ InOrder /\ AsLogged
=============================================================================
