------------------------------ MODULE LogQueue ------------------------------
(***************************************************************************)
(* The ring of lib/zlog/src/fifo.c, through which the logging threads hand  *)
(* their lines to the thread that writes them, and the record that          *)
(* lib/zlog/src/consumer.c keeps of that thread.  LogEnv has the threads.   *)
(*                                                                          *)
(* Sizes count in words: a message takes HeadSize words and its payload.    *)
(* The double mapping of the pages makes an index past the end of the ring  *)
(* the index modulo its size.  in, out and the two signal counters are      *)
(* unsigned and wrap at Word.  A cell of the ring holds the number of the   *)
(* message that was written there last: its head, with size and flags, or   *)
(* payload.                                                                 *)
(***************************************************************************)
EXTENDS Integers

CONSTANTS
    QueueLen,   \* consumer_msg_queue_len
    PageSize,   \* getpagesize()
    Word        \* 2^32: where an unsigned wraps

HeadSize == 1   \* msg_head_size()
CmdSize == 1    \* msg_cmd_size()

NoHead == [id |-> 0, size |-> 0, flags |-> "NONE"]
Payload(id) == [id |-> id, size |-> 0, flags |-> "PAYLOAD"]

round_up_to_power_of_2(n) ==
    2^(CHOOSE k \in 0..n : 2^k >= n /\ \A j \in 0..n : 2^j >= n => k <= j)

Pages == (QueueLen + PageSize - 1) \div PageSize

FifoSize == round_up_to_power_of_2(Pages) * PageSize

\* The pages, which are powers of two, are mapped twice and their size is an
\* unsigned: the size divides Word and is less.
ASSUME LogQueueAssumption ==
    /\ {QueueLen, PageSize, Word} \subseteq Nat \ {0}
    /\ FifoSize \in 1..Word - 1 /\ Word % FifoSize = 0

fifo_create == [size |-> FifoSize, in |-> 0, out |-> 0, data |-> [i \in 0..FifoSize - 1 |-> NoHead]]

\* The cells of a message of so many words at index i.
Cells(f, i, words) == {(i + k) % f.size : k \in 0..words - 1}

fifo_unused(f) == f.size - ((f.in - f.out) % Word)

HasRoom(f, size) == size + HeadSize <= fifo_unused(f)

\* Under HasRoom; the caller holds queue_in_lock.
fifo_reserve(f, size, id) ==
    [f EXCEPT !.in = (@ + size + HeadSize) % Word,
              !.data[f.in % f.size] = [id |-> id, size |-> size + HeadSize, flags |-> "RESERVED"]]

\* The payload is written before the flag is set.
fifo_commit(f, i) ==
    LET head == f.data[i % f.size]
    IN  [f EXCEPT !.data =
            [c \in DOMAIN @ |->
                IF c = i % f.size THEN [head EXCEPT !.flags = "COMMITED"]
                ELSE IF c \in Cells(f, i, head.size) THEN Payload(head.id)
                ELSE @[c]]]

fifo_discard(f, i) == [f EXCEPT !.data[i % f.size].flags = "DISCARDED"]

Empty(f) == f.in = f.out

fifo_peek(f) == IF Empty(f) THEN NoHead ELSE f.data[f.out % f.size]

fifo_out(f) == [f EXCEPT !.out = (@ + f.data[@ % f.size].size) % Word]

\* log_consumer_create: the thread starts at the top of its loop.  seen is
\* the message whose output is done and whose room is not yet free.
log_consumer_create ==
    [queue |-> fifo_create, pc |-> "top", pending |-> 0, seen |-> FALSE,
     exit |-> FALSE, stop |-> FALSE, send |-> 0, recv |-> 0, flushed |-> FALSE]

\* Mutant: the sleeping thread is not told.
enque_signal_Silent(c) == [c EXCEPT !.send = (@ + 1) % Word]

\* sig_send counts the messages that can be taken; a waiting thread is told.
enque_signal(c) ==
    [c EXCEPT !.send = (@ + 1) % Word, !.pc = IF @ = "asleep" THEN "woken" ELSE @]

=============================================================================
