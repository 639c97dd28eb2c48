-------------------------------- MODULE Pipe --------------------------------
(***************************************************************************)
(* A pipe (pipe.c) through its file operations: open, close, read, write,  *)
(* blocking or not, over a ring buffer, a mutex and two wait queues.       *)
(*                                                                         *)
(* queue.rd and queue.wr are reader_queue and writer_queue, ref is         *)
(* device->ref_count, left what a call still has to put or may get, wakeup *)
(* the local of that name.  sent and fetched number the next byte to be    *)
(* written and to be read (history, modulo Numbers).                       *)
(***************************************************************************)
EXTENDS Lock, WaitQueue, RingBuffer, FiniteSets

CONSTANTS Readers, Writers,   \* threads that open the pipe, and how (both: O_RDWR)
          CallCounts          \* the counts reads and writes are called with

ASSUME PipeAssumption ==
  Readers \cup Writers \subseteq Thread \ {Idle} /\ CallCounts \subseteq Nat \ {0}

VARIABLES fifo, readers, writers, ref, named, queue, open, nonblock, left, wakeup,
          sent, fetched
ends  == <<readers, writers, ref, named, open, nonblock>>
bytes == <<fifo, sent, fetched>>
local == <<left, wakeup>>
pipeVars == <<k, pc, lock, queue, ends, bytes, local>>

Numbers == 2 * BufSize
NewFifo == NewRing([i \in Index |-> 0])
No == [t \in Thread |-> FALSE]

\* mkfifo leaves a pipe nobody has open; pipe() opens both ends
PipeInit ==
  /\ IpcInit /\ lock = Unlocked /\ named \in BOOLEAN
  /\ open = IF named THEN {} ELSE Readers \cup Writers
  /\ readers = IF named THEN 0 ELSE Cardinality(Readers)
  /\ writers = IF named THEN 0 ELSE Cardinality(Writers)
  /\ ref = Cardinality(open) /\ nonblock = {}
  /\ queue = [rd |-> EmptyQueue, wr |-> EmptyQueue]
  /\ fifo = (IF named THEN RT_NULL ELSE NewFifo) /\ sent = 0 /\ fetched = 0
  /\ left = [t \in Thread |-> 0] /\ wakeup = No

One(t, S) == IF t \in S THEN 1 ELSE 0

Call(t, l) == At(t, "run") /\ Goto(t, l) /\ UNCHANGED <<k, lock, queue, bytes>>

-----------------------------------------------------------------------------
\* The calls of the mutex and the wait queues, each with the control point at which
\* it is made, the one at which it waits for the processor and the next one.
Takes == {<<"o_take", "o_taking", "o_count">>, <<"c_take", "c_taking", "c_count">>,
          <<"r_take", "r_taking", "r_look">>, <<"w_take", "w_taking", "w_look">>}

LockReleases == {<<"o_out", "o_outs", "run">>, <<"c_out", "c_outs", "c_last">>,
                 <<"r_out", "r_outs", "run">>, <<"w_out", "w_outs", "w_tell">>,
                 <<"r_rel", "r_rels", "r_poke">>, <<"w_rel", "w_rels", "w_poke">>}

\* rt_wqueue_wakeup, and the queue it is called for
Wakes == {<<"r_poke", "r_pokes", "r_wait", "wr">>, <<"w_poke", "w_pokes", "w_wait", "rd">>,
          <<"r_wake", "r_wakes", "r_out", "wr">>, <<"w_wake", "w_wakes", "run", "rd">>,
          <<"c_hup", "c_hups", "c_err", "rd">>, <<"c_fin", "c_fins", "c_ref", "wr">>}

Waits == {<<"r_wait", "r_sleep", "r_take", "rd">>, <<"w_wait", "w_sleep", "w_take", "wr">>}

Schedules == {<<c[2], c[3]>> : c \in Takes \cup LockReleases \cup Wakes} \cup
             {<<"r_sleep", "r_woken">>, <<"w_sleep", "w_woken">>}

Take(t) == \E c \in Takes : LockTake(t, c[1], c[2], c[3]) /\ UNCHANGED queue

Release(t) == \E c \in LockReleases : LockRelease(t, c[1], c[2], c[3]) /\ UNCHANGED queue

rt_wqueue_wakeup(t) ==
  \E c \in Wakes :
    /\ At(t, c[1])
    /\ k' = WokenKernel(k, queue[c[4]], {})
    /\ queue' = [queue EXCEPT ![c[4]] = WokenQueue(@, {})]
    /\ Goto(t, IF Accepting(queue[c[4]], {}) # {} THEN c[2] ELSE c[3])
    /\ UNCHANGED lock

\* rt_wqueue_wait(queue, 0, -1)
WaitStart(t) ==
  \E c \in Waits :
    /\ At(t, c[1])
    /\ IF queue[c[4]].flag
       THEN /\ queue' = [queue EXCEPT ![c[4]].flag = FALSE]
            /\ UNCHANGED k /\ Goto(t, c[3])
       ELSE /\ queue' = [queue EXCEPT ![c[4]] = rt_wqueue_add(@, WaitNode(t))]
            /\ k' = rt_thread_suspend(k, t) /\ Goto(t, c[2])
    /\ UNCHANGED lock

\* back from rt_schedule(); rt_wqueue_wakeup has unlinked the node already
WaitEnd(t) ==
  \E c \in {<<"r_woken", "r_take", "rd">>, <<"w_woken", "w_take", "wr">>} :
    /\ At(t, c[1])
    /\ queue' = [queue EXCEPT ![c[3]] =
                   rt_wqueue_remove([@ EXCEPT !.flag = FALSE], WaitNode(t))]
    /\ Goto(t, c[2]) /\ UNCHANGED <<k, lock>>

Rescheduled(t) ==
  (\E c \in Schedules : Schedule(t, c[1], c[2])) /\ UNCHANGED <<lock, queue>>

Services(t) ==
  /\ Take(t) \/ Release(t) \/ rt_wqueue_wakeup(t) \/ WaitStart(t) \/ WaitEnd(t)
       \/ Rescheduled(t)
  /\ UNCHANGED <<ends, bytes, local>>

Inside(t, l, m) == At(t, l) /\ Goto(t, m) /\ UNCHANGED <<k, lock, queue>>

-----------------------------------------------------------------------------
\* pipe_fops_open
OpenCall(t, nb) ==
  /\ t \in Readers \cup Writers /\ t \notin open /\ named
  /\ Call(t, "o_take")
  /\ nonblock' = IF nb THEN nonblock \cup {t} ELSE nonblock
  /\ UNCHANGED <<readers, writers, ref, named, open, local>>

OpenCount(t) ==
  /\ Inside(t, "o_count", "o_out")
  /\ fifo' = (IF ref = 0 THEN NewFifo ELSE fifo) /\ UNCHANGED <<sent, fetched>>
  /\ readers' = readers + One(t, Readers) /\ writers' = writers + One(t, Writers)
  /\ ref' = ref + 1 /\ open' = open \cup {t}
  /\ UNCHANGED <<named, nonblock, local>>

-----------------------------------------------------------------------------
\* pipe_fops_close
CloseCall(t) ==
  t \in open /\ Call(t, "c_take") /\ UNCHANGED <<ends, local>>

CloseCount(t) ==
  /\ At(t, "c_count")
  /\ readers' = readers - One(t, Readers) /\ writers' = writers - One(t, Writers)
  /\ Goto(t, IF writers' = 0 THEN "c_hup" ELSE "c_err")
  /\ UNCHANGED <<k, lock, queue, ref, named, open, nonblock, bytes, local>>

CloseErr(t) ==
  /\ Inside(t, "c_err", IF readers = 0 THEN "c_fin" ELSE "c_ref")
  /\ UNCHANGED <<ends, bytes, local>>

CloseRef(t) ==
  /\ Inside(t, "c_ref", "c_out")
  /\ IF ref = 1 THEN fifo' = RT_NULL /\ sent' = 0 /\ fetched' = 0 ELSE UNCHANGED bytes
  /\ ref' = ref - 1 /\ open' = open \ {t} /\ nonblock' = nonblock \ {t}
  /\ UNCHANGED <<readers, writers, named, local>>

\* ref_count and is_named are read after the mutex is released: by then another
\* thread may have closed its end and freed the pipe (ref < 0)
CloseLast(t) ==
  /\ Inside(t, "c_last", CASE ref < 0           -> "crashed"
                           [] ref = 0 /\ ~named -> "c_del"
                           [] OTHER             -> "run")
  /\ UNCHANGED <<ends, bytes, local>>

\* rt_pipe_delete
rt_pipe_delete(t) ==
  /\ Inside(t, "c_del", IF ref < 0 THEN "crashed" ELSE "run")
  /\ ref' = -1
  /\ UNCHANGED <<readers, writers, named, open, nonblock, bytes, local>>

-----------------------------------------------------------------------------
\* pipe_fops_read
ReadCall(t, n) ==
  /\ t \in open \cap Readers /\ writers # 0
  /\ Call(t, "r_take") /\ left' = [left EXCEPT ![t] = n]
  /\ UNCHANGED <<ends, wakeup>>

ReadGet(t) ==
  /\ Inside(t, "r_look", "r_wake") /\ writers # 0 /\ GetLen(fifo, left[t]) > 0
  /\ fifo' = rt_ringbuffer_get(fifo, left[t])
  /\ fetched' = (fetched + GetLen(fifo, left[t])) % Numbers
  /\ left' = [left EXCEPT ![t] = 0] /\ UNCHANGED <<sent, ends, wakeup>>

\* end of file, -EAGAIN, or wait for a writer
ReadNothing(t) ==
  /\ Inside(t, "r_look", IF writers = 0 \/ t \in nonblock THEN "r_out" ELSE "r_rel")
  /\ writers = 0 \/ GetLen(fifo, left[t]) = 0
  /\ left' = (IF pc'[t] = "r_out" THEN [left EXCEPT ![t] = 0] ELSE left)
  /\ UNCHANGED <<bytes, ends, wakeup>>

-----------------------------------------------------------------------------
\* pipe_fops_write
WriteCall(t, n) ==
  /\ t \in open \cap Writers /\ readers # 0
  /\ Call(t, "w_take")
  /\ left' = [left EXCEPT ![t] = n] /\ UNCHANGED <<ends, wakeup>>

Sent(n) == [i \in 1 .. n |-> (sent + i - 1) % Numbers]

WritePut(t) ==
  LET n == PutLen(fifo, Sent(left[t]))
  IN  /\ At(t, "w_look") /\ readers # 0
      /\ fifo' = rt_ringbuffer_put(fifo, Sent(left[t]))
      /\ sent' = (sent + n) % Numbers /\ left' = [left EXCEPT ![t] = @ - n]
      /\ wakeup' = [wakeup EXCEPT ![t] = TRUE]
      /\ Inside(t, "w_look", IF n = left[t] \/ t \in nonblock THEN "w_out" ELSE "w_rel")
      /\ UNCHANGED <<fetched, ends>>

\* -EPIPE, or what was put before the last reader closed
WriteBroken(t) ==
  readers = 0 /\ Inside(t, "w_look", "w_out") /\ UNCHANGED <<ends, bytes, local>>

WriteTell(t) ==
  /\ Inside(t, "w_tell", IF wakeup[t] THEN "w_wake" ELSE "run")
  /\ left' = [left EXCEPT ![t] = 0] /\ wakeup' = [wakeup EXCEPT ![t] = FALSE]
  /\ UNCHANGED <<ends, bytes>>

-----------------------------------------------------------------------------
PipeCall(t) ==
  \/ Services(t)
  \/ OpenCount(t)
  \/ CloseCount(t) \/ CloseErr(t) \/ CloseRef(t) \/ CloseLast(t) \/ rt_pipe_delete(t)
  \/ ReadGet(t) \/ ReadNothing(t)
  \/ WritePut(t) \/ WriteBroken(t) \/ WriteTell(t)

Slice == TickSlice /\ UNCHANGED <<lock, queue, ends, bytes, local>>

PipeNext ==
  \/ \E t \in Thread :
       \/ PipeCall(t)
       \/ \E nb \in BOOLEAN : OpenCall(t, nb)
       \/ CloseCall(t)
       \/ \E n \in CallCounts : ReadCall(t, n) \/ WriteCall(t, n)
  \/ Slice

\* The tick goes on dividing the processor among threads of one priority, and a
\* thread inside a call takes its next step when it keeps getting its turn.
PipeFairness ==
  WF_pipeVars(Slice) /\ \A t \in Readers \cup Writers : SF_pipeVars(PipeCall(t))

PipeSpec == PipeInit /\ [][PipeNext]_pipeVars
PipeFairSpec == PipeSpec /\ PipeFairness

-----------------------------------------------------------------------------
PipeTypeOK ==
  /\ k \in KernelState /\ lock \in [owner : Thread \cup {RT_NULL}, orig : Prio]
  /\ readers \in 0 .. Cardinality(Readers) /\ writers \in 0 .. Cardinality(Writers)
  /\ ref \in -1 .. Cardinality(Thread) /\ open \subseteq Thread

\* What has been written and not yet read is in the ring buffer, in order, however
\* puts and gets wrap round its end, calls are cut short by a full or empty buffer
\* and opening and closing comes between.
InOrder ==
  /\ PipeTypeOK
  /\ open # {} => /\ Content(fifo) = [i \in 1 .. rt_ringbuffer_data_len(fifo) |->
                                        (fetched + i - 1) % Numbers]
                  /\ sent = (fetched + rt_ringbuffer_data_len(fifo)) % Numbers

Last(s, n) == SubSeq(s, Len(s) - Least(n, Len(s)) + 1, Len(s))

\* Whatever the indices and mirrors are, the other ring buffer operations are those
\* of a queue of BufSize bytes: a byte is added if there is room, a forced byte
\* pushes out the oldest one, and so does a forced block ("When the buffer is full,
\* it will discard the old data", ringbuffer.c:96), unless both indices were on the
\* same side of the mirror: the buffer then looks empty.
RingIsQueue ==
  open # {} =>
    LET c == Content(fifo)
    IN  /\ Content(rt_ringbuffer_putchar(fifo, 0)) =
             IF Len(c) < BufSize THEN Append(c, 0) ELSE c
        /\ Content(rt_ringbuffer_putchar_force(fifo, 0)) = Last(Append(c, 0), BufSize)
        /\ Content(rt_ringbuffer_getchar(fifo)) = IF c = <<>> THEN c ELSE Tail(c)
        /\ \A n \in 0 .. (BufSize + 1) :
             n <= BufSize - Len(c) \/ fifo.rm # fifo.wm =>
               Content(rt_ringbuffer_put_force(fifo, Sent(n))) =
                 Last(c \o Sent(n), BufSize)

InRead(t)  == pc[t] \in {"r_take", "r_taking", "r_look", "r_rel", "r_rels", "r_poke",
                         "r_pokes", "r_wait", "r_sleep", "r_woken"}
InWrite(t) == pc[t] \in {"w_take", "w_taking", "w_look", "w_rel", "w_rels", "w_poke",
                         "w_pokes", "w_wait", "w_sleep", "w_woken"}

\* No call is kept waiting for nothing: a reader with bytes to read or no writer
\* left, and a writer with room or no reader left, gets out of its wait, wherever
\* the wake-up fell between the look at the buffer and the wait.  The exception is a
\* call with a multiple of 2^16 bytes to go: the length the ring buffer is given is 0,
\* and the call waits although there are bytes or there is room.
CallsEnd ==
  /\ \A t \in Readers :
       []<>(InRead(t) => writers # 0 /\ (RingEmpty(fifo) \/ Length(left[t]) = 0))
  /\ \A t \in Writers :
       []<>(InWrite(t) => readers # 0 /\ (RingFull(fifo) \/ Length(left[t]) = 0))
=============================================================================
