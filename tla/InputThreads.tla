---------------------------- MODULE InputThreads ----------------------------
(***************************************************************************)
(* ffmpeg.c: one thread per input file reads packets (input_thread) into   *)
(* its queue, the main thread takes them (get_input_packet_mt, called by   *)
(* process_input in the loop of transcode) and, at the end, drains the     *)
(* queues and joins the threads (free_input_threads).                      *)
(*                                                                         *)
(* GifBox's second command reads the video and the palette picture: two    *)
(* files and one output stream. With one output, an input that answered    *)
(* EAGAIN makes the output unavailable in the same step and reset_eagain   *)
(* clears both, so "unavailable" is eagain # {}. What the filter graph and *)
(* the decoders do with a packet is left out: which file is read next, and *)
(* when the output is finished, is any choice.                             *)
(***************************************************************************)
EXTENDS ThreadMessageQueue, FiniteSets

CONSTANTS
  NonBlocking,   (* files with non_blocking set by init_input_threads *)
  MaxPackets     (* bound: packets in a file *)

ASSUME NonBlockingAssumption == NonBlocking \subseteq Files
ASSUME MaxPacketsAssumption == MaxPackets \in Nat

VARIABLES
  \* input_thread of each file
  pc,            (* where the thread is, see ThreadStates *)
  nonblock,      (* its local "flags": AV_THREAD_MESSAGE_NONBLOCK *)
  read,          (* packets av_read_frame returned so far *)
  queue,         (* in_thread_queue is not NULL *)
  \* main thread
  mpc,           (* where the main thread is, see MainStates *)
  cur,           (* the file it works on *)
  eagain,        (* files with eagain set *)
  eof,           (* files with eof_reached set *)
  finished,      (* the output stream is finished *)
  taken,         (* packets received from the queue, to process or to drop *)
  leaked         (* packets a freed queue still held *)

threadVars == <<pc, nonblock, read>>
mainVars   == <<mpc, cur, eagain, eof, finished>>
vars       == <<queueVars, threadVars, queue, mainVars, taken, leaked>>

\* "none": not created; "reading": in av_read_frame; "sending": about to lock
\* the queue; "waiting": in pthread_cond_wait(cond_send); "ending": about to
\* set err_recv; "returning": has set it; "done": can be joined; "doomed": runs
\* without a queue, as av_fifo_alloc failed and init_input_threads was not told.
ThreadStates ==
  {"none", "reading", "sending", "waiting", "ending", "returning", "done", "doomed"}

\* "init": init_input_threads; "loop": transcode; "recv", "waiting": in recv
\* for process_input; "freeing": the loop of free_input_threads; "draining",
\* "drainwait": in its recv; "joining": in pthread_join; "end": all joined;
\* "crashed": the process is gone.
MainStates == {"init", "loop", "recv", "waiting",
               "freeing", "draining", "drainwait", "joining", "end", "crashed"}

ThreadTypeOK ==
  /\ pc \in [Files -> ThreadStates]
  /\ nonblock \in [Files -> BOOLEAN]
  /\ read \in [Files -> 0..MaxPackets]
  /\ queue \in [Files -> BOOLEAN]

MainTypeOK ==
  /\ mpc \in MainStates
  /\ cur \in 1..(NumFiles + 1)
  /\ eagain \subseteq Files /\ eof \subseteq Files
  /\ finished \in BOOLEAN
  /\ taken \in [Files -> Nat]
  /\ leaked \in [Files -> Nat]

TypeOK == QueueTypeOK /\ ThreadTypeOK /\ MainTypeOK

Init ==
  /\ QueueInit
  /\ pc = [f \in Files |-> "none"]
  /\ nonblock = [f \in Files |-> FALSE]
  /\ read = [f \in Files |-> 0]
  /\ queue = [f \in Files |-> FALSE]
  /\ mpc = "init" /\ cur = 1
  /\ eagain = {} /\ eof = {} /\ finished = FALSE
  /\ taken = [f \in Files |-> 0]
  /\ leaked = [f \in Files |-> 0]

-----------------------------------------------------------------------------
(* Wake-ups. A waiting thread goes back to the test of its loop.           *)

\* A wake-up that is forgotten.
WakeNoSender(f) == UNCHANGED pc

\* pthread_cond_signal and _broadcast on cond_send: the only possible waiter
\* is the thread of the file.
WakeSender(f) == pc' = [pc EXCEPT ![f] = IF @ = "waiting" THEN "sending" ELSE @]

\* A wake-up of the receiver that is forgotten.
WakeNoReceiver(f) == UNCHANGED mpc

\* The same on cond_recv: the only possible waiter is the main thread.
WakeReceiver(f) ==
  mpc' = IF cur = f /\ mpc = "waiting" THEN "recv"
         ELSE IF cur = f /\ mpc = "drainwait" THEN "draining"
         ELSE mpc

-----------------------------------------------------------------------------
(* input_thread                                                            *)

\* av_read_frame returns a packet. (On AVERROR(EAGAIN) the thread sleeps and
\* calls it again: nothing changes.)
ReadFrame(f) ==
  /\ pc[f] = "reading" /\ read[f] < MaxPackets
  /\ read' = [read EXCEPT ![f] = @ + 1]
  /\ pc' = [pc EXCEPT ![f] = "sending"]
  /\ UNCHANGED <<queueVars, nonblock, queue, mainVars, taken, leaked>>

\* av_read_frame fails or is at the end of the file, which may come anywhere.
ReadEnd(f) ==
  /\ pc[f] = "reading"
  /\ pc' = [pc EXCEPT ![f] = "ending"]
  /\ UNCHANGED <<queueVars, nonblock, read, queue, mainVars, taken, leaked>>

SendPacket(f) ==
  /\ pc[f] = "sending" /\ ~SendBlocked(f) /\ ~errSend[f]
  /\ WritePacket(f, read[f])
  /\ pc' = [pc EXCEPT ![f] = "reading"]
  /\ WakeReceiver(f)
  /\ UNCHANGED <<errSend, errRecv, nonblock, read, queue, cur, eagain, eof, finished, taken, leaked>>

\* A full queue: the first time a non-blocking thread gets EAGAIN and goes on
\* as a blocking one; a blocking one waits.
SendFull(f) ==
  /\ pc[f] = "sending" /\ SendBlocked(f)
  /\ IF nonblock[f]
     THEN nonblock' = [nonblock EXCEPT ![f] = FALSE] /\ UNCHANGED pc
     ELSE pc' = [pc EXCEPT ![f] = "waiting"] /\ UNCHANGED nonblock
  /\ UNCHANGED <<queueVars, read, queue, mainVars, taken, leaked>>

\* err_send is set: the packet is unreferenced and the thread ends.
SendFails(f) ==
  /\ pc[f] = "sending" /\ errSend[f]
  /\ pc' = [pc EXCEPT ![f] = "ending"]
  /\ UNCHANGED <<queueVars, nonblock, read, queue, mainVars, taken, leaked>>

\* pthread_cond_wait may return without a signal.
SenderWakesUp(f) ==
  /\ pc[f] = "waiting"
  /\ pc' = [pc EXCEPT ![f] = "sending"]
  /\ UNCHANGED <<queueVars, nonblock, read, queue, mainVars, taken, leaked>>

\* The last use of the queue: unlock() comes after the receiver may go on.
ThreadEnds(f) ==
  /\ pc[f] = "ending"
  /\ SetErrRecv(f)
  /\ pc' = [pc EXCEPT ![f] = "returning"]
  /\ WakeReceiver(f)
  /\ UNCHANGED <<fifo, errSend, nonblock, read, queue, cur, eagain, eof, finished, taken, leaked>>

ThreadReturns(f) ==
  /\ pc[f] = "returning"
  /\ pc' = [pc EXCEPT ![f] = "done"]
  /\ UNCHANGED <<queueVars, nonblock, read, queue, mainVars, taken, leaked>>

\* Whatever av_read_frame returns, the thread then uses its queue, a NULL pointer.
ThreadCrashes(f) ==
  /\ pc[f] = "doomed"
  /\ mpc' = "crashed"
  /\ UNCHANGED <<queueVars, threadVars, queue, cur, eagain, eof, finished, taken, leaked>>

-----------------------------------------------------------------------------
(* The main thread: init_input_threads and the loop of transcode           *)

\* init_input_threads for one file: queue and thread are created, or one of
\* the two is not and transcode goes to its cleanup. When av_fifo_alloc fails,
\* av_thread_message_queue_alloc returns AVERROR(ret) with the 0 that ret has
\* from pthread_cond_init: success, and the thread is created without a queue.
InitThread ==
  /\ mpc = "init"
  /\ \/ /\ \/ queue' = [queue EXCEPT ![cur] = TRUE] /\ pc' = [pc EXCEPT ![cur] = "reading"]
           \/ pc' = [pc EXCEPT ![cur] = "doomed"] /\ UNCHANGED queue
        /\ nonblock' = [nonblock EXCEPT ![cur] = cur \in NonBlocking]
        /\ cur' = IF cur < NumFiles THEN cur + 1 ELSE 1
        /\ mpc' = IF cur < NumFiles THEN "init" ELSE "loop"
     \/ /\ mpc' = "freeing" /\ cur' = 1
        /\ UNCHANGED <<queue, pc, nonblock>>
  /\ UNCHANGED <<queueVars, read, eagain, eof, finished, taken, leaked>>

\* transcode_from_filter asks for a packet of a file that may have one.
SelectInput(f) ==
  /\ mpc = "loop" /\ ~finished /\ eagain = {} /\ f \notin eof
  /\ mpc' = "recv" /\ cur' = f
  /\ UNCHANGED <<queueVars, threadVars, queue, eagain, eof, finished, taken, leaked>>

\* choose_output has only an unavailable output: reset_eagain and a pause.
ResetEagain ==
  /\ mpc = "loop" /\ ~finished /\ eagain # {}
  /\ eagain' = {}
  /\ UNCHANGED <<queueVars, threadVars, queue, mpc, cur, eof, finished, taken, leaked>>

\* The filter graph is at its end (at the latest when all inputs are) or the
\* output has all the frames it wants.
OutputFinishes ==
  /\ mpc = "loop" /\ ~finished
  /\ finished' = TRUE
  /\ UNCHANGED <<queueVars, threadVars, queue, mpc, cur, eagain, eof, taken, leaked>>

\* The loop of transcode ends: need_output says no, a signal was received, or
\* the filters failed.
LeaveLoop ==
  /\ mpc = "loop"
  /\ mpc' = "freeing" /\ cur' = 1
  /\ UNCHANGED <<queueVars, threadVars, queue, eagain, eof, finished, taken, leaked>>

\* process_input has a packet; reset_eagain.
TakePacket ==
  /\ mpc = "recv" /\ fifo[cur] # <<>>
  /\ ReadPacket(cur) /\ WakeSender(cur)
  /\ taken' = [taken EXCEPT ![cur] = @ + 1]
  /\ mpc' = "loop" /\ eagain' = {}
  /\ UNCHANGED <<errSend, errRecv, nonblock, read, queue, cur, eof, finished, leaked>>

\* process_input at the end of the file (its decoder flushed): eof_reached.
TakeEof ==
  /\ mpc = "recv" /\ RecvError(cur)
  /\ mpc' = "loop" /\ eof' = eof \cup {cur}
  /\ UNCHANGED <<queueVars, threadVars, queue, cur, eagain, finished, taken, leaked>>

\* An empty queue: EAGAIN for a non-blocking file, else wait.
TakeNothing ==
  /\ mpc = "recv" /\ queue[cur] /\ RecvBlocked(cur)
  /\ IF cur \in NonBlocking
     THEN mpc' = "loop" /\ eagain' = eagain \cup {cur}
     ELSE mpc' = "waiting" /\ UNCHANGED eagain
  /\ UNCHANGED <<queueVars, threadVars, queue, cur, eof, finished, taken, leaked>>

\* process_input of a file whose queue is a NULL pointer.
ReceiveCrashes ==
  /\ mpc = "recv" /\ ~queue[cur]
  /\ mpc' = "crashed"
  /\ UNCHANGED <<queueVars, threadVars, queue, cur, eagain, eof, finished, taken, leaked>>

\* pthread_cond_wait may return without a signal.
ReceiverWakesUp ==
  /\ mpc \in {"waiting", "drainwait"}
  /\ mpc' = IF mpc = "waiting" THEN "recv" ELSE "draining"
  /\ UNCHANGED <<queueVars, threadVars, queue, cur, eagain, eof, finished, taken, leaked>>

-----------------------------------------------------------------------------
(* free_input_threads                                                      *)

\* The next file: skip one without a queue, stop the sender of another.
FreeNext ==
  /\ mpc = "freeing"
  /\ \/ /\ cur > NumFiles /\ mpc' = "end"
        /\ UNCHANGED <<cur, errSend, pc>>
     \/ /\ cur <= NumFiles /\ ~queue[cur] /\ cur' = cur + 1
        /\ UNCHANGED <<mpc, errSend, pc>>
     \/ /\ cur <= NumFiles /\ queue[cur] /\ mpc' = "draining"
        /\ SetErrSend(cur) /\ WakeSender(cur)
        /\ UNCHANGED cur
  /\ UNCHANGED <<fifo, errRecv, nonblock, read, queue, eagain, eof, finished, taken, leaked>>

\* One recv of the drain: drop a packet, wait for one, or, on the error that
\* the thread sets last, go to pthread_join.
Drain ==
  /\ mpc = "draining"
  /\ \/ /\ fifo[cur] # <<>>
        /\ ReadPacket(cur) /\ WakeSender(cur)
        /\ taken' = [taken EXCEPT ![cur] = @ + 1]
        /\ UNCHANGED mpc
     \/ /\ RecvBlocked(cur) /\ mpc' = "drainwait"
        /\ UNCHANGED <<fifo, pc, taken>>
     \/ /\ RecvError(cur) /\ mpc' = "joining"
        /\ UNCHANGED <<fifo, pc, taken>>
  /\ UNCHANGED <<errSend, errRecv, nonblock, read, queue, cur, eagain, eof, finished, leaked>>

\* Freeing the queue without joining the thread.
JoinTooEarly ==
  /\ mpc = "joining"
  /\ leaked' = [leaked EXCEPT ![cur] = @ + Len(fifo[cur])]
  /\ QueueFree(cur)
  /\ queue' = [queue EXCEPT ![cur] = FALSE]
  /\ mpc' = "freeing" /\ cur' = cur + 1
  /\ UNCHANGED <<errSend, errRecv, threadVars, eagain, eof, finished, taken>>

\* pthread_join returns; the queue is freed.
Join ==
  /\ mpc = "joining" /\ pc[cur] = "done"
  /\ leaked' = [leaked EXCEPT ![cur] = @ + Len(fifo[cur])]
  /\ QueueFree(cur)
  /\ queue' = [queue EXCEPT ![cur] = FALSE]
  /\ mpc' = "freeing" /\ cur' = cur + 1
  /\ UNCHANGED <<errSend, errRecv, threadVars, eagain, eof, finished, taken>>

\* All threads with a queue are joined and transcode goes on without them, or
\* the process is gone.
Joined == mpc \in {"end", "crashed"} /\ UNCHANGED vars

-----------------------------------------------------------------------------

Alive == mpc # "crashed"

ThreadStep(f) ==
  /\ Alive
  /\ \/ ReadFrame(f) \/ ReadEnd(f) \/ SendPacket(f) \/ SendFull(f) \/ SendFails(f)
     \/ ThreadEnds(f) \/ ThreadReturns(f) \/ ThreadCrashes(f)

Loop ==
  \/ InitThread \/ ResetEagain
  \/ TakePacket \/ TakeEof \/ TakeNothing \/ ReceiveCrashes
  \/ \E f \in Files : SelectInput(f)

Shutdown == FreeNext \/ Drain \/ Join

Next ==
  \/ \E f \in Files : ThreadStep(f) \/ (Alive /\ SenderWakesUp(f))
  \/ Loop \/ OutputFinishes \/ LeaveLoop \/ ReceiverWakesUp
  \/ Shutdown \/ Joined

\* Every thread runs, and a read of a file returns. The loop of transcode goes
\* on by itself; that the filter graph ends is assumed only once every input
\* did, and that the loop is left only once the output is finished.
Fairness ==
  /\ \A f \in Files : WF_vars(ThreadStep(f))
  /\ WF_vars(Loop) /\ WF_vars(Shutdown)
  /\ WF_vars(eof = Files /\ OutputFinishes)
  /\ WF_vars(finished /\ LeaveLoop)

Spec == Init /\ [][Next]_vars /\ Fairness

-----------------------------------------------------------------------------
(* What the code keeps.                                                    *)

\* The packet a thread holds between av_read_frame and the queue.
Held(f) == IF pc[f] \in {"sending", "waiting"} THEN 1 ELSE 0

\* The queue holds the packets that follow the taken ones, in file order: no
\* packet is lost, repeated or reordered on its way to process_input.
InOrder ==
  \A f \in Files : \A i \in 1..Len(fifo[f]) : fifo[f][i] = taken[f] + i

\* process_input sees the end of a file only after every packet that was read
\* from it, though the thread sets the error while packets are still queued.
EofAfterAll == \A f \in eof : taken[f] = read[f]

\* No thread works on a queue that free_input_threads has freed, nor does the
\* main thread receive from one. Only a thread that never had a queue has none.
NoUseAfterFree ==
  /\ \A f \in Files : pc[f] \notin {"none", "done", "doomed"} => queue[f]
  /\ mpc \in {"loop", "recv", "waiting"} => \A f \in Files : queue[f] \/ pc[f] = "doomed"
  /\ mpc \in {"draining", "drainwait", "joining"} => queue[cur]

\* The drain leaves nothing in a queue: packets still in a freed queue would
\* never be unreferenced.
NoPacketLeaked == \A f \in Files : leaked[f] = 0

\* A thread sleeps on a condition only while it has nothing to do: no signal is
\* sent between the test and the wait, and none is missing.
NoMissedWakeup ==
  /\ \A f \in Files : pc[f] = "waiting" => SendBlocked(f)
  /\ mpc \in {"waiting", "drainwait"} => RecvBlocked(cur)

\* Wherever the loop is left, and however full the queues are then, every
\* thread is joined in the end, unless one without a queue ends the process.
Terminates == <>(mpc \in {"end", "crashed"})

=============================================================================
