------------------------- MODULE ThreadMessageQueue -------------------------
(***************************************************************************)
(* libavutil/threadmessage.c: one bounded queue of packets per input file, *)
(* with an error flag for each side. Each function holds the queue's mutex *)
(* except inside pthread_cond_wait, so one critical section is one step;   *)
(* what a step does to a thread that waits is left to the module that has  *)
(* the threads, through the guards SendBlocked and RecvBlocked.            *)
(*                                                                         *)
(* A packet is the number it has in its file, and of an error code only    *)
(* "set or not" is kept: both users only test that it is negative.         *)
(***************************************************************************)
EXTENDS Integers, Sequences

CONSTANTS
  NumFiles,      (* nb_input_files; get_input_packet queues only if > 1 *)
  Capacity       (* thread_queue_size: 8 unless the option gives another *)

ASSUME NumFilesAssumption == NumFiles \in Nat /\ NumFiles > 1
ASSUME CapacityAssumption == Capacity \in Nat \ {0}

Files == 1..NumFiles

VARIABLES
  fifo,          (* fifo[f]: the queued packets, oldest first *)
  errSend,       (* errSend[f]: a sender gets an error *)
  errRecv        (* errRecv[f]: a receiver of an empty queue gets an error *)

queueVars == <<fifo, errSend, errRecv>>

QueueTypeOK ==
  /\ fifo \in [Files -> Seq(Nat)]
  /\ \A f \in Files : Len(fifo[f]) <= Capacity
  /\ errSend \in [Files -> BOOLEAN]
  /\ errRecv \in [Files -> BOOLEAN]

QueueInit ==
  /\ fifo = [f \in Files |-> <<>>]
  /\ errSend = [f \in Files |-> FALSE]
  /\ errRecv = [f \in Files |-> FALSE]

\* send_locked that lets one packet too many in.
SendBlockedLate(f) == ~errSend[f] /\ Len(fifo[f]) > Capacity

\* The loop of send_locked goes on: a sender waits, or gets EAGAIN.
SendBlocked(f) == ~errSend[f] /\ Len(fifo[f]) >= Capacity

\* recv_locked that looks at err_recv before it looks at the queue.
RecvErrorFirst(f) == errRecv[f]

\* The loop of recv_locked goes on: a receiver waits, or gets EAGAIN.
RecvBlocked(f) == ~errRecv[f] /\ fifo[f] = <<>>

\* recv_locked returns err_recv: only once the queue is empty.
RecvError(f) == errRecv[f] /\ fifo[f] = <<>>

\* send_locked that overwrites the newest packet of a queue.
WritePacketOver(f, pkt) ==
  fifo' = [fifo EXCEPT ![f] = Append(SubSeq(@, 1, Len(@) - 1), pkt)]

WritePacket(f, pkt) == fifo' = [fifo EXCEPT ![f] = Append(@, pkt)]

ReadPacket(f) == fifo' = [fifo EXCEPT ![f] = Tail(@)]

SetErrSend(f) == errSend' = [errSend EXCEPT ![f] = TRUE]

SetErrRecv(f) == errRecv' = [errRecv EXCEPT ![f] = TRUE]

\* av_thread_message_queue_free flushes without a free_func: what it drains is
\* not unreferenced.
QueueFree(f) == fifo' = [fifo EXCEPT ![f] = <<>>]

=============================================================================
