-------------------------- MODULE InputThreadsProofs --------------------------
(***************************************************************************)
(* Proofs about InputThreads, for any number of files, queue size, file    *)
(* lengths and choice of non-blocking files.                               *)
(*                                                                         *)
(* The argument counts packets. What a thread has read is what was taken,  *)
(* what is queued, and the one packet it may hold (Balance), unless its    *)
(* queue refuses packets, which happens only after the loop of transcode   *)
(* (SendersRun). A thread sets err_recv when it will send no more          *)
(* (EndedSetsError), so an empty queue with err_recv set stays empty:      *)
(* process_input then has every packet (EofIsFinal) and the drain has      *)
(* left nothing to leak (Drained). Queues exist from the creation of their *)
(* thread to its join (QueuesLive), except that of a thread whose queue    *)
(* could not be allocated, which can only end the process.                 *)
(***************************************************************************)
EXTENDS InputThreads, TLAPS

Balance ==
  \A f \in Files : ~errSend[f] => read[f] = taken[f] + Len(fifo[f]) + Held(f)

EndedSetsError == \A f \in Files : errRecv[f] => pc[f] \in {"returning", "done"}

EofIsFinal == \A f \in eof : errRecv[f] /\ fifo[f] = <<>> /\ taken[f] = read[f]

SendersRun == mpc \in {"init", "loop", "recv", "waiting"} => \A f \in Files : ~errSend[f]

Created ==
  mpc = "init" =>
    \A f \in Files : IF f < cur THEN queue[f] \/ pc[f] = "doomed" ELSE pc[f] = "none"

QueuesLive == NoUseAfterFree /\ Created

Position ==
  mpc \in {"init", "recv", "waiting", "draining", "drainwait", "joining"} => cur \in Files

Drained == mpc = "joining" => errRecv[cur] /\ fifo[cur] = <<>>

Packets == InOrder /\ Balance /\ EofIsFinal /\ NoPacketLeaked

Control ==
  EndedSetsError /\ SendersRun /\ QueuesLive /\ Position /\ Drained /\ NoMissedWakeup

IInv == TypeOK /\ Packets /\ Control

USE NumFilesAssumption, CapacityAssumption, NonBlockingAssumption, MaxPacketsAssumption
    DEF NumFilesAssumption, CapacityAssumption, NonBlockingAssumption, MaxPacketsAssumption

-----------------------------------------------------------------------------
(* What waking a thread does.                                              *)

LEMMA WakeSenderEffect ==
  ASSUME NEW f \in Files, ThreadTypeOK, WakeSender(f)
  PROVE  /\ pc' \in [Files -> ThreadStates]
         /\ \A g \in Files \ {f} : pc'[g] = pc[g]
         /\ pc'[f] = IF pc[f] = "waiting" THEN "sending" ELSE pc[f]
         /\ \A g \in Files : Held(g)' = Held(g)
         /\ \A g \in Files, S \in {{"none", "done", "doomed"}, {"returning", "done"}, {"none"},
                                  {"doomed"}} :
              pc'[g] \in S <=> pc[g] \in S
  BY DEF WakeSender, ThreadTypeOK, ThreadStates, Held

LEMMA WakeReceiverEffect ==
  ASSUME NEW f \in Files, MainTypeOK, WakeReceiver(f)
  PROVE  /\ mpc' \in MainStates
         /\ \/ mpc' = mpc /\ (mpc \in {"waiting", "drainwait"} => cur # f)
            \/ cur = f /\ mpc = "waiting" /\ mpc' = "recv"
            \/ cur = f /\ mpc = "drainwait" /\ mpc' = "draining"
<1>1. CASE cur = f /\ mpc = "waiting"
  BY <1>1 DEF WakeReceiver, MainStates
<1>2. CASE cur = f /\ mpc = "drainwait"
  BY <1>2 DEF WakeReceiver, MainStates
<1>3. CASE ~(cur = f /\ mpc \in {"waiting", "drainwait"})
  BY <1>3 DEF WakeReceiver, MainTypeOK
<1>4. QED
  BY <1>1, <1>2, <1>3

(* A step that leaves the queues, the counts and the ends alone keeps what is *)
(* known of the packets; a held packet matters while its queue accepts any.   *)
LEMMA PacketsKept ==
  ASSUME TypeOK, Packets, UNCHANGED <<fifo, errSend, read, taken, eof, leaked>>,
         \A g \in Files : errRecv[g] => errRecv'[g],
         \A g \in Files : ~errSend[g] => Held(g)' = Held(g)
  PROVE  Packets'
<1>1. InOrder' /\ NoPacketLeaked'
  BY DEF Packets, InOrder, NoPacketLeaked
<1>2. Balance'
  BY DEF Packets, Balance
<1>3. EofIsFinal'
  BY DEF Packets, EofIsFinal, TypeOK, MainTypeOK
<1> QED
  BY <1>1, <1>2, <1>3 DEF Packets

-----------------------------------------------------------------------------
\* The main thread takes the oldest packet of cur, for process_input or to drop it.
LEMMA PopStep ==
  ASSUME IInv, cur \in Files, mpc \in {"recv", "draining"},
         fifo[cur] # <<>>, ReadPacket(cur), WakeSender(cur),
         taken' = [taken EXCEPT ![cur] = @ + 1],
         mpc' = IF mpc = "recv" THEN "loop" ELSE mpc,
         eagain' \subseteq Files,
         UNCHANGED <<errSend, errRecv, nonblock, read, queue, cur, eof, finished, leaked>>
  PROVE  IInv'
<1> USE DEF IInv, Packets, Control
<1>1. /\ fifo[cur] \in Seq(Nat) /\ fifo' = [fifo EXCEPT ![cur] = Tail(@)]
      /\ taken' = [taken EXCEPT ![cur] = @ + 1]
      /\ mpc \in {"recv", "draining"} /\ mpc' = IF mpc = "recv" THEN "loop" ELSE mpc
      /\ cur \in Files /\ fifo[cur] # <<>> /\ eagain' \subseteq Files
      /\ UNCHANGED <<errSend, errRecv, nonblock, read, queue, cur, eof, finished, leaked>>
  BY DEF ReadPacket, TypeOK, QueueTypeOK
<1>2. WakeSender(cur) /\ ThreadTypeOK
  BY DEF TypeOK
<1>3. fifo'[cur] \in Seq(Nat) /\ Len(fifo'[cur]) = Len(fifo[cur]) - 1
  BY <1>1 DEF TypeOK, QueueTypeOK
<1>4. TypeOK'
  <2>1. QueueTypeOK'
    BY <1>1, <1>3 DEF TypeOK, QueueTypeOK
  <2>2. ThreadTypeOK'
    BY <1>1, <1>2, WakeSenderEffect DEF ThreadTypeOK
  <2>3. MainTypeOK'
    BY <1>1 DEF TypeOK, MainTypeOK, MainStates
  <2>4. QED
    BY <2>1, <2>2, <2>3 DEF TypeOK
<1>5. InOrder'
  <2> SUFFICES ASSUME NEW g \in Files, NEW i \in 1..Len(fifo'[g])
               PROVE  fifo'[g][i] = taken'[g] + i
    BY DEF InOrder
  <2>1. CASE g = cur
    <3>1. i + 1 \in 1..Len(fifo[cur]) /\ fifo'[g][i] = fifo[cur][i + 1]
      BY <1>1, <1>3, <2>1 DEF TypeOK, QueueTypeOK
    <3>2. fifo[cur][i + 1] = taken[cur] + (i + 1) /\ taken[cur] \in Nat /\ i \in Nat
      BY <1>1, <3>1 DEF InOrder, TypeOK, MainTypeOK
    <3>3. taken'[cur] = taken[cur] + 1
      BY <1>1 DEF TypeOK, MainTypeOK
    <3>4. taken[cur] + (i + 1) = taken'[cur] + i
      BY <3>2, <3>3
    <3>5. QED
      BY <2>1, <3>1, <3>2, <3>4
  <2>2. CASE g # cur
    BY <1>1, <2>2 DEF InOrder, TypeOK, QueueTypeOK, MainTypeOK
  <2>3. QED
    BY <2>1, <2>2
<1>6. Balance'
  <2> SUFFICES ASSUME NEW g \in Files, ~errSend'[g]
               PROVE  read'[g] = taken'[g] + Len(fifo'[g]) + Held(g)'
    BY DEF Balance
  <2>1. Held(g)' = Held(g) /\ Held(g) \in Nat /\ Len(fifo[g]) \in Nat
    BY <1>1, <1>2, WakeSenderEffect DEF Held, TypeOK, QueueTypeOK
  <2>2. read[g] = taken[g] + Len(fifo[g]) + Held(g)
    BY <1>1 DEF Balance
  <2>3. taken'[g] + Len(fifo'[g]) = taken[g] + Len(fifo[g])
    BY <1>1, <1>3, <2>1 DEF TypeOK, MainTypeOK, QueueTypeOK
  <2>4. QED
    BY <1>1, <2>1, <2>2, <2>3
<1>7. EofIsFinal' /\ NoPacketLeaked'
  BY <1>1 DEF EofIsFinal, NoPacketLeaked, TypeOK, MainTypeOK, QueueTypeOK
<1>8. EndedSetsError' /\ SendersRun'
  BY <1>1, <1>2, WakeSenderEffect DEF EndedSetsError, SendersRun
<1>9. QueuesLive' /\ Position' /\ Drained'
  BY <1>1, <1>2, WakeSenderEffect DEF QueuesLive, Created, NoUseAfterFree, Position, Drained
<1>10. NoMissedWakeup'
  BY <1>1, <1>2, WakeSenderEffect DEF NoMissedWakeup, SendBlocked, TypeOK, QueueTypeOK
<1>11. QED
  BY <1>4, <1>5, <1>6, <1>7, <1>8, <1>9, <1>10
-----------------------------------------------------------------------------
\* The invariant of the threads, the queues and the main thread.
THEOREM InputThreadsInvariant == Spec => []IInv
<1>1. Init => IInv
  <2> SUFFICES ASSUME Init PROVE IInv
    OBVIOUS
  <2>1. TypeOK
    <3>1. QueueTypeOK
      BY DEF Init, QueueInit, QueueTypeOK
    <3>2. ThreadTypeOK
      BY DEF Init, ThreadTypeOK, ThreadStates
    <3>3. MainTypeOK
      <4>1. cur \in 1..(NumFiles + 1) /\ taken \in [Files -> Nat] /\ leaked \in [Files -> Nat]
        BY DEF Init
      <4>2. QED
        BY <4>1 DEF Init, MainTypeOK, MainStates
    <3>4. QED
      BY <3>1, <3>2, <3>3 DEF TypeOK
  <2>2. Packets
    BY DEF Init, QueueInit, Packets, InOrder, Balance, EofIsFinal, NoPacketLeaked, Held
  <2>3. Control
    BY DEF Init, QueueInit, Control, EndedSetsError, SendersRun, QueuesLive, Created,
           NoUseAfterFree, Position, Drained, NoMissedWakeup, Files
  <2>4. QED
    BY <2>1, <2>2, <2>3 DEF IInv
<1>2. IInv /\ [Next]_vars => IInv'
  <2> SUFFICES ASSUME IInv, [Next]_vars PROVE IInv'
    OBVIOUS
  <2> USE DEF IInv, Packets, Control, Files
  <2>1. ASSUME NEW f \in Files, ReadFrame(f) PROVE IInv'
    <3>1. TypeOK'
      <4>1. QueueTypeOK' /\ MainTypeOK'
        BY <2>1 DEF TypeOK, QueueTypeOK, MainTypeOK, ReadFrame, queueVars, mainVars
      <4>2. ThreadTypeOK'
        BY <2>1 DEF TypeOK, ThreadTypeOK, ThreadStates, ReadFrame
      <4>3. QED
        BY <4>1, <4>2 DEF TypeOK
    <3>2. InOrder' /\ NoPacketLeaked'
      BY <2>1 DEF InOrder, NoPacketLeaked, ReadFrame, queueVars
    <3>3. Balance'
      <4> SUFFICES ASSUME NEW g \in Files, ~errSend'[g]
                   PROVE  read'[g] = taken'[g] + Len(fifo'[g]) + Held(g)'
        BY DEF Balance
      <4>1. read[g] = taken[g] + Len(fifo[g]) + Held(g)
        BY <2>1 DEF Balance, ReadFrame, queueVars
      <4>2. CASE g = f
        <5>1. Held(g) = 0 /\ Held(g)' = 1
          BY <2>1, <4>2 DEF ReadFrame, Held, TypeOK, ThreadTypeOK
        <5>2. read'[g] = read[g] + 1 /\ taken' = taken /\ fifo' = fifo
          BY <2>1, <4>2 DEF ReadFrame, TypeOK, ThreadTypeOK, queueVars
        <5>3. QED
          BY <4>1, <5>1, <5>2 DEF TypeOK, MainTypeOK, QueueTypeOK
      <4>3. CASE g # f
        BY <2>1, <4>1, <4>3 DEF ReadFrame, Held, TypeOK, ThreadTypeOK, queueVars
      <4>4. QED
        BY <4>2, <4>3
    <3>4. EofIsFinal'
      <4>1. f \notin eof
        BY <2>1 DEF ReadFrame, EofIsFinal, EndedSetsError
      <4>2. QED
        BY <2>1, <4>1 DEF EofIsFinal, ReadFrame, TypeOK, ThreadTypeOK, MainTypeOK, queueVars, mainVars
    <3>5. Control'
      BY <2>1 DEF EndedSetsError, SendersRun, QueuesLive, Created, NoUseAfterFree, Position,
         Drained, NoMissedWakeup, SendBlocked, RecvBlocked, TypeOK, ThreadTypeOK, ReadFrame,
         queueVars, mainVars
    <3>6. QED
      BY <3>1, <3>2, <3>3, <3>4, <3>5
  <2>2. ASSUME NEW f \in Files, ReadEnd(f) PROVE IInv'
    <3>1. TypeOK'
      BY <2>2 DEF TypeOK, QueueTypeOK, ThreadTypeOK, MainTypeOK, ThreadStates, MainStates,
         ReadEnd, queueVars, threadVars, mainVars, RecvBlocked, SendBlocked
    <3>2. Packets'
      <4>1. UNCHANGED <<fifo, errSend, errRecv, read, taken, eof, leaked>>
        BY <2>2 DEF ReadEnd, queueVars, mainVars
      <4>2. \A g \in Files : ~errSend[g] => Held(g)' = Held(g)
        BY <2>2 DEF ReadEnd, Held, TypeOK, ThreadTypeOK
      <4>3. QED
        BY <4>1, <4>2, PacketsKept
    <3>3. Control'
      BY <2>2 DEF EndedSetsError, SendersRun, QueuesLive, Created, NoUseAfterFree, Position,
         Drained, NoMissedWakeup, SendBlocked, RecvBlocked, TypeOK, QueueTypeOK, ThreadTypeOK,
         MainTypeOK, ReadEnd, queueVars, threadVars, mainVars, RecvError, Drained
    <3>4. QED
      BY <3>1, <3>2, <3>3
  <2>3. ASSUME NEW f \in Files, SendPacket(f) PROVE IInv'
    <3>1. /\ pc[f] = "sending" /\ ~errSend[f] /\ Len(fifo[f]) < Capacity
          /\ fifo' = [fifo EXCEPT ![f] = Append(@, read[f])]
          /\ pc' = [pc EXCEPT ![f] = "reading"]
          /\ UNCHANGED <<errSend, errRecv, nonblock, read, queue, cur, eagain, eof, finished,
                         taken, leaked>>
      BY <2>3 DEF SendPacket, SendBlocked, WritePacket, TypeOK, QueueTypeOK
    <3>2. /\ mpc' \in MainStates
          /\ \/ mpc' = mpc /\ (mpc \in {"waiting", "drainwait"} => cur # f)
             \/ cur = f /\ mpc = "waiting" /\ mpc' = "recv"
             \/ cur = f /\ mpc = "drainwait" /\ mpc' = "draining"
      BY <2>3, WakeReceiverEffect DEF SendPacket, TypeOK
    <3>3. f \notin eof /\ ~errRecv[f]
      BY <3>1 DEF EofIsFinal, EndedSetsError
    <3>4. read[f] = taken[f] + Len(fifo[f]) + 1
      BY <3>1 DEF Balance, Held
    <3>5. TypeOK'
      <4>1. QueueTypeOK'
        BY <3>1 DEF TypeOK, QueueTypeOK, ThreadTypeOK
      <4>2. ThreadTypeOK'
        BY <3>1 DEF TypeOK, ThreadTypeOK, ThreadStates
      <4>3. MainTypeOK'
        BY <3>1, <3>2 DEF TypeOK, MainTypeOK
      <4>4. QED
        BY <4>1, <4>2, <4>3 DEF TypeOK
    <3>6. InOrder'
      <4> SUFFICES ASSUME NEW g \in Files, NEW i \in 1..Len(fifo'[g])
                   PROVE  fifo'[g][i] = taken'[g] + i
        BY DEF InOrder
      <4>1. CASE g = f
        <5>1. fifo'[g] = Append(fifo[f], read[f]) /\ fifo[f] \in Seq(Nat)
          BY <3>1, <4>1 DEF TypeOK, QueueTypeOK
        <5>2. CASE i \in 1..Len(fifo[f])
          BY <3>1, <4>1, <5>1, <5>2 DEF InOrder
        <5>3. CASE i = Len(fifo[f]) + 1
          BY <3>1, <3>4, <4>1, <5>1, <5>3 DEF TypeOK, MainTypeOK
        <5>4. QED
          BY <5>1, <5>2, <5>3
      <4>2. CASE g # f
        BY <3>1, <4>2 DEF InOrder, TypeOK, QueueTypeOK
      <4>3. QED
        BY <4>1, <4>2
    <3>7. Balance'
      <4> SUFFICES ASSUME NEW g \in Files, ~errSend'[g]
                   PROVE  read'[g] = taken'[g] + Len(fifo'[g]) + Held(g)'
        BY DEF Balance
      <4>1. CASE g = f
        <5>1. Held(g)' = 0
          BY <3>1, <4>1 DEF Held, TypeOK, ThreadTypeOK
        <5>2. Len(fifo'[g]) = Len(fifo[f]) + 1
          BY <3>1, <4>1 DEF TypeOK, QueueTypeOK
        <5>3. QED
          BY <3>1, <3>4, <4>1, <5>1, <5>2 DEF TypeOK, MainTypeOK, QueueTypeOK
      <4>2. CASE g # f
        BY <3>1, <4>2 DEF Balance, Held, TypeOK, QueueTypeOK, ThreadTypeOK
      <4>3. QED
        BY <4>1, <4>2
    <3>8. EofIsFinal' /\ NoPacketLeaked'
      BY <3>1, <3>3 DEF EofIsFinal, NoPacketLeaked, TypeOK, MainTypeOK, QueueTypeOK
    <3>9. EndedSetsError' /\ SendersRun'
      BY <3>1, <3>2, <3>3 DEF EndedSetsError, SendersRun, TypeOK, ThreadTypeOK
    <3>10. QueuesLive' /\ Position'
      BY <3>1, <3>2 DEF QueuesLive, Created, NoUseAfterFree, Position, TypeOK, ThreadTypeOK
    <3>11. Drained'
      <4>1. mpc' = "joining" => mpc = "joining" /\ cur # f
        BY <3>2, <3>3 DEF Drained
      <4>2. QED
        BY <3>1, <4>1 DEF Drained, Position, TypeOK, QueueTypeOK
    <3>12. NoMissedWakeup'
      <4>1. \A g \in Files : pc'[g] = "waiting" => SendBlocked(g)'
        BY <3>1 DEF NoMissedWakeup, SendBlocked, TypeOK, QueueTypeOK, ThreadTypeOK
      <4>2. mpc' \in {"waiting", "drainwait"} => mpc = mpc' /\ cur # f /\ cur \in Files
        BY <3>2 DEF Position
      <4>3. QED
        BY <3>1, <4>1, <4>2 DEF NoMissedWakeup, RecvBlocked, TypeOK, QueueTypeOK
    <3>13. QED
      BY <3>5, <3>6, <3>7, <3>8, <3>9, <3>10, <3>11, <3>12
  <2>4. ASSUME NEW f \in Files, SendFull(f) PROVE IInv'
    <3>1. /\ pc[f] = "sending" /\ SendBlocked(f)
          /\ UNCHANGED <<fifo, errSend, errRecv, read, queue, mpc, cur, eagain, eof, finished,
                         taken, leaked>>
          /\ \/ pc' = pc /\ nonblock' = [nonblock EXCEPT ![f] = FALSE]
             \/ pc' = [pc EXCEPT ![f] = "waiting"] /\ nonblock' = nonblock
      BY <2>4 DEF SendFull, queueVars, mainVars
    <3>2. TypeOK'
      <4>1. QueueTypeOK' /\ MainTypeOK'
        BY <3>1 DEF TypeOK, QueueTypeOK, MainTypeOK
      <4>2. ThreadTypeOK'
        BY <3>1 DEF TypeOK, ThreadTypeOK, ThreadStates
      <4>3. QED
        BY <4>1, <4>2 DEF TypeOK
    <3>3. Packets'
      <4>1. \A g \in Files : Held(g)' = Held(g)
        BY <3>1 DEF Held, TypeOK, ThreadTypeOK
      <4>2. QED
        BY <3>1, <4>1 DEF InOrder, Balance, EofIsFinal, NoPacketLeaked
    <3>4. Control'
      BY <3>1 DEF EndedSetsError, SendersRun, QueuesLive, Created, NoUseAfterFree, Position,
         Drained, NoMissedWakeup, SendBlocked, RecvBlocked, TypeOK, ThreadTypeOK
    <3>5. QED
      BY <3>2, <3>3, <3>4
  <2>5. ASSUME NEW f \in Files, SendFails(f) PROVE IInv'
    <3>1. TypeOK'
      BY <2>5 DEF TypeOK, QueueTypeOK, ThreadTypeOK, MainTypeOK, ThreadStates, MainStates,
         SendFails, queueVars, threadVars, mainVars, RecvBlocked, SendBlocked
    <3>2. Packets'
      <4>1. UNCHANGED <<fifo, errSend, errRecv, read, taken, eof, leaked>>
        BY <2>5 DEF SendFails, queueVars, mainVars
      <4>2. \A g \in Files : ~errSend[g] => Held(g)' = Held(g)
        BY <2>5 DEF SendFails, Held, TypeOK, ThreadTypeOK
      <4>3. QED
        BY <4>1, <4>2, PacketsKept
    <3>3. Control'
      BY <2>5 DEF EndedSetsError, SendersRun, QueuesLive, Created, NoUseAfterFree, Position,
         Drained, NoMissedWakeup, SendBlocked, RecvBlocked, TypeOK, QueueTypeOK, ThreadTypeOK,
         MainTypeOK, SendFails, queueVars, threadVars, mainVars, RecvError, Drained
    <3>4. QED
      BY <3>1, <3>2, <3>3
  <2>6. ASSUME NEW f \in Files, SenderWakesUp(f) PROVE IInv'
    <3>1. TypeOK'
      BY <2>6 DEF TypeOK, QueueTypeOK, ThreadTypeOK, MainTypeOK, ThreadStates, MainStates,
         SenderWakesUp, queueVars, threadVars, mainVars, RecvBlocked, SendBlocked
    <3>2. Packets'
      <4>1. UNCHANGED <<fifo, errSend, errRecv, read, taken, eof, leaked>>
        BY <2>6 DEF SenderWakesUp, queueVars, mainVars
      <4>2. \A g \in Files : ~errSend[g] => Held(g)' = Held(g)
        BY <2>6 DEF SenderWakesUp, Held, TypeOK, ThreadTypeOK
      <4>3. QED
        BY <4>1, <4>2, PacketsKept
    <3>3. Control'
      BY <2>6 DEF EndedSetsError, SendersRun, QueuesLive, Created, NoUseAfterFree, Position,
         Drained, NoMissedWakeup, SendBlocked, RecvBlocked, TypeOK, QueueTypeOK, ThreadTypeOK,
         MainTypeOK, SenderWakesUp, queueVars, threadVars, mainVars, RecvError, Drained
    <3>4. QED
      BY <3>1, <3>2, <3>3
  <2>7. ASSUME NEW f \in Files, ThreadEnds(f) PROVE IInv'
    <3>1. /\ pc[f] = "ending" /\ errRecv' = [errRecv EXCEPT ![f] = TRUE]
          /\ pc' = [pc EXCEPT ![f] = "returning"]
          /\ UNCHANGED <<fifo, errSend, nonblock, read, queue, cur, eagain, eof, finished,
                         taken, leaked>>
      BY <2>7 DEF ThreadEnds, SetErrRecv
    <3>2. /\ mpc' \in MainStates
          /\ \/ mpc' = mpc /\ (mpc \in {"waiting", "drainwait"} => cur # f)
             \/ cur = f /\ mpc = "waiting" /\ mpc' = "recv"
             \/ cur = f /\ mpc = "drainwait" /\ mpc' = "draining"
      BY <2>7, WakeReceiverEffect DEF ThreadEnds, TypeOK
    <3>3. TypeOK'
      BY <3>1, <3>2 DEF TypeOK, QueueTypeOK, ThreadTypeOK, MainTypeOK, ThreadStates
    <3>4. Packets'
      <4>1. \A g \in Files : errRecv[g] => errRecv'[g]
        BY <3>1 DEF TypeOK, QueueTypeOK
      <4>2. \A g \in Files : Held(g)' = Held(g)
        BY <3>1 DEF Held, TypeOK, ThreadTypeOK
      <4>3. QED
        BY <3>1, <4>1, <4>2, PacketsKept
    <3>5. EndedSetsError' /\ SendersRun'
      BY <3>1, <3>2 DEF EndedSetsError, SendersRun, TypeOK, ThreadTypeOK, QueueTypeOK
    <3>6. QueuesLive' /\ Position'
      BY <3>1, <3>2 DEF QueuesLive, Created, NoUseAfterFree, Position, TypeOK, ThreadTypeOK
    <3>7. Drained'
      BY <3>1, <3>2 DEF Drained, Position, TypeOK, QueueTypeOK
    <3>8. NoMissedWakeup'
      <4>1. \A g \in Files : pc'[g] = "waiting" => SendBlocked(g)'
        BY <3>1 DEF NoMissedWakeup, SendBlocked, TypeOK, ThreadTypeOK
      <4>2. mpc' \in {"waiting", "drainwait"} => mpc = mpc' /\ cur # f /\ cur \in Files
        BY <3>2 DEF Position
      <4>3. QED
        BY <3>1, <4>1, <4>2 DEF NoMissedWakeup, RecvBlocked, TypeOK, QueueTypeOK
    <3>9. QED
      BY <3>3, <3>4, <3>5, <3>6, <3>7, <3>8
  <2>8. ASSUME NEW f \in Files, ThreadReturns(f) PROVE IInv'
    <3>1. TypeOK'
      BY <2>8 DEF TypeOK, QueueTypeOK, ThreadTypeOK, MainTypeOK, ThreadStates, MainStates,
         ThreadReturns, queueVars, threadVars, mainVars, RecvBlocked, SendBlocked
    <3>2. Packets'
      <4>1. UNCHANGED <<fifo, errSend, errRecv, read, taken, eof, leaked>>
        BY <2>8 DEF ThreadReturns, queueVars, mainVars
      <4>2. \A g \in Files : ~errSend[g] => Held(g)' = Held(g)
        BY <2>8 DEF ThreadReturns, Held, TypeOK, ThreadTypeOK
      <4>3. QED
        BY <4>1, <4>2, PacketsKept
    <3>3. Control'
      BY <2>8 DEF EndedSetsError, SendersRun, QueuesLive, Created, NoUseAfterFree, Position,
         Drained, NoMissedWakeup, SendBlocked, RecvBlocked, TypeOK, QueueTypeOK, ThreadTypeOK,
         MainTypeOK, ThreadReturns, queueVars, threadVars, mainVars, RecvError, Drained
    <3>4. QED
      BY <3>1, <3>2, <3>3
  <2>9. CASE InitThread
    <3>1. cur \in Files /\ mpc = "init" /\ UNCHANGED <<fifo, errSend, errRecv, read, eagain, eof, finished, taken, leaked>>
      BY <2>9 DEF InitThread, Position, queueVars
    <3>2. CASE mpc' = "freeing" /\ cur' = 1 /\ UNCHANGED <<queue, pc, nonblock>>
      <4>1. TypeOK'
        <5>1. QueueTypeOK' /\ ThreadTypeOK'
          BY <3>1, <3>2 DEF TypeOK, QueueTypeOK, ThreadTypeOK
        <5>2. MainTypeOK'
          BY <3>1, <3>2 DEF TypeOK, MainTypeOK, MainStates
        <5>3. QED
          BY <5>1, <5>2 DEF TypeOK
      <4>2. Packets'
        BY <3>1, <3>2 DEF InOrder, Balance, EofIsFinal, NoPacketLeaked, Held
      <4>3. Control'
        BY <3>1, <3>2 DEF EndedSetsError, SendersRun, QueuesLive, Created, NoUseAfterFree,
           Position, Drained, NoMissedWakeup, SendBlocked
      <4>4. QED
        BY <4>1, <4>2, <4>3
    <3>3. CASE /\ \/ queue' = [queue EXCEPT ![cur] = TRUE] /\ pc' = [pc EXCEPT ![cur] = "reading"]
                  \/ pc' = [pc EXCEPT ![cur] = "doomed"] /\ UNCHANGED queue
               /\ nonblock' = [nonblock EXCEPT ![cur] = cur \in NonBlocking]
               /\ cur' = IF cur < NumFiles THEN cur + 1 ELSE 1
               /\ mpc' = IF cur < NumFiles THEN "init" ELSE "loop"
      <4>1. pc[cur] = "none" /\ pc' \in [Files -> ThreadStates] /\ queue' \in [Files -> BOOLEAN]
        <5>1. pc[cur] = "none"
          BY <3>1 DEF Created, QueuesLive
        <5>2. CASE queue' = [queue EXCEPT ![cur] = TRUE] /\ pc' = [pc EXCEPT ![cur] = "reading"]
          BY <3>1, <5>1, <5>2 DEF TypeOK, ThreadTypeOK, ThreadStates
        <5>3. CASE pc' = [pc EXCEPT ![cur] = "doomed"] /\ UNCHANGED queue
          BY <3>1, <5>1, <5>3 DEF TypeOK, ThreadTypeOK, ThreadStates
        <5>4. QED
          BY <3>3, <5>2, <5>3
      <4>11. /\ \A g \in Files \ {cur} : pc'[g] = pc[g] /\ queue'[g] = queue[g]
             /\ (pc'[cur] = "reading" /\ queue'[cur]) \/ pc'[cur] = "doomed"
        BY <3>1, <3>3, <4>1 DEF TypeOK, ThreadTypeOK
      <4>2. cur' \in 1..(NumFiles + 1) /\ mpc' \in MainStates
        BY <3>1, <3>3 DEF MainStates
      <4>3. nonblock' \in [Files -> BOOLEAN]
        <5>1. (cur \in NonBlocking) \in BOOLEAN
          OBVIOUS
        <5>2. QED
          BY <3>3, <5>1 DEF TypeOK, ThreadTypeOK
      <4>4. TypeOK'
        BY <3>1, <4>1, <4>2, <4>3 DEF TypeOK, QueueTypeOK, ThreadTypeOK, MainTypeOK
      <4>5. \A g \in Files : Held(g)' = Held(g)
        BY <3>3, <4>1 DEF Held, TypeOK, ThreadTypeOK
      <4>6. Packets'
        BY <3>1, <4>5 DEF InOrder, Balance, EofIsFinal, NoPacketLeaked
      <4>7. EndedSetsError'
        BY <3>1, <3>3, <4>1 DEF EndedSetsError, TypeOK, ThreadTypeOK
      <4>8. CASE cur < NumFiles
        <5>1. mpc' = "init" /\ cur' = cur + 1
          BY <3>3, <4>8
        <5>2. QueuesLive'
          BY <3>1, <4>1, <4>11, <5>1 DEF QueuesLive, Created, NoUseAfterFree
        <5>3. SendersRun' /\ Position' /\ Drained'
          BY <3>1, <4>8, <5>1 DEF SendersRun, Position, Drained
        <5>4. NoMissedWakeup'
          BY <3>1, <3>3, <5>1 DEF NoMissedWakeup, SendBlocked, TypeOK, ThreadTypeOK
        <5>5. QED
          BY <4>4, <4>6, <4>7, <5>2, <5>3, <5>4
      <4>9. CASE ~(cur < NumFiles)
        <5>1. mpc' = "loop" /\ cur = NumFiles
          BY <3>1, <3>3, <4>9
        <5>2. QueuesLive'
          BY <3>1, <4>1, <4>11, <5>1 DEF QueuesLive, Created, NoUseAfterFree
        <5>3. SendersRun' /\ Position' /\ Drained'
          BY <3>1, <5>1 DEF SendersRun, Position, Drained
        <5>4. NoMissedWakeup'
          BY <3>1, <3>3, <5>1 DEF NoMissedWakeup, SendBlocked, TypeOK, ThreadTypeOK
        <5>5. QED
          BY <4>4, <4>6, <4>7, <5>2, <5>3, <5>4
      <4>10. QED
        BY <4>8, <4>9
    <3>4. QED
      BY <2>9, <3>2, <3>3 DEF InitThread
  <2>10. ASSUME NEW f \in Files, SelectInput(f) PROVE IInv'
    <3>1. /\ mpc = "loop" /\ f \in Files /\ mpc' = "recv" /\ cur' = f
          /\ UNCHANGED <<fifo, errSend, errRecv, pc, nonblock, read, queue, eagain, eof, finished,
                         taken, leaked>>
      BY <2>10 DEF SelectInput, queueVars, threadVars
    <3>2. TypeOK'
      <4>1. QueueTypeOK' /\ ThreadTypeOK'
        BY <3>1 DEF TypeOK, QueueTypeOK, ThreadTypeOK
      <4>2. MainTypeOK'
        BY <3>1 DEF TypeOK, MainTypeOK, MainStates
      <4>3. QED
        BY <4>1, <4>2 DEF TypeOK
    <3>3. Packets'
      BY <3>1 DEF InOrder, Balance, EofIsFinal, NoPacketLeaked, Held
    <3>4. Control'
      BY <3>1 DEF EndedSetsError, SendersRun, QueuesLive, Created, NoUseAfterFree, Position,
         Drained, NoMissedWakeup, SendBlocked
    <3>5. QED
      BY <3>2, <3>3, <3>4
  <2>11. CASE ResetEagain
    <3>1. TypeOK'
      BY <2>11 DEF TypeOK, QueueTypeOK, ThreadTypeOK, MainTypeOK, ThreadStates, MainStates,
         ResetEagain, queueVars, threadVars, mainVars, RecvBlocked, SendBlocked
    <3>2. Packets'
      BY <2>11 DEF InOrder, Balance, EofIsFinal, NoPacketLeaked, Held, TypeOK, QueueTypeOK,
         ThreadTypeOK, MainTypeOK, ResetEagain, queueVars, threadVars, mainVars, EndedSetsError
    <3>3. Control'
      BY <2>11 DEF EndedSetsError, SendersRun, QueuesLive, Created, NoUseAfterFree,
         Position, Drained, NoMissedWakeup, SendBlocked, RecvBlocked, TypeOK, QueueTypeOK,
         ThreadTypeOK, MainTypeOK, ResetEagain, queueVars, threadVars, mainVars, RecvError,
         Drained
    <3>4. QED
      BY <3>1, <3>2, <3>3
  <2>12. CASE OutputFinishes
    <3>1. TypeOK'
      BY <2>12 DEF TypeOK, QueueTypeOK, ThreadTypeOK, MainTypeOK, ThreadStates, MainStates,
         OutputFinishes, queueVars, threadVars, mainVars, RecvBlocked, SendBlocked
    <3>2. Packets'
      BY <2>12 DEF InOrder, Balance, EofIsFinal, NoPacketLeaked, Held, TypeOK, QueueTypeOK,
         ThreadTypeOK, MainTypeOK, OutputFinishes, queueVars, threadVars, mainVars,
         EndedSetsError
    <3>3. Control'
      BY <2>12 DEF EndedSetsError, SendersRun, QueuesLive, Created, NoUseAfterFree,
         Position, Drained, NoMissedWakeup, SendBlocked, RecvBlocked, TypeOK, QueueTypeOK,
         ThreadTypeOK, MainTypeOK, OutputFinishes, queueVars, threadVars, mainVars, RecvError,
         Drained
    <3>4. QED
      BY <3>1, <3>2, <3>3
  <2>13. CASE LeaveLoop
    <3>1. /\ mpc = "loop" /\ mpc' = "freeing" /\ cur' = 1
          /\ UNCHANGED <<fifo, errSend, errRecv, pc, nonblock, read, queue, eagain, eof, finished,
                         taken, leaked>>
      BY <2>13 DEF LeaveLoop, queueVars, threadVars
    <3>2. TypeOK'
      <4>1. QueueTypeOK' /\ ThreadTypeOK'
        BY <3>1 DEF TypeOK, QueueTypeOK, ThreadTypeOK
      <4>2. MainTypeOK'
        BY <3>1 DEF TypeOK, MainTypeOK, MainStates
      <4>3. QED
        BY <4>1, <4>2 DEF TypeOK
    <3>3. Packets'
      BY <3>1 DEF InOrder, Balance, EofIsFinal, NoPacketLeaked, Held
    <3>4. Control'
      BY <3>1 DEF EndedSetsError, SendersRun, QueuesLive, Created, NoUseAfterFree, Position,
         Drained, NoMissedWakeup, SendBlocked
    <3>5. QED
      BY <3>2, <3>3, <3>4
  <2>14. CASE TakePacket
    <3>1. /\ mpc = "recv" /\ cur \in Files /\ fifo[cur] # <<>>
          /\ ReadPacket(cur) /\ WakeSender(cur)
          /\ taken' = [taken EXCEPT ![cur] = @ + 1]
          /\ mpc' = "loop" /\ eagain' = {}
          /\ UNCHANGED <<errSend, errRecv, nonblock, read, queue, cur, eof, finished, leaked>>
      BY <2>14 DEF TakePacket, Position
    <3>2. eagain' \subseteq Files
      BY <3>1
    <3>3. QED
      BY <3>1, <3>2, PopStep
  <2>15. CASE TakeEof
    <3>1. /\ mpc = "recv" /\ cur \in Files /\ RecvError(cur)
          /\ mpc' = "loop" /\ eof' = eof \cup {cur}
          /\ UNCHANGED <<fifo, errSend, errRecv, pc, nonblock, read, queue, cur, eagain,
                         finished, taken, leaked>>
      BY <2>15 DEF TakeEof, Position, queueVars, threadVars
    <3>2. TypeOK'
      BY <3>1 DEF TypeOK, QueueTypeOK, ThreadTypeOK, MainTypeOK, MainStates
    <3>3. taken[cur] = read[cur]
      <4>1. ~errSend[cur] /\ Len(fifo[cur]) = 0 /\ Held(cur) = 0
        BY <3>1 DEF SendersRun, RecvError, EndedSetsError, Held
      <4>2. QED
        BY <3>1, <4>1 DEF Balance, TypeOK, MainTypeOK
    <3>4. Packets'
      BY <3>1, <3>3 DEF InOrder, Balance, EofIsFinal, NoPacketLeaked, Held, RecvError
    <3>5. Control'
      BY <3>1 DEF EndedSetsError, SendersRun, QueuesLive, Created, NoUseAfterFree, Position,
         Drained, NoMissedWakeup, SendBlocked
    <3>6. QED
      BY <3>2, <3>4, <3>5
  <2>16. CASE TakeNothing
    <3>1. TypeOK'
      BY <2>16 DEF TypeOK, QueueTypeOK, ThreadTypeOK, MainTypeOK, ThreadStates, MainStates,
         TakeNothing, queueVars, threadVars, mainVars, RecvBlocked, SendBlocked
    <3>2. Packets'
      BY <2>16 DEF InOrder, Balance, EofIsFinal, NoPacketLeaked, Held, TypeOK, QueueTypeOK,
         ThreadTypeOK, MainTypeOK, TakeNothing, queueVars, threadVars, mainVars, EndedSetsError
    <3>3. Control'
      BY <2>16 DEF EndedSetsError, SendersRun, QueuesLive, Created, NoUseAfterFree,
         Position, Drained, NoMissedWakeup, SendBlocked, RecvBlocked, TypeOK, QueueTypeOK,
         ThreadTypeOK, MainTypeOK, TakeNothing, queueVars, threadVars, mainVars, RecvError,
         Drained
    <3>4. QED
      BY <3>1, <3>2, <3>3
  <2>17. CASE ReceiverWakesUp
    <3>1. TypeOK'
      BY <2>17 DEF TypeOK, QueueTypeOK, ThreadTypeOK, MainTypeOK, ThreadStates, MainStates,
         ReceiverWakesUp, queueVars, threadVars, mainVars, RecvBlocked, SendBlocked
    <3>2. Packets'
      BY <2>17 DEF InOrder, Balance, EofIsFinal, NoPacketLeaked, Held, TypeOK, QueueTypeOK,
         ThreadTypeOK, MainTypeOK, ReceiverWakesUp, queueVars, threadVars, mainVars,
         EndedSetsError
    <3>3. Control'
      BY <2>17 DEF EndedSetsError, SendersRun, QueuesLive, Created, NoUseAfterFree,
         Position, Drained, NoMissedWakeup, SendBlocked, RecvBlocked, TypeOK, QueueTypeOK,
         ThreadTypeOK, MainTypeOK, ReceiverWakesUp, queueVars, threadVars, mainVars, RecvError,
         Drained
    <3>4. QED
      BY <3>1, <3>2, <3>3
  <2>18. CASE FreeNext
    <3>1. /\ mpc = "freeing" /\ mpc' \in {"end", "freeing", "draining"}
          /\ UNCHANGED <<fifo, errRecv, nonblock, read, queue, eagain, eof, finished, taken, leaked>>
      BY <2>18 DEF FreeNext
    <3>2. CASE cur > NumFiles /\ mpc' = "end" /\ UNCHANGED <<cur, errSend, pc>>
      <4>1. TypeOK'
        BY <3>1, <3>2 DEF TypeOK, QueueTypeOK, ThreadTypeOK, MainTypeOK, MainStates
      <4>2. Packets'
        BY <3>1, <3>2 DEF InOrder, Balance, EofIsFinal, NoPacketLeaked, Held
      <4>3. Control'
        BY <3>1, <3>2 DEF EndedSetsError, SendersRun, QueuesLive, Created, NoUseAfterFree,
           Position, Drained, NoMissedWakeup, SendBlocked
      <4>4. QED
        BY <4>1, <4>2, <4>3
    <3>3. CASE cur <= NumFiles /\ cur' = cur + 1 /\ UNCHANGED <<mpc, errSend, pc>>
      <4>1. TypeOK'
        <5>1. QueueTypeOK' /\ ThreadTypeOK'
          BY <3>1, <3>3 DEF TypeOK, QueueTypeOK, ThreadTypeOK
        <5>2. MainTypeOK'
          BY <3>1, <3>3 DEF TypeOK, MainTypeOK
        <5>3. QED
          BY <5>1, <5>2 DEF TypeOK
      <4>2. Packets'
        BY <3>1, <3>3 DEF InOrder, Balance, EofIsFinal, NoPacketLeaked, Held
      <4>3. Control'
        BY <3>1, <3>3 DEF EndedSetsError, SendersRun, QueuesLive, Created, NoUseAfterFree,
           Position, Drained, NoMissedWakeup, SendBlocked
      <4>4. QED
        BY <4>1, <4>2, <4>3
    <3>4. CASE /\ cur <= NumFiles /\ queue[cur] /\ mpc' = "draining"
               /\ SetErrSend(cur) /\ WakeSender(cur) /\ UNCHANGED cur
      <4>1. /\ cur \in Files /\ errSend' = [errSend EXCEPT ![cur] = TRUE]
            /\ WakeSender(cur) /\ ThreadTypeOK
        BY <3>4 DEF SetErrSend, TypeOK, MainTypeOK
      <4>2. TypeOK'
        <5>1. QueueTypeOK'
          BY <3>1, <4>1 DEF TypeOK, QueueTypeOK
        <5>2. ThreadTypeOK'
          BY <3>1, <4>1, WakeSenderEffect DEF ThreadTypeOK
        <5>3. MainTypeOK'
          BY <3>1, <3>4 DEF TypeOK, MainTypeOK, MainStates
        <5>4. QED
          BY <5>1, <5>2, <5>3 DEF TypeOK
      <4>3. Packets'
        <5>1. Balance'
          BY <3>1, <4>1, WakeSenderEffect DEF Balance, TypeOK, QueueTypeOK
        <5>2. QED
          BY <3>1, <5>1 DEF InOrder, EofIsFinal, NoPacketLeaked
      <4>4. EndedSetsError' /\ SendersRun'
        BY <3>1, <3>4, <4>1, WakeSenderEffect DEF EndedSetsError, SendersRun
      <4>5. QueuesLive' /\ Position' /\ Drained'
        BY <3>1, <3>4, <4>1, WakeSenderEffect
           DEF QueuesLive, Created, NoUseAfterFree, Position, Drained
      <4>6. NoMissedWakeup'
        BY <3>1, <3>4, <4>1, WakeSenderEffect DEF NoMissedWakeup, SendBlocked, TypeOK, QueueTypeOK
      <4>7. QED
        BY <4>2, <4>3, <4>4, <4>5, <4>6
    <3>5. QED
      BY <2>18, <3>2, <3>3, <3>4 DEF FreeNext
  <2>19. CASE Drain
    <3>1. /\ mpc = "draining" /\ cur \in Files
          /\ UNCHANGED <<errSend, errRecv, nonblock, read, queue, cur, eagain, eof, finished, leaked>>
      BY <2>19 DEF Drain, Position
    <3>2. CASE /\ fifo[cur] # <<>> /\ ReadPacket(cur) /\ WakeSender(cur)
               /\ taken' = [taken EXCEPT ![cur] = @ + 1] /\ UNCHANGED mpc
      <4>1. eagain' \subseteq Files
        BY <3>1 DEF TypeOK, MainTypeOK
      <4>2. QED
        BY <3>1, <3>2, <4>1, PopStep
    <3>3. CASE /\ UNCHANGED <<fifo, pc, taken>>
               /\ \/ RecvBlocked(cur) /\ mpc' = "drainwait"
                  \/ RecvError(cur) /\ mpc' = "joining"
      <4>1. TypeOK'
        BY <3>1, <3>3 DEF TypeOK, QueueTypeOK, ThreadTypeOK, MainTypeOK, MainStates
      <4>2. Packets'
        BY <3>1, <3>3 DEF InOrder, Balance, EofIsFinal, NoPacketLeaked, Held
      <4>3. Control'
        BY <3>1, <3>3 DEF EndedSetsError, SendersRun, QueuesLive, Created, NoUseAfterFree,
           Position, Drained, NoMissedWakeup, SendBlocked, RecvBlocked, RecvError
      <4>4. QED
        BY <4>1, <4>2, <4>3
    <3>4. QED
      BY <2>19, <3>2, <3>3 DEF Drain
  <2>20. CASE Join
    <3>1. /\ mpc = "joining" /\ cur \in Files /\ pc[cur] = "done" /\ mpc' = "freeing"
          /\ cur' = cur + 1 /\ queue' = [queue EXCEPT ![cur] = FALSE]
          /\ UNCHANGED <<errSend, errRecv, pc, nonblock, read, eagain, eof, finished, taken>>
      BY <2>20 DEF Join, Position, threadVars
    <3>2. fifo' = fifo /\ leaked' = leaked
      <4>1. fifo[cur] = <<>> /\ Len(fifo[cur]) = 0
        BY <3>1 DEF Drained
      <4>2. fifo' = [fifo EXCEPT ![cur] = <<>>] /\ leaked' = [leaked EXCEPT ![cur] = @ + Len(fifo[cur])]
        BY <2>20 DEF Join, QueueFree
      <4>3. fifo' = fifo
        BY <3>1, <4>1, <4>2 DEF TypeOK, QueueTypeOK
      <4>4. leaked[cur] + 0 = leaked[cur]
        BY <3>1 DEF TypeOK, MainTypeOK
      <4>5. leaked' = leaked
        BY <3>1, <4>1, <4>2, <4>4 DEF TypeOK, MainTypeOK
      <4>6. QED
        BY <4>3, <4>5
    <3>3. TypeOK'
      <4>1. QueueTypeOK' /\ ThreadTypeOK'
        BY <3>1, <3>2 DEF TypeOK, QueueTypeOK, ThreadTypeOK
      <4>2. MainTypeOK'
        BY <3>1, <3>2 DEF TypeOK, MainTypeOK, MainStates
      <4>3. QED
        BY <4>1, <4>2 DEF TypeOK
    <3>4. Packets'
      BY <3>1, <3>2 DEF InOrder, Balance, EofIsFinal, NoPacketLeaked, Held
    <3>5. Control'
      BY <3>1, <3>2 DEF EndedSetsError, SendersRun, QueuesLive, Created, NoUseAfterFree, Position,
         Drained, NoMissedWakeup, SendBlocked, TypeOK, ThreadTypeOK
    <3>6. QED
      BY <3>3, <3>4, <3>5
  <2>21. CASE UNCHANGED vars
    <3>1. TypeOK'
      BY <2>21 DEF TypeOK, QueueTypeOK, ThreadTypeOK, MainTypeOK, vars, queueVars,
         threadVars, mainVars
    <3>2. Packets'
      BY <2>21 DEF InOrder, Balance, EofIsFinal, NoPacketLeaked, Held, vars, queueVars,
         threadVars, mainVars
    <3>3. Control'
      BY <2>21 DEF EndedSetsError, SendersRun, QueuesLive, Created, NoUseAfterFree,
         Position, Drained, NoMissedWakeup, SendBlocked, RecvBlocked, vars, queueVars,
         threadVars, mainVars
    <3>4. QED
      BY <3>1, <3>2, <3>3
  <2>22. ASSUME NEW f \in Files, ThreadCrashes(f) PROVE IInv'
    <3>1. /\ mpc' = "crashed"
          /\ UNCHANGED <<fifo, errSend, errRecv, pc, nonblock, read, queue, cur, eagain, eof,
                         finished, taken, leaked>>
      BY <2>22 DEF ThreadCrashes, queueVars, threadVars
    <3>2. TypeOK'
      BY <3>1 DEF TypeOK, QueueTypeOK, ThreadTypeOK, MainTypeOK, MainStates
    <3>3. Packets'
      BY <3>1 DEF InOrder, Balance, EofIsFinal, NoPacketLeaked, Held
    <3>4. Control'
      BY <3>1 DEF EndedSetsError, SendersRun, QueuesLive, Created, NoUseAfterFree, Position,
         Drained, NoMissedWakeup, SendBlocked
    <3>5. QED
      BY <3>2, <3>3, <3>4
  <2>23. CASE ReceiveCrashes
    <3>1. /\ mpc' = "crashed"
          /\ UNCHANGED <<fifo, errSend, errRecv, pc, nonblock, read, queue, cur, eagain, eof,
                         finished, taken, leaked>>
      BY <2>23 DEF ReceiveCrashes, queueVars, threadVars
    <3>2. TypeOK'
      BY <3>1 DEF TypeOK, QueueTypeOK, ThreadTypeOK, MainTypeOK, MainStates
    <3>3. Packets'
      BY <3>1 DEF InOrder, Balance, EofIsFinal, NoPacketLeaked, Held
    <3>4. Control'
      BY <3>1 DEF EndedSetsError, SendersRun, QueuesLive, Created, NoUseAfterFree, Position,
         Drained, NoMissedWakeup, SendBlocked
    <3>5. QED
      BY <3>2, <3>3, <3>4
  <2>24. QED
    BY <2>1, <2>2, <2>3, <2>4, <2>5, <2>6, <2>7, <2>8, <2>9, <2>10, <2>11,
       <2>12, <2>13, <2>14, <2>15, <2>16, <2>17, <2>18, <2>19, <2>20, <2>21, <2>22, <2>23
       DEF Next, Loop, Shutdown, ThreadStep, Joined
<1>3. QED
  BY <1>1, <1>2, PTL DEF Spec

\* Type correctness; a queue never holds more than Capacity packets.
THEOREM InputThreadsTypes == Spec => []TypeOK
<1>1. IInv => TypeOK
  BY DEF IInv
<1>2. QED
  BY <1>1, InputThreadsInvariant, PTL

\* No packet is lost, repeated or reordered between av_read_frame and
\* process_input, whatever the queue size and the interleaving.
THEOREM InputThreadsInOrder == Spec => []InOrder
<1>1. IInv => InOrder
  BY DEF IInv, Packets
<1>2. QED
  BY <1>1, InputThreadsInvariant, PTL

\* The end of a file is seen only after all its packets.
THEOREM InputThreadsEof == Spec => []EofAfterAll
<1>1. IInv => EofAfterAll
  BY DEF IInv, Packets, EofIsFinal, EofAfterAll
<1>2. QED
  BY <1>1, InputThreadsInvariant, PTL

\* No thread uses a queue that was freed.
THEOREM InputThreadsFree == Spec => []NoUseAfterFree
<1>1. IInv => NoUseAfterFree
  BY DEF IInv, Control, QueuesLive
<1>2. QED
  BY <1>1, InputThreadsInvariant, PTL

\* No packet is left in a freed queue.
THEOREM InputThreadsLeak == Spec => []NoPacketLeaked
<1>1. IInv => NoPacketLeaked
  BY DEF IInv, Packets
<1>2. QED
  BY <1>1, InputThreadsInvariant, PTL

\* No thread sleeps on a condition that already holds: the queue cannot
\* deadlock for want of a signal.
THEOREM InputThreadsWakeup == Spec => []NoMissedWakeup
<1>1. IInv => NoMissedWakeup
  BY DEF IInv, Control
<1>2. QED
  BY <1>1, InputThreadsInvariant, PTL

==============================================================================
