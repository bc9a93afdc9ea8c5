------------------------------ MODULE Logging -------------------------------
(***************************************************************************)
(* Logs that main code and handlers write and main code dumps to the UART  *)
(* (logging/logging.c, logging/log_to_buffer.c, LOG_TYPE_BUFFER).          *)
(*                                                                         *)
(* A byte is <<message, position>>.  The ring buffer is lwrb (external): a *)
(* write and a read look at the two indices first, copy what fits or what  *)
(* is there, and store their own index at the end.  Writers are in a       *)
(* critical section, the reader is not.  Time stamps and formatting happen *)
(* in a buffer of the caller and are left out; messages are no longer than *)
(* that buffer (512 bytes).                                                *)
(***************************************************************************)
EXTENDS CriticalSection

CONSTANTS
  LOG_BUFFER_SIZE,
  Filters,      \* the [ids, level] that LOG_FILTER_IDS and LOG_LEVEL are set to
  Prios, Ids,   \* of the messages logged with log_if
  Sizes,        \* the lengths of the messages
  MaxMessages   \* bound on the messages that pass the filter

NoLevel == 255  \* log_prio is a uint8_t and never above it

ASSUME LoggingAssumption ==
  /\ LOG_BUFFER_SIZE \in Nat \ {0} /\ Sizes \subseteq Nat /\ MaxMessages \in Nat
  /\ Ids \subseteq Nat /\ Prios \subseteq 0..NoLevel
  /\ Filters \subseteq [ids : Seq(Nat), level : 0..NoLevel]

VARIABLES
  filter,    \* the filter of this build
  jobs,      \* what each frame is doing
  buf, w, r, \* lwrb_buffer and log_buffer
  out,       \* what went to the UART
  messages,  \* how many messages passed the filter
  logged     \* the bytes of them that fitted, in the order written

log_vars == <<filter, jobs, buf, w, r, out, messages, logged>>
vars == <<section_vars, log_vars>>

Idle == [pc |-> "idle", msg |-> 0, size |-> 0, n |-> 0, from |-> 0, chunk |-> <<>>]
Job == jobs[Top]

Slots == 0..LOG_BUFFER_SIZE
Full == (w - r) % (LOG_BUFFER_SIZE + 1)
Free == LOG_BUFFER_SIZE - Full
Least(a, b) == IF a <= b THEN a ELSE b

Text(msg, n) == [k \in 1..n |-> <<msg, k>>]
Content(from, n) == [k \in 1..n |-> buf[(from + k - 1) % (LOG_BUFFER_SIZE + 1)]]

LogInit ==
  /\ SectionInit
  /\ filter \in Filters
  /\ jobs = <<Idle>>
  /\ buf = [s \in Slots |-> <<0, 0>>] /\ w = 0 /\ r = 0
  /\ out = <<>> /\ messages = 0 /\ logged = <<>>

Working(pc) == InCode /\ Job.pc = pc
Go(pc) == jobs' = [jobs EXCEPT ![Top].pc = pc]

-----------------------------------------------------------------------------
(* log_if returns at the first identifier that differs from the message's, *)
(* with the level looked at on the way; without identifiers, at the level. *)
(* (So with two identifiers in the filter it returns for every message.)   *)
Returns(prio, id) ==
  IF filter.ids # <<>>
  THEN \E i \in DOMAIN filter.ids : id # filter.ids[i] \/ prio > filter.level
  ELSE prio > filter.level

(* The message is formatted and handed to _write.                          *)
Write(size) ==
  /\ messages < MaxMessages
  /\ messages' = messages + 1
  /\ jobs' = [jobs EXCEPT ![Top] = [Idle EXCEPT !.pc = "write", !.msg = messages + 1,
                                                 !.size = size]]
  /\ UNCHANGED <<section_vars, filter, buf, w, r, out, logged>>

log_if(prio, id, size) ==
  /\ Working("idle") /\ Running.depth < MaxDepth
  /\ \/ /\ Returns(prio, id)
        /\ UNCHANGED <<section_vars, filter, jobs, buf, w, r, out, messages, logged>>
     \/ ~Returns(prio, id) /\ Write(size)

(* LOG: no filter.                                                         *)
_log(size) ==
  Working("idle") /\ Running.depth < MaxDepth /\ Write(size)

(* Mutant: the write is not in a section.                                  *)
WriteUnprotected ==
  /\ Working("write")
  /\ Go("reserve")
  /\ UNCHANGED <<section_vars, filter, buf, w, r, out, messages, logged>>

(* _write_to_buffer, vlog_to_buffer: enter, write, exit.                   *)
WriteEnters ==
  /\ Working("write") /\ EnterDisables /\ Go("reserve")
  /\ UNCHANGED <<filter, buf, w, r, out, messages, logged>>

LwrbReserves ==
  /\ Working("reserve")
  /\ jobs' = [jobs EXCEPT ![Top].pc = "copy", ![Top].from = w,
                          ![Top].n = Least(Job.size, Free)]
  /\ UNCHANGED <<section_vars, filter, buf, w, r, out, messages, logged>>

LwrbWrites ==
  /\ Working("copy")
  /\ buf' = [s \in Slots |->
       LET k == ((s - Job.from) % (LOG_BUFFER_SIZE + 1)) + 1 IN
       IF k <= Job.n THEN <<Job.msg, k>> ELSE buf[s]]
  /\ w' = (Job.from + Job.n) % (LOG_BUFFER_SIZE + 1)
  /\ logged' = logged \o Text(Job.msg, Job.n)
  /\ jobs' = [jobs EXCEPT ![Top] = [Idle EXCEPT !.pc = "written"]]
  /\ UNCHANGED <<section_vars, filter, r, out, messages>>

WriteLeaves ==
  /\ Working("written") /\ ExitCounts /\ Go("idle")
  /\ UNCHANGED <<filter, buf, w, r, out, messages, logged>>

-----------------------------------------------------------------------------
(* log_to_buffer_dump_to_uart: num_log_bytes_ready is read, then up to     *)
(* sizeof(uint16_t) bytes are moved at a time until the buffer is empty.   *)
NumReady(pc) == jobs' = [jobs EXCEPT ![Top].pc = pc, ![Top].size = Full]

DumpStarts ==
  /\ Top = 1 /\ Working("idle") /\ Running.depth = 0
  /\ NumReady("dump")
  /\ UNCHANGED <<section_vars, filter, buf, w, r, out, messages, logged>>

(* Mutant: only whole uint16_t are read.                                   *)
LwrbReadsPairs ==
  /\ Working("dump") /\ Job.size > 0
  /\ LET n == IF Full >= 2 THEN 2 ELSE 0 IN
       jobs' = [jobs EXCEPT ![Top].pc = "advance", ![Top].n = n,
                            ![Top].chunk = Content(r, n)]
  /\ UNCHANGED <<section_vars, filter, buf, w, r, out, messages, logged>>

LwrbReads ==
  /\ Working("dump") /\ Job.size > 0
  /\ LET n == Least(Least(Job.size, 2), Full) IN
       jobs' = [jobs EXCEPT ![Top].pc = "advance", ![Top].n = n,
                            ![Top].chunk = Content(r, n)]
  /\ UNCHANGED <<section_vars, filter, buf, w, r, out, messages, logged>>

LwrbAdvances ==
  /\ Working("advance")
  /\ r' = (r + Job.n) % (LOG_BUFFER_SIZE + 1)
  /\ Go("send")
  /\ UNCHANGED <<section_vars, filter, buf, w, out, messages, logged>>

UART1_SendString ==
  /\ Working("send")
  /\ out' = out \o Job.chunk
  /\ jobs' = [jobs EXCEPT ![Top] = [Idle EXCEPT !.pc = "ask"]]
  /\ UNCHANGED <<section_vars, filter, buf, w, r, messages, logged>>

(* The condition of the do-while.                                          *)
DumpAsks ==
  /\ Working("ask") \/ (Working("dump") /\ Job.size = 0)
  /\ \/ Full > 0 /\ NumReady("dump")
     \/ Full = 0 /\ jobs' = [jobs EXCEPT ![Top] = Idle]
  /\ UNCHANGED <<section_vars, filter, buf, w, r, out, messages, logged>>

-----------------------------------------------------------------------------
(* Other sections of the same code: the pools, hspi_send, set_next_task... *)
SectionEnters == Working("idle") /\ EnterDisables /\ UNCHANGED log_vars
SectionLeaves == Working("idle") /\ ExitCounts /\ UNCHANGED log_vars

Preempted == Interrupt /\ jobs' = Append(jobs, Idle)
             /\ UNCHANGED <<filter, buf, w, r, out, messages, logged>>
Resumed == Working("idle") /\ HandlerReturns /\ jobs' = SubSeq(jobs, 1, Top - 1)
           /\ UNCHANGED <<filter, buf, w, r, out, messages, logged>>

(* What code that has begun goes on to do.                                 *)
Progress ==
  \/ EnterCounts /\ UNCHANGED log_vars
  \/ ExitEnables /\ UNCHANGED log_vars
  \/ WriteEnters \/ LwrbReserves \/ LwrbWrites \/ WriteLeaves
  \/ LwrbReads \/ LwrbAdvances \/ UART1_SendString \/ DumpAsks
  \/ SectionLeaves

Next ==
  \/ \E prio \in Prios, id \in Ids, size \in Sizes : log_if(prio, id, size)
  \/ \E size \in Sizes : _log(size)
  \/ DumpStarts \/ SectionEnters \/ Preempted \/ Resumed
  \/ Progress

(* Code goes on, sections end, handlers return, and main code calls        *)
(* LOG_DUMP in its loop.                                                   *)
Spec == /\ LogInit /\ [][Next]_vars
        /\ WF_vars(Progress) /\ SF_vars(SectionLeaves /\ Running.depth = 1)
        /\ SF_vars(Resumed) /\ SF_vars(DumpStarts)

-----------------------------------------------------------------------------
(* Main code that dumps, the handlers that preempt it and the messages     *)
(* they write leave each other's bytes alone: what was dumped, what the    *)
(* dump holds and what lies in the ring are the messages in the order      *)
(* written, each whole or cut where the ring was full (_write_to_buffer,   *)
(* log_to_buffer_dump_to_uart).                                            *)
Pending == (IF jobs[1].pc = "send" THEN jobs[1].chunk ELSE <<>>) \o Content(r, Full)
LogsInOrder == out \o Pending = logged

(* What is written reaches the UART, however the dump is preempted.        *)
EverythingDumped == Full > 0 ~> Full = 0
=============================================================================
