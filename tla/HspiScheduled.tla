--------------------------- MODULE HspiScheduled ---------------------------
(***************************************************************************)
(* hspi_scheduled.c over the pools and the queue it composes: the receive  *)
(* interrupt hands DMA buffers to user code through the interrupt queue,   *)
(* user code sends buffers through the same queue, and the RAMX buffers    *)
(* (memory/ramx_alloc.h) and argument slots (memory/pool.h) travel along.  *)
(*                                                                         *)
(* Each call of a pool or of the queue is one critical section, hence one  *)
(* step; the interrupt comes between any two of them.  All HSPI buffers    *)
(* have hspi_packet_size bytes, so a buffer is one unit of the RAMX pool   *)
(* and first fit takes the lowest free one.  The DMA engine writes packets *)
(* to the two receive buffers in turn, whatever the processor does.        *)
(***************************************************************************)
EXTENDS Integers, Sequences, FiniteSets, FiniteSetsExt

CONSTANTS
  BufNum,      \* buffers of hspi_packet_size in the RAMX pool
  ArgNum,      \* HSPI_MAX_SCHEDULED, the size of hspi_arg_pool
  QueueSize,   \* INTERRUPT_QUEUE_SIZE
  MaxRx,       \* bound on the packets that arrive
  MaxTx,       \* bound on the calls of hspi_send
  MaxOther,    \* bound on other drivers' tasks and calls of hspi_reinit_buffers together
  UserFrees    \* the receive callback frees its buffer

Buf == 0..(BufNum - 1)
Arg == 0..(ArgNum - 1)
Dma == {0, 1}
NULL == -1

ASSUME HspiAssumption ==
  /\ BufNum \in Nat /\ BufNum >= 4 /\ ArgNum \in Nat /\ ArgNum >= 1
  /\ QueueSize \in Nat /\ QueueSize >= 1
  /\ {MaxRx, MaxTx, MaxOther} \subseteq Nat
  /\ UserFrees \in BOOLEAN

VARIABLES
  refs,       \* refs[b]: blocks_reference_counter of buffer b, 0 when it is free
  content,    \* content[b]: the packet or message buffer b holds, 0 for none
  used, args, \* hspi_arg_pool: pool_manager and the buffer of each member
  queue,      \* task_queue
  rx_buffer,  \* hspi_rx_buffer_0/1, also in R32_HSPI_RX_ADDR0/1
  tx_buffer,  \* hspi_tx_buffer_0/1
  rx_tog,     \* RB_HSPI_RX_TOG: the DMA the next packet goes to
  r_done,     \* RB_HSPI_IF_R_DONE
  rx_err,     \* RB_HSPI_CRC_ERR or RB_HSPI_NUM_MIS
  isr,        \* "none", or "ack" when the handler has cleared its flag
  main,       \* where user code is: [pc, task, arg, src, new, then]
  arrived,    \* number of packets that arrived
  delivered,  \* what the receive callback was given, in order
  accepted,   \* what hspi_send queued, in order
  sent,       \* what was transmitted, in order
  mishap,     \* a packet came too early, a pool or the queue was short, or all was reinitialised
  budget      \* what is left of the bounds on user calls

poolvars == <<refs, content, used, args>>
hwvars == <<rx_tog, r_done, rx_err, arrived>>
logvars == <<delivered, accepted, sent, mishap>>
vars == <<refs, content, used, args, queue, rx_buffer, tx_buffer, rx_tog, r_done, rx_err,
          isr, main, arrived, delivered, accepted, sent, mishap, budget>>

-----------------------------------------------------------------------------
(* ramx_pool_alloc_bytes(hspi_packet_size): the first free buffer, or NULL *)
ramx_alloc(rf) ==
  LET free == {b \in Buf : rf[b] = 0} IN IF free = {} THEN NULL ELSE Min(free)

Owned(rf, b) == IF b = NULL THEN rf ELSE [rf EXCEPT ![b] = @ + 1]

(* Freeing NULL or a buffer that is already free does nothing.             *)
ramx_pool_free(rf, b) ==
  IF b = NULL \/ rf[b] = 0 THEN rf ELSE [rf EXCEPT ![b] = @ - 1]

(* Mutant: the members in use are not skipped.                             *)
PoolGetAny(us) == Min(Arg)

hydra_pool_get(us) ==
  LET free == {a \in Arg : ~us[a]} IN IF free = {} THEN NULL ELSE Min(free)

(* hydra_interrupt_queue_set_next_task; no caller looks at what it returns *)
set_next_task(q, task) == IF Len(q) < QueueSize THEN Append(q, task) ELSE q

Idle == [pc |-> "idle", task |-> "none", arg |-> NULL, src |-> NULL,
         new |-> NULL, then |-> "idle"]

(* hspi_init on a fresh pool: two receive and two transmit buffers.        *)
Init ==
  /\ refs = [b \in Buf |-> IF b < 4 THEN 1 ELSE 0]
  /\ content = [b \in Buf |-> 0]
  /\ used = [a \in Arg |-> FALSE]
  /\ args = [a \in Arg |-> NULL]
  /\ queue = <<>>
  /\ rx_buffer = [d \in Dma |-> d]
  /\ tx_buffer = [d \in Dma |-> d + 2]
  /\ rx_tog = 0 /\ r_done = FALSE /\ rx_err = FALSE
  /\ isr = "none" /\ main = Idle
  /\ arrived = 0
  /\ delivered = <<>> /\ accepted = <<>> /\ sent = <<>>
  /\ mishap = FALSE
  /\ budget = [tx |-> MaxTx, other |-> MaxOther]

-----------------------------------------------------------------------------
(* The hardware: a packet is stored through the next DMA address, the      *)
(* toggle moves on and the interrupt is raised, perhaps before the handler *)
(* is through with the packet before.                                      *)
DmaReceive(bad) ==
  LET b == rx_buffer[rx_tog] IN
  /\ arrived < MaxRx
  /\ arrived' = arrived + 1
  /\ content' = IF b = NULL THEN content ELSE [content EXCEPT ![b] = arrived + 1]
  /\ rx_tog' = 1 - rx_tog
  /\ r_done' = TRUE /\ rx_err' = bad
  /\ mishap' = (mishap \/ r_done \/ isr # "none")
  /\ UNCHANGED <<refs, used, args, queue, rx_buffer, tx_buffer, isr, main, delivered, accepted,
                 sent, budget>>

(* HSPI_IRQHandler clears RB_HSPI_IF_R_DONE first.                         *)
HSPI_IRQHandler ==
  /\ r_done /\ isr = "none"
  /\ r_done' = FALSE /\ isr' = "ack"
  /\ UNCHANGED <<poolvars, queue, rx_buffer, tx_buffer, rx_tog, rx_err, main, arrived,
                 logvars, budget>>

(* Mutant: the DMA the toggle points to is taken for the filled one.       *)
FilledDmaSwapped(tog) == tog

(* RX_TOG set: the packet is in buffer 0.                                  *)
FilledDma(tog) == 1 - tog

(* A packet without error: an argument slot and a task, if there is a      *)
(* slot; the DMA gets a new buffer in any case.                            *)
IrqPacket ==
  LET d == FilledDma(rx_tog)
      a == hydra_pool_get(used)
      b == ramx_alloc(refs)
  IN
  /\ isr = "ack" /\ ~rx_err
  /\ \/ /\ a # NULL
        /\ used' = [used EXCEPT ![a] = TRUE]
        /\ args' = [args EXCEPT ![a] = rx_buffer[d]]
        /\ queue' = set_next_task(queue, [task |-> "rx", arg |-> a])
     \/ /\ a = NULL
        /\ UNCHANGED <<used, args, queue>>
  /\ refs' = Owned(refs, b)
  /\ rx_buffer' = [rx_buffer EXCEPT ![d] = b]
  /\ mishap' = (mishap \/ a = NULL \/ b = NULL \/ Len(queue) = QueueSize)
  /\ isr' = "none"
  /\ UNCHANGED <<content, tx_buffer, hwvars, main, delivered, accepted, sent, budget>>

(* CRC error or packet number mismatch: the error callback only.           *)
IrqError ==
  /\ isr = "ack" /\ rx_err
  /\ isr' = "none"
  /\ UNCHANGED <<poolvars, queue, rx_buffer, tx_buffer, hwvars, main, logvars, budget>>

(* Another driver's interrupt queues a task of its own, without cleanup.   *)
OtherTask ==
  /\ isr = "none" /\ budget.other > 0
  /\ queue' = set_next_task(queue, [task |-> "other", arg |-> NULL])
  /\ budget' = [budget EXCEPT !.other = @ - 1]
  /\ UNCHANGED <<poolvars, rx_buffer, tx_buffer, hwvars, isr, main, logvars>>

-----------------------------------------------------------------------------
(* User code runs while no handler does.                                   *)
At(pc) == isr = "none" /\ main.pc = pc

(* hydra_interrupt_queue_run takes the oldest task; with free_all only its *)
(* cleanup is run.                                                         *)
hydra_interrupt_queue_run(first) ==
  /\ At("idle") /\ queue # <<>>
  /\ main' = IF Head(queue).task = "other" THEN Idle
             ELSE [Idle EXCEPT !.pc = first, !.task = Head(queue).task, !.arg = Head(queue).arg]
  /\ queue' = Tail(queue)
  /\ UNCHANGED <<poolvars, rx_buffer, tx_buffer, hwvars, isr, logvars, budget>>

(* _hspi_rx_callback: the user's callback sees the buffer, and may send it *)
(* on, or free it.                                                         *)
_hspi_rx_callback ==
  LET b == args[main.arg] IN
  /\ At("task") /\ main.task = "rx"
  /\ delivered' = Append(delivered, IF b = NULL THEN 0 ELSE content[b])
  /\ \/ /\ main' = [main EXCEPT !.pc = "cleanup"]
        /\ refs' = IF UserFrees THEN ramx_pool_free(refs, b) ELSE refs
        /\ UNCHANGED budget
     \/ /\ ~UserFrees /\ b # NULL /\ budget.tx > 0
        /\ main' = [main EXCEPT !.pc = "send", !.src = b, !.then = "cleanup"]
        /\ budget' = [budget EXCEPT !.tx = @ - 1]
        /\ UNCHANGED refs
  /\ UNCHANGED <<content, used, args, queue, rx_buffer, tx_buffer, hwvars, isr, accepted, sent, mishap>>

(* _hspi_send starts the DMA on the task's buffer ...                      *)
_hspi_send ==
  /\ At("task") /\ main.task = "send"
  /\ main' = [main EXCEPT !.pc = "t_done"]
  /\ UNCHANGED <<poolvars, queue, rx_buffer, tx_buffer, hwvars, isr, logvars, budget>>

(* ... and waits for RB_HSPI_IF_T_DONE.                                    *)
TransmitDone ==
  /\ At("t_done")
  /\ sent' = Append(sent, content[args[main.arg]])
  /\ main' = [main EXCEPT !.pc = "cleanup"]
  /\ UNCHANGED <<poolvars, queue, rx_buffer, tx_buffer, hwvars, isr, delivered, accepted,
                 mishap, budget>>

(* Mutant: the buffer is not given back.                                   *)
CleanupKeepsBuffer ==
  /\ At("cleanup")
  /\ main' = [main EXCEPT !.pc = "cleanup_args"]
  /\ UNCHANGED <<poolvars, queue, rx_buffer, tx_buffer, hwvars, isr, logvars, budget>>

(* _hspi_cleanup gives back the buffer, then the argument slot.            *)
_hspi_cleanup ==
  /\ At("cleanup")
  /\ refs' = ramx_pool_free(refs, args[main.arg])
  /\ main' = [main EXCEPT !.pc = "cleanup_args"]
  /\ UNCHANGED <<content, used, args, queue, rx_buffer, tx_buffer, hwvars, isr, logvars, budget>>

(* Mutant: the argument slot is not given back.                            *)
CleanupKeepsArgs ==
  /\ At("cleanup_args")
  /\ main' = Idle
  /\ UNCHANGED <<poolvars, queue, rx_buffer, tx_buffer, hwvars, isr, logvars, budget>>

CleanupArgs ==
  /\ At("cleanup_args")
  /\ used' = [used EXCEPT ![main.arg] = FALSE]
  /\ main' = Idle
  /\ UNCHANGED <<refs, content, args, queue, rx_buffer, tx_buffer, hwvars, isr, logvars, budget>>

(* hspi_send of memory outside the pool, from the main loop.               *)
CallSend ==
  /\ At("idle") /\ budget.tx > 0
  /\ main' = [main EXCEPT !.pc = "send", !.src = NULL, !.then = "idle"]
  /\ budget' = [budget EXCEPT !.tx = @ - 1]
  /\ UNCHANGED <<poolvars, queue, rx_buffer, tx_buffer, hwvars, isr, logvars>>

(* The end of hspi_send: back to the main loop, or to the cleanup of the   *)
(* task whose callback called it.                                          *)
Return == main' = IF main.then = "idle" THEN Idle
                  ELSE [main EXCEPT !.pc = main.then, !.src = NULL, !.new = NULL]

(* hspi_send: an argument slot, or false ...                               *)
SendGetArgs ==
  LET a == hydra_pool_get(used) IN
  /\ At("send")
  /\ \/ /\ a = NULL
        /\ Return
        /\ UNCHANGED used
     \/ /\ a # NULL
        /\ used' = [used EXCEPT ![a] = TRUE]
        /\ main' = [main EXCEPT !.pc = "send_buffer", !.new = a]
  /\ UNCHANGED <<refs, content, args, queue, rx_buffer, tx_buffer, hwvars, isr, logvars, budget>>

(* Mutant: a buffer of the pool is sent without taking a reference.        *)
SendBorrows ==
  /\ At("send_buffer") /\ main.src # NULL
  /\ args' = [args EXCEPT ![main.new] = main.src]
  /\ main' = [main EXCEPT !.pc = "send_queue"]
  /\ UNCHANGED <<refs, content, used, queue, rx_buffer, tx_buffer, hwvars, isr, logvars, budget>>

(* ... a buffer of the pool is shared ...                                  *)
SendShares ==
  /\ At("send_buffer") /\ main.src # NULL
  /\ refs' = Owned(refs, main.src)
  /\ args' = [args EXCEPT ![main.new] = main.src]
  /\ main' = [main EXCEPT !.pc = "send_queue"]
  /\ UNCHANGED <<content, used, queue, rx_buffer, tx_buffer, hwvars, isr, logvars, budget>>

(* ... any other memory is copied to a new buffer, or false, the slot      *)
(* staying in use ...                                                      *)
SendCopies ==
  LET b == ramx_alloc(refs) IN
  /\ At("send_buffer") /\ main.src = NULL
  /\ \/ /\ b = NULL
        /\ Return
        /\ UNCHANGED <<refs, content, args>>
     \/ /\ b # NULL
        /\ refs' = Owned(refs, b)
        /\ content' = [content EXCEPT ![b] = budget.tx - MaxTx]
        /\ args' = [args EXCEPT ![main.new] = b]
        /\ main' = [main EXCEPT !.pc = "send_queue"]
  /\ mishap' = (mishap \/ b = NULL)
  /\ UNCHANGED <<used, queue, rx_buffer, tx_buffer, hwvars, isr, delivered, accepted, sent,
                 budget>>

(* ... the task is queued if there is room, and hspi_send returns true.    *)
SendQueues ==
  /\ At("send_queue")
  /\ queue' = set_next_task(queue, [task |-> "send", arg |-> main.new])
  /\ accepted' = Append(accepted, content[args[main.new]])
  /\ mishap' = (mishap \/ Len(queue) = QueueSize)
  /\ Return
  /\ UNCHANGED <<poolvars, rx_buffer, tx_buffer, hwvars, isr, delivered, sent, budget>>

(* hspi_reinit_buffers: the argument slots are all free again, four more   *)
(* buffers are allocated and the old ones are not freed.  The code checks  *)
(* nothing and has no critical section: that the queue is empty, that no   *)
(* task or handler is under way and that the interrupt stays out until it  *)
(* returns is assumed of the caller (there is none in the repository).     *)
(* With a task in the queue, its slot would be given to the next one too.  *)
hspi_reinit_buffers ==
  LET b0 == ramx_alloc(refs)  r0 == Owned(refs, b0)
      b1 == ramx_alloc(r0)    r1 == Owned(r0, b1)
      b2 == ramx_alloc(r1)    r2 == Owned(r1, b2)
      b3 == ramx_alloc(r2)    r3 == Owned(r2, b3)
  IN
  /\ At("idle") /\ queue = <<>> /\ budget.other > 0
  /\ used' = [a \in Arg |-> FALSE]
  /\ refs' = r3
  /\ rx_buffer' = [d \in Dma |-> IF d = 0 THEN b0 ELSE b1]
  /\ tx_buffer' = [d \in Dma |-> IF d = 0 THEN b2 ELSE b3]
  /\ budget' = [budget EXCEPT !.other = @ - 1]
  /\ mishap' = TRUE
  /\ UNCHANGED <<content, args, queue, hwvars, isr, main, delivered, accepted, sent>>

Interrupt == HSPI_IRQHandler \/ IrqPacket \/ IrqError
RunTask == \/ hydra_interrupt_queue_run("task")
           \/ _hspi_rx_callback \/ _hspi_send \/ TransmitDone
           \/ _hspi_cleanup \/ CleanupArgs
           \/ SendGetArgs \/ SendShares \/ SendCopies \/ SendQueues
hydra_interrupt_queue_free_all == hydra_interrupt_queue_run("cleanup")

Next == \/ \E bad \in BOOLEAN : DmaReceive(bad)
        \/ Interrupt \/ OtherTask
        \/ RunTask \/ hydra_interrupt_queue_free_all
        \/ CallSend \/ hspi_reinit_buffers

(* The processor serves its interrupts, and the main loop keeps calling    *)
(* hydra_interrupt_queue_run; what it calls returns, given that the        *)
(* hardware raises T_DONE.                                                 *)
Spec == Init /\ [][Next]_vars /\ WF_vars(Interrupt) /\ WF_vars(RunTask)

-----------------------------------------------------------------------------
(* The slots some task has: queued, being run, or being filled.            *)
QueuedArgs == {i \in 1..Len(queue) : queue[i].arg # NULL}
RunArgs == IF main.task \in {"rx", "send"} THEN {main.arg} ELSE {}
NewArgs == IF main.new = NULL THEN {} ELSE {main.new}

(* How many references to buffer b the program still has.                  *)
Holders(b) ==
  Cardinality({d \in Dma : rx_buffer[d] = b}) + Cardinality({d \in Dma : tx_buffer[d] = b})
  + Cardinality({i \in QueuedArgs : args[queue[i].arg] = b})
  + Cardinality({a \in RunArgs : main.pc # "cleanup_args" /\ args[a] = b})
  + Cardinality({a \in NewArgs : main.pc = "send_queue" /\ args[a] = b})

(* No buffer is free, or has fewer references counted than the program     *)
(* holds, while the DMA, a queued task or a task under way points to it:   *)
(* nothing is used after it was freed, also when the pools run dry.  As    *)
(* long as nothing ran short every reference and every argument slot is    *)
(* accounted for: none is forgotten on the way from the interrupt to       *)
(* _hspi_cleanup.                                                          *)
ReferencesCounted ==
  /\ \A b \in Buf : Holders(b) <= refs[b]
  /\ ~mishap =>
       /\ \A b \in Buf : refs[b] = Holders(b)
       /\ \A a \in Arg : used[a] =>
            a \in RunArgs \cup NewArgs \cup {queue[i].arg : i \in QueuedArgs}

(* Two tasks never share an argument slot, and no slot in use is offered   *)
(* again, wherever the interrupt falls between hydra_pool_get and          *)
(* _hspi_cleanup.                                                          *)
ArgsExclusive ==
  /\ \A i \in QueuedArgs : /\ used[queue[i].arg] /\ queue[i].arg \notin RunArgs \cup NewArgs
                           /\ \A j \in QueuedArgs : queue[i].arg = queue[j].arg => i = j
  /\ \A a \in RunArgs \cup NewArgs : used[a]
  /\ RunArgs \cap NewArgs = {}

(* The receive callback sees packets in the order they arrived, each at    *)
(* most once and not overwritten by a later one, although the DMA writes   *)
(* on while tasks wait in the queue (as long as it writes to buffers and   *)
(* not before the handler is through).                                     *)
DeliveredInOrder ==
  ~mishap =>
  /\ \A i \in 1..Len(delivered) : delivered[i] > 0
  /\ \A i \in 1..(Len(delivered) - 1) : delivered[i] < delivered[i + 1]

(* What goes over the wire is what hspi_send was given, in the order of    *)
(* the calls and at most once: a buffer waiting in the queue is not reused *)
(* by the DMA, even if everything else runs short.                         *)
(* (hydra_interrupt_queue_free_all may drop sends.)                        *)
SentAsGiven ==
  \E at \in [1..Len(sent) -> 1..Len(accepted)] :
    /\ \A i \in 1..Len(sent) : sent[i] = accepted[at[i]]
    /\ \A i \in 1..(Len(sent) - 1) : at[i] < at[i + 1]

(* Every packet task and every send is eventually run and cleaned up: all  *)
(* argument slots come back, and only the four buffers of hspi_init stay   *)
(* allocated, unless something ran short on the way.                       *)
AllGivenBack == <>[](\/ mishap
                    \/ /\ \A a \in Arg : ~used[a]
                       /\ Cardinality({b \in Buf : refs[b] > 0}) = 4)

(* "it's the user's responsibility to free it": with a callback that does  *)
(* so, the DMA still writes only to buffers that are allocated.            *)
DmaBuffersAllocated == \A d \in Dma : rx_buffer[d] # NULL => refs[rx_buffer[d]] > 0
=============================================================================
