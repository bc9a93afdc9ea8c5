--------------------------- MODULE CriticalSection --------------------------
(***************************************************************************)
(* BSP_ENTER_CRITICAL and BSP_EXIT_CRITICAL (utils/critical_section.h):    *)
(* one counter of nested sections, shared by main code and handlers.       *)
(*                                                                         *)
(* frames is what runs: main code at the bottom, above it the handlers     *)
(* that preempted each other; the last one has the processor.  The         *)
(* processor (external) takes an interrupt when it may, disables           *)
(* interrupts on entry and enables them on return.  A handler that leaves  *)
(* its outermost section enables them itself, so handlers do nest.         *)
(***************************************************************************)
EXTENDS Integers, Sequences

CONSTANTS
  MaxFrames,     \* bound on the frames: main code and nested handlers
  MaxDepth,      \* bound on the sections a frame is in at once
  MaxInterrupts  \* bound on the interrupts of a behaviour

ASSUME SectionAssumption ==
  MaxFrames \in Nat \ {0} /\ MaxDepth \in Nat \ {0} /\ MaxInterrupts \in Nat

VARIABLES
  interrupts_enabled,    \* what bsp_disable_interrupt and bsp_enable_interrupt set
  bsp_critical_nesting,
  frames,                \* of each frame: the sections it is in, and where it is
  interrupts             \* the interrupts so far

section_vars == <<interrupts_enabled, bsp_critical_nesting, frames, interrupts>>

NewFrame == [depth |-> 0, at |-> "code"]
Top == Len(frames)
Running == frames[Top]
InCode == Running.at = "code"

SectionInit ==
  /\ interrupts_enabled = TRUE
  /\ bsp_critical_nesting = 0
  /\ frames = <<NewFrame>>
  /\ interrupts = 0

(* BSP_ENTER_CRITICAL: disable, then count.                                *)
EnterDisables ==
  /\ InCode /\ Running.depth < MaxDepth
  /\ interrupts_enabled' = FALSE
  /\ frames' = [frames EXCEPT ![Top].at = "entering"]
  /\ UNCHANGED <<bsp_critical_nesting, interrupts>>

EnterCounts ==
  /\ Running.at = "entering"
  /\ bsp_critical_nesting' = bsp_critical_nesting + 1
  /\ frames' = [frames EXCEPT ![Top] = [depth |-> Running.depth + 1, at |-> "code"]]
  /\ UNCHANGED <<interrupts_enabled, interrupts>>

(* BSP_EXIT_CRITICAL: count, then enable if no section is left.            *)
ExitCounts ==
  /\ InCode /\ Running.depth > 0
  /\ bsp_critical_nesting' = bsp_critical_nesting - 1
  /\ frames' = [frames EXCEPT ![Top] = [depth |-> Running.depth - 1, at |-> "leaving"]]
  /\ UNCHANGED <<interrupts_enabled, interrupts>>

(* Mutant: every exit enables interrupts.                                  *)
ExitEnablesAlways ==
  /\ Running.at = "leaving"
  /\ interrupts_enabled' = TRUE
  /\ frames' = [frames EXCEPT ![Top].at = "code"]
  /\ UNCHANGED <<bsp_critical_nesting, interrupts>>

ExitEnables ==
  /\ Running.at = "leaving"
  /\ interrupts_enabled' = (interrupts_enabled \/ bsp_critical_nesting = 0)
  /\ frames' = [frames EXCEPT ![Top].at = "code"]
  /\ UNCHANGED <<bsp_critical_nesting, interrupts>>

Interrupt ==
  /\ interrupts_enabled /\ Top < MaxFrames /\ interrupts < MaxInterrupts
  /\ interrupts_enabled' = FALSE
  /\ frames' = Append(frames, NewFrame)
  /\ interrupts' = interrupts + 1
  /\ UNCHANGED bsp_critical_nesting

HandlerReturns ==
  /\ Top > 1 /\ InCode /\ Running.depth = 0
  /\ interrupts_enabled' = TRUE
  /\ frames' = SubSeq(frames, 1, Top - 1)
  /\ UNCHANGED <<bsp_critical_nesting, interrupts>>

SectionNext ==
  \/ EnterDisables \/ EnterCounts \/ ExitCounts \/ ExitEnables
  \/ Interrupt \/ HandlerReturns

SectionSpec == SectionInit /\ [][SectionNext]_section_vars

-----------------------------------------------------------------------------
(* Where a frame can be.  The counter is a size_t and stays far below it.  *)
SectionTypeOK ==
  /\ interrupts_enabled \in BOOLEAN
  /\ bsp_critical_nesting \in Nat
  /\ frames \in Seq([depth : Nat, at : {"code", "entering", "leaving"}])
  /\ Len(frames) >= 1
  /\ interrupts \in Nat

(* A section is exclusive, however sections and handlers nest: what was    *)
(* preempted is in no section, nor half way in or out, so the counter is   *)
(* that of the code that runs; interrupts are off while it is in a section *)
(* or half way; and main code that has left its last section has them on.  *)
SectionsExclusive ==
  /\ \A f \in 1..(Top - 1) : frames[f] = NewFrame
  /\ bsp_critical_nesting = Running.depth
  /\ Running # NewFrame => ~interrupts_enabled
  /\ Top = 1 /\ Running = NewFrame => interrupts_enabled
=============================================================================
