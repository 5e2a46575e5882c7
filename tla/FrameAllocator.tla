--------------------------- MODULE FrameAllocator ---------------------------
(***************************************************************************)
(* arch/x86_64/src/memory/area_frame_allocator.rs: the allocator of        *)
(* physical frames.  It hands out ascending frame numbers and never takes  *)
(* one back.                                                               *)
(*                                                                         *)
(* The areas of the memory map that are free are sets of frames; the       *)
(* bootloader's areas are taken to begin and end at frame boundaries.      *)
(* kstart passes 0 as the start of the kernel.  Each call of the recursive *)
(* allocate_frames is a step, so that a recursion without end is seen.     *)
(***************************************************************************)
EXTENDS Naturals, FiniteSets

CONSTANTS
    Areas,      \* the free areas, records of their first and last frames
    KernelEnd,  \* the last frame of the kernel
    Counts,     \* the numbers of frames programs and the kernel ask for
    MaxDepth,   \* bound on the depth of the recursion
    NoArea

ASSUME FrameAssumption ==
    /\ \A a \in Areas : a \in [first : Nat, last : Nat] /\ a.first <= a.last
    /\ \A a, b \in Areas : a # b => a.last < b.first \/ b.last < a.first
    /\ KernelEnd \in Nat
    /\ Counts \subseteq Nat \ {0}
    /\ MaxDepth \in Nat
    /\ NoArea \notin Areas

VARIABLES
    next_free_frame,
    current_area,
    trying,     \* the argument of allocate_frames, or 0 outside it
    depth,      \* how often allocate_frames has called itself
    latest,     \* the frames allocate_frames returned last
    allocated   \* the frames it returned before

allocatorVars == <<next_free_frame, current_area, trying, depth, latest, allocated>>

Kernel == 0 .. KernelEnd
Memory == UNION {a.first .. a.last : a \in Areas}

AllocatorTypeOK ==
    /\ next_free_frame \in Nat
    /\ current_area \in Areas \cup {NoArea}
    /\ trying \in Counts \cup {0}
    /\ depth \in 0 .. MaxDepth
    /\ latest \in SUBSET Nat
    /\ allocated \in SUBSET Nat

-----------------------------------------------------------------------------

(* The areas choose_next_area looks at.                                    *)
remaining(next) == {a \in Areas : a.last >= next}

(* choose_next_area, when next_free_frame is next: the area with the       *)
(* lowest address among those that remain.                                 *)
choose_next_area(next) ==
    \/ /\ remaining(next) = {}
       /\ current_area' = NoArea
       /\ next_free_frame' = next
    \/ \E a \in remaining(next) :
       /\ \A b \in remaining(next) : a.first <= b.first
       /\ current_area' = a
       /\ next_free_frame' = IF next < a.first THEN a.first ELSE next

(* AreaFrameAllocator::new, which calls choose_next_area at frame 0.       *)
AllocatorInit ==
    /\ \/ /\ Areas = {}
          /\ current_area = NoArea
          /\ next_free_frame = 0
       \/ \E a \in Areas :
          /\ \A b \in Areas : a.first <= b.first
          /\ current_area = a
          /\ next_free_frame = a.first
    /\ trying = 0
    /\ depth = 0
    /\ latest = {}
    /\ allocated = {}

(* allocate_frames is called.  For 0 frames it returns None at once.       *)
allocate_frames(count) ==
    /\ trying = 0
    /\ trying' = count
    /\ depth' = 0
    /\ UNCHANGED <<next_free_frame, current_area, latest, allocated>>

end_frame == next_free_frame + (trying - 1)

(* The range does not fit into the rest of the area that ends at last.     *)
overflows(last) == end_frame > last

(* The range starts or ends inside the kernel.                             *)
in_kernel(start, end) == start <= KernelEnd \/ end <= KernelEnd

(* Bug: the frame after the one returned is free.                          *)
after_first(count) == next_free_frame + 1

(* Bug: the frame after the range is lost.                                 *)
after_gap(count) == next_free_frame + count + 1

after(count) == next_free_frame + count

(* allocate_frames calls itself.                                           *)
again == depth < MaxDepth /\ depth' = depth + 1

(* No area is left: None is returned.                                      *)
no_area ==
    /\ trying # 0
    /\ current_area = NoArea
    /\ trying' = 0
    /\ UNCHANGED <<next_free_frame, current_area, depth, latest, allocated>>

(* The range does not fit into the area: choose_next_area, and again.  The *)
(* same area is chosen if it has frames left.                              *)
switch_area ==
    /\ trying # 0
    /\ current_area # NoArea
    /\ overflows(current_area.last)
    /\ again
    /\ choose_next_area(next_free_frame)
    /\ UNCHANGED <<trying, latest, allocated>>

(* The range begins or ends in the kernel: go on after it, and again.      *)
skip_kernel ==
    /\ trying # 0
    /\ current_area # NoArea
    /\ ~overflows(current_area.last)
    /\ in_kernel(next_free_frame, end_frame)
    /\ again
    /\ next_free_frame' = KernelEnd + 1
    /\ UNCHANGED <<current_area, trying, latest, allocated>>

(* The range is free and is returned.                                      *)
take ==
    /\ trying # 0
    /\ current_area # NoArea
    /\ ~overflows(current_area.last)
    /\ ~in_kernel(next_free_frame, end_frame)
    /\ next_free_frame' = after(trying)
    /\ latest' = next_free_frame .. end_frame
    /\ allocated' = allocated \cup latest
    /\ trying' = 0
    /\ UNCHANGED <<current_area, depth>>

AllocatorNext ==
    \/ \E count \in Counts : allocate_frames(count)
    \/ no_area \/ switch_area \/ skip_kernel \/ take

AllocatorSpec == AllocatorInit /\ [][AllocatorNext]_allocatorVars

-----------------------------------------------------------------------------
(* The frames that free_frames counts; used_frames counts the others.      *)
Free == {f \in Memory : f \notin Kernel /\ f >= next_free_frame}

(* allocate_frames never returns a frame a second time.                    *)
NoFrameTwice == latest \cap allocated = {}

(* Every frame it returns is in a free area of the memory map and is not a *)
(* frame of the kernel, however ranges, areas and the kernel lie.          *)
InFreeMemory == latest \cup allocated \subseteq Memory \ Kernel

(* Whether the next frame is free: the frames that were returned lie below *)
(* next_free_frame, which is never before the area in use.                 *)
AllocatorIInv ==
    /\ AllocatorTypeOK
    /\ NoFrameTwice
    /\ InFreeMemory
    /\ \A f \in latest \cup allocated : f < next_free_frame
    /\ current_area # NoArea => current_area.first <= next_free_frame

(* A frame the system had is handed out, or free_frames counts it: none is *)
(* lost when an area is left or the kernel is skipped, and allocate_frames *)
(* has no area to try, and returns None, only when all are handed out.     *)
NoFrameLost ==
    /\ Memory \ Kernel \subseteq latest \cup allocated \cup Free
    /\ current_area = NoArea => Free = {}

(* When allocate_frames leaves an area, as the comment before the call of  *)
(* choose_next_area says, "all frames of current area are used".           *)
AreaUsedUp ==
    trying # 0 /\ current_area # NoArea =>
        (overflows(current_area.last) => next_free_frame > current_area.last)

=============================================================================
