----------------------------- MODULE FrameQueue -----------------------------
(***************************************************************************)
(* What the renderer promises: a bounded queue of frames.  The guest       *)
(* completes a frame; it is queued if there is room and dropped otherwise; *)
(* the display takes frames one at a time, in order.                       *)
(***************************************************************************)
EXTENDS Integers, Sequences

CONSTANTS Depth, MaxFrames

VARIABLES
    frame,       \* frames the guest completed
    due,         \* the last one is not handed over yet
    queue,       \* frames handed over
    presenting,  \* the frame being brought to the display, 0 if none
    shown        \* the frame on the display, 0 if none

vars == <<frame, due, queue, presenting, shown>>

Init == frame = 0 /\ due = FALSE /\ queue = <<>> /\ presenting = 0 /\ shown = 0

Complete ==
    /\ ~due /\ frame < MaxFrames
    /\ frame' = frame + 1 /\ due' = TRUE
    /\ UNCHANGED <<queue, presenting, shown>>

HandOver ==
    /\ due /\ Len(queue) < Depth
    /\ queue' = Append(queue, frame) /\ due' = FALSE
    /\ UNCHANGED <<frame, presenting, shown>>

Drop ==
    /\ due /\ Len(queue) = Depth
    /\ due' = FALSE
    /\ UNCHANGED <<frame, queue, presenting, shown>>

Take ==
    /\ queue # <<>> /\ presenting = 0
    /\ presenting' = Head(queue) /\ queue' = Tail(queue)
    /\ UNCHANGED <<frame, due, shown>>

Show ==
    /\ presenting # 0
    /\ shown' = presenting /\ presenting' = 0
    /\ UNCHANGED <<frame, due, queue>>

NewGame ==
    frame' = 0 /\ due' = FALSE /\ queue' = <<>> /\ presenting' = 0 /\ shown' = 0

Next == Complete \/ HandOver \/ Drop \/ Take \/ Show \/ NewGame

Spec == Init /\ [][Next]_vars

=============================================================================
