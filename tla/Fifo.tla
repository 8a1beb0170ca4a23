-------------------------------- MODULE Fifo --------------------------------
(***************************************************************************)
(* What uevent_queue promises its callers: a queue without a limit, first  *)
(* in first out.                                                           *)
(***************************************************************************)
EXTENDS Sequences

CONSTANTS Items, Nobody   \* Nobody: what a take from an empty queue answers

VARIABLES items, taken    \* taken: the answer of the last take

FInit == items = <<>> /\ taken = Nobody

Put(e) == items' = Append(items, e) /\ UNCHANGED taken

Take ==
  /\ items # <<>>
  /\ taken' = Head(items)
  /\ items' = Tail(items)

TakeNone ==
  /\ items = <<>>
  /\ taken' = Nobody
  /\ UNCHANGED items

FNext == (\E e \in Items : Put(e)) \/ Take \/ TakeNone

FSpec == FInit /\ [][FNext]_<<items, taken>>
=============================================================================
