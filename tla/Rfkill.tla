------------------------------- MODULE Rfkill -------------------------------
(***************************************************************************)
(* The kernel's radio switches as /dev/rfkill shows them.  Both copies of  *)
(* rfkill-glib.c (network panel, Bluetooth panel) open it, take the switch- *)
(* es that are there as ADD events, and then read whatever events there    *)
(* are and hand them over as one list.  A write changes all switches of a  *)
(* type; the kernel reports each one that changed.                         *)
(*                                                                         *)
(* A kernel is a record: sw maps the switches present to their state,      *)
(* events is what the panel has not read.                                  *)
(***************************************************************************)
EXTENDS Integers, Sequences, SequencesExt

Blocked(s) == s.soft \/ s.hard
Event(op, i, s) == [op |-> op, idx |-> i, soft |-> s.soft, hard |-> s.hard]
\* What rfkill_glib_open reads: the switches in the order of their numbers.
Added(sw) == [n \in 1..Len(SetToSortSeq(DOMAIN sw, <)) |->
                LET i == SetToSortSeq(DOMAIN sw, <)[n] IN Event("ADD", i, sw[i])]

Report(k, i, s) ==
  [k EXCEPT !.sw = [@ EXCEPT ![i] = s], !.events = IF k.sw[i] = s THEN @ ELSE Append(@, Event("CHANGE", i, s))]
\* rfkill_glib_send_event: CHANGE_ALL for the switches of a type
ChangeAll(k, of, soft) ==
  FoldLeft(LAMBDA kk, i : Report(kk, i, [kk.sw[i] EXCEPT !.soft = soft]),
           k, SetToSortSeq(of \cap DOMAIN k.sw, <))

Plug(k, i, soft) ==
  LET s == [soft |-> soft, hard |-> FALSE]
  IN [k EXCEPT !.sw = [j \in DOMAIN @ \cup {i} |-> IF j = i THEN s ELSE @[j]],
               !.events = Append(@, Event("ADD", i, s))]
Unplug(k, i) ==
  [k EXCEPT !.sw = [j \in DOMAIN @ \ {i} |-> @[j]], !.events = Append(@, Event("DEL", i, k.sw[i]))]
Slide(k, i) == Report(k, i, [k.sw[i] EXCEPT !.hard = ~@])
\* event_cb reads until there is nothing left: n events, when more come in the meantime
Reading(k, n) == SubSeq(k.events, 1, n)
Read(k, n) == [k EXCEPT !.events = SubSeq(@, n + 1, Len(@))]
=============================================================================
