----------------------------- MODULE LogWindow -----------------------------
(***************************************************************************)
(* What the log buffer promises the pane that shows it, in line numbers    *)
(* alone: lines are numbered in the order they arrive, the pane shows the  *)
(* consecutive lines lo .. hi-1, and the last line taken in is end-1.      *)
(*                                                                         *)
(* While the pane follows, it shows the newest Size lines and drops a line *)
(* only to make room.  While the reader holds a place, no line on show is  *)
(* replaced: the window grows at its end as long as everything fits, and   *)
(* is kept as it is once it does not.                                      *)
(***************************************************************************)
EXTENDS Integers

CONSTANT Size    \* how many lines a window holds at most

VARIABLES lo, hi, end, following

windowVars == <<lo, hi, end, following>>

MaxOf(a, b) == IF a >= b THEN a ELSE b

WindowInit ==
  /\ lo = 0 /\ hi = 0 /\ end = 0
  /\ following = TRUE

\* The newest lines, without going back past the first line still on show.
ShowNewest ==
  /\ hi' = end'
  /\ lo' = MaxOf(lo, end' - Size)

\* A batch arrives below a pane that follows.
ArriveFollowing ==
  /\ following /\ following'
  /\ end' > end
  /\ ShowNewest

\* A batch arrives below a reader: the window takes it in when it was up to
\* date and still fits, and stays as it is otherwise.
ArriveReading ==
  /\ ~following /\ ~following'
  /\ end' > end
  /\ lo' = lo
  /\ hi' = IF hi = end /\ end' - lo <= Size THEN end' ELSE hi

\* Other lines replace everything.
Replace ==
  /\ end' >= end
  /\ following'
  /\ hi' = end'
  /\ lo' = MaxOf(end, end' - Size)

\* The reader takes hold of the place, or returns to the newest lines.
Hold ==
  /\ following /\ ~following'
  /\ UNCHANGED <<lo, hi, end>>

Return ==
  /\ ~following /\ following'
  /\ end' = end
  /\ ShowNewest

WindowNext ==
  \/ ArriveFollowing \/ ArriveReading
  \/ Replace
  \/ Hold \/ Return

WindowSpec == WindowInit /\ [][WindowNext]_windowVars
=============================================================================
