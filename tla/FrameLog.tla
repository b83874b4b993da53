------------------------------- MODULE FrameLog --------------------------------
(***************************************************************************)
(* What extract_mvs promises the programs that read its output directory:  *)
(* the files one process has closed form a log.  A frame is published      *)
(* whole, after all earlier ones, and never changes; a new process starts  *)
(* the log over.                                                           *)
(***************************************************************************)
EXTENDS Naturals, Sequences

VARIABLE log    \* sequence of [call, frame, whole]

(* The frame e may come after the log l: the next frame of the same call,  *)
(* or the first one of a later call.                                       *)
Follows(l, e) ==
  \/ l = <<>> /\ e.frame = 1
  \/ /\ l # <<>>
     /\ LET p == l[Len(l)]
        IN \/ e.call = p.call /\ e.frame = p.frame + 1
           \/ e.call > p.call /\ e.frame = 1

Init == log = <<>>

Publish ==
  /\ Len(log') = Len(log) + 1
  /\ \A k \in 1 .. Len(log) : log'[k] = log[k]
  /\ Follows(log, log'[Len(log')])
  /\ log'[Len(log')].whole

NewProcess == log' = <<>>

Next == Publish \/ NewProcess

Spec == Init /\ [][Next]_log

================================================================================
