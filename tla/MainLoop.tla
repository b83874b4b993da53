-------------------------------- MODULE MainLoop --------------------------------
(***************************************************************************)
(* The clients of the class: one that calls its methods in any order, main *)
(* of src/cpp/efmvs.cpp (and main and process of efmvs_2.cpp, which ask    *)
(* for the Mat and do nothing with it), and the loop of                    *)
(* python-boost/extract_mvs_with_frames.py, which shows it.  The loops     *)
(* extract as long as the number returned equals that of the current       *)
(* frame.                                                                  *)
(***************************************************************************)
EXTENDS FMV

VARIABLES client,       \* "any", "main" or "python", for good
          frame_num,    \* what the last extraction returned to the loop
          at            \* where it is: "connect", "while", "call", "show", "return"

mainVars == <<vars, client, frame_num, at>>

Loops == {"main", "python"}

MainInit ==
  /\ Init /\ client \in Loops \cup {"any"} /\ frame_num = 0 /\ at = "connect"

AnyMethod ==
  /\ client = "any" /\ Next
  /\ UNCHANGED <<client, frame_num, at>>

MainConnect ==
  /\ client \in Loops /\ at = "connect" /\ Connect
  /\ at' = "while" /\ UNCHANGED <<client, frame_num>>

(* The condition of the loop holds: the call, its statements, its result.  *)
MainExtract ==
  /\ at = "while" /\ frame_num = video_frame_count
  /\ Extract
  /\ at' = "call" /\ UNCHANGED <<client, frame_num>>

MainStep ==
  /\ at = "call" /\ Step
  /\ UNCHANGED <<client, frame_num, at>>

MainAssign ==
  /\ at = "call" /\ pc = "idle"
  /\ frame_num' = ret /\ at' = IF client = "python" THEN "show" ELSE "while"
  /\ UNCHANGED <<vars, client>>

(* The Python loop takes the picture, also of an extraction without one;   *)
(* it shows the copy unless the number is 0.                               *)
MainShow ==
  /\ at = "show" /\ getMAT
  /\ at' = "while" /\ UNCHANGED <<client, frame_num>>

(* The condition fails.                                                    *)
MainFree ==
  /\ at = "while" /\ frame_num # video_frame_count
  /\ freeStuff
  /\ at' = "return" /\ UNCHANGED <<client, frame_num>>

LoopNext ==
  MainConnect \/ MainExtract \/ MainStep \/ MainAssign \/ MainShow \/ MainFree

MainNext == AnyMethod \/ LoopNext

MainSpec == MainInit /\ [][MainNext]_mainVars

(* The process of a loop keeps executing its program.                      *)
FairMainSpec == MainSpec /\ WF_mainVars(LoopNext)

--------------------------------------------------------------------------------
MainTypeOK ==
  /\ TypeOK
  /\ client \in Loops \cup {"any"}
  /\ frame_num \in -1 .. Wrap \cup {1}
  /\ at \in {"connect", "while", "call", "show", "return"}

(* In the order of the loops nothing an extraction uses is missing, freed  *)
(* or handed over, since no packet yields two frames and nothing flushes:  *)
(* main never faults, and the Python loop only where it takes the picture. *)
LoopsFaultOnlyInGetMAT ==
  client \in Loops /\ pc = "crashed" => client = "python" /\ method = "getMAT"

(* A loop is left only after an extraction that ran out of packets or      *)
(* memory: neither a decoding error, nor a packet without a frame, nor the *)
(* counter that wraps looks like the end.                                  *)
StopsOnlyAtEnd == [][at = "while" /\ at' = "return" => ended]_mainVars

(* Once a frame has come out, the end of the input ends the loop, unless   *)
(* taking the picture has ended the process: 0 is never the number of a    *)
(* frame.                                                                  *)
EndsAfterAFrame ==
  client \in Loops /\ frames > 0 ~> at = "return" \/ (pc = "crashed" /\ client = "python")

(* efmvs.cpp:291 "Could not find video stream in the input, aborting".     *)
AbortsWithoutVideo == at = "while" /\ ~video_stream ~> pc \in Final

(* efmvs_2.cpp:336 "A simple tool [Compatible with Python] to extract      *)
(* motion vectors and frames": the pixels the Python loop is about to take *)
(* and show (extract_mvs_with_frames.py:22-26) are there.                  *)
PictureIsThere == at = "show" => cv_mat # "freed"
================================================================================
