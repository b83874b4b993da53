-------------------------------- MODULE Wrapper ---------------------------------
(***************************************************************************)
(* mvtpy/mv_tractus/wrapper.py: one Python process with an object of each  *)
(* class.  Each class has its own shared library, with its own static      *)
(* counter, and both libraries write ./output/mv.  ctypes releases the     *)
(* interpreter lock in a call, so calls of two threads to the two classes  *)
(* interleave.  The calls are those of ExtractMvs and ExtractMvsWithFrames *)
(* as far as the directories see them.                                     *)
(***************************************************************************)
EXTENDS Naturals

CONSTANTS OutputDirs,   \* arguments of the constructors
          MaxPictures   \* bound: pictures a library extracts in the process

ASSUME WrapperAssumption == MaxPictures \in Nat

Libs == {"emv", "emv_frames"}

VARIABLES
  object,               \* the output_dir of the object of each class, or "none"
  dirs,                 \* directories that exist under ./output
  pc,                   \* the library's place in its call
  video_frame_count,    \* the static counter of each library
  frames,               \* numbers with a file in ./output/frames
  mv                    \* ./output/mv: number -> file

vars == <<object, dirs, pc, video_frame_count, frames, mv>>

(* A file of vectors: whose text it has, whether that is a whole array,    *)
(* and whether both libraries have had it open since it was last opened by *)
(* one alone.                                                              *)
File == [lib : Libs, whole : BOOLEAN, shared : BOOLEAN]

Init ==
  /\ object = [l \in Libs |-> "none"] /\ dirs = {}
  /\ pc = [l \in Libs |-> "idle"]
  /\ video_frame_count = [l \in Libs |-> 0]
  /\ frames = {} /\ mv = [k \in {} |-> 0]

(* exit(1) in a library ends the interpreter.                              *)
Running == \A l \in Libs : pc[l] # "exited"

(* Mutant: a directory of the frames that cannot be made is not reported.  *)
ConstructForgivesFrames(l, output_dir) ==
  /\ pc[l] = "idle" /\ Running
  /\ object' = [object EXCEPT ![l] = output_dir]
  /\ \/ dirs' = dirs \cup {output_dir}
     \/ l = "emv_frames" /\ dirs' = dirs \cup {output_dir, "frames"}
  /\ UNCHANGED <<pc, video_frame_count, frames, mv>>

(* The constructors make output_dir and, for frames, ./output/frames.  A   *)
(* mkdir that raises leaves no object, but what was made before it.        *)
Construct(l, output_dir) ==
  /\ pc[l] = "idle" /\ Running
  /\ \/ /\ l = "emv" /\ dirs' = dirs \cup {output_dir}
        /\ object' = [object EXCEPT ![l] = output_dir]
     \/ /\ l = "emv_frames" /\ dirs' = dirs \cup {output_dir, "frames"}
        /\ object' = [object EXCEPT ![l] = output_dir]
     \/ /\ l = "emv_frames" /\ dirs' = dirs \cup {output_dir}
        /\ UNCHANGED object
  /\ UNCHANGED <<pc, video_frame_count, frames, mv>>

(* get_motion_vectors, get_motion_vectors_and_frames: the library, loaded  *)
(* once, is handed the path of the video and nothing else.                 *)
Call(l) ==
  /\ pc[l] = "idle" /\ object[l] # "none" /\ Running
  /\ pc' = [pc EXCEPT ![l] = "decode"]
  /\ UNCHANGED <<object, dirs, video_frame_count, frames, mv>>

(* The library receives a picture and counts it, or the call ends.         *)
Receive(l) ==
  /\ pc[l] = "decode" /\ Running
  /\ \/ pc' = [pc EXCEPT ![l] = "idle"] /\ UNCHANGED video_frame_count
     \/ /\ video_frame_count[l] < MaxPictures
        /\ video_frame_count' = [video_frame_count EXCEPT ![l] = @ + 1]
        /\ pc' = [pc EXCEPT ![l] = IF l = "emv" THEN "json" ELSE "save"]
  /\ UNCHANGED <<object, dirs, frames, mv>>

(* SaveFrame: a file that cannot be opened is given up silently.           *)
SaveFrame(l) ==
  /\ pc[l] = "save" /\ Running
  /\ pc' = [pc EXCEPT ![l] = "json"]
  /\ \/ "frames" \in dirs /\ frames' = frames \cup {video_frame_count[l]}
     \/ UNCHANGED frames
  /\ UNCHANGED <<object, dirs, video_frame_count, mv>>

(* The other library has file k open.                                      *)
OpenElsewhere(l, k) ==
  \E m \in Libs \ {l} : pc[m] = "write" /\ video_frame_count[m] = k

Put(k, file) == [j \in DOMAIN mv \cup {k} |-> IF j = k THEN file ELSE mv[j]]

(* Mutant: a file that cannot be opened is given up silently.              *)
OpenJsonSilent(l) ==
  /\ pc[l] = "json" /\ Running
  /\ LET k == video_frame_count[l]
     IN \/ /\ pc' = [pc EXCEPT ![l] = "decode"] /\ UNCHANGED mv
        \/ /\ "mv" \in dirs
           /\ pc' = [pc EXCEPT ![l] = "write"]
           /\ mv' = Put(k, [lib |-> l, whole |-> FALSE, shared |-> OpenElsewhere(l, k)])
  /\ UNCHANGED <<object, dirs, video_frame_count, frames>>

(* fopen for writing empties the file, one the other library writes too;   *)
(* when it fails, for one because the directory is missing, exit(1).       *)
OpenJson(l) ==
  /\ pc[l] = "json" /\ Running
  /\ LET k == video_frame_count[l]
     IN \/ pc' = [pc EXCEPT ![l] = "exited"] /\ UNCHANGED mv
        \/ /\ "mv" \in dirs
           /\ pc' = [pc EXCEPT ![l] = "write"]
           /\ mv' = Put(k, [lib |-> l, whole |-> FALSE, shared |-> OpenElsewhere(l, k)])
  /\ UNCHANGED <<object, dirs, video_frame_count, frames>>

(* Mutant: the file is closed only when the library is.                    *)
CloseJsonLate(l) ==
  /\ pc[l] = "write" /\ Running
  /\ pc' = [pc EXCEPT ![l] = "decode"]
  /\ UNCHANGED <<object, dirs, video_frame_count, frames, mv>>

(* The text is written and the file closed.  Two writers of one file each  *)
(* write from its start, in pieces as their buffers fill: either text may  *)
(* survive, or a mixture.                                                  *)
CloseJson(l) ==
  /\ pc[l] = "write" /\ Running
  /\ pc' = [pc EXCEPT ![l] = "decode"]
  /\ LET k == video_frame_count[l]
     IN \/ ~mv[k].shared /\ mv' = [mv EXCEPT ![k].whole = TRUE]
        \/ /\ mv[k].shared
           /\ \E m \in Libs, w \in BOOLEAN :
                mv' = [mv EXCEPT ![k] = [lib |-> m, whole |-> w, shared |-> TRUE]]
  /\ UNCHANGED <<object, dirs, video_frame_count, frames>>

Next ==
  \E l \in Libs :
    \/ \E output_dir \in OutputDirs : Construct(l, output_dir)
    \/ Call(l) \/ Receive(l) \/ SaveFrame(l) \/ OpenJson(l) \/ CloseJson(l)

Spec == Init /\ [][Next]_vars

--------------------------------------------------------------------------------
(* A library that opens a file finds its directory, ./output/mv at least   *)
(* if the object was made for it: the library knows of no other.           *)
ExpectedDirectoryExists ==
  \A l \in Libs : /\ pc[l] = "save" => "frames" \in dirs
                  /\ pc[l] = "json" => "mv" \in dirs \/ object[l] # "mv"

(* A frame the library is done with has its own vectors, complete, unless  *)
(* the other library has come to its number.                               *)
FramesHaveTheirVectors ==
  \A k \in frames :
    \/ k = video_frame_count["emv_frames"] /\ pc["emv_frames"] \in {"json", "write", "exited"}
    \/ k <= video_frame_count["emv"] /\ k \in DOMAIN mv
    \/ k \in DOMAIN mv /\ mv[k].lib = "emv_frames" /\ mv[k].whole

(* A file that no library has open is a whole array, unless both have had  *)
(* it open at once: two threads with one library each can damage a file.   *)
DamagedOnlyByTwo ==
  Running => \A k \in DOMAIN mv : mv[k].whole \/ mv[k].shared
               \/ \E l \in Libs : pc[l] = "write" /\ video_frame_count[l] = k

================================================================================
