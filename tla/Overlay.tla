-------------------------------- MODULE Overlay ---------------------------------
(***************************************************************************)
(* overlay_motion_vectors of the Python package reads the two directories  *)
(* of ExtractMvsWithFrames, whether or not an extractor is writing into    *)
(* them, and pairs frames with vectors by their numbers alone.             *)
(***************************************************************************)
EXTENDS ExtractMvsWithFrames

VARIABLES
  stage,        \* "idle", "next", "load", "returned", "raised"
  todo,         \* numbers of the listed JSON files still to be drawn
  picture,      \* the frame just opened
  overlays,     \* overlay_<idx>.png: number -> pictures of its frame and vectors
  missing,      \* numbers skipped for want of a frame file
  quiet,        \* no extractor was at work since the listing (ghost)
  cut           \* a process was killed at some time (ghost)

overlayVars == <<stage, todo, picture, overlays, missing, quiet, cut>>

AtRest == Dead \cup {"idle"}
NoPicture == [run |-> 0, call |-> 0, video |-> 0, frame |-> 0]

OverlayInit ==
  /\ Init
  /\ stage = "idle" /\ todo = {} /\ picture = NoPicture
  /\ overlays = [k \in {} |-> 0] /\ missing = {}
  /\ quiet = FALSE /\ cut = FALSE

(* The JSON files, sorted by number; FileNotFoundError when there is none. *)
List ==
  /\ stage = "idle"
  /\ todo' = DOMAIN mv
  /\ stage' = IF mv = <<>> THEN "raised" ELSE "next"
  /\ quiet' = (pc \in AtRest)
  /\ UNCHANGED <<vars, picture, overlays, missing, cut>>

(* The file the loop has come to.                                          *)
Current(idx) == idx \in todo /\ \A j \in todo : idx <= j

(* Mutant: the first missing frame ends the loop.                          *)
FindFrameOrStop(idx) ==
  /\ stage = "next" /\ Current(idx)
  /\ \/ /\ idx \notin DOMAIN frames
        /\ missing' = missing \cup {idx} /\ todo' = {}
        /\ UNCHANGED <<stage, picture>>
     \/ /\ idx \in DOMAIN frames
        /\ stage' = IF frames[idx].whole THEN "load" ELSE "raised"
        /\ picture' = IF frames[idx].whole THEN frames[idx].pic ELSE picture
        /\ UNCHANGED <<todo, missing>>
  /\ UNCHANGED <<vars, overlays, quiet, cut>>

(* Mutant: frame files are taken to be numbered from 0.                    *)
FindFrameFromZero(idx) ==
  /\ stage = "next" /\ Current(idx)
  /\ \/ /\ idx - 1 \notin DOMAIN frames
        /\ missing' = missing \cup {idx} /\ todo' = todo \ {idx}
        /\ UNCHANGED <<stage, picture>>
     \/ /\ idx - 1 \in DOMAIN frames
        /\ stage' = IF frames[idx - 1].whole THEN "load" ELSE "raised"
        /\ picture' = IF frames[idx - 1].whole THEN frames[idx - 1].pic ELSE picture
        /\ UNCHANGED <<todo, missing>>
  /\ UNCHANGED <<vars, overlays, quiet, cut>>

(* No frame file of that number: it is counted and skipped.  Otherwise the *)
(* image is decoded, which raises on a cut file.                           *)
FindFrame(idx) ==
  /\ stage = "next" /\ Current(idx)
  /\ \/ /\ idx \notin DOMAIN frames
        /\ missing' = missing \cup {idx} /\ todo' = todo \ {idx}
        /\ UNCHANGED <<stage, picture>>
     \/ /\ idx \in DOMAIN frames
        /\ stage' = IF frames[idx].whole THEN "load" ELSE "raised"
        /\ picture' = IF frames[idx].whole THEN frames[idx].pic ELSE picture
        /\ UNCHANGED <<todo, missing>>
  /\ UNCHANGED <<vars, overlays, quiet, cut>>

(* json.load, which raises on a cut file; the arrows; the PNG is saved.    *)
DrawAndSave(idx) ==
  /\ stage = "load" /\ Current(idx)
  /\ IF mv[idx].whole
     THEN /\ overlays' = [k \in DOMAIN overlays \cup {idx} |->
                            IF k = idx THEN [frame |-> picture, mv |-> mv[idx].pic]
                                       ELSE overlays[k]]
          /\ todo' = todo \ {idx} /\ stage' = "next"
     ELSE stage' = "raised" /\ UNCHANGED <<overlays, todo>>
  /\ UNCHANGED <<vars, picture, missing, quiet, cut>>

Finish ==
  /\ stage = "next" /\ todo = {}
  /\ stage' = "returned"
  /\ UNCHANGED <<vars, todo, picture, overlays, missing, quiet, cut>>

OverlayStep ==
  \/ List \/ Finish
  \/ \E idx \in todo : FindFrame(idx) \/ DrawAndSave(idx)

(* A step of the extractor, in another process.                            *)
ExtractorStep ==
  /\ Next
  /\ quiet' = (quiet /\ pc' \in AtRest)
  /\ cut' = (cut \/ pc' = "killed")
  /\ UNCHANGED <<stage, todo, picture, overlays, missing>>

OverlayNext == OverlayStep \/ ExtractorStep

OverlaySpec == OverlayInit /\ [][OverlayNext]_<<vars, overlayVars>>

--------------------------------------------------------------------------------
(* Frame and vectors of an overlay that one process wrote belong to one    *)
(* picture, even when it was still writing, and although the two files are *)
(* read at different times.                                                *)
OverlaysShowOnePicture ==
  \A k \in DOMAIN overlays :
    LET o == overlays[k]
    IN o.frame.run = o.mv.run => o.frame = o.mv

(* In quiet directories the overlays up to the counter of the last process *)
(* have its vectors (its last file may be missing if it died), those above *)
(* the vectors of an older one; nothing but numbers without a frame is     *)
(* left out.                                                               *)
QuietOverlays ==
  quiet /\ stage \in {"next", "load", "returned"} /\ run = mv[1].pic.run =>
    /\ \A k \in DOMAIN overlays :
         /\ k < video_frame_count \/ (k = video_frame_count /\ pc = "idle")
              => overlays[k].mv.run = run
         /\ k > video_frame_count => overlays[k].mv.run < run
    /\ DOMAIN overlays \cup missing \cup todo = DOMAIN mv
    /\ \A k \in DOMAIN overlays \cup missing, j \in todo : k < j

(* In quiet directories with vectors it raises only over what a killed     *)
(* process left: exit(1) and a fault between files leave nothing cut.      *)
RaisesOnlyOverTheKilled ==
  quiet /\ stage = "raised" => cut \/ mv = <<>>

================================================================================
