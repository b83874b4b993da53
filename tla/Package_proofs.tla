---------------------------- MODULE Package_proofs -----------------------------
(***************************************************************************)
(* Theorems about the Python package: the directories of the wrapper under *)
(* two threads, for every number of pictures and every output directory;   *)
(* and the vector an overlay draws, for every position of a block and      *)
(* every reference distance.                                               *)
(***************************************************************************)
EXTENDS Wrapper, MvRecord, TLAPS

(* ------------------------------- Wrapper ------------------------------- *)

Places == {"idle", "decode", "save", "json", "write", "exited"}

Types ==
  /\ object \in [Libs -> OutputDirs \cup {"none"}]
  /\ pc \in [Libs -> Places] /\ pc["emv"] # "save"
  /\ video_frame_count \in [Libs -> Nat]
  /\ frames \subseteq Nat /\ DOMAIN mv \subseteq Nat
  /\ mv = [k \in DOMAIN mv |-> mv[k]]
  /\ \A k \in DOMAIN mv : mv[k] \in File

(* Behind an object are the directories its constructor made; only an      *)
(* object makes calls.                                                     *)
Made ==
  \A l \in Libs :
    /\ object[l] # "none" =>
         object[l] \in dirs /\ (l = "emv_frames" => "frames" \in dirs)
    /\ pc[l] # "idle" => object[l] # "none"

(* A file a library is writing is its own or shared; a shared file, and a  *)
(* frame, has a number its writers have come to.                           *)
Written ==
  /\ \A l \in Libs : pc[l] = "write" =>
       LET k == video_frame_count[l]
       IN k \in DOMAIN mv /\ (mv[k].shared \/ mv[k].lib = l)
  /\ \A k \in DOMAIN mv : mv[k].shared => \A l \in Libs : k <= video_frame_count[l]
  /\ \A k \in frames : k <= video_frame_count["emv_frames"]

WrapperInv == Types /\ Made /\ Written /\ FramesHaveTheirVectors /\ DamagedOnlyByTwo

(* The file CloseJson leaves under the number of the library.              *)
LEMMA ClosedFile ==
  ASSUME WrapperInv, NEW l \in Libs, CloseJson(l)
  PROVE  LET n == video_frame_count[l]
         IN /\ n \in DOMAIN mv /\ n \in Nat /\ DOMAIN mv' = DOMAIN mv
            /\ mv' = [k \in DOMAIN mv' |-> mv'[k]]
            /\ \A k \in DOMAIN mv : k # n => mv'[k] = mv[k]
            /\ mv'[n] \in File /\ mv'[n].shared = mv[n].shared
            /\ ~mv[n].shared => mv'[n].whole /\ mv'[n].lib = l
<1> DEFINE n == video_frame_count[l]
<1>1. n \in DOMAIN mv /\ n \in Nat /\ mv[n] \in File /\ (mv[n].shared \/ mv[n].lib = l)
  BY DEF WrapperInv, Types, Written, CloseJson
<1>2. mv = [k \in DOMAIN mv |-> mv[k]]
  BY DEF WrapperInv, Types
<1>3. CASE ~mv[n].shared
  <2>1. mv' = [mv EXCEPT ![n].whole = TRUE]
    BY <1>3 DEF CloseJson
  <2>. QED BY <1>1, <1>2, <1>3, <2>1 DEF File
<1>4. CASE mv[n].shared
  <2>1. PICK m \in Libs, w \in BOOLEAN :
          mv' = [mv EXCEPT ![n] = [lib |-> m, whole |-> w, shared |-> TRUE]]
    BY <1>4 DEF CloseJson
  <2>. QED BY <1>1, <1>2, <1>4, <2>1 DEF File
<1>. QED BY <1>3, <1>4

(* The file OpenJson leaves, when it can be opened.                        *)
LEMMA OpenedFile ==
  ASSUME WrapperInv, NEW l \in Libs, OpenJson(l)
  PROVE  LET n == video_frame_count[l]
         IN \/ pc' = [pc EXCEPT ![l] = "exited"] /\ UNCHANGED mv
            \/ /\ pc' = [pc EXCEPT ![l] = "write"]
               /\ DOMAIN mv' = DOMAIN mv \cup {n}
               /\ mv' = [k \in DOMAIN mv' |-> mv'[k]]
               /\ \A k \in DOMAIN mv : k # n => mv'[k] = mv[k]
               /\ mv'[n] = [lib |-> l, whole |-> FALSE, shared |-> OpenElsewhere(l, n)]
<1> DEFINE n == video_frame_count[l]
           f == [lib |-> l, whole |-> FALSE, shared |-> OpenElsewhere(l, n)]
<1>1. n \in Nat /\ mv = [k \in DOMAIN mv |-> mv[k]]
  BY DEF WrapperInv, Types
<1>2. \/ pc' = [pc EXCEPT ![l] = "exited"] /\ UNCHANGED mv
      \/ pc' = [pc EXCEPT ![l] = "write"] /\ mv' = Put(n, f)
  BY DEF OpenJson
<1> HIDE DEF f
<1>3. /\ DOMAIN Put(n, f) = DOMAIN mv \cup {n} /\ Put(n, f)[n] = f
      /\ \A k \in DOMAIN mv : k # n => Put(n, f)[k] = mv[k]
      /\ Put(n, f) = [k \in DOMAIN Put(n, f) |-> Put(n, f)[k]]
  BY <1>1 DEF Put
<1>. QED BY <1>2, <1>3 DEF f

LEMMA StepTypes == WrapperInv /\ [Next]_vars => Types'
<1> SUFFICES ASSUME WrapperInv, [Next]_vars PROVE Types'
  OBVIOUS
<1> USE DEF WrapperInv, Places, Libs
<1>1. ASSUME NEW l \in Libs, NEW output_dir \in OutputDirs, Construct(l, output_dir)
      PROVE  Types'
  BY <1>1 DEF Construct, Types
<1>2. ASSUME NEW l \in Libs, Call(l) PROVE Types'
  BY <1>2 DEF Call, Types
<1>3. ASSUME NEW l \in Libs, Receive(l) PROVE Types'
  BY <1>3 DEF Receive, Types
<1>4. ASSUME NEW l \in Libs, SaveFrame(l) PROVE Types'
  BY <1>4 DEF SaveFrame, Types
<1>5. ASSUME NEW l \in Libs, OpenJson(l) PROVE Types'
  <2> DEFINE n == video_frame_count[l]
  <2>1. n \in Nat /\ OpenElsewhere(l, n) \in BOOLEAN
    BY DEF Types, OpenElsewhere
  <2>2. DOMAIN mv' \subseteq Nat /\ \A k \in DOMAIN mv' : mv'[k] \in File
    <3> DEFINE f == [lib |-> l, whole |-> FALSE, shared |-> OpenElsewhere(l, n)]
    <3>1. f \in File
      BY <2>1 DEF File
    <3>2. \/ UNCHANGED mv
          \/ /\ DOMAIN mv' = DOMAIN mv \cup {n} /\ mv'[n] = f
             /\ \A k \in DOMAIN mv : k # n => mv'[k] = mv[k]
      BY <1>5, OpenedFile
    <3> HIDE DEF f
    <3>. QED BY <2>1, <3>1, <3>2 DEF Types
  <2>3. mv' = [k \in DOMAIN mv' |-> mv'[k]]
    BY <1>5, OpenedFile DEF Types
  <2>4. \E place \in {"exited", "write"} : pc' = [pc EXCEPT ![l] = place]
    BY <1>5 DEF OpenJson
  <2>. QED BY <1>5, <2>2, <2>3, <2>4 DEF OpenJson, Types
<1>6. ASSUME NEW l \in Libs, CloseJson(l) PROVE Types'
  <2>1. DOMAIN mv' \subseteq Nat /\ \A k \in DOMAIN mv' : mv'[k] \in File
    BY <1>6, ClosedFile DEF Types
  <2>2. mv' = [k \in DOMAIN mv' |-> mv'[k]]
    BY <1>6, ClosedFile
  <2>. QED BY <1>6, <2>1, <2>2 DEF CloseJson, Types
<1>7. CASE UNCHANGED vars
  BY <1>7 DEF vars, Types
<1>. QED BY <1>1, <1>2, <1>3, <1>4, <1>5, <1>6, <1>7 DEF Next

(* Directories are never removed, and an object is made after its own.     *)
LEMMA StepMade == WrapperInv /\ [Next]_vars => Made'
<1> SUFFICES ASSUME WrapperInv, [Next]_vars PROVE Made'
  OBVIOUS
<1> USE DEF WrapperInv, Types, Made
<1>1. ASSUME NEW l \in Libs, NEW output_dir \in OutputDirs, Construct(l, output_dir)
      PROVE  Made'
  BY <1>1 DEF Construct
<1>2. ASSUME NEW l \in Libs, Call(l) PROVE Made'
  BY <1>2 DEF Call
<1>3. ASSUME NEW l \in Libs, Receive(l) PROVE Made'
  BY <1>3 DEF Receive
<1>4. ASSUME NEW l \in Libs, SaveFrame(l) PROVE Made'
  BY <1>4 DEF SaveFrame
<1>5. ASSUME NEW l \in Libs, OpenJson(l) PROVE Made'
  BY <1>5 DEF OpenJson
<1>6. ASSUME NEW l \in Libs, CloseJson(l) PROVE Made'
  BY <1>6 DEF CloseJson
<1>7. CASE UNCHANGED vars
  BY <1>7 DEF vars
<1>. QED BY <1>1, <1>2, <1>3, <1>4, <1>5, <1>6, <1>7 DEF Next

LEMMA StepWritten == WrapperInv /\ [Next]_vars => Written'
<1> SUFFICES ASSUME WrapperInv, [Next]_vars PROVE Written'
  OBVIOUS
<1> USE DEF WrapperInv, Types, Written, Libs
<1>1. ASSUME NEW l \in Libs, NEW output_dir \in OutputDirs, Construct(l, output_dir)
      PROVE  Written'
  BY <1>1 DEF Construct
<1>2. ASSUME NEW l \in Libs, Call(l) PROVE Written'
  BY <1>2 DEF Call
<1>3. ASSUME NEW l \in Libs, Receive(l) PROVE Written'
  BY <1>3 DEF Receive
<1>4. ASSUME NEW l \in Libs, SaveFrame(l) PROVE Written'
  <2>1. l = "emv_frames"
    BY <1>4 DEF SaveFrame, Libs
  <2>. QED BY <1>4, <2>1 DEF SaveFrame
<1>5. ASSUME NEW l \in Libs, OpenJson(l) PROVE Written'
  <2> DEFINE n == video_frame_count[l]
  <2>1. /\ pc[l] = "json" /\ UNCHANGED <<video_frame_count, frames>>
        /\ \A m \in Libs : m # l => pc'[m] = pc[m]
    BY <1>5 DEF OpenJson
  <2>2. CASE UNCHANGED mv /\ pc' = [pc EXCEPT ![l] = "exited"]
    BY <2>1, <2>2
  <2>3. CASE /\ DOMAIN mv' = DOMAIN mv \cup {n}
             /\ \A k \in DOMAIN mv : k # n => mv'[k] = mv[k]
             /\ mv'[n] = [lib |-> l, whole |-> FALSE, shared |-> OpenElsewhere(l, n)]
    <3>1. ASSUME NEW m \in Libs, pc'[m] = "write"
          PROVE  LET k == video_frame_count[m]
                 IN k \in DOMAIN mv' /\ (mv'[k].shared \/ mv'[k].lib = m)
      <4>1. CASE m = l
        BY <2>3, <4>1
      <4>2. CASE m # l /\ video_frame_count[m] = n
        <5>1. OpenElsewhere(l, n)
          BY <2>1, <3>1, <4>2 DEF OpenElsewhere
        <5>. QED BY <2>3, <4>2, <5>1
      <4>3. CASE m # l /\ video_frame_count[m] # n
        BY <2>1, <2>3, <3>1, <4>3
      <4>. QED BY <4>1, <4>2, <4>3
    <3>2. ASSUME NEW k \in DOMAIN mv', mv'[k].shared, NEW m \in Libs
          PROVE  k <= video_frame_count[m]
      <4>1. CASE k = n
        <5>1. PICK j \in Libs \ {l} : video_frame_count[j] = n
          BY <2>3, <3>2, <4>1 DEF OpenElsewhere
        <5>. QED BY <4>1, <5>1 DEF Libs
      <4>2. CASE k # n
        BY <2>3, <3>2, <4>2
      <4>. QED BY <4>1, <4>2
    <3>. QED BY <2>1, <3>1, <3>2
  <2>. QED BY <1>5, <2>2, <2>3, OpenedFile
<1>6. ASSUME NEW l \in Libs, CloseJson(l) PROVE Written'
  <2> DEFINE n == video_frame_count[l]
  <2>1. /\ UNCHANGED <<video_frame_count, frames>>
        /\ pc'[l] # "write" /\ \A m \in Libs : m # l => pc'[m] = pc[m]
    BY <1>6 DEF CloseJson
  <2>2. /\ n \in DOMAIN mv /\ DOMAIN mv' = DOMAIN mv
        /\ \A k \in DOMAIN mv : k # n => mv'[k] = mv[k]
        /\ mv'[n].shared = mv[n].shared
    BY <1>6, ClosedFile
  <2>3. mv[n].shared \/ mv[n].lib = l
    BY <1>6 DEF CloseJson
  <2>4. ASSUME NEW m \in Libs, pc'[m] = "write", video_frame_count[m] = n
        PROVE  mv[n].shared
    BY <2>1, <2>3, <2>4
  <2>. QED BY <2>1, <2>2, <2>4
<1>7. CASE UNCHANGED vars
  BY <1>7 DEF vars
<1>. QED BY <1>1, <1>2, <1>3, <1>4, <1>5, <1>6, <1>7 DEF Next

(* The disjuncts of FramesHaveTheirVectors pass into one another: the frame *)
(* in work, its own vectors complete, the other library at its number.     *)
LEMMA StepFrames ==
  WrapperInv /\ [Next]_vars => FramesHaveTheirVectors'
<1> SUFFICES ASSUME WrapperInv, [Next]_vars,
                    NEW k \in frames'
             PROVE  \/ /\ k = video_frame_count'["emv_frames"]
                       /\ pc'["emv_frames"] \in {"json", "write", "exited"}
                    \/ k <= video_frame_count'["emv"] /\ k \in DOMAIN mv'
                    \/ k \in DOMAIN mv' /\ mv'[k].lib = "emv_frames" /\ mv'[k].whole
  BY DEF FramesHaveTheirVectors
<1> USE DEF WrapperInv, Types, Written, FramesHaveTheirVectors, Libs
<1>1. ASSUME NEW l \in Libs, NEW output_dir \in OutputDirs, Construct(l, output_dir)
      PROVE  UNCHANGED <<pc, video_frame_count, frames, mv>>
  BY <1>1 DEF Construct
<1>2. ASSUME NEW l \in Libs, Call(l)
      PROVE  /\ pc[l] = "idle" /\ pc' = [pc EXCEPT ![l] = "decode"]
             /\ UNCHANGED <<video_frame_count, frames, mv>>
  BY <1>2 DEF Call
<1>3. CASE \E l \in Libs : Receive(l)
  BY <1>3 DEF Receive
<1>4. CASE \E l \in Libs : SaveFrame(l)
  BY <1>4 DEF SaveFrame
<1>5. ASSUME NEW l \in Libs, OpenJson(l)
      PROVE  \/ /\ k = video_frame_count'["emv_frames"]
                /\ pc'["emv_frames"] \in {"json", "write", "exited"}
             \/ k <= video_frame_count'["emv"] /\ k \in DOMAIN mv'
             \/ k \in DOMAIN mv' /\ mv'[k].lib = "emv_frames" /\ mv'[k].whole
  <2>1. pc[l] = "json" /\ UNCHANGED <<video_frame_count, frames>>
    BY <1>5 DEF OpenJson
  <2>2. /\ pc'[l] \in {"write", "exited"} /\ \A m \in Libs : m # l => pc'[m] = pc[m]
        /\ DOMAIN mv \subseteq DOMAIN mv'
        /\ \A j \in DOMAIN mv : j # video_frame_count[l] => mv'[j] = mv[j]
    <3>1. \E place \in {"exited", "write"} : pc' = [pc EXCEPT ![l] = place]
      BY <1>5 DEF OpenJson
    <3>. QED BY <1>5, <3>1, OpenedFile
  <2>3. CASE l = "emv_frames"
    BY <2>1, <2>2, <2>3
  <2>4. CASE l = "emv"
    BY <2>1, <2>2, <2>4
  <2>. QED BY <2>3, <2>4
<1>6. ASSUME NEW l \in Libs, CloseJson(l)
      PROVE  \/ /\ k = video_frame_count'["emv_frames"]
                /\ pc'["emv_frames"] \in {"json", "write", "exited"}
             \/ k <= video_frame_count'["emv"] /\ k \in DOMAIN mv'
             \/ k \in DOMAIN mv' /\ mv'[k].lib = "emv_frames" /\ mv'[k].whole
  <2> DEFINE n == video_frame_count[l]
  <2>1. /\ pc[l] = "write" /\ \A m \in Libs : m # l => pc'[m] = pc[m]
        /\ UNCHANGED <<video_frame_count, frames>>
    BY <1>6 DEF CloseJson
  <2>2. /\ n \in DOMAIN mv /\ DOMAIN mv' = DOMAIN mv
        /\ \A j \in DOMAIN mv : j # n => mv'[j] = mv[j]
        /\ ~mv[n].shared => mv'[n].whole /\ mv'[n].lib = l
    BY <1>6, ClosedFile
  <2>3. CASE l = "emv_frames"
    BY <2>1, <2>2, <2>3
  <2>4. CASE l = "emv"
    BY <2>1, <2>2, <2>4
  <2>. QED BY <2>3, <2>4
<1>7. CASE UNCHANGED vars
  BY <1>7 DEF vars
<1>. QED BY <1>1, <1>2, <1>3, <1>4, <1>5, <1>6, <1>7 DEF Next

(* A file becomes incomplete when a library opens it, and complete or      *)
(* shared by the time no library has it open.                              *)
LEMMA StepDamaged == WrapperInv /\ [Next]_vars => DamagedOnlyByTwo'
<1> SUFFICES ASSUME WrapperInv, [Next]_vars PROVE DamagedOnlyByTwo'
  OBVIOUS
<1> USE DEF WrapperInv, Types, DamagedOnlyByTwo, Running
<1>1. ASSUME NEW l \in Libs, NEW output_dir \in OutputDirs, Construct(l, output_dir)
      PROVE  DamagedOnlyByTwo'
  BY <1>1 DEF Construct
<1>2. ASSUME NEW l \in Libs, Call(l) PROVE DamagedOnlyByTwo'
  BY <1>2 DEF Call
<1>3. ASSUME NEW l \in Libs, Receive(l) PROVE DamagedOnlyByTwo'
  BY <1>3 DEF Receive
<1>4. ASSUME NEW l \in Libs, SaveFrame(l) PROVE DamagedOnlyByTwo'
  BY <1>4 DEF SaveFrame
<1>5. ASSUME NEW l \in Libs, OpenJson(l) PROVE DamagedOnlyByTwo'
  <2> DEFINE n == video_frame_count[l]
  <2>1. pc[l] = "json" /\ Running /\ UNCHANGED video_frame_count
    BY <1>5 DEF OpenJson
  <2>2. CASE pc' = [pc EXCEPT ![l] = "exited"]
    BY <2>2
  <2>3. CASE /\ pc' = [pc EXCEPT ![l] = "write"]
             /\ DOMAIN mv' = DOMAIN mv \cup {n}
             /\ \A k \in DOMAIN mv : k # n => mv'[k] = mv[k]
    <3>1. pc'[l] = "write" /\ \A m \in Libs : pc[m] = "write" => pc'[m] = "write"
      BY <2>1, <2>3
    <3>. QED BY <2>1, <2>3, <3>1
  <2>. QED BY <1>5, <2>2, <2>3, OpenedFile
<1>6. ASSUME NEW l \in Libs, CloseJson(l) PROVE DamagedOnlyByTwo'
  <2> DEFINE n == video_frame_count[l]
  <2>1. /\ pc[l] = "write" /\ Running /\ UNCHANGED video_frame_count
        /\ \A m \in Libs : m # l => pc'[m] = pc[m]
    BY <1>6 DEF CloseJson
  <2>2. /\ DOMAIN mv' = DOMAIN mv
        /\ \A k \in DOMAIN mv : k # n => mv'[k] = mv[k]
        /\ mv'[n].whole \/ mv'[n].shared
    BY <1>6, ClosedFile
  <2>. QED BY <2>1, <2>2
<1>7. CASE UNCHANGED vars
  BY <1>7 DEF vars
<1>. QED BY <1>1, <1>2, <1>3, <1>4, <1>5, <1>6, <1>7 DEF Next

LEMMA WrapperInductive == Spec => []WrapperInv
<1>1. Init => WrapperInv
  BY DEF Init, WrapperInv, Types, Places, Made, Written, FramesHaveTheirVectors,
         DamagedOnlyByTwo, Libs
<1>2. WrapperInv /\ [Next]_vars => WrapperInv'
  BY StepTypes, StepMade, StepWritten, StepFrames, StepDamaged DEF WrapperInv
<1>. QED BY <1>1, <1>2, PTL DEF Spec

(* Whatever directories the constructors were given and whichever of them  *)
(* could be made, a library that opens a file finds its directory.         *)
THEOREM DirectoriesExist == Spec => []ExpectedDirectoryExists
<1>1. WrapperInv => ExpectedDirectoryExists
  BY DEF WrapperInv, Types, Made, ExpectedDirectoryExists, Libs
<1>. QED BY <1>1, WrapperInductive, PTL

(* In every interleaving of the two libraries, a frame has its own vectors *)
(* unless the other library has come to its number.                        *)
THEOREM FramesKeepTheirVectors == Spec => []FramesHaveTheirVectors
<1>1. WrapperInv => FramesHaveTheirVectors
  BY DEF WrapperInv
<1>. QED BY <1>1, WrapperInductive, PTL

(* Only a file both libraries had open at once can be damaged.             *)
THEOREM DamageNeedsTwo == Spec => []DamagedOnlyByTwo
<1>1. WrapperInv => DamagedOnlyByTwo
  BY DEF WrapperInv
<1>. QED BY <1>1, WrapperInductive, PTL

(* ------------------------------- MvRecord ------------------------------ *)

(* The vector describes the motion from earlier to later, whichever of the *)
(* two is the frame decoded.                                               *)
Exported(v) ==
  /\ v.source \in Int \ {0}
  /\ v.source < 0 => v.src = earlier /\ v.dst = later
  /\ v.source > 0 => v.src = later /\ v.dst = earlier

RecordInv ==
  /\ stage \in {"moved", "exported", "written", "drawn"}
  /\ earlier \in Int /\ later \in Int
  /\ stage # "moved" => Exported(vector)
  /\ stage \in {"written", "drawn"} => obj = Object(vector)
  /\ stage = "drawn" => arrow = <<obj.src, obj.src + obj.d>>

(* Each step only adds the record of the next stage.                       *)
LEMMA StepRecordInv == RecordInv /\ [RecordNext]_recordVars => RecordInv'
<1> SUFFICES ASSUME RecordInv, [RecordNext]_recordVars PROVE RecordInv'
  OBVIOUS
<1> USE DEF RecordInv
<1>1. CASE Export
  <2>1. /\ stage' = "exported" /\ earlier' = earlier /\ later' = later
    BY <1>1 DEF Export
  <2>2. PICK s \in Sources :
          vector' = IF s < 0 THEN [source |-> s, src |-> earlier, dst |-> later]
                         ELSE [source |-> s, src |-> later, dst |-> earlier]
    BY <1>1 DEF Export
  <2>3. Exported(vector)'
    BY <2>1, <2>2, SourcesAssumption DEF Exported
  <2>. QED BY <2>1, <2>3
<1>2. CASE Write
  BY <1>2 DEF Write, Exported
<1>3. CASE Draw
  BY <1>3 DEF Draw, Exported
<1>4. CASE UNCHANGED recordVars
  BY <1>4 DEF recordVars, Exported
<1>. QED BY <1>1, <1>2, <1>3, <1>4 DEF RecordNext

LEMMA RecordInductive == RecordSpec => []RecordInv
<1>1. RecordInit => RecordInv
  BY SourcesAssumption DEF RecordInit, RecordInv
<1>. QED BY <1>1, StepRecordInv, PTL DEF RecordSpec

(* For every vector a decoder can export, the ends written are the places  *)
(* in the earlier and in the later frame.                                  *)
LEMMA EndsOfObject ==
  ASSUME NEW v, Exported(v)
  PROVE  /\ Object(v).source = v.source
         /\ Object(v).src = Quotient(earlier, abs(v.source))
         /\ Object(v).dst = Quotient(later, abs(v.source))
         /\ Object(v).d = Quotient(later - earlier, abs(v.source))
<1>1. CASE v.source < 0
  BY <1>1 DEF Exported, Object
<1>2. CASE v.source > 0
  BY <1>2 DEF Exported, Object
<1>. QED BY <1>1, <1>2 DEF Exported

(* The written object runs forward in time, for every position and every   *)
(* reference.                                                              *)
THEOREM ObjectsRunForward == RecordSpec => []RunsForward
<1>1. RecordInv => RunsForward
  <2> SUFFICES ASSUME RecordInv, stage \in {"written", "drawn"}
               PROVE  /\ obj.src = Quotient(earlier, abs(vector.source))
                      /\ obj.dst = Quotient(later, abs(vector.source))
    BY DEF RunsForward
  <2>. QED BY EndsOfObject DEF RecordInv
<1>. QED BY <1>1, RecordInductive, PTL

(* The division of TLA+, which rounds downwards.                           *)
LEMMA DivisionRange == ASSUME NEW x \in Int, NEW b \in Int, b > 0
                       PROVE  x \div b \in Int /\ x % b \in Int /\ 0 <= x % b
  OBVIOUS
LEMMA DivisionBound == ASSUME NEW x \in Int, NEW b \in Int, b > 0 PROVE x % b < b
  OBVIOUS
LEMMA DivisionSum == ASSUME NEW x \in Int, NEW b \in Int, b > 0
                     PROVE  x = b * (x \div b) + (x % b)
  OBVIOUS

(* What the division of C leaves: a remainder below the divisor in size,   *)
(* of the sign of the dividend.                                            *)
LEMMA Truncation ==
  ASSUME NEW x \in Int, NEW b \in Int, b > 0
  PROVE  /\ Quotient(x, b) \in Int
         /\ \E r \in Int : /\ x = b * Quotient(x, b) + r
                           /\ -b < r /\ r < b
                           /\ x >= 0 => r >= 0
                           /\ x <= 0 => r <= 0
<1>1. CASE x >= 0
  <2> DEFINE q == x \div b
             r == x % b
  <2>1. /\ q \in Int /\ r \in Int /\ 0 <= r /\ r < b /\ x = b * q + r
        /\ x = 0 => r = 0
    <3>1. q \in Int /\ r \in Int /\ 0 <= r
      BY DivisionRange
    <3>2. r < b
      BY DivisionBound
    <3>3. x = b * q + r
      BY DivisionSum
    <3>4. x = 0 => r = 0
      OBVIOUS
    <3>. QED BY <3>1, <3>2, <3>3, <3>4
  <2>2. Quotient(x, b) = q
    BY <1>1 DEF Quotient
  <2> HIDE DEF q, r
  <2>3. -b < r /\ (x <= 0 => r <= 0)
    BY <1>1, <2>1
  <2>4. x = b * Quotient(x, b) + r
    BY <2>1, <2>2
  <2>. QED BY <2>1, <2>2, <2>3, <2>4
<1>2. CASE x < 0
  <2> DEFINE y == -x
             q == y \div b
             r == y % b
  <2>1. y \in Int
    OBVIOUS
  <2>2. q \in Int /\ r \in Int /\ 0 <= r
    BY <2>1, DivisionRange
  <2>3. r < b
    BY <2>1, DivisionBound
  <2>4. y = b * q + r
    BY <2>1, DivisionSum
  <2>5. Quotient(x, b) = -q
    BY <1>2 DEF Quotient
  <2>6. y = -x
    OBVIOUS
  <2> HIDE DEF y, q, r
  <2>7. b * (-q) = -(b * q)
    BY <2>2
  <2>8. x = b * Quotient(x, b) + (-r)
    BY <2>1, <2>2, <2>4, <2>5, <2>6, <2>7
  <2>. QED BY <1>2, <2>2, <2>3, <2>5, <2>8
<1>. QED BY <1>1, <1>2

(* A multiple of b between -2b and 2b is -b, 0 or b.                       *)
LEMMA SmallMultiple ==
  ASSUME NEW b \in Int, b > 0, NEW m \in Int, b * m < 2 * b, -2 * b < b * m
  PROVE  m \in {-1, 0, 1}
<1>1. CASE m >= 2
  BY <1>1
<1>2. CASE m <= -2
  BY <1>2
<1>. QED BY <1>1, <1>2

(* Dividing two positions and their difference separately, each rounded    *)
(* towards zero, makes the ends disagree by at most one.                   *)
LEMMA RoundingMiss ==
  ASSUME NEW x \in Int, NEW y \in Int, NEW b \in Int, b > 0
  PROVE  /\ Quotient(x, b) \in Int /\ Quotient(y, b) \in Int /\ Quotient(y - x, b) \in Int
         /\ Quotient(x, b) + Quotient(y - x, b) - Quotient(y, b) \in {-1, 0, 1}
<1> DEFINE p == Quotient(x, b)
           q == Quotient(y, b)
           d == Quotient(y - x, b)
<1>1. PICK r \in Int : x = b * p + r /\ -b < r /\ r < b /\ (x >= 0 => r >= 0) /\ (x <= 0 => r <= 0)
  BY Truncation
<1>2. PICK s \in Int : y = b * q + s /\ -b < s /\ s < b /\ (y >= 0 => s >= 0) /\ (y <= 0 => s <= 0)
  BY Truncation
<1>3. PICK t \in Int : /\ y - x = b * d + t /\ -b < t /\ t < b
                       /\ (y - x >= 0 => t >= 0) /\ (y - x <= 0 => t <= 0)
  <2>1. y - x \in Int
    OBVIOUS
  <2>. QED BY <2>1, Truncation
<1>4. p \in Int /\ q \in Int /\ d \in Int
  BY Truncation
<1> HIDE DEF p, q, d
<1>5. b * (p + d - q) = b * p + b * d - b * q
  BY <1>4
<1>6. b * p \in Int /\ b * q \in Int /\ b * d \in Int
  BY <1>4
<1>7. b * (p + d - q) = s - r - t
  BY <1>1, <1>2, <1>3, <1>5, <1>6
<1>8. s - r - t < 2 * b /\ -2 * b < s - r - t
  BY <1>1, <1>2, <1>3, <1>6
<1>9. p + d - q \in {-1, 0, 1}
  BY <1>4, <1>7, <1>8, SmallMultiple
<1>. QED BY <1>4, <1>9 DEF p, q, d

LEMMA QuotientByOne == ASSUME NEW x \in Int PROVE Quotient(x, 1) = x
  BY DEF Quotient

(* The drawn arrow ends at dst, or one pixel beside it: never further, at  *)
(* any position and any reference distance; at distance one it is exact.   *)
THEOREM ArrowsReachTheirEnd == RecordSpec => []ArrowReachesDst
<1>1. RecordInv => ArrowReachesDst
  <2> SUFFICES ASSUME RecordInv, stage = "drawn"
               PROVE  LET miss == abs(arrow[2] - obj.dst)
                      IN miss <= 1 /\ (abs(obj.source) = 1 =>
                                         miss = 0 /\ arrow = <<earlier, later>>)
    BY DEF ArrowReachesDst
  <2> DEFINE b == abs(vector.source)
             p == Quotient(earlier, b)
             q == Quotient(later, b)
             d == Quotient(later - earlier, b)
  <2>1. b \in Int /\ b > 0
    BY DEF RecordInv, Exported, abs
  <2>2. /\ obj.source = vector.source /\ obj.src = p /\ obj.dst = q /\ obj.d = d
        /\ arrow = <<p, p + d>>
    BY EndsOfObject DEF RecordInv
  <2>3. earlier \in Int /\ later \in Int
    BY DEF RecordInv
  <2>4. p \in Int /\ q \in Int /\ d \in Int /\ p + d - q \in {-1, 0, 1}
    <3> HIDE DEF b
    <3>. QED BY <2>1, <2>3, RoundingMiss
  <2>5. b = 1 => p = earlier /\ q = later /\ d = later - earlier
    <3>1. later - earlier \in Int
      BY <2>3
    <3> HIDE DEF b
    <3>. QED BY <2>3, <3>1, QuotientByOne
  <2>6. abs(obj.source) = b
    BY <2>2
  <2> HIDE DEF b, p, q, d
  <2>7. arrow[2] - obj.dst = p + d - q
    BY <2>2, <2>4
  <2>. QED BY <2>2, <2>3, <2>4, <2>5, <2>6, <2>7 DEF abs
<1>. QED BY <1>1, RecordInductive, PTL

================================================================================
