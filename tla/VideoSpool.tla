----------------------------- MODULE VideoSpool -----------------------------
(***************************************************************************)
(* The videos of one episode, from the command that starts it to the       *)
(* encoded file: the camera threads of the logger process                  *)
(* (modules/logger/stream_logger.py), each with a robologger VideoLogger   *)
(* that defers encoding (loggers/base_logger.py, loggers/video_logger.py), *)
(* and the offline tool that encodes what they spooled                     *)
(* (scripts/data_tools/finalize_episode_video_spools.py).                  *)
(*                                                                         *)
(* Camera c has its own logger, store and spool, and each of them a single *)
(* camera configuration.  Frames are numbered as they are taken.  A file   *)
(* of the spool is a chunk of raw frames, or the timestamps of one; a      *)
(* timestamp is not told from another, only counted.  The operator runs    *)
(* the tool once the recording is over; nothing in the code checks that.   *)
(***************************************************************************)
EXTENDS Naturals, SequencesExt

CONSTANTS
  Cameras,      \* how many camera entries; stores are sorted by camera name
  ChunkFrames,  \* VideoLogger.spool_chunk_frames
  Frames,       \* bound: frames taken by all cameras in the episode
  None

ASSUME CamerasAssumption == Cameras \in Nat \ {0}
ASSUME FramesAssumption == ChunkFrames \in Nat \ {0} /\ Frames \in Nat
ASSUME NoneAssumption == None \notin Nat /\ None \notin Seq(Nat)

VARIABLES
  mode,      \* what MainLogger was last told to do with the episode
  command,   \* per camera: the newest command its logger has not read
  up,        \* is the logger process alive?
  working,   \* is the camera still in BackpackCameraLogger.loggers?
  at,        \* per camera: in which step of _poll_camera its thread is
  rec,       \* VideoLogger._is_recording
  held,      \* has it an episode_dir?
  stamps,    \* the timestamps in its data_lists
  file,      \* its spool state's "file": None, open, or closed and kept
  count,     \* its spool state's "chunk_frame_count"
  taken,     \* the frames it has been given
  spooled,   \* history: the frames written whole, in order
  store,     \* its .zarr: absent, without attributes, or ready
  dumped,    \* how many timestamps the store holds, or None
  spool,     \* the chunks in _spool
  spooling,  \* does the directory _spool exist?
  video,     \* the .mp4: None, Partial, or the frames it shows
  marked,    \* is the store marked mp4_finalized_v1?
  tool,      \* where the encoding tool is, and with which camera
  verdict,   \* what it said of the episode last
  clean,     \* history: nothing has failed
  cut        \* history: a deletion of a spool was interrupted

loggerVars == <<working, at, rec, held, stamps, file, count, taken, spooled>>
diskVars == <<store, dumped, spool, spooling, video, marked>>
toolVars == <<tool, verdict, cut>>
vars == <<mode, command, up, loggerVars, diskVars, toolVars, clean>>

Camera == 1 .. Cameras
Frame == Nat \ {0}
Partial == <<0>>    \* a file ffmpeg has not finished

\* Without a bin the raw frames are gone; without ts, the timestamps file.
Chunk == [bin : Seq(Frame) \cup {None}, torn : BOOLEAN, ts : Frame \cup {None}]
NewChunk == [bin |-> <<>>, torn |-> FALSE, ts |-> None]
Idle == [at |-> "off", camera |-> 1, keep |-> FALSE, encoded |-> FALSE]

TypeOK ==
  /\ mode \in {"idle", "start", "pause", "resume", "stop"}
  /\ command \in [Camera -> {"none", "start", "pause", "resume", "stop"}]
  /\ up \in BOOLEAN /\ clean \in BOOLEAN /\ cut \in BOOLEAN
  /\ working \in [Camera -> BOOLEAN]
  /\ at \in [Camera -> {"poll", "full", "close"}]
  /\ rec \in [Camera -> BOOLEAN] /\ held \in [Camera -> BOOLEAN]
  /\ stamps \in [Camera -> Nat]
  /\ file \in [Camera -> {"none", "open", "closed"}]
  /\ count \in [Camera -> 0 .. ChunkFrames]
  /\ taken \in [Camera -> Nat]
  /\ spooled \in [Camera -> Seq(Frame)]
  /\ store \in [Camera -> {"absent", "bare", "ready"}]
  /\ dumped \in [Camera -> Nat \cup {None}]
  /\ spool \in [Camera -> Seq(Chunk)]
  /\ spooling \in [Camera -> BOOLEAN]
  /\ video \in [Camera -> Seq(Frame) \cup {None, Partial}]
  /\ marked \in [Camera -> BOOLEAN]
  /\ tool \in [at : {"off", "look", "encode", "mark", "delete"}, camera : 1 .. Cameras + 1,
               keep : BOOLEAN, encoded : BOOLEAN]
  /\ verdict \in {"none", "finalized", "skipped", "failed"}

OnCameras(v) == [c \in Camera |-> v]

Init ==
  /\ mode = "idle" /\ command = OnCameras("none")
  /\ up = TRUE /\ clean = TRUE /\ cut = FALSE
  /\ working = OnCameras(TRUE) /\ at = OnCameras("poll")
  /\ rec = OnCameras(FALSE) /\ held = OnCameras(FALSE)
  /\ stamps = OnCameras(0) /\ file = OnCameras("none") /\ count = OnCameras(0)
  /\ taken = OnCameras(0) /\ spooled = OnCameras(<<>>)
  /\ store = OnCameras("absent") /\ dumped = OnCameras(None)
  /\ spool = OnCameras(<<>>) /\ spooling = OnCameras(FALSE)
  /\ video = OnCameras(None) /\ marked = OnCameras(FALSE)
  /\ tool = Idle /\ verdict = "none"

-----------------------------------------------------------------------------
(* MainLogger's commands (module EpisodeManager); the newest one counts.   *)

Tell(c, from) ==
  /\ up /\ mode \in from
  /\ mode' = c /\ command' = OnCameras(c)
  /\ UNCHANGED <<up, loggerVars, diskVars, toolVars, clean>>

Command ==
  \/ Tell("start", {"idle"})
  \/ Tell("pause", {"start", "resume"})
  \/ Tell("resume", {"pause"})
  \/ Tell("stop", {"start", "pause", "resume"})

\* The process is killed, by the shutdown or otherwise; it has no exit hook
\* that runs then, and what a thread had not written is gone.
Killed ==
  /\ up /\ up' = FALSE
  /\ clean' = (clean /\ \A c \in Camera : at[c] = "poll" /\ ~held[c])
  /\ UNCHANGED <<mode, command, loggerVars, diskVars, toolVars>>

-----------------------------------------------------------------------------
(* _poll_camera: update_recording_state, then log_frame, under one lock.   *)

Polling(c) == up /\ working[c] /\ at[c] = "poll"

Reading(c, type) ==
  /\ Polling(c) /\ command[c] = type
  /\ command' = [command EXCEPT ![c] = "none"]
  /\ UNCHANGED <<mode, up, taken, spooled, video, marked, toolVars>>

\* An exception out of update_recording_state disables the camera for good.
Disabled(c) == working' = [working EXCEPT ![c] = FALSE] /\ clean' = FALSE

\* start_recording: the store, the timestamps' list, the spool, the attributes.
StartRecording(c) ==
  /\ Reading(c, "start")
  /\ rec' = [rec EXCEPT ![c] = TRUE] /\ held' = [held EXCEPT ![c] = TRUE]
  /\ \/ /\ store' = [store EXCEPT ![c] = "ready"]
        /\ spooling' = [spooling EXCEPT ![c] = TRUE]
        /\ UNCHANGED <<working, clean>>
     \/ /\ \E s \in {"absent", "bare"} : store' = [store EXCEPT ![c] = s]
        /\ \E b \in BOOLEAN :
             spooling' = [spooling EXCEPT ![c] = b /\ store'[c] = "bare"]
        /\ Disabled(c)
  /\ UNCHANGED <<at, stamps, file, count, dumped, spool>>

PauseRecording(c) ==
  /\ Reading(c, "pause")
  /\ rec' = [rec EXCEPT ![c] = FALSE]
  /\ UNCHANGED <<working, at, held, stamps, file, count, store, dumped, spool, spooling, clean>>

ResumeRecording(c) ==
  /\ Reading(c, "resume")
  /\ rec' = [rec EXCEPT ![c] = rec[c] \/ held[c]]
  /\ UNCHANGED <<working, at, held, stamps, file, count, store, dumped, spool, spooling, clean>>

\* stop_recording dumps the timestamps, whatever becomes of them, and goes on
\* to _close_storage.
StopRecording(c) ==
  /\ Reading(c, "stop")
  /\ rec' = [rec EXCEPT ![c] = FALSE] /\ held' = [held EXCEPT ![c] = FALSE]
  /\ stamps' = [stamps EXCEPT ![c] = 0]
  /\ at' = [at EXCEPT ![c] = IF held[c] THEN "close" ELSE "poll"]
  /\ \/ /\ dumped' = [dumped EXCEPT ![c] = IF stamps[c] > 0 THEN stamps[c] ELSE None]
        /\ UNCHANGED clean
     \/ held[c] /\ stamps[c] > 0 /\ clean' = FALSE /\ UNCHANGED dumped
  /\ UNCHANGED <<working, file, count, store, spool, spooling>>

\* log_frame.  The timestamp is kept before the frame is written.
Logging(c) ==
  /\ Polling(c) /\ rec[c] /\ FoldFunction(+, 0, taken) < Frames
  /\ taken' = [taken EXCEPT ![c] = @ + 1]
  /\ stamps' = [stamps EXCEPT ![c] = @ + 1]
  /\ UNCHANGED <<mode, command, up, working, rec, held, store, dumped, spooling, video,
                 marked, toolVars>>

Opened(c) == IF file[c] = "none" THEN Append(spool[c], NewChunk) ELSE spool[c]

WithLast(chunks, chunk) == [chunks EXCEPT ![Len(chunks)] = chunk]

\* _spool_rgb_frame, which opens a chunk when there is none.
LogFrame(c) ==
  /\ Logging(c) /\ file[c] # "closed"
  /\ LET chunks == Opened(c)
         chunk == [Last(chunks) EXCEPT !.bin = Append(@, taken'[c])]
     IN  spool' = [spool EXCEPT ![c] = WithLast(chunks, chunk)]
  /\ file' = [file EXCEPT ![c] = "open"]
  /\ count' = [count EXCEPT ![c] = @ + 1]
  /\ spooled' = [spooled EXCEPT ![c] = Append(@, taken'[c])]
  /\ at' = [at EXCEPT ![c] = IF count'[c] >= ChunkFrames THEN "full" ELSE "poll"]
  /\ UNCHANGED clean

\* What log_frame raises is swallowed by _poll_camera: the chunk cannot be
\* opened, the frame is written in part or not at all, or the file was closed
\* by a finalization that failed.
LogFrameRaises(c) ==
  /\ Logging(c)
  /\ clean' = FALSE
  /\ \/ UNCHANGED <<spool, file>>
     \/ /\ file[c] # "closed"
        /\ \E torn \in BOOLEAN :
             LET chunks == Opened(c)
                 chunk == [Last(chunks) EXCEPT !.torn = @ \/ torn]
             IN  spool' = [spool EXCEPT ![c] = WithLast(chunks, chunk)]
        /\ file' = [file EXCEPT ![c] = "open"]
  /\ UNCHANGED <<count, spooled, at>>

\* Seeded fault: the next chunk counts the frames of this one too.
FinalizeSpoolChunkUncounted(c) ==
  /\ up /\ working[c] /\ at[c] \in {"full", "close"} /\ file[c] = "open"
  /\ spool' = [spool EXCEPT ![c] = WithLast(@, [Last(@) EXCEPT !.ts = count[c]])]
  /\ file' = [file EXCEPT ![c] = "none"]
  /\ at' = [at EXCEPT ![c] = IF @ = "full" THEN "poll" ELSE @]
  /\ UNCHANGED <<mode, command, up, working, rec, held, stamps, count, taken, spooled,
                 store, dumped, spooling, video, marked, toolVars, clean>>

\* _finalize_spool_chunk: a chunk without frames is removed, any other gets
\* its timestamps.
FinalizeSpoolChunk(c) ==
  /\ up /\ working[c] /\ at[c] \in {"full", "close"} /\ file[c] = "open"
  /\ LET chunk == [Last(spool[c]) EXCEPT !.ts = count[c]]
     IN  spool' = [spool EXCEPT ![c] = IF count[c] = 0 THEN Front(spool[c])
                                       ELSE WithLast(spool[c], chunk)]
  /\ file' = [file EXCEPT ![c] = "none"] /\ count' = [count EXCEPT ![c] = 0]
  /\ at' = [at EXCEPT ![c] = IF @ = "full" THEN "poll" ELSE @]
  /\ UNCHANGED <<mode, command, up, working, rec, held, stamps, taken, spooled, store,
                 dumped, spooling, video, marked, toolVars, clean>>

\* Saving the timestamps raises.  The file stays in the spool state, closed.
FinalizeSpoolChunkRaises(c) ==
  /\ up /\ working[c] /\ at[c] \in {"full", "close"} /\ file[c] # "none"
  /\ file[c] = "open" => count[c] > 0
  /\ file' = [file EXCEPT ![c] = "closed"]
  /\ at' = [at EXCEPT ![c] = "poll"]
  /\ IF at[c] = "close" THEN Disabled(c) ELSE clean' = FALSE /\ UNCHANGED working
  /\ UNCHANGED <<mode, command, up, rec, held, stamps, count, taken, spooled, diskVars,
                 toolVars>>

\* Seeded fault: the last chunk is left open.
CloseStorageUnfinalized(c) ==
  /\ up /\ working[c] /\ at[c] = "close"
  /\ at' = [at EXCEPT ![c] = "poll"]
  /\ UNCHANGED <<mode, command, up, working, rec, held, stamps, file, count, taken, spooled,
                 diskVars, toolVars, clean>>

CloseStorage(c) ==
  /\ up /\ working[c] /\ at[c] = "close" /\ file[c] = "none"
  /\ at' = [at EXCEPT ![c] = "poll"]
  /\ UNCHANGED <<mode, command, up, working, rec, held, stamps, file, count, taken, spooled,
                 diskVars, toolVars, clean>>

PollCamera(c) ==
  \/ StartRecording(c) \/ PauseRecording(c) \/ ResumeRecording(c) \/ StopRecording(c)
  \/ LogFrame(c) \/ LogFrameRaises(c)
  \/ FinalizeSpoolChunk(c) \/ FinalizeSpoolChunkRaises(c) \/ CloseStorage(c)

-----------------------------------------------------------------------------
(* finalize_episode_video_spools.py over the episode's stores.             *)

\* No thread of the logger process has the episode any more.
Over ==
  \/ ~up
  \/ /\ mode = "stop"
     /\ \A c \in Camera : working[c] => command[c] = "none" /\ at[c] = "poll" /\ ~held[c]

AtCamera(c) == c \in Camera /\ tool.camera = c
NextCamera == [tool EXCEPT !.at = "look", !.camera = @ + 1]

Ends(how) == tool' = Idle /\ verdict' = how
Keeps == UNCHANGED <<mode, command, up, loggerVars, store, dumped>>

\* discover_episodes finds the episode by the first store with attributes, and
\* overlooks it when one without comes before.
Discovered ==
  \E c \in Camera : store[c] = "ready" /\ \A d \in 1 .. c - 1 : store[d] = "absent"

ToolStarts ==
  /\ tool.at = "off" /\ Over /\ Discovered
  /\ \E keep \in BOOLEAN : tool' = [Idle EXCEPT !.at = "look", !.keep = keep]
  /\ verdict' = "none"
  /\ UNCHANGED <<spool, spooling, video, marked, clean, cut>> /\ Keeps

SkipCamera(c) ==
  /\ tool.at = "look" /\ AtCamera(c)
  /\ store[c] = "absent" \/ (store[c] = "ready" /\ ~spooling[c])
  /\ tool' = NextCamera
  /\ UNCHANGED <<spool, spooling, video, marked, verdict, clean, cut>> /\ Keeps

AttributesMissing(c) ==
  /\ tool.at = "look" /\ AtCamera(c) /\ store[c] = "bare"
  /\ Ends("failed")
  /\ UNCHANGED <<spool, spooling, video, marked, clean, cut>> /\ Keeps

\* ffmpeg -y empties an .mp4 that is there.
BeginEncoding(c) ==
  /\ tool.at = "look" /\ AtCamera(c) /\ store[c] = "ready" /\ spooling[c]
  /\ tool' = [tool EXCEPT !.at = "encode"]
  /\ video' = [video EXCEPT ![c] = Partial]
  /\ UNCHANGED <<spool, spooling, marked, verdict, clean, cut>> /\ Keeps

HasBin(chunk) == chunk.bin # None
Readable(c) == {i \in DOMAIN spool[c] : HasBin(spool[c][i])}
Encodable(chunk) == ~chunk.torn /\ chunk.ts = Len(chunk.bin)

\* The frames of the chunks that are there, in the order of their numbers.
FramesOf(chunk) == IF HasBin(chunk) THEN chunk.bin ELSE <<>>
Shown(c) == FlattenSeq([i \in DOMAIN spool[c] |-> FramesOf(spool[c][i])])

\* Seeded fault: the timestamps of the store are not compared.
AcceptableChunks(c) ==
  Readable(c) # {} /\ \A i \in Readable(c) : Encodable(spool[c][i])

\* What encode_camera_spool checks.
Acceptable(c) ==
  /\ Readable(c) # {}
  /\ \A i \in Readable(c) : Encodable(spool[c][i])
  /\ dumped[c] # None => dumped[c] = Len(Shown(c))

EncodeCamera(c) ==
  /\ tool.at = "encode" /\ AtCamera(c) /\ Acceptable(c)
  /\ tool' = [tool EXCEPT !.at = "mark"]
  /\ video' = [video EXCEPT ![c] = Shown(c)]
  /\ UNCHANGED <<spool, spooling, marked, verdict, clean, cut>> /\ Keeps

\* Seeded fault: the tool goes on to mark the store and delete the spool.
EncodingRaisesUnnoticed(c) ==
  /\ tool.at = "encode" /\ AtCamera(c)
  /\ tool' = [tool EXCEPT !.at = "mark"]
  /\ video' = [video EXCEPT ![c] = None]
  /\ clean' = (clean /\ ~Acceptable(c))
  /\ UNCHANGED <<spool, spooling, marked, verdict, cut>> /\ Keeps

\* A check or ffmpeg itself fails: no .mp4 is left, and the episode is given up.
EncodingRaises(c) ==
  /\ tool.at = "encode" /\ AtCamera(c)
  /\ Ends("failed")
  /\ video' = [video EXCEPT ![c] = None]
  /\ clean' = (clean /\ ~Acceptable(c))
  /\ UNCHANGED <<spool, spooling, marked, cut>> /\ Keeps

MarkFinalized(c) ==
  /\ tool.at = "mark" /\ AtCamera(c)
  /\ marked' = [marked EXCEPT ![c] = TRUE]
  /\ tool' = IF tool.keep THEN [NextCamera EXCEPT !.encoded = TRUE]
             ELSE [tool EXCEPT !.at = "delete"]
  /\ UNCHANGED <<spool, spooling, video, verdict, clean, cut>> /\ Keeps

\* rmtree takes the files in any order.
DeleteFile(c) ==
  /\ tool.at = "delete" /\ AtCamera(c)
  /\ \E i \in DOMAIN spool[c] :
       \/ spool[c][i].bin # None /\ spool' = [spool EXCEPT ![c][i].bin = None]
       \/ spool[c][i].ts # None /\ spool' = [spool EXCEPT ![c][i].ts = None]
  /\ UNCHANGED <<tool, spooling, video, marked, verdict, clean, cut>> /\ Keeps

DeleteDirectory(c) ==
  /\ tool.at = "delete" /\ AtCamera(c)
  /\ \A i \in DOMAIN spool[c] : spool[c][i].bin = None /\ spool[c][i].ts = None
  /\ spooling' = [spooling EXCEPT ![c] = FALSE]
  /\ tool' = [NextCamera EXCEPT !.encoded = TRUE]
  /\ UNCHANGED <<spool, video, marked, verdict, clean, cut>> /\ Keeps

ToolEnds ==
  /\ tool.at = "look" /\ tool.camera > Cameras
  /\ Ends(IF tool.encoded THEN "finalized" ELSE "skipped")
  /\ UNCHANGED <<spool, spooling, video, marked, clean, cut>> /\ Keeps

\* Ctrl+C, or the machine goes down.
ToolInterrupted ==
  /\ tool.at # "off"
  /\ tool' = Idle
  /\ cut' = (cut \/ tool.at = "delete")
  /\ UNCHANGED <<spool, spooling, video, marked, verdict, clean>> /\ Keeps

Tool ==
  \/ ToolStarts \/ ToolEnds \/ ToolInterrupted
  \/ \E c \in Camera :
       \/ SkipCamera(c) \/ AttributesMissing(c)
       \/ BeginEncoding(c) \/ EncodeCamera(c) \/ EncodingRaises(c)
       \/ MarkFinalized(c) \/ DeleteFile(c) \/ DeleteDirectory(c)

Next == Command \/ Killed \/ (\E c \in Camera : PollCamera(c)) \/ Tool

Spec == Init /\ [][Next]_vars

-----------------------------------------------------------------------------
(* Properties.                                                             *)

Encoded(c) == video[c] \notin {None, Partial}

\* An .mp4 the tool has let stand shows one frame for each timestamp of the
\* store, and the frames that were written, in order: whatever failed while
\* the camera recorded, wherever the logger or the tool was killed.  Only of
\* a store without timestamps whose spool was deleted in part can it be less.
VideoIsTheRecording ==
  \A c \in Camera : Encoded(c) =>
    /\ dumped[c] # None => Len(video[c]) = dumped[c]
    /\ (dumped[c] # None \/ ~cut) => video[c] = spooled[c]

\* The frames that were written are in the spool or in the .mp4, unless the
\* deletion of a spool was interrupted.
FramesAreKept ==
  ~cut => \A c \in Camera : Shown(c) = spooled[c] \/ video[c] = spooled[c]

\* The tool refuses no episode of which nothing has failed and each camera has
\* recorded something, wherever the recording was paused and whichever frame
\* was the last of its chunk.
CleanIsFinalized ==
  verdict = "failed" =>
    \/ ~clean \/ cut
    \/ \E c \in Camera : store[c] = "ready" /\ spooled[c] = <<>>

=============================================================================
