----------------------------- MODULE VideoReader -----------------------------
(***************************************************************************)
(* VideoReader: a DataReader whose loader is a VideoLoader                 *)
(* (video_loader.cc), with its decoder NvDecoder (nvdecoder.cc) and the    *)
(* ThreadSafeQueues between them.  The prefetch thread asks for one        *)
(* sequence at a time and converts its frames; the file thread reads       *)
(* packets from the last key frame before the sequence on, and gives them  *)
(* to NVDEC's parser, which calls back for every picture in decoding order *)
(* and then in display order.                                              *)
(*                                                                         *)
(* A file is the sequence of its packets in decoding order, a frame is its *)
(* number, and a decode surface holds the frame last decoded into it.  A   *)
(* batch is one sequence.  shutdown() takes no mutex, so a wait on a queue *)
(* is two steps: the test of the predicate ("presleep" follows, with the   *)
(* mutex held) and the blocking.                                           *)
(***************************************************************************)
EXTENDS DataReader, Sequences, SequencesExt

CONSTANTS
  Readers,      \* the readers considered, see ReadersAssumption
  Surfaces,     \* decode surfaces, 20 in the code
  Overshoot     \* how far read_file goes beyond a sequence, 20 in the code

\* video is FALSE for a reader with some other loader.  files has the packets of
\* each file; count, stride and step say what a sequence is; unreliable: a seek
\* may end after the frame sought; bad has the key frames with another format,
\* interlaced says that NVDEC delivers interlaced frames; runs bounds the calls
\* of Run.  All frames of a file are there and groups of pictures are closed.
ASSUME ReadersAssumption ==
  /\ IsFiniteSet(Surfaces) /\ Overshoot \in Nat
  /\ \A s \in Readers :
       /\ {s.video, s.unreliable, s.interlaced} \subseteq BOOLEAN
       /\ {s.count, s.stride, s.step} \subseteq Nat \ {0} /\ s.runs \in Nat
       /\ \A i \in DOMAIN s.files :
            /\ {p.frame : p \in Range(s.files[i])} = 0 .. Len(s.files[i]) - 1
            /\ s.files[i][1].key
            /\ \A j, k \in DOMAIN s.files[i] :
                 j < k /\ s.files[i][k].key => s.files[i][j].frame < s.files[i][k].frame

VARIABLES
  scenario, current_frame_idx,
  send_queue, recv_queue, frame_queue,
  interrupt,    \* the queues that are shut down
  asleep,       \* the queues on which a thread sleeps
  stop,         \* which of the loader's and the decoder's stop_ are set
  captured_exception,
  nvdec,        \* current_recv_, frame_in_use_, the surfaces and the parser
  file,         \* the file thread: its place and the locals of read_file
  receive,      \* the prefetch thread in ReadSample: its place, the sequence so far
  destroy       \* the next step of ~VideoLoader

queues == <<send_queue, recv_queue, frame_queue, interrupt, asleep>>
rest == <<scenario, current_frame_idx, stop, captured_exception, destroy>>
loader == <<rest, queues, nvdec, file, receive>>

NoReq == [file |-> 1, frame |-> 0, count |-> 0]

\* what a surface holds that nobody refers to: its content is forgotten
Nothing == <<0, 0>>

\* frame_starts_ of PrepareMetadataImpl: the sequences that fit into their file
FrameStarts(s) ==
  LET total_count == 1 + (s.count - 1) * s.stride
      starts(i) == {k \in 0 .. Len(s.files[i]) - total_count : k % s.step = 0}
      metas(i) == {[file |-> i, frame |-> k] : k \in starts(i)}
  IN FlattenSeq([i \in DOMAIN s.files |-> SetToSortSeq(metas(i), LAMBDA a, b : a.frame < b.frame)])

\* the loader is built, and its file thread started, before the first Run
VideoInit ==
  /\ Init
  /\ scenario \in Readers /\ current_frame_idx = 1
  /\ send_queue = <<>> /\ recv_queue = <<>> /\ frame_queue = <<>>
  /\ interrupt = {} /\ asleep = {} /\ stop = {} /\ captured_exception = FALSE
  /\ nvdec = [current_recv |-> NoReq, frame_in_use |-> {}, parser |-> {}, pic |-> 0,
              surface |-> [s \in Surfaces |-> Nothing]]
  /\ file = [pc |-> IF scenario.video THEN "loop" ELSE "done", req |-> NoReq, position |-> 1,
             nonkey_frame_count |-> 0, seek_hack |-> 1, final_try |-> FALSE]
  /\ receive = [pc |-> "none", frame |-> 0, sequence |-> <<>>]
  /\ destroy = "none"

-----------------------------------------------------------------------------
(* read_file: requests *)

FileLoop ==
  /\ file.pc = "loop"
  /\ file' = [file EXCEPT !.pc = IF "loader" \in stop THEN "leave" ELSE "pop"]
  /\ UNCHANGED <<vars, rest, queues, nvdec, receive>>

\* send_queue_.pop() up to the block or the return
PopRequest ==
  /\ file.pc = "pop" /\ "send" \notin asleep
  /\ \/ /\ "send" \in interrupt
        /\ file' = [file EXCEPT !.pc = "popped", !.req = NoReq]
        /\ UNCHANGED send_queue
     \/ /\ "send" \notin interrupt /\ send_queue # <<>>
        /\ file' = [file EXCEPT !.pc = "popped", !.req = Head(send_queue)]
        /\ send_queue' = Tail(send_queue)
     \/ /\ "send" \notin interrupt /\ send_queue = <<>>
        /\ file' = [file EXCEPT !.pc = "presleep"]
        /\ UNCHANGED send_queue
  /\ UNCHANGED <<vars, rest, recv_queue, frame_queue, interrupt, asleep, nvdec, receive>>

PopRequestSleep ==
  /\ file.pc = "presleep"
  /\ asleep' = asleep \cup {"send"} /\ file' = [file EXCEPT !.pc = "pop"]
  /\ UNCHANGED <<vars, rest, send_queue, recv_queue, frame_queue, interrupt, nvdec, receive>>

Packets == scenario.files[file.req.file]
Packet == Packets[file.position]

\* av_seek_frame with AVSEEK_FLAG_BACKWARD: the positions it may leave the file at
Seek(frame) ==
  LET keys == {k \in DOMAIN Packets : Packets[k].key}
      before == {k \in keys : Packets[k].frame <= frame}
      after == keys \ before
  IN {Max(before)} \cup (IF scenario.unreliable /\ frame > 0 /\ after # {} THEN {Min(after)} ELSE {})

\* push_req and the seek
StartRequest ==
  /\ file.pc = "popped"
  /\ IF "loader" \in stop
     THEN file' = [file EXCEPT !.pc = "leave"] /\ UNCHANGED recv_queue
     ELSE /\ recv_queue' = Append(recv_queue, file.req)
          /\ \E k \in Seek(file.req.frame) :
               file' = [file EXCEPT !.pc = "read", !.position = k, !.nonkey_frame_count = 0]
  /\ UNCHANGED <<vars, rest, send_queue, frame_queue, interrupt, asleep, nvdec, receive>>

-----------------------------------------------------------------------------
(* read_file: packets *)

Reading == file.pc = "read" /\ file.req.count > 0 /\ file.position <= Len(Packets)

GotAhead ==
  Packet.key /\ Packet.frame > file.req.frame + file.nonkey_frame_count

\* "We got ahead of ourselves!": seek farther back, at last to frame 0.  An
\* exception leaves the thread's function and ends the process.
SeekBack ==
  LET hack == 2 * file.seek_hack
      back == IF file.req.frame > hack THEN file.req.frame - hack ELSE 0
  IN /\ Reading /\ GotAhead
     /\ IF file.final_try
        THEN file' = [file EXCEPT !.pc = "terminated"]
        ELSE \E k \in Seek(back) :
               file' = [file EXCEPT !.position = k, !.seek_hack = hack, !.final_try = back = 0]
     /\ UNCHANGED <<vars, rest, queues, nvdec, receive>>

\* the request without its first n frames
Without(req, n) == [req EXCEPT !.frame = @ + n, !.count = @ - n]

\* Packets of frames that are wanted, counted at the next key frame
CountPacket ==
  LET n == file.nonkey_frame_count + 1
  IN IF Packet.frame < file.req.frame THEN file
     ELSE IF Packet.key
     THEN [file EXCEPT !.req = Without(@, n), !.nonkey_frame_count = 0, !.final_try = FALSE]
     ELSE IF Packet.frame > file.req.frame + file.req.count + Overshoot
     THEN [file EXCEPT !.req = Without(@, n), !.nonkey_frame_count = 0]
     ELSE [file EXCEPT !.nonkey_frame_count = n]

\* A packet goes to decode_av_packet, which ignores it once stop_ is set; the
\* parser calls handle_sequence for a key frame.
SendPacket ==
  /\ Reading /\ ~GotAhead
  /\ file' = [CountPacket EXCEPT !.seek_hack = 1, !.position = @ + 1,
                !.pc = IF "decoder" \in stop THEN "read" ELSE IF Packet.key THEN "sequence" ELSE "pick"]
  /\ UNCHANGED <<vars, rest, queues, nvdec, receive>>

\* the end of the request or of the file: decode_packet(nullptr)
EndRequest ==
  /\ file.pc = "read" /\ ~Reading
  /\ file' = [file EXCEPT !.pc = IF "decoder" \in stop THEN "loop" ELSE "flush"]
  /\ UNCHANGED <<vars, rest, queues, nvdec, receive>>

\* The last flush and the end of the thread.  The parser holds nothing then,
\* unless stop_ is set.
LeaveReadFile ==
  /\ file.pc = "leave"
  /\ file' = [file EXCEPT !.pc = "done"]
  /\ UNCHANGED <<vars, rest, queues, nvdec, receive>>

-----------------------------------------------------------------------------
(* NvDecoder, called back by the parser on the file thread *)

Sent == Packets[file.position - 1]
At(pc) == [file EXCEPT !.pc = pc]

\* CUVideoDecoder::initialize accepts the format of the key frame, or throws
Initialize == <<file.req.file, Sent.frame>> \notin scenario.bad

HandleSequence ==
  /\ file.pc = "sequence"
  /\ IF Initialize
     THEN file' = At("pick") /\ UNCHANGED stop
     ELSE stop' = stop \cup {"decoder"} /\ file' = At("capture")
  /\ UNCHANGED <<vars, scenario, current_frame_idx, captured_exception, destroy, queues, nvdec, receive>>

HandleSequenceCapture ==
  /\ file.pc = "capture"
  /\ captured_exception' = TRUE /\ file' = At("interrupt")
  /\ UNCHANGED <<vars, scenario, current_frame_idx, stop, destroy, queues, nvdec, receive>>

\* frame_queue_.shutdown()
HandleSequenceInterrupt ==
  /\ file.pc = "interrupt"
  /\ interrupt' = interrupt \cup {"frame"} /\ file' = At("notify")
  /\ UNCHANGED <<vars, rest, send_queue, recv_queue, frame_queue, asleep, nvdec, receive>>

HandleSequenceNotify ==
  /\ file.pc = "notify"
  /\ asleep' = asleep \ {"frame"} /\ file' = At("pick")
  /\ UNCHANGED <<vars, rest, send_queue, recv_queue, frame_queue, interrupt, nvdec, receive>>

\* The parser chooses CurrPicIdx among the surfaces it does not hold; it does not
\* know which ones the prefetch thread has still to convert.
PickSurface ==
  /\ file.pc = "pick"
  /\ \E s \in Surfaces \ {p.surface : p \in nvdec.parser} : nvdec' = [nvdec EXCEPT !.pic = s]
  /\ file' = At("decode")
  /\ UNCHANGED <<vars, rest, queues, receive>>

Decoded ==
  [nvdec EXCEPT !.pic = 0, !.surface[nvdec.pic] = <<file.req.file, Sent.frame>>,
                !.parser = @ \cup {[frame |-> Sent.frame, surface |-> nvdec.pic]}]

\* mutant: handle_decode_ does not wait for the surface
HandleDecodeNoWait ==
  /\ file.pc = "decode"
  /\ IF "decoder" \in stop
     THEN file' = At("read") /\ UNCHANGED nvdec
     ELSE file' = At("display") /\ nvdec' = Decoded
  /\ UNCHANGED <<vars, rest, queues, receive>>

HandleDecode ==
  /\ file.pc = "decode"
  /\ \/ "decoder" \in stop /\ file' = At("read") /\ UNCHANGED nvdec
     \/ /\ "decoder" \notin stop /\ nvdec.pic \notin nvdec.frame_in_use
        /\ file' = At("display") /\ nvdec' = Decoded
  /\ UNCHANGED <<vars, rest, queues, receive>>

Wanted(recv, frame) == recv.count > 0 /\ frame = recv.frame

\* handle_display_ for picture p.  A request of which nothing is left makes way
\* for the next one; recv_queue_ is empty when that has not been made.
HandleDisplay(p) ==
  LET moving == nvdec.current_recv.count <= 0
      ditched == moving /\ recv_queue = <<>>
      pops == moving /\ ~ditched
      recv == IF ~pops THEN nvdec.current_recv
              ELSE IF "recv" \in interrupt THEN NoReq ELSE Head(recv_queue)
      going == ~ditched /\ "decoder" \notin stop /\ Wanted(recv, p.frame)
  IN /\ recv_queue' = IF pops /\ "recv" \notin interrupt THEN Tail(recv_queue) ELSE recv_queue
     /\ nvdec' = [nvdec EXCEPT !.parser = @ \ {p},
                               !.current_recv = IF going THEN Without(recv, scenario.stride) ELSE recv,
                               !.frame_in_use = IF going THEN @ \cup {p.surface} ELSE @,
                               !.surface[p.surface] = IF going THEN @ ELSE Nothing]
     /\ IF going
        THEN /\ receive.pc # "presleep"
             /\ frame_queue' = Append(frame_queue, p.surface) /\ asleep' = asleep \ {"frame"}
        ELSE UNCHANGED <<frame_queue, asleep>>
     /\ UNCHANGED <<vars, rest, send_queue, interrupt, receive>>

\* the parser's next picture in display order; none while an earlier one is to come
Displayable ==
  {p \in nvdec.parser :
     /\ \A q \in nvdec.parser : p.frame <= q.frame
     /\ \A k \in file.position .. Len(Packets) : p.frame < Packets[k].frame}

\* After a picture is decoded the parser delivers what it can, or keeps it back as
\* long as a surface is left.
Display == file.pc = "display" /\ (\E p \in Displayable : HandleDisplay(p)) /\ UNCHANGED file

EndDisplay ==
  /\ file.pc = "display" /\ {p.surface : p \in nvdec.parser} # Surfaces
  /\ file' = At("read")
  /\ UNCHANGED <<vars, rest, queues, nvdec, receive>>

\* the end of the stream: everything decoded is delivered
Flush ==
  /\ file.pc = "flush"
  /\ \E p \in nvdec.parser : (\A q \in nvdec.parser : p.frame <= q.frame) /\ HandleDisplay(p)
  /\ UNCHANGED file

EndFlush ==
  /\ file.pc = "flush" /\ nvdec.parser = {}
  /\ file' = [At("loop") EXCEPT !.req = NoReq, !.position = 1, !.nonkey_frame_count = 0]
  /\ UNCHANGED <<vars, rest, queues, nvdec, receive>>

-----------------------------------------------------------------------------
(* ReadSample, called by Prefetch on the prefetch thread *)

\* push_sequence_to_read
PushSequence ==
  LET start == FrameStarts(scenario)[current_frame_idx]
  IN /\ scenario.video /\ producer = "fill" /\ receive.pc = "none"
     /\ file.pc # "presleep"
     /\ send_queue' = Append(send_queue, [file |-> start.file, frame |-> start.frame,
                                          count |-> 1 + (scenario.count - 1) * scenario.stride])
     /\ asleep' = asleep \ {"send"}
     /\ receive' = [receive EXCEPT !.pc = "pop", !.sequence = <<>>]
     /\ UNCHANGED <<vars, rest, recv_queue, frame_queue, interrupt, nvdec, file>>

\* frame_queue_.pop() up to the block or the return
PopFrame ==
  /\ receive.pc = "pop" /\ "frame" \notin asleep
  /\ \/ /\ "frame" \in interrupt
        /\ receive' = [receive EXCEPT !.pc = "map"]
        /\ UNCHANGED frame_queue
     \/ /\ "frame" \notin interrupt /\ frame_queue # <<>>
        /\ receive' = [receive EXCEPT !.pc = "map", !.frame = Head(frame_queue)]
        /\ frame_queue' = Tail(frame_queue)
     \/ /\ "frame" \notin interrupt /\ frame_queue = <<>>
        /\ receive' = [receive EXCEPT !.pc = "presleep"]
        /\ UNCHANGED frame_queue
  /\ UNCHANGED <<vars, rest, send_queue, recv_queue, interrupt, asleep, nvdec, file>>

PopFrameSleep ==
  /\ receive.pc = "presleep"
  /\ asleep' = asleep \cup {"frame"} /\ receive' = [receive EXCEPT !.pc = "pop"]
  /\ UNCHANGED <<vars, rest, send_queue, recv_queue, frame_queue, interrupt, nvdec, file>>

\* MappedFrame, which throws for an interlaced frame, between two tests of stop_
MapFrame ==
  /\ receive.pc = "map"
  /\ receive' = [receive EXCEPT !.pc = IF "decoder" \in stop THEN "end"
                                       ELSE IF scenario.interlaced THEN "throw" ELSE "convert"]
  /\ UNCHANGED <<vars, rest, queues, nvdec, file>>

\* convert_frame, which gives the surface back
ConvertFrame ==
  /\ receive.pc = "convert"
  /\ LET sequence == Append(receive.sequence, nvdec.surface[receive.frame])
     IN IF "decoder" \in stop
        THEN receive' = [receive EXCEPT !.pc = "end"] /\ UNCHANGED nvdec
        ELSE /\ receive' = [receive EXCEPT !.sequence = sequence, !.frame = 0,
                              !.pc = IF Len(sequence) < scenario.count THEN "pop" ELSE "end"]
             /\ nvdec' = [nvdec EXCEPT !.frame_in_use = @ \ {receive.frame},
                                    !.surface[receive.frame] = Nothing]
  /\ UNCHANGED <<vars, rest, queues, file>>

\* ReadSample returns; MoveToNextShard of the only shard wraps around
ReadReturns ==
  /\ receive.pc = "end" /\ ~captured_exception
  /\ PrefetchFill
  /\ current_frame_idx' = (current_frame_idx % Len(FrameStarts(scenario))) + 1
  /\ receive' = [receive EXCEPT !.pc = "none", !.sequence = <<>>]
  /\ UNCHANGED <<scenario, stop, captured_exception, destroy, queues, nvdec, file>>

ReadThrows ==
  /\ receive.pc = "throw" \/ (receive.pc = "end" /\ captured_exception)
  /\ PrefetchThrows
  /\ receive' = [receive EXCEPT !.pc = "none"]
  /\ UNCHANGED <<rest, queues, nvdec, file>>

-----------------------------------------------------------------------------
(* ~VideoLoader, after ~DataReader has joined the prefetch thread *)

LoaderUnchanged == UNCHANGED <<vars, scenario, current_frame_idx, captured_exception, send_queue,
                               recv_queue, frame_queue, nvdec, file, receive>>

DestroyStop ==
  /\ scenario.video /\ destructor = "done" /\ destroy = "none"
  /\ stop' = stop \cup {"loader"} /\ destroy' = "interrupt"
  /\ UNCHANGED <<interrupt, asleep>> /\ LoaderUnchanged

\* send_queue_.shutdown()
DestroyInterrupt ==
  /\ destroy = "interrupt"
  /\ interrupt' = interrupt \cup {"send"} /\ destroy' = "notify"
  /\ UNCHANGED <<stop, asleep>> /\ LoaderUnchanged

DestroyNotify ==
  /\ destroy = "notify"
  /\ asleep' = asleep \ {"send"} /\ destroy' = "finish"
  /\ UNCHANGED <<stop, interrupt>> /\ LoaderUnchanged

\* mutant: the decoder is not told
FinishKeepsDecoding ==
  /\ destroy = "finish"
  /\ destroy' = "shutdown"
  /\ UNCHANGED <<stop, interrupt, asleep>> /\ LoaderUnchanged

\* NvDecoder::finish
Finish ==
  /\ destroy = "finish"
  /\ stop' = stop \cup {"decoder"} /\ destroy' = "shutdown"
  /\ UNCHANGED <<interrupt, asleep>> /\ LoaderUnchanged

\* nobody waits for a frame any more, and recv_queue_ is never waited for
FinishShutdown ==
  /\ destroy = "shutdown"
  /\ interrupt' = interrupt \cup {"recv", "frame"} /\ destroy' = "join"
  /\ UNCHANGED <<stop, asleep>> /\ LoaderUnchanged

DestroyJoin ==
  /\ destroy = "join" /\ file.pc = "done"
  /\ destroy' = "done"
  /\ UNCHANGED <<stop, interrupt, asleep>> /\ LoaderUnchanged

-----------------------------------------------------------------------------
FileThread ==
  \/ FileLoop \/ PopRequest \/ PopRequestSleep \/ StartRequest \/ SeekBack \/ SendPacket
  \/ EndRequest \/ LeaveReadFile
  \/ HandleSequence \/ HandleSequenceCapture \/ HandleSequenceInterrupt \/ HandleSequenceNotify
  \/ PickSurface \/ HandleDecode \/ Display \/ EndDisplay \/ Flush \/ EndFlush

ReadSample ==
  PushSequence \/ PopFrame \/ PopFrameSleep \/ MapFrame \/ ConvertFrame \/ ReadReturns \/ ReadThrows

\* PrefetchWorker with this reader's loader
VideoPrefetch ==
  \/ ReadSample
  \/ ~scenario.video /\ (PrefetchFill \/ PrefetchThrows) /\ UNCHANGED loader
  \/ (ProducerWait \/ ProducerCheck \/ PrefetchClear \/ ProducerAdvanceQueue \/ ProducerNotify)
     /\ UNCHANGED loader

VideoRun == Run /\ UNCHANGED loader

VideoDestroy ==
  \/ (StopNotify \/ StopJoin) /\ UNCHANGED loader
  \/ DestroyStop \/ DestroyInterrupt \/ DestroyNotify \/ Finish \/ FinishShutdown \/ DestroyJoin

VideoNext ==
  \/ FileThread \/ VideoPrefetch \/ VideoRun \/ VideoDestroy
  \/ runs < scenario.runs /\ RunStart /\ UNCHANGED loader
  \/ StopPrefetchThread /\ UNCHANGED loader

all == <<vars, loader>>

\* Threads that can run do run, and a destructor that has begun goes on.
VideoSpec ==
  /\ VideoInit /\ [][VideoNext]_all
  /\ WF_all(FileThread) /\ WF_all(VideoPrefetch) /\ WF_all(VideoRun) /\ WF_all(VideoDestroy)

-----------------------------------------------------------------------------
(* Properties. *)

\* A sequence that ReadSample returns has the frames start, start + stride, ... of
\* its file, whatever seek, the parser's delay and choice of surfaces, and earlier
\* requests did: none is lost or repeated, none comes from an earlier request, and
\* no surface is decoded into before its frame is converted.  And read_file does
\* not give up a seek, which would end the process.  Excepted is a decoder that
\* has met a change of format: stop_ is set before captured_exception_, and in
\* between receive_frames returns a sequence whose last frames are missing.
SequencesAsRequested ==
  /\ file.pc # "terminated"
  /\ receive.pc = "end" /\ "decoder" \notin stop =>
       LET start == FrameStarts(scenario)[current_frame_idx]
       IN receive.sequence =
            [i \in 1 .. scenario.count |-> <<start.file, start.frame + (i - 1) * scenario.stride>>]

\* shutdown() sets interrupt_ and notifies without the mutex, and a thread between
\* its test and its wait misses both: it sleeps on a queue that was shut down.
SleepsOnClosedQueue ==
  \/ "frame" \in asleep /\ captured_exception /\ file.pc \notin {"interrupt", "notify"}
  \/ "send" \in asleep /\ destroy \in {"finish", "shutdown", "join"}

\* A Run that has begun returns, with a batch or with the loader's exception, and
\* the destructors of the reader and of its loader return, for every loader that
\* returns or throws and for the video loader too, unless a thread has missed the
\* notification of a queue's shutdown().
ReaderReturns ==
  /\ (consumer = "wait") ~> (consumer = "idle" \/ SleepsOnClosedQueue)
  /\ (destructor = "notify") ~> (IF scenario.video THEN destroy = "done" \/ SleepsOnClosedQueue
                                 ELSE destructor = "done")

=============================================================================
