------------------------------- MODULE Video -------------------------------
(***************************************************************************)
(* AV::Video without sound: the main thread, which scripts, the timers of  *)
(* display() and the message MSG_CLOSE run on, and the decode thread.      *)
(*                                                                         *)
(* The decoder has m_DecodeThreadLock while it works and waits for         *)
(* m_BufferCond in between.  Frames go through a ring buffer without a     *)
(* lock; a frame of it points to one of as many buffers.  seek() and       *)
(* stop() empty the ring buffer under the decoder's hands.                 *)
(*                                                                         *)
(* A frame is what the last seek asked for, or it is of "before".  Steps   *)
(* of the two threads interleave as if memory were sequentially            *)
(* consistent.                                                             *)
(***************************************************************************)
EXTENDS Integers, Sequences, FiniteSets, Conditions

CONSTANTS
    Samples,    \* NIDIUM_VIDEO_BUFFER_SAMPLES: frames, buffers and timers
    MaxPackets, \* packets that are queued at most
    MaxTimers,  \* timers that run when the script asks for another one
    Scripts     \* for each script what it calls: "open", "play", "pause",
                \* "stop", "seek", "frames", "size" or "close"

VARIABLES
    opened, container, doOpen,      \* m_Opened, m_Container, m_SourceDoOpen
    playing, playWhenReady,
    shutdown,
    closeMsg,       \* MSG_CLOSE is on its way
    doSeek,         \* m_DoSemek with m_SeekFlags: "no" or the kind of seek
    doSetSize, noDisplay, inDisplay,
    error, eof,
    pos,            \* where the decoder is: "sought", as the last seek asked,
                    \* "before" that, or "any"where
    packets,        \* m_VideoQueue
    ring,           \* m_rBuff: for each frame its buffer, and pos
    framesIdx,
    timers,         \* the places of m_Timers that hold a timer that runs; places
                    \* are counted from m_LastTimer on
    stray,          \* the timers that run and are in no place
    timerIdx,       \* m_TimerIdx, likewise
    dpc,            \* the decode thread, and whether processVideo() is called
    inSeek,         \* from seekInternal(); the buffer that it converts into
    slot,
    mpc,            \* the main thread; the handler of "frame" that it returns
    inHandler,      \* to; the frame that it shows;
    frame, reopen,  \* closeInternal() is called by open()
    lost, two, told, raced, \* history: see the properties
    script

openVars == <<opened, container, doOpen, playing, playWhenReady>>
closing == <<shutdown, closeMsg>>
sizeVars == <<doSetSize, noDisplay, inDisplay>>
source == <<error, eof, pos, packets>>
buffers == <<ring, framesIdx>>
timerVars == <<timers, stray, timerIdx, two>>
decodeVars == <<dpc, inSeek, slot>>
mainVars == <<mpc, inHandler, frame, reopen>>
signals == <<condVars, lost>>
vars == <<openVars, closing, doSeek, sizeVars, source, buffers, timerVars,
          decodeVars, mainVars, signals, told, raced, script>>

Slot == 0..Samples - 1
Pos == {"sought", "before", "any"}
NoFrame == [slot |-> 0, of |-> "none"]
Live == stray + Cardinality(timers)

Init ==
    /\ cond = [c \in {"Buffer", "NotInDisplay"} |-> FALSE]
    /\ wait = [c \in {"Buffer", "NotInDisplay"} |-> "no"]
    /\ opened = FALSE /\ container = FALSE /\ doOpen = FALSE
    /\ playing = FALSE /\ playWhenReady = FALSE
    /\ shutdown = FALSE /\ closeMsg = FALSE
    /\ doSeek = "no"
    /\ doSetSize = FALSE /\ noDisplay = FALSE /\ inDisplay = FALSE
    /\ error = "none" /\ eof = FALSE /\ pos = "sought" /\ packets = 0
    /\ ring = <<>> /\ framesIdx = 0
    /\ timers = {} /\ stray = 0
    /\ timerIdx = 0
    /\ dpc = "none" /\ inSeek = FALSE /\ slot = 0
    /\ mpc = "idle" /\ inHandler = FALSE /\ frame = NoFrame /\ reopen = FALSE
    /\ lost = {} /\ two = FALSE /\ told = FALSE
    /\ raced = FALSE
    /\ script \in Scripts
-----------------------------------------------------------------------------
(* Definitions named ...Wrongly are slips that code like this invites.  No   *)
(* behaviour of the program uses them: each is there to be put in the place *)
(* of the definition it precedes, and to be found out by a property.        *)

\* A signal that comes between the check of the flag and the sleep is lost,
\* until the next one.
Wake(cs) ==
    /\ Signal(cs)
    /\ lost' = (lost \ cs) \cup {c \in cs : wait[c] = "unset"}
Still == UNCHANGED signals

Condition(c) ==
    /\ Check(c) \/ Sleep(c)
    /\ UNCHANGED <<openVars, closing, doSeek, sizeVars, source, buffers,
                   timerVars, decodeVars, mainVars, lost, told, raced,
                   script>>

\* scheduleDisplay(): a new timer, whatever was in its place.
NextSlot(i) == (i + 1) % Samples
PrevSlot(i) == (i + Samples - 1) % Samples
NewTimer ==
    /\ timers' = timers \cup {timerIdx}
    /\ stray' = IF timerIdx \in timers THEN stray + 1 ELSE stray
    /\ timerIdx' = NextSlot(timerIdx)
Schedule ==
    /\ NewTimer
    /\ two' = (two \/ Live > 0)
    /\ told' = FALSE
NoTimer == UNCHANGED <<timerVars, told>>

\* clearTimers(true); the places go on where they were.
ClearTimersWrongly ==       \* clears the places but not the timers
    timers' = {} /\ stray' = Live
ClearTimers == timers' = {} /\ UNCHANGED stray
ClearAll ==
    /\ ClearTimers
    /\ two' = (two /\ stray > 0) /\ told' = FALSE
    /\ UNCHANGED timerIdx

\* flushBuffers().  The handler of "frame" that flushes is done with its frame.
FlushBuffersWrongly ==      \* the index only
    framesIdx' = 0 /\ UNCHANGED ring /\ frame' = NoFrame
FlushBuffers == framesIdx' = 0 /\ ring' = <<>> /\ frame' = NoFrame
-----------------------------------------------------------------------------
(* The decode thread. *)

\* m_DecodeThreadLock
Locked == dpc \in {"seek", "previous", "buffer", "seeked", "process", "resize",
                   "write", "open", "ready"}
InProcess == dpc \in {"previous", "process", "resize", "write"}

\* The lock is free whenever the thread asks for it: closeInternal() is the only
\* other one that takes it, in a step.
Sought == doSeek # "no"
Lock ==
    /\ dpc = "lock" \/ (dpc = "wait" /\ Waited("Buffer"))
    /\ dpc' = CASE shutdown -> "exited"
                [] ~shutdown /\ opened -> IF Sought THEN "seek" ELSE "buffer"
                [] ~shutdown /\ ~opened -> IF doOpen THEN "open" ELSE "unlock"
    /\ doOpen' = (doOpen /\ (shutdown \/ opened))
    /\ shutdown' = FALSE
    /\ UNCHANGED <<opened, playing, playWhenReady, container, closeMsg, doSeek,
                   source, noDisplay, doSetSize, buffers, timerVars, told,
                   inSeek, slot>>
    /\ Still

\* openInitInternal().  The sizes and buffers are made; nothing is displayed
\* yet that setSizeInternal() would have to wait for.  When it is the source
\* that cannot be opened m_Container is given back, too.
OpenInitInternal ==
    /\ dpc = "open"
    /\ \/ /\ dpc' = "unlock" /\ closeMsg' = TRUE /\ UNCHANGED opened
          /\ UNCHANGED container \/ container' = FALSE
       \/ dpc' = "ready" /\ opened' = TRUE /\ UNCHANGED <<closeMsg, container>>
    /\ UNCHANGED <<doOpen, playing, playWhenReady, shutdown, doSeek, source,
                   noDisplay, doSetSize, buffers, timerVars, told,
                   inSeek, slot>>
    /\ Still

\* It is the decode thread that plays a video that was to play when ready.
Ready ==
    /\ dpc = "ready"
    /\ dpc' = "unlock"
    /\ IF playWhenReady /\ ~playing
       THEN /\ playing' = TRUE /\ playWhenReady' = FALSE
            /\ NewTimer
            /\ two' = (two \/ Live > 0 \/ mpc = "display")
            /\ raced' = (mpc \in {"stopSeek", "stopFlush", "closeLock",
                                "pauseClear"})
            /\ told' = FALSE
       ELSE NoTimer /\ UNCHANGED <<playing, playWhenReady, raced>>
    /\ UNCHANGED <<opened, doOpen, container, closing, doSeek, source,
                   noDisplay, doSetSize, buffers, inSeek, slot>>
    /\ Still

\* seekInternal() up to processVideo().  It jumps, backward or not, or reads on
\* to what is just ahead; both may fail.
SeekInternal ==
    /\ dpc = "seek"
    /\ \/ \E jump, backward \in BOOLEAN :
            /\ doSeek # "keyframe"
            /\ backward => jump
            /\ pos' = "sought"
            /\ packets' \in 1..MaxPackets
            /\ error' \in IF jump THEN {"none", "eof"}
                          ELSE {error, IF error = "none" THEN "eof" ELSE error}
            /\ eof' = (eof /\ ~backward)
            /\ IF doSeek = "previous"
               THEN /\ dpc' = "previous" /\ slot' = framesIdx
                    /\ UNCHANGED <<doSeek, inSeek>>
               ELSE /\ dpc' = "process" /\ doSeek' = "no" /\ inSeek' = TRUE
                    /\ UNCHANGED slot
       \/ /\ doSeek = "keyframe"
          /\ pos' = "sought" /\ packets' = 0 /\ error' = "none"
          /\ dpc' = "seeked"
          /\ UNCHANGED <<eof, doSeek, inSeek, slot>>
       \/ /\ pos' = "any"
          /\ packets' \in 0..MaxPackets
          /\ error' \in {error, "eof", "reading"}
          /\ eof' \in {eof, FALSE}
          /\ dpc' = "seeked"
          /\ UNCHANGED <<doSeek, inSeek, slot>>
    /\ UNCHANGED <<openVars, closing, noDisplay, doSetSize, buffers,
                   timerVars, told>>
    /\ Still

\* decode(), after seekInternal(): a seek asked for meanwhile is forgotten.
Seeked ==
    /\ dpc = "seeked"
    /\ doSeek' = "no" /\ inSeek' = FALSE
    /\ dpc' = "process"
    /\ UNCHANGED <<openVars, closing, source, noDisplay, doSetSize, buffers,
                   timerVars, told, slot>>
    /\ Still

\* buffer(): one packet, or as many as are wanted; a seek ends it.
Buffer ==
    /\ dpc = "buffer"
    /\ dpc' = IF Sought THEN "unlock" ELSE "process"
    /\ \/ /\ error = "none"
          /\ packets' \in packets..MaxPackets
          /\ playing \/ packets' <= packets + 1
          /\ packets' = packets => Sought \/ packets = MaxPackets
          /\ UNCHANGED error
       \/ /\ error = "none"
          /\ error' \in {"eof", "reading"}
          /\ packets' \in packets..MaxPackets
       \/ error # "none" /\ UNCHANGED <<error, packets>>
    /\ UNCHANGED <<openVars, closing, doSeek, eof, pos, noDisplay, doSetSize,
                   buffers, timerVars, told, inSeek, slot>>
    /\ Still

\* setSizeInternal(), from processVideo(): it waits until display() is over, and
\* display() does nothing meanwhile.
Resize ==
    /\ dpc = "process" /\ doSetSize
    /\ doSetSize' = FALSE /\ noDisplay' = TRUE
    /\ dpc' = "resize"
    /\ IF inDisplay THEN WaitFor("NotInDisplay") ELSE NoSignal
    /\ UNCHANGED <<openVars, closing, doSeek, source, buffers, timerVars, told,
                   inSeek, slot, lost>>
Resized ==
    /\ dpc = "resize" /\ Waited("NotInDisplay")
    /\ noDisplay' = FALSE
    /\ dpc' = "process"
    /\ UNCHANGED <<openVars, closing, doSeek, source, doSetSize, buffers,
                   timerVars, told, inSeek, slot>>
    /\ Still

\* One turn of processVideo(): nothing to do, or a packet, which may give a
\* frame.
HasSpace == Len(ring) < Samples
ProcessPacket ==
    /\ dpc = "process" /\ ~doSetSize
    /\ HasSpace /\ packets > 0
    /\ packets' = packets - 1
    /\ \/ dpc' = "process" /\ UNCHANGED slot
       \/ dpc' = "write" /\ slot' = framesIdx
    /\ UNCHANGED <<openVars, closing, doSeek, error, eof, pos, noDisplay,
                   doSetSize, buffers, timerVars, told, inSeek>>
    /\ Still
ProcessEnds ==
    /\ dpc = "process" /\ ~doSetSize
    /\ ~HasSpace \/ packets = 0
    /\ eof' = (eof \/ (HasSpace /\ error = "eof"))
    /\ dpc' = IF inSeek THEN "seeked" ELSE "unlock"
    /\ IF inSeek THEN Wake({"Buffer"}) ELSE Still
    /\ UNCHANGED <<openVars, closing, doSeek, error, pos, packets, noDisplay,
                   doSetSize, buffers, timerVars, told, inSeek, slot>>

\* processFrame() has converted the frame into m_Frames[m_FramesIdx].  From
\* seekInternal() it is the frame before the one that was found.
ProcessFrame ==
    /\ dpc \in {"write", "previous"}
    /\ ring' = IF HasSpace THEN Append(ring, [slot |-> slot, of |-> pos])
               ELSE ring
    /\ framesIdx' = NextSlot(framesIdx)
    /\ dpc' = "process" /\ slot' = 0
    /\ IF dpc = "previous" THEN doSeek' = "no" /\ inSeek' = TRUE
       ELSE UNCHANGED <<doSeek, inSeek>>
    /\ UNCHANGED <<openVars, closing, source, noDisplay, doSetSize,
                   timerVars, told>>
    /\ Still

\* The lock has been given back.
Unlock ==
    /\ dpc = "unlock"
    /\ shutdown' = FALSE
    /\ dpc' = CASE shutdown -> "exited"
                [] ~shutdown -> IF Sought THEN "lock" ELSE "wait"
    /\ IF shutdown \/ Sought THEN NoSignal ELSE WaitFor("Buffer")
    /\ UNCHANGED <<openVars, closeMsg, doSeek, source, noDisplay, doSetSize,
                   buffers, timerVars, told, inSeek, slot, lost>>

DecodeThread ==
    /\ \/ Ready
       \/ /\ \/ Lock \/ OpenInitInternal \/ SeekInternal \/ Seeked \/ Buffer
             \/ Resize \/ Resized \/ ProcessPacket \/ ProcessEnds
             \/ ProcessFrame \/ Unlock
          /\ UNCHANGED raced
    /\ UNCHANGED <<inDisplay, mainVars, script>>
-----------------------------------------------------------------------------
(* display(), on the main thread. *)

\* A timer fires; display() takes the next place in m_Timers to be its own.
Enter(ts, n) ==
    /\ timers' = {PrevSlot(i) : i \in ts \ {0}}
    /\ stray' = IF 0 \in ts THEN n + 1 ELSE n
    /\ timerIdx' = PrevSlot(timerIdx)
    /\ cond' = [cond EXCEPT !["NotInDisplay"] = FALSE]
    /\ inDisplay' = TRUE
    /\ mpc' = "display"
    /\ UNCHANGED <<two, told, wait, lost, frame>>
TimerFires ==
    /\ mpc = "idle"
    /\ \/ stray > 0 /\ Enter(timers, stray - 1)
       \/ \E i \in timers : Enter(timers \ {i}, stray)
    /\ UNCHANGED ring

\* Frames are being resized, or there is none.
Return == inDisplay' = FALSE /\ mpc' = "idle"
DisplayNothingWrongly ==    \* tries again only for want of a frame
    /\ mpc = "display" /\ opened
    /\ \/ /\ noDisplay
          /\ NoTimer /\ Wake({"NotInDisplay"})
       \/ /\ ~noDisplay /\ ring = <<>>
          /\ Wake({"Buffer", "NotInDisplay"})
          /\ IF eof THEN UNCHANGED timerVars /\ told' = playing ELSE Schedule
    /\ Return
    /\ UNCHANGED <<ring, frame>>
DisplayNothing ==
    /\ mpc = "display" /\ opened
    /\ \/ /\ noDisplay
          /\ Schedule /\ Wake({"NotInDisplay"})
       \/ /\ ~noDisplay /\ ring = <<>>
          /\ Wake({"Buffer", "NotInDisplay"})
          /\ IF eof THEN UNCHANGED timerVars /\ told' = playing ELSE Schedule
    /\ Return
    /\ UNCHANGED <<ring, frame>>

\* The frame is late and display() is called again.  (The signal that the outer
\* call gives after the inner one is left out.)
DropFrame ==
    /\ mpc = "display" /\ opened /\ ~noDisplay /\ ring # <<>> /\ playing
    /\ ring' = Tail(ring)
    /\ Enter(timers, stray)

\* Or it is shown, by a handler that may call what it likes.
ShowFrame ==
    /\ mpc = "display" /\ opened /\ ~noDisplay /\ ring # <<>>
    /\ ring' = Tail(ring)
    /\ frame' = Head(ring)
    /\ IF playing THEN Schedule ELSE NoTimer
    /\ mpc' = "frame"
    /\ UNCHANGED <<inDisplay, signals>>

\* The handler of "frame" has returned.
DisplayEnds ==
    /\ mpc = "frame"
    /\ frame' = NoFrame
    /\ Wake(IF playing THEN {"Buffer", "NotInDisplay"} ELSE {"NotInDisplay"})
    /\ Return
    /\ NoTimer /\ UNCHANGED ring

\* There is no ring buffer: the program crashes.
DisplayClosed ==
    /\ mpc = "display" /\ ~opened
    /\ mpc' = "crashed"
    /\ NoTimer /\ Still /\ UNCHANGED <<ring, frame, inDisplay>>

Display ==
    /\ \/ TimerFires \/ DisplayNothing \/ DropFrame \/ ShowFrame \/ DisplayEnds
       \/ DisplayClosed
    /\ UNCHANGED <<openVars, closing, doSeek, doSetSize, noDisplay, source,
                   framesIdx, decodeVars, inHandler, reopen, raced, script>>
-----------------------------------------------------------------------------
(* What scripts call, from the event loop or from the handler of "frame". *)

MayCall == mpc \in {"idle", "frame"}
Calls(op) == op \in script /\ MayCall
Back == mpc' = (IF inHandler THEN "frame" ELSE "idle") /\ inHandler' = FALSE
Goes(p) == mpc' = p /\ inHandler' = (mpc = "frame")

\* open(), and the thread, when nothing is open or is not any more.
Start ==
    /\ container' = TRUE /\ doOpen' = TRUE
    /\ dpc' = "lock"
    /\ pos' = "sought"
    /\ Wake({"Buffer"})
    /\ reopen' = FALSE
    /\ UNCHANGED <<opened, playing, playWhenReady, closing, doSeek, error, eof,
                   packets, buffers, timerVars, told, inSeek, slot>>
Open ==
    /\ dpc = "none" \/ container
    /\ MayCall /\ (container => Calls("open"))
    /\ UNCHANGED frame
    /\ IF container
       THEN /\ ClearAll /\ Goes("closeLock") /\ reopen' = TRUE
            /\ UNCHANGED <<openVars, closing, doSeek, source, buffers,
                           decodeVars>>
            /\ Still
       ELSE Start /\ UNCHANGED <<mpc, inHandler>>
    /\ UNCHANGED doSetSize

\* The source could not be opened and MSG_CLOSE is still on its way:
\* closeInternal() is not called, and there is a second thread that shares all
\* this with the first.  This is as far as the model goes.
OpenTwice ==
    /\ Calls("open") /\ ~container /\ dpc # "none"
    /\ Goes("twoThreads")
    /\ NoTimer /\ Still
    /\ UNCHANGED <<openVars, closing, doSeek, source, buffers, decodeVars,
                   reopen, doSetSize, frame>>

\* play(): whether the video is open may change after it was looked at.
Play ==
    /\ Calls("play") /\ ~playing /\ Live < MaxTimers
    /\ IF opened
       THEN /\ playing' = TRUE /\ playWhenReady' = FALSE /\ Schedule
            /\ UNCHANGED <<mpc, inHandler>>
       ELSE Goes("playLater") /\ UNCHANGED <<playing, playWhenReady>> /\ NoTimer
    /\ UNCHANGED <<opened, container, doOpen, closing, doSeek, source, buffers,
                   decodeVars, reopen, doSetSize, frame>>
    /\ Still
PlayLater ==
    /\ mpc = "playLater"
    /\ playWhenReady' = TRUE
    /\ Back
    /\ NoTimer /\ Still
    /\ UNCHANGED <<opened, playing, container, doOpen, closing, doSeek, source,
                   buffers, decodeVars, reopen, doSetSize, frame>>

\* pause(): the decode thread may play() between its two steps.
Pause ==
    /\ Calls("pause")
    /\ playing' = FALSE
    /\ Goes("pauseClear")
    /\ NoTimer /\ Still
    /\ UNCHANGED <<opened, container, doOpen, playWhenReady, closing, doSeek,
                   source, buffers, decodeVars, reopen, doSetSize, frame>>
PauseClear ==
    /\ mpc = "pauseClear"
    /\ ClearAll
    /\ Back
    /\ UNCHANGED <<openVars, closing, doSeek, source, buffers, decodeVars,
                   reopen, doSetSize, frame>>
    /\ Still

\* setSize(), which a video that plays calls, too.
SetSize ==
    /\ Calls("size")
    /\ doSetSize' = TRUE
    /\ UNCHANGED <<openVars, closing, doSeek, source, buffers, decodeVars, mpc,
                   inHandler, reopen, frame>>
    /\ NoTimer /\ Still

\* seek() is ignored while another one is not over.  What is decoded and what
\* is in the ring buffer is of before, from now on.
Stale(s) == [i \in DOMAIN s |-> [s[i] EXCEPT !.of = "before"]]
AskSeek(f, p) ==
    /\ doSeek' = f
    /\ ClearAll
    /\ pos' = (IF inSeek THEN "any" ELSE "before") /\ ring' = Stale(ring)
    /\ Goes(p)
Seek(f) ==
    /\ MayCall /\ opened /\ ~Sought /\ Live < MaxTimers
    /\ AskSeek(f, "seekFlush")
    /\ UNCHANGED <<openVars, closing, error, eof, packets, framesIdx, decodeVars,
                   reopen, doSetSize, frame>>
    /\ Still
Meet == pos' = IF InProcess THEN "any" ELSE pos
SeekFlush ==
    /\ mpc \in {"seekFlush", "stopSeek"}
    /\ FlushBuffers
    /\ Meet
    /\ Wake({"Buffer"})
    /\ Schedule
    /\ IF mpc = "stopSeek" THEN mpc' = "stopFlush" /\ UNCHANGED inHandler
       ELSE Back
    /\ UNCHANGED <<openVars, closing, doSeek, error, eof, packets, decodeVars,
                   reopen, doSetSize>>

\* prevFrame() and frameAt() are seeks of a video that does not play.
SeekFrame(f) == Calls("frames") /\ ~playing /\ Seek(f)

NextFrame ==
    /\ Calls("frames") /\ ~playing /\ opened /\ Live < MaxTimers
    /\ Schedule
    /\ UNCHANGED <<openVars, closing, doSeek, source, buffers, decodeVars, mpc,
                   inHandler, reopen, doSetSize, frame>>
    /\ Still

\* stop() seeks, if it can, and flushes in any case.
Stop ==
    /\ Calls("stop")
    /\ playing' = FALSE /\ error' = "none"
    /\ IF opened /\ ~Sought
       THEN AskSeek("exact", "stopSeek")
       ELSE Goes("stopFlush")
            /\ UNCHANGED <<doSeek, timerVars, told, pos, ring>>
    /\ UNCHANGED <<opened, container, doOpen, playWhenReady, closing, eof,
                   packets, framesIdx, decodeVars, reopen, doSetSize, frame>>
    /\ Still
StopFlush ==
    /\ mpc = "stopFlush"
    /\ FlushBuffers
    /\ Meet
    /\ ClearAll
    /\ Wake({"Buffer"})
    /\ Back
    /\ UNCHANGED <<openVars, closing, doSeek, error, eof, packets, decodeVars,
                   reopen, doSetSize>>

\* close(), and MSG_CLOSE.
CloseAsked ==
    /\ playing' = FALSE /\ error' = "none"
    /\ ClearAll
    /\ Goes("closeLock")
    /\ UNCHANGED <<opened, container, doOpen, playWhenReady, shutdown, doSeek,
                   eof, pos, packets, buffers, decodeVars, reopen,
                   doSetSize, frame>>
    /\ Still
Close ==
    /\ Calls("close") /\ (container \/ dpc # "none")
    /\ CloseAsked /\ UNCHANGED closeMsg
OnMessage == mpc = "idle" /\ closeMsg /\ closeMsg' = FALSE /\ CloseAsked

\* closeInternal(): the decode thread is told with its lock held, woken, and
\* waited for.
CloseLock ==
    /\ mpc = "closeLock" /\ ~Locked
    /\ IF dpc = "none" THEN mpc' = "closed" /\ UNCHANGED shutdown
       ELSE mpc' = "closeSignal" /\ shutdown' = TRUE
    /\ Still
    /\ UNCHANGED dpc
CloseSignalWrongly ==       \* forgets it
    /\ mpc = "closeSignal"
    /\ mpc' = "closeJoin"
    /\ Still
    /\ UNCHANGED <<dpc, shutdown>>
CloseSignal ==
    /\ mpc = "closeSignal"
    /\ mpc' = "closeJoin"
    /\ Wake({"Buffer"})
    /\ UNCHANGED <<dpc, shutdown>>
CloseJoin ==
    /\ mpc = "closeJoin" /\ dpc = "exited"
    /\ mpc' = "closed" /\ dpc' = "none" /\ shutdown' = FALSE
    /\ Still
ClosingStep ==
    /\ CloseLock \/ CloseSignal \/ CloseJoin
    /\ UNCHANGED <<openVars, closeMsg, doSeek, source, buffers, timerVars, told,
                   inSeek, slot, inHandler, reopen, doSetSize, frame>>

\* Everything is given back.  open() goes on with the next source.
Closed ==
    /\ mpc = "closed"
    /\ FlushBuffers /\ packets' = 0
    /\ opened' = FALSE /\ playing' = FALSE /\ playWhenReady' = FALSE
    /\ two' = (two /\ Live > 0)
    /\ IF reopen
       THEN /\ container' = TRUE /\ doOpen' = TRUE /\ dpc' = "lock"
            /\ pos' = "sought" /\ Wake({"Buffer"})
       ELSE /\ container' = FALSE /\ doOpen' = FALSE
            /\ UNCHANGED <<dpc, pos>> /\ Still
    /\ reopen' = FALSE
    /\ Back
    /\ UNCHANGED <<closing, doSeek, error, eof, timers, stray, timerIdx,
                   told, inSeek, slot, doSetSize>>

Script ==
    /\ \/ Open \/ OpenTwice \/ Play \/ PlayLater \/ Pause \/ PauseClear
       \/ SetSize
       \/ Calls("seek") /\ Seek("exact")
       \/ SeekFrame("keyframe") \/ SeekFrame("previous") \/ SeekFlush
       \/ NextFrame \/ Stop \/ StopFlush \/ Close \/ OnMessage \/ ClosingStep
       \/ Closed
    /\ raced' = (raced /\ IF mpc = "closed" THEN Live > 0
                            ELSE playing' = playing)
    /\ UNCHANGED <<noDisplay, inDisplay, script>>

Next ==
    \/ DecodeThread \/ Display \/ Script
    \/ \E c \in {"Buffer", "NotInDisplay"} : Condition(c)

Spec == Init /\ [][Next]_vars
-----------------------------------------------------------------------------
TypeOK ==
    /\ opened \in BOOLEAN /\ container \in BOOLEAN /\ doOpen \in BOOLEAN
    /\ playing \in BOOLEAN /\ playWhenReady \in BOOLEAN
    /\ shutdown \in BOOLEAN /\ closeMsg \in BOOLEAN
    /\ doSeek \in {"no", "exact", "keyframe", "previous"}
    /\ doSetSize \in BOOLEAN /\ noDisplay \in BOOLEAN /\ inDisplay \in BOOLEAN
    /\ error \in {"none", "eof", "reading"} /\ eof \in BOOLEAN
    /\ pos \in Pos /\ packets \in 0..MaxPackets
    /\ ring \in Seq([slot : Slot, of : Pos]) /\ Len(ring) <= Samples
    /\ framesIdx \in Slot /\ timerIdx \in Slot /\ slot \in Slot
    /\ timers \subseteq Slot /\ stray \in Nat
    /\ dpc \in {"none", "lock", "seek", "previous", "buffer", "seeked", "process",
                "resize", "write", "open", "ready", "unlock", "wait", "exited"}
    /\ inSeek \in BOOLEAN
    /\ mpc \in {"idle", "display", "frame", "crashed", "playLater", "seekFlush",
                "stopSeek", "stopFlush", "closeLock", "closeSignal",
                "closeJoin", "closed", "pauseClear", "twoThreads"}
    /\ inHandler \in BOOLEAN /\ reopen \in BOOLEAN
    /\ frame \in [slot : Slot, of : Pos] \cup {NoFrame}
    /\ lost \subseteq {"Buffer", "NotInDisplay"}
    /\ two \in BOOLEAN /\ told \in BOOLEAN /\ raced \in BOOLEAN

\* While a frame is shown the decoder comes back to its buffer only when all the
\* others hold frames that are still to be shown (it does not know that the one
\* which is shown is in use, and may overwrite it then); and the frame is what
\* the last seek asked for, unless that seek has failed with an error or has met
\* the decoder while it made frames, or the handler itself has sought since.
Overwritten ==
    \/ dpc \in {"write", "previous"} /\ slot = frame.slot
    \/ \E i \in 1..Len(ring) : ring[i].slot = frame.slot
ShowsWhatWasSought ==
    mpc = "frame" =>
        \/ frame.of \in {"any", "none"}
        \/ frame.of = "sought" /\ (Overwritten => Len(ring) >= Samples - 1)

\* A video that plays will display again, or has told that its end was reached:
\* resizing, seeks, dropped frames and an empty buffer do not end it; unless it
\* began to play, on the decode thread, while it was being stopped or paused.
PlayingGoesOn == opened /\ playing /\ MayCall => Live > 0 \/ told \/ raced

\* When the video is closed no timer will display it, unless two timers ran at
\* once; and closing does not wait
\* for ever for a decoder that sleeps, unless the signal that wakes it was lost
\* or the one it waits for is the end of the handler that closes.  There is one
\* decode thread, unless open() is called again after it has failed and before
\* MSG_CLOSE has come.
ClosedIsQuiet == dpc = "none" /\ mpc = "idle" => Live = 0 \/ two \/ raced
CloseEnds ==
    /\ mpc = "closeJoin" /\ wait["Buffer"] = "asleep" => "Buffer" \in lost
    /\ mpc = "closeLock" /\ wait["NotInDisplay"] = "asleep"
          => inHandler \/ "NotInDisplay" \in lost
OneThread == mpc = "twoThreads" => closeMsg
ClosesForGood == ClosedIsQuiet /\ CloseEnds /\ OneThread
=============================================================================
