------------------------------ MODULE MCAudio ------------------------------
(* Instances for TLC of the threads of Audio and of Video.  They share         *)
(* nothing here (a video has no sound): part says which one a behavior is      *)
(* about, the state of the other stays as it is.                               *)
(*                                                                             *)
(* With one source closing it can never block on m_SourcesLock, with two it    *)
(* can; releasing it and shutting down can with one already.                   *)
EXTENDS Audio

CONSTANTS
    Parts,                                      \* "audio" and "video"
    Samples, MaxPackets, MaxTimers, Scripts     \* those of Video

ASSUME VideoAssumption == Samples \in Nat \ {0} /\ MaxPackets \in Nat

VARIABLES
    part,
    vcond, vwait, opened, container, doOpen, playing, playWhenReady, shutdown,
    closeMsg, doSeek, doSetSize, noDisplay, inDisplay, error, eof, pos, packets,
    ring, framesIdx, timers, stray, timerIdx, vpc, inSeek, slot, mpc,
    inHandler, frame, reopen, lost, two, told, raced, script

V == INSTANCE Video WITH cond <- vcond, wait <- vwait, dpc <- vpc

videoVars == <<vcond, vwait, opened, container, doOpen, playing, playWhenReady,
               shutdown, closeMsg, doSeek, doSetSize, noDisplay, inDisplay,
               error, eof, pos, packets, ring, framesIdx, timers, stray,
               timerIdx, vpc, inSeek, slot, mpc, inHandler, frame,
               reopen, lost, two, told, raced, script>>

\* What one of them begins with is of no matter to the other.
PartsInit ==
    /\ Init /\ V!Init /\ part \in Parts
    /\ part = "audio" => script = CHOOSE s \in Scripts : TRUE
    /\ part = "video" => ~needSpace
PartsNext ==
    \/ part = "audio" /\ Next /\ UNCHANGED <<videoVars, part>>
    \/ part = "video" /\ V!Next /\ UNCHANGED <<vars, part>>
PartsSpec == PartsInit /\ [][PartsNext]_<<vars, videoVars, part>>

ShowsWhatWasSought == V!ShowsWhatWasSought
PlayingGoesOn == V!PlayingGoesOn
ClosesForGood == V!ClosesForGood
=============================================================================
