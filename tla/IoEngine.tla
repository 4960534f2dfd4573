------------------------------ MODULE IoEngine ------------------------------
(***************************************************************************)
(* io_init: a command runs on one of the two I/O engines of io.c, the      *)
(* threads over a ring of slots, or the single thread over slot 0 when     *)
(* io_max is 1.  The function pointers it sets never change during a       *)
(* command, and sync and scrub see the same promises, those of IoStream,   *)
(* whichever engine they got.                                              *)
(***************************************************************************)
EXTENDS IoRing

CONSTANTS
    MonoReaderMax   \* the readers when the engine is the single thread

VARIABLES
    engine,         \* which functions the pointers of struct snapraid_io name
    \* slot 0 and the loop over it, when the engine is the single thread
    mBlockNext, mReaderIndex, mWriterIndex, mWriterError, mRBuf, mPBuf, mWState,
    mMpc, mCur, mSkip, mSent, mParity

monoVars == <<mBlockNext, mReaderIndex, mWriterIndex, mWriterError, mRBuf, mPBuf,
              mWState, mMpc, mCur, mSkip, mSent, mParity>>
engineVars == <<engine, vars, monoVars>>

Mono == INSTANCE IoMono WITH
    ReaderMax <- MonoReaderMax,
    blockNext <- mBlockNext, readerIndex <- mReaderIndex, writerIndex <- mWriterIndex,
    writerError <- mWriterError, rBuf <- mRBuf, pBuf <- mPBuf, wState <- mWState,
    mpc <- mMpc, cur <- mCur, skip <- mSkip, sent <- mSent, parity <- mParity

(* There is at least one disk.                                             *)
ASSUME EngineAssumption == Mono!MonoConstants

-----------------------------------------------------------------------------
(* io_max comes from the option of the io cache: 1 is the single thread.   *)
EngineInit == engine \in {"threads", "mono"} /\ Init /\ Mono!Init

Threads(A) == engine = "threads" /\ A /\ UNCHANGED <<engine, monoVars>>

Single == engine = "mono" /\ Mono!Next /\ UNCHANGED <<engine, vars>>

EngineNext ==
    \/ \E r \in Readers : Threads(Reader(r))
    \/ \E w \in Writers : Threads(Writer(w))
    \/ Threads(Main) \/ Threads(Spurious) \/ Threads(Terminated)
    \/ Single

(* The operating system schedules every runnable thread, as in IoRing; the *)
(* single thread never sleeps.                                             *)
EngineFairness ==
    /\ \A r \in Readers : WF_engineVars(Threads(Reader(r)))
    /\ \A w \in Writers : WF_engineVars(Threads(Writer(w)))
    /\ WF_engineVars(Threads(Main))
    /\ WF_engineVars(Single)

EngineSpec == EngineInit /\ [][EngineNext]_engineVars /\ EngineFairness

-----------------------------------------------------------------------------
(* The types of the single thread engine.                                  *)
MonoTypeOK == Mono!MonoTypeOK

(* The single thread engine keeps the promises of IoStream.                *)
MonoImplementsStream == Mono!MonoImplementsStream

(* Liveness: whatever the engine, the errors and the interruptions, the    *)
(* command comes out of io_stop() with no thread left.                     *)
EngineStops == <>(IF engine = "threads" THEN mpc = "end" ELSE mMpc = "end")

=============================================================================
