----------------------------- MODULE DabThreads -----------------------------
(***************************************************************************)
(* How the GUI thread starts, stops, resets and deletes the two threads of *)
(* the receiver: dabProcessor (dab-processor.cpp) and mscHandler           *)
(* (src/backend/msc-handler.cpp).  Both are QThreads: start does nothing   *)
(* when the thread runs, isRunning holds from start until run returns.     *)
(* A thread is told to stop through a flag that its own run sets first.    *)
(*                                                                         *)
(* The blocks are counted only; MscPipeline says what is in them.          *)
(*                                                                         *)
(* The names that RadioInterface has, too, are told apart by a prefix: the *)
(* GUI thread's own steps and these are to be extended together.           *)
(***************************************************************************)
EXTENDS Integers

CONSTANTS
  NrBlocks,     \* the slots bufferSpace starts with (76 in mode I)
  MaxCalls      \* bound: calls the GUI makes

ASSUME NrBlocksAssumption == NrBlocks \in Nat \ {0}
ASSUME MaxCallsAssumption == MaxCalls \in Nat

Callers  == {"gui", "dab"}              \* who calls mscHandler::reset
Threads  == Callers \cup {"msc"}
Handlers == {"restart", "halt", "delete"}   \* what follows a stop

VARIABLES
  pc,             \* where each thread is; dab and msc: off, not running
  handler,        \* what the GUI does after dabProcessor::stop
  calls,
  readerRunning,  \* sampleReader::running, the flag of dabProcessor
  mscRunning,     \* mscHandler::running
  bufferSpace, amount,
  backends,       \* whether theBackends has any (and work_to_be_done is set)
  room,           \* what each caller of reset is about to release
  leftover,       \* history: the blocks in work when bufferSpace was refilled
  lost            \* history: the threads that set their flag, as they do at
                  \* their start, after another had cleared it to stop them

flagVars  == <<readerRunning, mscRunning>>
countVars == <<bufferSpace, amount, room, leftover>>
guiVars   == <<handler, calls, lost>>
threadVars == <<pc, guiVars, flagVars, countVars, backends>>

ThreadsInit ==
  /\ pc = [t \in Threads |-> IF t = "gui" THEN "idle" ELSE "off"]
  /\ handler = "halt" /\ calls = 0
  /\ readerRunning = FALSE
  /\ mscRunning \in BOOLEAN            \* not initialised by the constructor
  /\ bufferSpace = NrBlocks /\ amount = 0
  /\ backends = FALSE
  /\ room = [t \in Callers |-> 0] /\ leftover = 0
  /\ lost = {}

Goto(t, l) == pc' = [pc EXCEPT ![t] = l]

One(b) == IF b THEN 1 ELSE 0

\* The blocks the two threads have in work: acquired or posted and not yet
\* released.
InWork ==
  One(pc["dab"] = "post") + amount - One(pc["msc"] = "advance")

\* The thread that sets its flag while another waits for it to end has lost
\* the stop.
Awaited(t) ==
  IF t = "dab" THEN pc["gui"] = "waitDab"
               ELSE pc["gui"] = "waitEnd" \/ \E u \in Callers : pc[u] = "waitMsc"
Lose(t) == lost' = IF Awaited(t) THEN lost \cup {t} ELSE lost

\* mscHandler::locker is free: process_mscBlock holds it while it feeds the
\* backends, reset from before the backends are deleted until after the refill.
LockFree == pc["msc"] # "process" /\ \A t \in Callers : pc[t] # "refill"

(***************************************************************************)
(* mscHandler::reset, called by the GUI thread (reset_msc) and by the      *)
(* dabProcessor thread (mscHandler::stop, which is reset).                 *)
(***************************************************************************)
ResetStore(t) ==
  /\ pc[t] = "reset"
  /\ mscRunning' = FALSE
  /\ Goto(t, "waitMsc")
  /\ UNCHANGED <<guiVars, readerRunning, countVars, backends>>

\* while (isRunning ()) finds the thread ended.
ResetWait(t) ==
  /\ pc[t] = "waitMsc" /\ pc["msc"] = "off"
  /\ Goto(t, "clear")
  /\ UNCHANGED <<guiVars, flagVars, countVars, backends>>

\* With locker: the backends go, and bufferSpace. available () is read.
Clear(t) ==
  /\ pc[t] = "clear" /\ LockFree
  /\ backends' = FALSE
  /\ room' = [room EXCEPT ![t] = NrBlocks - bufferSpace]
  /\ leftover' = InWork
  /\ Goto(t, "refill")
  /\ UNCHANGED <<guiVars, flagVars, bufferSpace, amount>>

\* bufferSpace. release, also of a negative number (see RefillLegal), which
\* takes that many away; amount stays as it is.
Refill(t) ==
  /\ pc[t] = "refill"
  /\ bufferSpace' = bufferSpace + room[t]
  /\ Goto(t, "restart")
  /\ UNCHANGED <<guiVars, flagVars, amount, room, leftover, backends>>

AfterReset(t) == IF t = "gui" THEN "set" ELSE "off"

\* start ().  The dabProcessor thread ends after it (my_ficHandler. stop
\* does nothing to these threads).
Restart(t) ==
  /\ pc[t] = "restart"
  /\ pc' = [pc EXCEPT ![t] = AfterReset(t),
                      !["msc"] = IF @ = "off" THEN "begin" ELSE @]
  /\ UNCHANGED <<guiVars, flagVars, countVars, backends>>

mscHandler_reset(t) ==
  ResetStore(t) \/ ResetWait(t) \/ Clear(t) \/ Refill(t) \/ Restart(t)

(***************************************************************************)
(* The GUI thread.  startService: reset_msc, then set_Channel.  All other  *)
(* handlers begin with dabProcessor::stop (or reset, for a change in the   *)
(* configuration) and then start the processor again (nextChannel,         *)
(* selectService, reset), leave it (the end of a scan) or delete it        *)
(* (TerminateProcess).                                                     *)
(***************************************************************************)
startService ==
  /\ pc["gui"] = "idle" /\ calls < MaxCalls
  /\ calls' = calls + 1
  /\ Goto("gui", "reset")
  /\ UNCHANGED <<handler, lost, flagVars, countVars, backends>>

set_Channel ==
  /\ pc["gui"] = "set" /\ LockFree
  /\ backends' = TRUE
  /\ Goto("gui", "idle")
  /\ UNCHANGED <<guiVars, flagVars, countVars>>

\* myReader. setRunning (false)
Stop(h) ==
  /\ pc["gui"] = "idle" /\ calls < MaxCalls
  /\ calls' = calls + 1
  /\ handler' = h
  /\ readerRunning' = FALSE
  /\ Goto("gui", "waitDab")
  /\ UNCHANGED <<lost, mscRunning, countVars, backends>>

\* while (isRunning ()) finds the thread ended; then the device is stopped,
\* and the processor is started again if the handler does so.
StopDone ==
  /\ pc["gui"] = "waitDab" /\ pc["dab"] = "off"
  /\ pc' = [pc EXCEPT
       !["gui"] = IF handler = "delete" THEN "delete" ELSE "idle",
       !["dab"] = IF handler = "restart" THEN "tune" ELSE "off"]
  /\ UNCHANGED <<guiVars, flagVars, countVars, backends>>

\* A destructor that does not clear the flag.
DeleteRunning ==
  /\ pc["gui"] = "delete"
  /\ Goto("gui", "waitEnd")
  /\ UNCHANGED <<guiVars, flagVars, countVars, backends>>

\* delete my_dabProcessor: ~mscHandler clears its flag ...
Delete ==
  /\ pc["gui"] = "delete"
  /\ mscRunning' = FALSE
  /\ Goto("gui", "waitEnd")
  /\ UNCHANGED <<guiVars, readerRunning, countVars, backends>>

\* ... waits for the thread and deletes the backends.
Deleted ==
  /\ pc["gui"] = "waitEnd" /\ pc["msc"] = "off"
  /\ backends' = FALSE
  /\ Goto("gui", "gone")
  /\ UNCHANGED <<guiVars, flagVars, countVars>>

(***************************************************************************)
(* The dabProcessor thread: run.                                           *)
(***************************************************************************)
\* The device is tuned; myReader. setRunning (true).
RunBegins ==
  /\ pc["dab"] = "tune"
  /\ readerRunning' = TRUE
  /\ Lose("dab")
  /\ Goto("dab", "startMsc")
  /\ UNCHANGED <<handler, calls, mscRunning, countVars, backends>>

StartMsc ==
  /\ pc["dab"] = "startMsc"
  /\ pc' = [pc EXCEPT !["dab"] = "read",
                      !["msc"] = IF @ = "off" THEN "begin" ELSE @]
  /\ UNCHANGED <<guiVars, flagVars, countVars, backends>>

\* getSample (s): a block is there, or running is false and the exception
\* ends the loop.
Read ==
  /\ pc["dab"] = "read"
  /\ Goto("dab", IF readerRunning THEN "acquire" ELSE "reset")
  /\ UNCHANGED <<guiVars, flagVars, countVars, backends>>

\* process_Msc: bufferSpace. acquire (1), not interrupted by a stop ...
Acquire ==
  /\ pc["dab"] = "acquire" /\ bufferSpace > 0
  /\ bufferSpace' = bufferSpace - 1
  /\ Goto("dab", "post")
  /\ UNCHANGED <<guiVars, flagVars, amount, room, leftover, backends>>

\* ... the memcpy, and amount ++.
PostBlock ==
  /\ pc["dab"] = "post"
  /\ amount' = amount + 1
  /\ Goto("dab", "read")
  /\ UNCHANGED <<guiVars, flagVars, bufferSpace, room, leftover, backends>>

(***************************************************************************)
(* The mscHandler thread: run.                                             *)
(***************************************************************************)
Begin ==
  /\ pc["msc"] = "begin"
  /\ mscRunning' = TRUE
  /\ Lose("msc")
  /\ Goto("msc", "test")
  /\ UNCHANGED <<handler, calls, readerRunning, countVars, backends>>

\* An inner loop that goes on as long as there are blocks.
QuitWhenEmpty ==
  /\ pc["msc"] = "test" /\ ~mscRunning /\ amount <= 0
  /\ Goto("msc", "off")
  /\ UNCHANGED <<guiVars, flagVars, countVars, backends>>

\* Both loops end when running is false, whatever is left in amount.
Quit ==
  /\ pc["msc"] = "test" /\ ~mscRunning
  /\ Goto("msc", "off")
  /\ UNCHANGED <<guiVars, flagVars, countVars, backends>>

\* A loop that takes a block without looking whether there is one.
TakeUnchecked ==
  /\ pc["msc"] = "test" /\ mscRunning
  /\ \/ Goto("msc", "release")
     \/ backends /\ Goto("msc", "lock")
  /\ UNCHANGED <<guiVars, flagVars, countVars, backends>>

\* A block is demodulated; when it completes a CIF and there is work to be
\* done, the thread goes for locker.
Take ==
  /\ pc["msc"] = "test" /\ mscRunning /\ amount > 0
  /\ \/ Goto("msc", "release")
     \/ backends /\ Goto("msc", "lock")
  /\ UNCHANGED <<guiVars, flagVars, countVars, backends>>

Lock ==
  /\ pc["msc"] = "lock" /\ LockFree
  /\ Goto("msc", "process")
  /\ UNCHANGED <<guiVars, flagVars, countVars, backends>>

\* Every backend has taken its fragment (see Backend), locker is released.
Process ==
  /\ pc["msc"] = "process"
  /\ Goto("msc", "release")
  /\ UNCHANGED <<guiVars, flagVars, countVars, backends>>

Release ==
  /\ pc["msc"] = "release"
  /\ bufferSpace' = bufferSpace + 1
  /\ Goto("msc", "advance")
  /\ UNCHANGED <<guiVars, flagVars, amount, room, leftover, backends>>

Advance ==
  /\ pc["msc"] = "advance"
  /\ amount' = amount - 1
  /\ Goto("msc", "test")
  /\ UNCHANGED <<guiVars, flagVars, bufferSpace, room, leftover, backends>>

gui == mscHandler_reset("gui") \/ set_Channel \/ StopDone \/ Delete \/ Deleted
dab == RunBegins \/ StartMsc \/ Read \/ Acquire \/ PostBlock \/ mscHandler_reset("dab")
msc == Begin \/ Take \/ Quit \/ Lock \/ Process \/ Release \/ Advance

ThreadsNext == startService \/ (\E h \in Handlers : Stop(h)) \/ gui \/ dab \/ msc

ThreadsSpec == ThreadsInit /\ [][ThreadsNext]_threadVars
\* The threads are scheduled; the user need not do anything.  locker is held
\* for a small part of the time, and who waits for it gets it in the end.
FairThreads ==
  /\ ThreadsSpec
  /\ WF_threadVars(gui) /\ WF_threadVars(dab) /\ WF_threadVars(msc)
  /\ \A t \in Callers : SF_threadVars(Clear(t))
----------------------------------------------------------------------------
InReset   == {"reset", "waitMsc", "clear", "refill", "restart"}
GuiPlaces == InReset \cup {"idle", "set", "waitDab", "delete", "waitEnd", "gone"}
DabPlaces == InReset \cup {"off", "tune", "startMsc", "read", "acquire", "post"}
MscPlaces == {"off", "begin", "test", "lock", "process", "release", "advance"}

ThreadsTypeOK ==
  /\ pc \in [Threads -> GuiPlaces \cup DabPlaces \cup MscPlaces]
  /\ pc["gui"] \in GuiPlaces /\ pc["dab"] \in DabPlaces
  /\ pc["msc"] \in MscPlaces
  /\ handler \in Handlers /\ calls \in 0 .. MaxCalls
  /\ readerRunning \in BOOLEAN /\ mscRunning \in BOOLEAN
  /\ bufferSpace \in Int /\ amount \in Nat
  /\ backends \in BOOLEAN
  /\ room \in [Callers -> Int] /\ leftover \in Nat
  /\ lost \subseteq {"dab", "msc"}

\* reset is written for one caller at a time and has no guard of its own: the
\* GUI thread and the dabProcessor thread are never both in it.
OneReset == ~(\A t \in Callers : pc[t] \in InReset)

\* After the destructors nothing runs that could touch what they deleted.
NothingRunsWhenGone ==
  pc["gui"] = "gone" => pc["dab"] = "off" /\ pc["msc"] = "off" /\ ~backends

\* No sequence of resets loses a slot, but every reset hands out again the
\* slots of the blocks that were in work, since it leaves amount alone: from
\* then on bufferSpace admits leftover blocks more than there are slots.
Pending == (IF pc["gui"] = "refill" THEN room["gui"] ELSE 0)
             + (IF pc["dab"] = "refill" THEN room["dab"] ELSE 0)
CreditLaw ==
  bufferSpace + InWork + Pending = NrBlocks + leftover

\* What the invariants above rest on: a block in work is one of amount; the
\* dabProcessor thread loses its flag only to a GUI thread that then waits for
\* it to end; and from there to the deletion it stays ended.
Waiting ==
  /\ pc["msc"] \in {"lock", "process", "release", "advance"} => amount > 0
  /\ pc["dab"] \in InReset => pc["gui"] = "waitDab"
  /\ pc["dab"] \in {"startMsc", "read", "acquire", "post"} /\ ~readerRunning
       => pc["gui"] = "waitDab"
  /\ pc["gui"] \in {"delete", "waitEnd", "gone"} => pc["dab"] = "off"

\* The inductive invariant.
ThreadsInv == ThreadsTypeOK /\ Waiting /\ CreditLaw /\ NothingRunsWhenGone

\* A reset may follow a reset (msc-handler.cpp:145): what it releases is not
\* negative, which QSemaphore requires of release.  It does not hold (README).
RefillLegal == \A t \in Callers : pc[t] = "refill" => room[t] >= 0

\* Every call of the GUI thread comes back or, TerminateProcess, to its end:
\* dabProcessor::stop and reset, mscHandler::reset, which may be called several
\* times (msc-handler.cpp:145), and the destructors.  The one exception is a
\* lost stop: a flag that is cleared before the thread's own store to it at its
\* start is set again, and the wait for the thread never ends.
GuiReturns == pc["gui"] # "idle" ~> (pc["gui"] \in {"idle", "gone"} \/ lost # {})

\* The dabProcessor thread does not stay blocked on bufferSpace, whatever
\* the GUI resets meanwhile and whatever stops are lost.
DabProceeds == pc["dab"] = "acquire" ~> pc["dab"] # "acquire"

\* Every wait of one thread for another ends (dab-processor.cpp:305,
\* msc-handler.cpp:90).
WaitsEnd == GuiReturns /\ DabProceeds
============================================================================
