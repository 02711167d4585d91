-------------------------- MODULE Capture_proofs --------------------------
(***************************************************************************)
(* The capture's safety for any number of host threads, sniffers, frames   *)
(* and rule files.                                                         *)
(***************************************************************************)
EXTENDS Capture, TLAPS

Holding == {"close", "open", "rules", "install", "join"}
Closing == {"close", "dropclose"}
Dropping == {"dropclose", "drop"}
Open == {"IDLE", "RUNNING", "FINISHED"}

\* Calls that work on the capture hold its mutex; a drop runs alone.
LockHeld == \A c \in Clients : call[c] \in Holding => captureLock = c

DropAlone ==
    /\ \A c \in Clients : call[c] \in Dropping =>
          core = "dropping" /\ capture = None /\ \A d \in Clients \ {c} : call[d] = "idle"
    /\ core = "freed" => capture = None /\ \A c \in Clients : call[c] = "idle"

\* What the handle of a call under way can be.
Subjects ==
    \A c \in Clients :
        /\ call[c] \in Closing =>
              subject[c] \in Handles /\ state[subject[c]] \in Open /\ capture = None
        /\ call[c] \in {"rules", "install"} =>
              subject[c] \in Handles /\ state[subject[c]] = "IDLE" /\ capture = None
        /\ call[c] = "open" => capture = None
        /\ call[c] = "join" =>
              subject[c] \in Handles /\ subject[c] = capture /\ state[capture] = "RUNNING"

\* A running sniffer is installed or being closed: nobody has forgotten it.
Owned ==
    \A h \in Handles : state[h] = "RUNNING" =>
        h = capture \/ \E c \in Clients : call[c] \in Closing /\ subject[c] = h

Installed ==
    capture # None =>
        state[capture] \in Open /\ (running <=> state[capture] = "RUNNING") /\ sources \subseteq {capture}

\* The thread against the sniffer's own state, and the order status, flag, exit.
Threads ==
    \A h \in Handles :
        /\ Live(h) => state[h] = "RUNNING"
        /\ state[h] \in {"unused", "IDLE"} => thread[h] = "none"
        /\ finished[h] => thread[h] = "exited"
        /\ thread[h] \in {"flagging", "exited"} => status[h] = ret[h]

Safe == LockHeld /\ DropAlone /\ Subjects /\ Owned /\ Installed /\ Threads
IInv == TypeOK /\ Safe

-----------------------------------------------------------------------------
LEMMA TypeInit == Init => TypeOK
<1> SUFFICES ASSUME Init PROVE TypeOK
  OBVIOUS
<1>1. /\ core = "live" /\ capture \in Handles \cup {None} /\ running \in BOOLEAN
      /\ captureLock \in Clients \cup {None} /\ engineLock \in Clients \cup {None}
      /\ sources \in SUBSET Handles /\ packets \in Nat
      /\ engineRules \in RuleFiles \cup {Builtin} /\ ruleSpecs \in RuleFiles \cup {Builtin}
  BY DEF Init, Unlocked
<1>2. /\ state \in [Handles -> Lives] /\ kind \in [Handles -> {"file", "live"}]
      /\ stopFlag \in [Handles -> BOOLEAN] /\ finished \in [Handles -> BOOLEAN]
      /\ status \in [Handles -> {"ok", "failed"}] /\ ret \in [Handles -> {"ok", "failed"}]
      /\ delivered \in [Handles -> Nat] /\ thread \in [Handles -> ThreadPlaces]
  BY DEF Init, Lives, ThreadPlaces
<1>3. /\ call \in [Clients -> CallPlaces] /\ subject \in [Clients -> Handles \cup {None}]
      /\ carried \in [Clients -> RuleFiles \cup {Builtin}] /\ result \in [Clients -> Results]
  BY DEF Init, CallPlaces, Results
<1>. QED BY <1>1, <1>2, <1>3 DEF TypeOK

LEMMA SafeInit == Init => Safe
BY ConstantsAssumption DEF Init, Safe, LockHeld, DropAlone, Subjects, Owned, Installed, Threads,
   Live, Unlocked, Holding, Closing, Dropping, Open

\* At most one call works on the capture.
LEMMA Alone ==
    ASSUME IInv, NEW c \in Clients, call[c] \in Holding \cup Dropping
    PROVE  \A d \in Clients \ {c} : call[d] \notin Holding \cup Dropping
BY DEF IInv, Safe, LockHeld, DropAlone, Holding, Dropping

-----------------------------------------------------------------------------
(* The capture thread.                                                     *)

LEMMA ThreadTypes == ASSUME IInv, NEW h \in Handles, ThreadStep(h) PROVE TypeOK'
<1> USE DEF IInv, TypeOK, ThreadOnly, Goto, LoopReturns, ThreadPlaces, sniffers, engine, rules, locks, calls
<1>1. CASE LoopCheck(h) BY <1>1 DEF LoopCheck
<1>2. CASE ReadFrame(h) BY <1>2 DEF ReadFrame
<1>3. CASE PaceOver(h) BY <1>3 DEF PaceOver
<1>4. CASE ReadTimeout(h) BY <1>4 DEF ReadTimeout
<1>5. CASE ReadEnds(h) BY <1>5 DEF ReadEnds
<1>6. CASE Deliver(h) BY <1>6 DEF Deliver
<1>7. CASE StoreStatus(h) BY <1>7 DEF StoreStatus
<1>8. CASE SetFinished(h) BY <1>8 DEF SetFinished
<1>. QED BY <1>1, <1>2, <1>3, <1>4, <1>5, <1>6, <1>7, <1>8 DEF ThreadStep

\* A thread step leaves the calls, the locks and the sniffers' own states alone.
LEMMA ThreadLeaves ==
    ASSUME NEW h \in Handles, ThreadStep(h)
    PROVE  UNCHANGED <<core, capture, running, captureLock, call, subject, state>>
BY DEF ThreadStep, LoopCheck, ReadFrame, PaceOver, ReadTimeout, ReadEnds, Deliver, StoreStatus,
   SetFinished, ThreadOnly, sniffers, locks, calls

LEMMA ThreadThreads == ASSUME IInv, NEW h \in Handles, ThreadStep(h) PROVE Threads'
<1> USE DEF IInv, TypeOK, Safe, Threads, Live, Goto, LoopReturns, ThreadPlaces, sniffers
<1>1. CASE LoopCheck(h) BY <1>1 DEF LoopCheck
<1>2. CASE ReadFrame(h) BY <1>2 DEF ReadFrame
<1>3. CASE PaceOver(h) BY <1>3 DEF PaceOver
<1>4. CASE ReadTimeout(h) BY <1>4 DEF ReadTimeout
<1>5. CASE ReadEnds(h) BY <1>5 DEF ReadEnds
<1>6. CASE Deliver(h) BY <1>6 DEF Deliver
<1>7. CASE StoreStatus(h) BY <1>7 DEF StoreStatus
<1>8. CASE SetFinished(h) BY <1>8 DEF SetFinished
<1>. QED BY <1>1, <1>2, <1>3, <1>4, <1>5, <1>6, <1>7, <1>8 DEF ThreadStep

LEMMA ThreadInstalled == ASSUME IInv, NEW h \in Handles, ThreadStep(h) PROVE Installed'
<1>1. UNCHANGED <<capture, running, state>> BY ThreadLeaves
<1>2. CASE Deliver(h)
  <2>1. sources' = sources \cup {h} /\ state[h] = "RUNNING"
    BY <1>2 DEF Deliver, IInv, Safe, Threads, Live
  <2>2. capture # None => h = capture
    BY <2>1 DEF IInv, Safe, Owned, Subjects
  <2>. QED BY <1>1, <2>1, <2>2 DEF IInv, Safe, Installed
<1>3. CASE ~Deliver(h)
  <2>1. sources' = sources
    BY <1>3 DEF ThreadStep, LoopCheck, ReadFrame, PaceOver, ReadTimeout, ReadEnds, StoreStatus,
                SetFinished, engine
  <2>. QED BY <1>1, <2>1 DEF IInv, Safe, Installed
<1>. QED BY <1>2, <1>3

LEMMA ThreadKeeps == ASSUME IInv, NEW h \in Handles, ThreadStep(h) PROVE IInv'
<1>1. LockHeld' /\ DropAlone' /\ Subjects' /\ Owned'
  BY ThreadLeaves DEF IInv, Safe, LockHeld, DropAlone, Subjects, Owned
<1>. QED BY <1>1, ThreadTypes, ThreadThreads, ThreadInstalled DEF IInv, Safe

-----------------------------------------------------------------------------
(* The calls of the host.                                                  *)

LEMMA OpenBeginKeeps == ASSUME IInv, NEW c \in Controllers, OpenBegin(c) PROVE IInv'
<1>0. c \in Clients BY DEF Clients
<1>1. TypeOK'
  BY <1>0 DEF IInv, TypeOK, CallPlaces, Results, OpenBegin, Idle, Step, Return, Work, Unlocked,
     sniffers, threads, engine, rules
<1>2. LockHeld'
  BY <1>0, ConstantsAssumption DEF IInv, Safe, LockHeld, Holding, TypeOK, OpenBegin, Idle, Step,
     Return, Work, Unlocked, sniffers, threads, engine, rules
<1>3. DropAlone'
  BY DEF IInv, Safe, DropAlone, Dropping, TypeOK, OpenBegin, Idle, Step, Return, Work, Unlocked,
     sniffers, threads, engine, rules
<1>4. Subjects'
  BY <1>0, Alone DEF IInv, Safe, Subjects, Closing, Open, TypeOK, Installed, Holding, Dropping,
     OpenBegin, Idle, Step, Return, Work, Unlocked, sniffers, threads, engine, rules
<1>5. Owned'
  BY <1>0 DEF IInv, Safe, Owned, Closing, TypeOK, OpenBegin, Idle, Step, Return, Work, Unlocked,
     sniffers, threads, engine, rules
<1>6. Installed'
  BY DEF IInv, Safe, Installed, Open, OpenBegin, Idle, Step, Return, Work, Unlocked, sniffers,
     threads, engine, rules
<1>7. Threads'
  BY DEF IInv, Safe, Threads, Live, OpenBegin, Idle, Step, Return, Work, Unlocked, sniffers,
     threads, engine, rules
<1>. QED BY <1>1, <1>2, <1>3, <1>4, <1>5, <1>6, <1>7 DEF IInv, Safe

LEMMA CloseStopKeeps == ASSUME IInv, NEW c \in Controllers, CloseStop(c) PROVE IInv'
<1>1. TypeOK'
  BY DEF IInv, TypeOK, CloseStop, threads, engine, rules, locks, calls
<1>2. LockHeld'
  BY DEF IInv, Safe, LockHeld, Holding, CloseStop, threads, engine, rules, locks, calls
<1>3. DropAlone'
  BY DEF IInv, Safe, DropAlone, Dropping, CloseStop, threads, engine, rules, locks, calls
<1>4. Subjects'
  BY DEF IInv, Safe, Subjects, Closing, Open, CloseStop, threads, engine, rules, locks, calls
<1>5. Owned'
  BY DEF IInv, Safe, Owned, Closing, CloseStop, threads, engine, rules, locks, calls
<1>6. Installed'
  BY DEF IInv, Safe, Installed, Open, CloseStop, threads, engine, rules, locks, calls
<1>7. Threads'
  BY DEF IInv, Safe, Threads, Live, CloseStop, threads, engine, rules, locks, calls
<1>. QED BY <1>1, <1>2, <1>3, <1>4, <1>5, <1>6, <1>7 DEF IInv, Safe

LEMMA CloseJoinKeeps == ASSUME IInv, NEW c \in Controllers, CloseJoin(c) PROVE IInv'
<1>0. c \in Clients BY DEF Clients
<1>1. TypeOK'
  BY DEF IInv, TypeOK, Lives, CloseJoin, threads, engine, rules, locks, calls, Joinable
<1>2. LockHeld'
  BY DEF IInv, Safe, LockHeld, Holding, CloseJoin, threads, engine, rules, locks, calls,
     Joinable
<1>3. DropAlone'
  BY DEF IInv, Safe, DropAlone, Dropping, CloseJoin, threads, engine, rules, locks, calls,
     Joinable
<1>4. Subjects'
  BY <1>0, Alone DEF IInv, Safe, Subjects, Closing, Open, TypeOK, Holding, Dropping, CloseJoin,
     threads, engine, rules, locks, calls, Joinable
<1>5. Owned'
  BY DEF IInv, Safe, Owned, Closing, CloseJoin, threads, engine, rules, locks, calls, Joinable
<1>6. Installed'
  BY <1>0 DEF IInv, Safe, Installed, Open, TypeOK, Subjects, Closing, CloseJoin, threads,
     engine, rules, locks, calls, Joinable
<1>7. Threads'
  BY DEF IInv, Safe, Threads, Live, CloseJoin, threads, engine, rules, locks, calls, Joinable
<1>. QED BY <1>1, <1>2, <1>3, <1>4, <1>5, <1>6, <1>7 DEF IInv, Safe

LEMMA CloseFreeKeeps == ASSUME IInv, NEW c \in Controllers, CloseFree(c) PROVE IInv'
<1>0. c \in Clients BY DEF Clients
<1>1. TypeOK'
  BY DEF IInv, TypeOK, CallPlaces, Lives, CloseFree, Step, Work, threads, engine, rules, locks
<1>2. LockHeld'
  BY DEF IInv, Safe, LockHeld, Holding, CloseFree, Step, Work, threads, engine, rules, locks
<1>3. DropAlone'
  BY DEF IInv, Safe, DropAlone, Dropping, CloseFree, Step, Work, threads, engine, rules, locks
<1>4. Subjects'
  BY <1>0, Alone DEF IInv, Safe, Subjects, Closing, Open, TypeOK, Holding, Dropping, CloseFree,
     Step, Work, threads, engine, rules, locks
<1>5. Owned'
  BY DEF IInv, Safe, Owned, Closing, CloseFree, Step, Work, threads, engine, rules, locks
<1>6. Installed'
  BY <1>0 DEF IInv, Safe, Installed, Open, TypeOK, Subjects, Closing, CloseFree, Step, Work,
     threads, engine, rules, locks
<1>7. Threads'
  BY DEF IInv, Safe, Threads, Live, CloseFree, Step, Work, threads, engine, rules, locks
<1>. QED BY <1>1, <1>2, <1>3, <1>4, <1>5, <1>6, <1>7 DEF IInv, Safe

LEMMA OpenSourceKeeps == ASSUME IInv, NEW c \in Controllers, OpenSource(c) PROVE IInv'
<1>0. c \in Clients BY DEF Clients
<1>1. TypeOK'
  BY DEF IInv, TypeOK, CallPlaces, Results, Lives, OpenSource, Step, Return, Work, Unlocked,
     threads, engine, rules
<1>2. LockHeld'
  BY <1>0 DEF IInv, Safe, LockHeld, Holding, TypeOK, OpenSource, Step, Return, Work, Unlocked,
     threads, engine, rules
<1>3. DropAlone'
  BY DEF IInv, Safe, DropAlone, Dropping, TypeOK, OpenSource, Step, Return, Work, Unlocked,
     threads, engine, rules
<1>4. Subjects'
  BY DEF IInv, Safe, Subjects, Closing, Open, TypeOK, OpenSource, Step, Return, Work, Unlocked,
     threads, engine, rules
<1>5. Owned'
  BY DEF IInv, Safe, Owned, Closing, TypeOK, OpenSource, Step, Return, Work, Unlocked, threads,
     engine, rules
<1>6. Installed'
  BY DEF IInv, Safe, Installed, Open, TypeOK, OpenSource, Step, Return, Work, Unlocked, threads,
     engine, rules
<1>7. Threads'
  BY DEF IInv, Safe, Threads, Live, TypeOK, OpenSource, Step, Return, Work, Unlocked, threads,
     engine, rules
<1>. QED BY <1>1, <1>2, <1>3, <1>4, <1>5, <1>6, <1>7 DEF IInv, Safe

LEMMA OpenRulesKeeps == ASSUME IInv, NEW c \in Controllers, OpenRules(c) PROVE IInv'
<1>1. TypeOK'
  BY DEF IInv, TypeOK, CallPlaces, OpenRules, Step, sniffers, threads, engine, rules, locks
<1>2. LockHeld'
  BY DEF IInv, Safe, LockHeld, Holding, OpenRules, Step, sniffers, threads, engine, rules, locks
<1>3. DropAlone'
  BY DEF IInv, Safe, DropAlone, Dropping, OpenRules, Step, sniffers, threads, engine, rules,
     locks
<1>4. Subjects'
  BY DEF IInv, Safe, Subjects, Closing, Open, OpenRules, Step, sniffers, threads, engine, rules,
     locks
<1>5. Owned'
  BY DEF IInv, Safe, Owned, Closing, OpenRules, Step, sniffers, threads, engine, rules, locks
<1>6. Installed'
  BY DEF IInv, Safe, Installed, Open, OpenRules, Step, sniffers, threads, engine, rules, locks
<1>7. Threads'
  BY DEF IInv, Safe, Threads, Live, OpenRules, Step, sniffers, threads, engine, rules, locks
<1>. QED BY <1>1, <1>2, <1>3, <1>4, <1>5, <1>6, <1>7 DEF IInv, Safe

LEMMA OpenInstallKeeps == ASSUME IInv, NEW c \in Controllers, OpenInstall(c) PROVE IInv'
<1>0. c \in Clients BY DEF Clients
<1>1. TypeOK'
  BY <1>0 DEF IInv, TypeOK, CallPlaces, Results, OpenInstall, Return, Work, Unlocked, sniffers,
     threads, FreshEngine
<1>2. LockHeld'
  BY <1>0 DEF IInv, Safe, LockHeld, Holding, TypeOK, OpenInstall, Return, Work, Unlocked,
     sniffers, threads, FreshEngine
<1>3. DropAlone'
  BY <1>0 DEF IInv, Safe, DropAlone, Dropping, TypeOK, OpenInstall, Return, Work, Unlocked,
     sniffers, threads, FreshEngine
<1>4. Subjects'
  BY <1>0, Alone DEF IInv, Safe, Subjects, Closing, Open, TypeOK, Holding, Dropping,
     OpenInstall, Return, Work, Unlocked, sniffers, threads, FreshEngine
<1>5. Owned'
  <2>1. capture = None /\ \A d \in Clients : call[d] \notin Closing
    BY <1>0, Alone DEF IInv, Safe, Subjects, OpenInstall, Holding, Closing, Dropping
  <2>2. \A h \in Handles : state[h] # "RUNNING"
    BY <2>1, ConstantsAssumption DEF IInv, Safe, Owned
  <2>. QED BY <2>2 DEF Owned, OpenInstall, sniffers
<1>6. Installed'
  BY <1>0 DEF IInv, Safe, Installed, Open, TypeOK, Subjects, Closing, OpenInstall, Return, Work,
     Unlocked, sniffers, threads, FreshEngine
<1>7. Threads'
  BY DEF IInv, Safe, Threads, Live, OpenInstall, Return, Work, Unlocked, sniffers, threads,
     FreshEngine
<1>. QED BY <1>1, <1>2, <1>3, <1>4, <1>5, <1>6, <1>7 DEF IInv, Safe

LEMMA StartKeeps == ASSUME IInv, NEW c \in Controllers, Start(c) PROVE IInv'
<1>0. c \in Clients BY DEF Clients
<1>1. TypeOK'
  <2>1. /\ UNCHANGED <<core, capture, captureLock, engineLock, sources, packets, engineRules,
                       ruleSpecs, carried, kind, status, delivered, ret, subject>>
        /\ TypeOK
    BY DEF Start, IInv, engine, rules, locks
  <2>2. call' \in [Clients -> CallPlaces] /\ result' \in [Clients -> Results]
    BY <1>0, <2>1 DEF Start, Return, TypeOK, CallPlaces, Results
  <2>3. CASE capture = None \/ state[capture] # "IDLE"
    BY <2>1, <2>2, <2>3 DEF Start, TypeOK
  <2>4. CASE ~(capture = None \/ state[capture] # "IDLE")
    <3>1. capture \in Handles BY <2>1, <2>4 DEF TypeOK
    <3>2. /\ stopFlag' \in [Handles -> BOOLEAN] /\ finished' \in [Handles -> BOOLEAN]
          /\ state' \in [Handles -> Lives] /\ thread' \in [Handles -> ThreadPlaces]
          /\ running' \in BOOLEAN
      BY <2>1, <2>4, <3>1 DEF Start, Goto, TypeOK, Lives, ThreadPlaces
    <3>. QED BY <2>1, <2>2, <3>2 DEF TypeOK
  <2>. QED BY <2>3, <2>4
<1>2. LockHeld'
  BY DEF IInv, Safe, LockHeld, Holding, TypeOK, Start, Idle, Return, Unlocked, engine, rules,
     locks, Goto
<1>3. DropAlone'
  BY DEF IInv, Safe, DropAlone, Dropping, TypeOK, Start, Idle, Return, Unlocked, engine, rules,
     locks, Goto
<1>4. Subjects'
  BY DEF IInv, Safe, Subjects, Closing, Open, TypeOK, Start, Idle, Return, Unlocked, engine,
     rules, locks, Goto
<1>5. Owned'
  BY DEF IInv, Safe, Owned, Closing, TypeOK, Start, Idle, Return, Unlocked, engine, rules,
     locks, Goto
<1>6. Installed'
  BY DEF IInv, Safe, Installed, Open, TypeOK, Start, Idle, Return, Unlocked, engine, rules,
     locks, Goto
<1>7. Threads'
  BY DEF IInv, Safe, Threads, Live, TypeOK, Start, Idle, Return, Unlocked, engine, rules, locks,
     Goto
<1>. QED BY <1>1, <1>2, <1>3, <1>4, <1>5, <1>6, <1>7 DEF IInv, Safe

LEMMA StopBeginKeeps == ASSUME IInv, NEW c \in Controllers, StopBegin(c) PROVE IInv'
<1>0. c \in Clients BY DEF Clients
<1>1. TypeOK'
  BY <1>0 DEF IInv, TypeOK, CallPlaces, Results, StopBegin, Idle, Step, Return, Work, Unlocked,
     threads, engine, rules
<1>2. LockHeld'
  BY <1>0, ConstantsAssumption DEF IInv, Safe, LockHeld, Holding, TypeOK, StopBegin, Idle, Step,
     Return, Work, Unlocked, threads, engine, rules
<1>3. DropAlone'
  BY DEF IInv, Safe, DropAlone, Dropping, TypeOK, StopBegin, Idle, Step, Return, Work, Unlocked,
     threads, engine, rules
<1>4. Subjects'
  BY <1>0, Alone DEF IInv, Safe, Subjects, Closing, Open, TypeOK, Installed, Holding, Dropping,
     StopBegin, Idle, Step, Return, Work, Unlocked, threads, engine, rules
<1>5. Owned'
  BY DEF IInv, Safe, Owned, Closing, TypeOK, StopBegin, Idle, Step, Return, Work, Unlocked,
     threads, engine, rules
<1>6. Installed'
  BY DEF IInv, Safe, Installed, Open, StopBegin, Idle, Step, Return, Work, Unlocked, threads,
     engine, rules
<1>7. Threads'
  BY DEF IInv, Safe, Threads, Live, StopBegin, Idle, Step, Return, Work, Unlocked, threads,
     engine, rules
<1>. QED BY <1>1, <1>2, <1>3, <1>4, <1>5, <1>6, <1>7 DEF IInv, Safe

LEMMA StopJoinKeeps == ASSUME IInv, NEW c \in Controllers, StopJoin(c) PROVE IInv'
<1>0. c \in Clients BY DEF Clients
<1>1. TypeOK'
  BY <1>0 DEF IInv, TypeOK, CallPlaces, Results, Lives, Safe, Subjects, Closing, Open, StopJoin,
     Return, Work, Unlocked, threads, engine, rules, Joinable, WrapperStopped
<1>2. LockHeld'
  BY <1>0 DEF IInv, Safe, LockHeld, Holding, TypeOK, StopJoin, Return, Work, Unlocked, threads,
     engine, rules, Joinable, WrapperStopped
<1>3. DropAlone'
  BY DEF IInv, Safe, DropAlone, Dropping, StopJoin, Return, Work, Unlocked, threads, engine,
     rules, Joinable, WrapperStopped
<1>4. Subjects'
  BY <1>0, Alone DEF IInv, Safe, Subjects, Closing, Open, TypeOK, Holding, Dropping, StopJoin,
     Return, Work, Unlocked, threads, engine, rules, Joinable, WrapperStopped
<1>5. Owned'
  BY DEF IInv, Safe, Owned, Closing, StopJoin, Return, Work, Unlocked, threads, engine, rules,
     Joinable, WrapperStopped
<1>6. Installed'
  BY <1>0 DEF IInv, Safe, Installed, Open, TypeOK, Subjects, Closing, StopJoin, Return, Work,
     Unlocked, threads, engine, rules, Joinable, WrapperStopped
<1>7. Threads'
  BY DEF IInv, Safe, Threads, Live, StopJoin, Return, Work, Unlocked, threads, engine, rules,
     Joinable, WrapperStopped
<1>. QED BY <1>1, <1>2, <1>3, <1>4, <1>5, <1>6, <1>7 DEF IInv, Safe

LEMMA LoadRulesKeeps == ASSUME IInv, NEW c \in Controllers, LoadRules(c) PROVE IInv'
<1>1. TypeOK'
  BY DEF IInv, TypeOK, CallPlaces, Results, LoadRules, Idle, Step, Return, Unlocked, sniffers,
     threads, engine, locks
<1>2. LockHeld'
  BY DEF IInv, Safe, LockHeld, Holding, TypeOK, LoadRules, Idle, Step, Return, Unlocked,
     sniffers, threads, engine, locks
<1>3. DropAlone'
  BY DEF IInv, Safe, DropAlone, Dropping, TypeOK, LoadRules, Idle, Step, Return, Unlocked,
     sniffers, threads, engine, locks
<1>4. Subjects'
  BY DEF IInv, Safe, Subjects, Closing, Open, TypeOK, LoadRules, Idle, Step, Return, Unlocked,
     sniffers, threads, engine, locks
<1>5. Owned'
  BY DEF IInv, Safe, Owned, Closing, TypeOK, LoadRules, Idle, Step, Return, Unlocked, sniffers,
     threads, engine, locks
<1>6. Installed'
  BY DEF IInv, Safe, Installed, Open, LoadRules, Idle, Step, Return, Unlocked, sniffers,
     threads, engine, locks
<1>7. Threads'
  BY DEF IInv, Safe, Threads, Live, LoadRules, Idle, Step, Return, Unlocked, sniffers, threads,
     engine, locks
<1>. QED BY <1>1, <1>2, <1>3, <1>4, <1>5, <1>6, <1>7 DEF IInv, Safe

LEMMA LoadSpecsKeeps == ASSUME IInv, NEW c \in Controllers, LoadSpecs(c) PROVE IInv'
<1>0. c \in Clients BY DEF Clients
<1>1. TypeOK'
  BY <1>0 DEF IInv, TypeOK, CallPlaces, Results, LoadSpecs, Return, sniffers, threads, engine,
     locks, KeepsSpecs
<1>2. LockHeld'
  BY DEF IInv, Safe, LockHeld, Holding, LoadSpecs, Return, sniffers, threads, engine, locks,
     KeepsSpecs
<1>3. DropAlone'
  BY DEF IInv, Safe, DropAlone, Dropping, LoadSpecs, Return, sniffers, threads, engine, locks,
     KeepsSpecs
<1>4. Subjects'
  BY DEF IInv, Safe, Subjects, Closing, Open, LoadSpecs, Return, sniffers, threads, engine,
     locks, KeepsSpecs
<1>5. Owned'
  BY DEF IInv, Safe, Owned, Closing, LoadSpecs, Return, sniffers, threads, engine, locks,
     KeepsSpecs
<1>6. Installed'
  BY DEF IInv, Safe, Installed, Open, LoadSpecs, Return, sniffers, threads, engine, locks,
     KeepsSpecs
<1>7. Threads'
  BY DEF IInv, Safe, Threads, Live, LoadSpecs, Return, sniffers, threads, engine, locks,
     KeepsSpecs
<1>. QED BY <1>1, <1>2, <1>3, <1>4, <1>5, <1>6, <1>7 DEF IInv, Safe

LEMMA DropBeginKeeps == ASSUME IInv, NEW c \in Controllers, DropBegin(c) PROVE IInv'
<1>0. c \in Clients BY DEF Clients
<1>1. TypeOK'
  BY DEF IInv, TypeOK, CallPlaces, DropBegin, Step, Work, sniffers, threads, engine, rules,
     locks
<1>2. LockHeld'
  BY DEF IInv, Safe, LockHeld, Holding, DropBegin, Step, Work, sniffers, threads, engine, rules,
     locks
<1>3. DropAlone'
  BY DEF IInv, Safe, DropAlone, Dropping, DropBegin, Step, Work, sniffers, threads, engine,
     rules, locks
<1>4. Subjects'
  BY <1>0, Alone DEF IInv, Safe, Subjects, Closing, Open, TypeOK, Installed, Holding, Dropping,
     DropBegin, Step, Work, sniffers, threads, engine, rules, locks
<1>5. Owned'
  BY <1>0 DEF IInv, Safe, Owned, Closing, TypeOK, DropBegin, Step, Work, sniffers, threads,
     engine, rules, locks
<1>6. Installed'
  BY DEF IInv, Safe, Installed, Open, DropBegin, Step, Work, sniffers, threads, engine, rules,
     locks
<1>7. Threads'
  BY DEF IInv, Safe, Threads, Live, DropBegin, Step, Work, sniffers, threads, engine, rules,
     locks
<1>. QED BY <1>1, <1>2, <1>3, <1>4, <1>5, <1>6, <1>7 DEF IInv, Safe

LEMMA DropEndKeeps == ASSUME IInv, NEW c \in Controllers, DropEnd(c) PROVE IInv'
<1>0. c \in Clients BY DEF Clients
<1>1. TypeOK'
  BY DEF IInv, TypeOK, CallPlaces, Results, DropEnd, Return, sniffers, threads, engine, rules,
     locks
<1>2. LockHeld'
  BY DEF IInv, Safe, LockHeld, Holding, DropEnd, Return, sniffers, threads, engine, rules, locks
<1>3. DropAlone'
  BY <1>0 DEF IInv, Safe, DropAlone, Dropping, TypeOK, DropEnd, Return, sniffers, threads,
     engine, rules, locks
<1>4. Subjects'
  BY DEF IInv, Safe, Subjects, Closing, Open, DropEnd, Return, sniffers, threads, engine, rules,
     locks
<1>5. Owned'
  BY DEF IInv, Safe, Owned, Closing, DropEnd, Return, sniffers, threads, engine, rules, locks
<1>6. Installed'
  BY DEF IInv, Safe, Installed, Open, DropEnd, Return, sniffers, threads, engine, rules, locks
<1>7. Threads'
  BY DEF IInv, Safe, Threads, Live, DropEnd, Return, sniffers, threads, engine, rules, locks
<1>. QED BY <1>1, <1>2, <1>3, <1>4, <1>5, <1>6, <1>7 DEF IInv, Safe

LEMMA StatsEngineKeeps == ASSUME IInv, NEW c \in Clients, StatsEngine(c) PROVE IInv'
<1>1. TypeOK'
  BY DEF IInv, TypeOK, CallPlaces, StatsEngine, Idle, Step, Unlocked, sniffers, threads, engine,
     rules
<1>2. LockHeld'
  BY DEF IInv, Safe, LockHeld, Holding, StatsEngine, Idle, Step, Unlocked, sniffers, threads,
     engine, rules
<1>3. DropAlone'
  BY DEF IInv, Safe, DropAlone, Dropping, StatsEngine, Idle, Step, Unlocked, sniffers, threads,
     engine, rules
<1>4. Subjects'
  BY DEF IInv, Safe, Subjects, Closing, Open, StatsEngine, Idle, Step, Unlocked, sniffers,
     threads, engine, rules
<1>5. Owned'
  BY DEF IInv, Safe, Owned, Closing, StatsEngine, Idle, Step, Unlocked, sniffers, threads,
     engine, rules
<1>6. Installed'
  BY DEF IInv, Safe, Installed, Open, StatsEngine, Idle, Step, Unlocked, sniffers, threads,
     engine, rules
<1>7. Threads'
  BY DEF IInv, Safe, Threads, Live, StatsEngine, Idle, Step, Unlocked, sniffers, threads,
     engine, rules
<1>. QED BY <1>1, <1>2, <1>3, <1>4, <1>5, <1>6, <1>7 DEF IInv, Safe

LEMMA StatsReleaseKeeps == ASSUME IInv, NEW c \in Clients, StatsRelease(c) PROVE IInv'
<1>1. TypeOK'
  BY DEF IInv, TypeOK, CallPlaces, StatsRelease, Step, Unlocked, sniffers, threads, engine,
     rules
<1>2. LockHeld'
  BY DEF IInv, Safe, LockHeld, Holding, StatsRelease, Step, Unlocked, sniffers, threads, engine,
     rules
<1>3. DropAlone'
  BY DEF IInv, Safe, DropAlone, Dropping, StatsRelease, Step, Unlocked, sniffers, threads,
     engine, rules
<1>4. Subjects'
  BY DEF IInv, Safe, Subjects, Closing, Open, StatsRelease, Step, Unlocked, sniffers, threads,
     engine, rules
<1>5. Owned'
  BY DEF IInv, Safe, Owned, Closing, StatsRelease, Step, Unlocked, sniffers, threads, engine,
     rules
<1>6. Installed'
  BY DEF IInv, Safe, Installed, Open, StatsRelease, Step, Unlocked, sniffers, threads, engine,
     rules
<1>7. Threads'
  BY DEF IInv, Safe, Threads, Live, StatsRelease, Step, Unlocked, sniffers, threads, engine,
     rules
<1>. QED BY <1>1, <1>2, <1>3, <1>4, <1>5, <1>6, <1>7 DEF IInv, Safe

LEMMA StatsStateKeeps == ASSUME IInv, NEW c \in Clients, StatsState(c) PROVE IInv'
<1>1. TypeOK'
  BY DEF IInv, TypeOK, CallPlaces, Results, StatsState, Return, Unlocked, sniffers, threads,
     engine, rules, locks, CaptureState
<1>2. LockHeld'
  BY DEF IInv, Safe, LockHeld, Holding, StatsState, Return, Unlocked, sniffers, threads, engine,
     rules, locks, CaptureState
<1>3. DropAlone'
  BY DEF IInv, Safe, DropAlone, Dropping, StatsState, Return, Unlocked, sniffers, threads,
     engine, rules, locks, CaptureState
<1>4. Subjects'
  BY DEF IInv, Safe, Subjects, Closing, Open, StatsState, Return, Unlocked, sniffers, threads,
     engine, rules, locks, CaptureState
<1>5. Owned'
  BY DEF IInv, Safe, Owned, Closing, StatsState, Return, Unlocked, sniffers, threads, engine,
     rules, locks, CaptureState
<1>6. Installed'
  BY DEF IInv, Safe, Installed, Open, StatsState, Return, Unlocked, sniffers, threads, engine,
     rules, locks, CaptureState
<1>7. Threads'
  BY DEF IInv, Safe, Threads, Live, StatsState, Return, Unlocked, sniffers, threads, engine,
     rules, locks, CaptureState
<1>. QED BY <1>1, <1>2, <1>3, <1>4, <1>5, <1>6, <1>7 DEF IInv, Safe

-----------------------------------------------------------------------------
(* The invariant holds of every behaviour.                                 *)

LEMMA ControlKeeps == ASSUME IInv, NEW c \in Controllers, ControlStep(c) PROVE IInv'
BY OpenBeginKeeps, OpenSourceKeeps, OpenRulesKeeps, OpenInstallKeeps, CloseStopKeeps,
   CloseJoinKeeps, CloseFreeKeeps, StartKeeps, StopBeginKeeps, StopJoinKeeps, LoadRulesKeeps,
   LoadSpecsKeeps, DropBeginKeeps, DropEndKeeps DEF ControlStep

LEMMA PollKeeps == ASSUME IInv, NEW c \in Clients, PollStep(c) PROVE IInv'
BY StatsEngineKeeps, StatsReleaseKeeps, StatsStateKeeps DEF PollStep

LEMMA StutterKeeps == IInv /\ UNCHANGED vars => IInv'
<1> SUFFICES ASSUME IInv, UNCHANGED vars PROVE IInv'
  OBVIOUS
<1> USE DEF vars, locks, engine, rules, sniffers, threads, calls
<1>1. TypeOK' BY DEF IInv, TypeOK
<1>2. LockHeld' /\ DropAlone' /\ Subjects' BY DEF IInv, Safe, LockHeld, DropAlone, Subjects
<1>3. Owned' /\ Installed' /\ Threads' BY DEF IInv, Safe, Owned, Installed, Threads, Live
<1>. QED BY <1>1, <1>2, <1>3 DEF IInv, Safe

LEMMA NextKeeps == IInv /\ [Next]_vars => IInv'
BY ThreadKeeps, ControlKeeps, PollKeeps, StutterKeeps DEF Next

LEMMA Invariant == Spec => []IInv
<1>1. Init => IInv BY TypeInit, SafeInit DEF IInv
<1>. QED BY <1>1, NextKeeps, PTL DEF Spec

\* A step of one host thread leaves the others' calls where they are.
LEMMA OwnCall ==
    ASSUME TypeOK, NEW c \in Clients, NEW d \in Clients \ {c}, ControlStep(d) \/ PollStep(d)
    PROVE  call'[c] = call[c]
<1>1. \/ UNCHANGED call
      \/ \E pc \in CallPlaces : call' = [call EXCEPT ![d] = pc]
  <2> USE DEF Step, Return, CallPlaces, calls
  <2>1. CASE \/ OpenBegin(d) \/ OpenSource(d) \/ OpenRules(d) \/ OpenInstall(d)
    BY <2>1 DEF OpenBegin, OpenSource, OpenRules, OpenInstall
  <2>2. CASE CloseStop(d) \/ CloseJoin(d) \/ CloseFree(d) \/ DropBegin(d) \/ DropEnd(d)
    BY <2>2 DEF CloseStop, CloseJoin, CloseFree, DropBegin, DropEnd
  <2>3. CASE Start(d) \/ StopBegin(d) \/ StopJoin(d) \/ LoadRules(d) \/ LoadSpecs(d)
    BY <2>3 DEF Start, StopBegin, StopJoin, LoadRules, LoadSpecs
  <2>4. CASE PollStep(d)
    BY <2>4 DEF PollStep, StatsEngine, StatsRelease, StatsState
  <2>. QED BY <2>1, <2>2, <2>3, <2>4 DEF ControlStep
<1>. QED BY <1>1 DEF TypeOK

\* From "state" a call goes on only by StatsState, from "join" only by StopJoin.
LEMMA Answering ==
    ASSUME IInv, Next, NEW c \in Clients, call[c] \in {"state", "join"}, call'[c] # call[c]
    PROVE  StatsState(c) \/ StopJoin(c)
<1>1. ControlStep(c) \/ PollStep(c)
  BY ThreadLeaves, OwnCall DEF Next, IInv, Clients
<1>. QED
  BY <1>1 DEF ControlStep, PollStep, OpenBegin, OpenSource, OpenRules, OpenInstall, CloseStop,
     CloseJoin, CloseFree, Start, StopBegin, LoadRules, LoadSpecs, DropBegin, DropEnd,
     StatsEngine, StatsRelease, Idle

-----------------------------------------------------------------------------
(* The properties.                                                         *)

\* Every variable has its type.
THEOREM TypeCorrect == Spec => []TypeOK
<1>1. IInv => TypeOK BY DEF IInv
<1>. QED BY <1>1, Invariant, PTL

\* The capture thread runs only while its sniffer is RUNNING and NcCore's Shared has not
\* been freed: a source that runs is installed or being closed, and a core is freed only
\* when neither is the case.
THEOREM CallbacksAreSafe == Spec => []CallbackSafe
<1>1. IInv => CallbackSafe
  <2> SUFFICES ASSUME IInv, NEW h \in Handles, Live(h)
               PROVE  state[h] = "RUNNING" /\ core # "freed"
    BY DEF CallbackSafe
  <2>1. state[h] = "RUNNING" BY DEF IInv, Safe, Threads
  <2>2. h = capture \/ \E c \in Clients : call[c] \in Closing
    BY <2>1 DEF IInv, Safe, Owned
  <2>3. core # "freed" BY <2>2, ConstantsAssumption DEF IInv, Safe, DropAlone, Closing
  <2>. QED BY <2>1, <2>3
<1>. QED BY <1>1, Invariant, PTL

\* The flag the wrapper keeps about its sniffer never disagrees with the sniffer.
THEOREM FlagsAgree == Spec => []FlagAgrees
<1>1. IInv => FlagAgrees BY DEF IInv, Safe, Installed, FlagAgrees
<1>. QED BY <1>1, Invariant, PTL

\* The counters of an installed source hold no frame of another one.
THEOREM EnginesIsolated == Spec => []EngineIsolated
<1>1. IInv => EngineIsolated BY DEF IInv, Safe, Installed, EngineIsolated
<1>. QED BY <1>1, Invariant, PTL

\* stats and stop report the end of a capture only after its thread has ended, and as the
\* thread's loop ended.
THEOREM ReportsHonest == Spec => HonestReports
<1> DEFINE Honest(c) ==
      /\ call[c] = "state" /\ result'[c] \in {"finished", "failed"} /\ call'[c] = "idle"
            => /\ thread[capture] = "exited"
               /\ (result'[c] = "finished" <=> ret[capture] = "ok")
      /\ call[c] = "join" /\ call'[c] = "idle" => result'[c] = ret[subject[c]]
<1>1. IInv /\ [Next]_vars => \A c \in Clients : Honest(c)
  <2> SUFFICES ASSUME IInv, [Next]_vars, NEW c \in Clients PROVE Honest(c)
    OBVIOUS
  <2>1. CASE call'[c] = call[c]
    BY <2>1
  <2>2. CASE call'[c] # call[c] /\ call[c] = "state"
    <3>1. Next BY <2>2 DEF vars, calls
    <3>2. StatsState(c) BY <2>2, <3>1, Answering DEF StopJoin
    <3>3. result'[c] = CaptureState BY <3>2 DEF StatsState, Return, IInv, TypeOK
    <3>4. CaptureState \in {"finished", "failed"} =>
             /\ capture \in Handles /\ finished[capture] /\ status[capture] \in {"ok", "failed"}
             /\ CaptureState = "finished" <=> status[capture] = "ok"
      BY DEF CaptureState, IInv, TypeOK
    <3>5. \A h \in Handles : finished[h] => thread[h] = "exited" /\ status[h] = ret[h]
      BY DEF IInv, Safe, Threads
    <3>. QED BY <2>2, <3>3, <3>4, <3>5
  <2>3. CASE call'[c] # call[c] /\ call[c] = "join"
    <3>1. Next BY <2>3 DEF vars, calls
    <3>2. StopJoin(c) BY <2>3, <3>1, Answering DEF StatsState
    <3>3. /\ subject[c] \in Handles /\ thread[subject[c]] = "exited"
          /\ result'[c] = status[subject[c]]
      BY <2>3, <3>2 DEF StopJoin, Return, Joinable, IInv, TypeOK, Safe, Subjects
    <3>. QED BY <2>3, <3>3 DEF IInv, Safe, Threads
  <2>. QED BY <2>1, <2>2, <2>3
<1>. QED BY <1>1, Invariant, PTL DEF Spec, HonestReports

-----------------------------------------------------------------------------
(* Rules, with one controller.                                             *)

\* What a call carries is what it took, until it is done.
RulesKept ==
    /\ \A c \in Controllers :
          /\ call[c] = "specs" => carried[c] = engineRules
          /\ call[c] = "install" => carried[c] = ruleSpecs
    /\ (\A c \in Controllers : call[c] # "specs") => engineRules = ruleSpecs

OneController == \A c, d \in Controllers : c = d

LEMMA RulesInit == Init => RulesKept
BY DEF Init, RulesKept, Clients

LEMMA RulesStep == ASSUME OneController, IInv, RulesKept, [Next]_vars PROVE RulesKept'
<1> USE DEF RulesKept
<1>1. ASSUME NEW h \in Handles, ThreadStep(h) PROVE RulesKept'
  <2>1. UNCHANGED <<call, engineRules, ruleSpecs, carried>>
    BY <1>1 DEF ThreadStep, LoopCheck, ReadFrame, PaceOver, ReadTimeout, ReadEnds, Deliver,
                StoreStatus, SetFinished, ThreadOnly, rules, calls
  <2>. QED BY <2>1
<1>2. ASSUME NEW c \in Controllers, ControlStep(c) PROVE RulesKept'
  <2>0. /\ Controllers = {c} /\ c \in Clients
        /\ call \in [Clients -> CallPlaces] /\ carried \in [Clients -> RuleFiles \cup {Builtin}]
    BY <1>2 DEF OneController, Clients, IInv, TypeOK
  <2> USE <2>0 DEF Step, Return, Idle, rules, calls
  <2>1. CASE OpenBegin(c) \/ OpenSource(c) \/ CloseStop(c) \/ CloseJoin(c) \/ CloseFree(c)
    BY <2>1 DEF OpenBegin, OpenSource, CloseStop, CloseJoin, CloseFree
  <2>2. CASE OpenRules(c)
    BY <2>2 DEF OpenRules
  <2>3. CASE OpenInstall(c)
    BY <2>3 DEF OpenInstall
  <2>4. CASE Start(c) \/ StopBegin(c) \/ StopJoin(c)
    BY <2>4 DEF Start, StopBegin, StopJoin
  <2>5. CASE LoadRules(c)
    BY <2>5 DEF LoadRules
  <2>6. CASE LoadSpecs(c)
    BY <2>6 DEF LoadSpecs, KeepsSpecs
  <2>7. CASE DropBegin(c) \/ DropEnd(c)
    BY <2>7 DEF DropBegin, DropEnd
  <2>. QED BY <1>2, <2>1, <2>2, <2>3, <2>4, <2>5, <2>6, <2>7 DEF ControlStep
<1>3. ASSUME NEW c \in Clients, PollStep(c) PROVE RulesKept'
  <2>1. UNCHANGED <<engineRules, ruleSpecs, carried>>
    BY <1>3 DEF PollStep, StatsEngine, StatsRelease, StatsState, rules
  <2>2. \A d \in Clients : call'[d] = call[d]
                           \/ {call[d], call'[d]} \subseteq {"idle", "stats", "state"}
    BY <1>3 DEF PollStep, StatsEngine, StatsRelease, StatsState, Idle, Step, Return, IInv, TypeOK
  <2>. QED BY <2>1, <2>2 DEF Clients
<1>4. CASE UNCHANGED vars
  BY <1>4 DEF vars, rules, calls
<1>. QED BY <1>1, <1>2, <1>3, <1>4 DEF Next

\* With one controlling thread, as the session of the UI is, the engine runs the rules that
\* the next open will give it: load_rules stores them in two critical sections, and open
\* takes a copy of the second before it installs an engine.
THEOREM RulesStayAgreed == OneController => (Spec => []RulesAgree)
<1> SUFFICES ASSUME OneController PROVE Spec => []RulesAgree
  OBVIOUS
<1>1. IInv /\ RulesKept /\ [Next]_vars => RulesKept'
  BY RulesStep
<1>2. RulesKept => RulesAgree
  BY DEF RulesKept, RulesAgree
<1>. QED BY <1>1, <1>2, RulesInit, Invariant, PTL DEF Spec

-----------------------------------------------------------------------------
(* Refinement of CaptureSession.                                           *)

\* Only controllers work on the capture.
ControlOnly == \A c \in Clients : call[c] \notin {"idle", "stats", "state"} => c \in Controllers

LEMMA ControlInit == Init => ControlOnly
BY DEF Init, ControlOnly

LEMMA ControlStays == ASSUME IInv, ControlOnly, [Next]_vars PROVE ControlOnly'
<1>1. ASSUME NEW h \in Handles, ThreadStep(h) PROVE ControlOnly'
  BY <1>1, ThreadLeaves DEF ControlOnly
<1>2. ASSUME NEW d \in Controllers, ControlStep(d) PROVE ControlOnly'
  <2>1. \A c \in Clients \ {d} : call'[c] = call[c]
    BY <1>2, OwnCall DEF IInv, Clients
  <2>. QED BY <2>1 DEF ControlOnly
<1>3. ASSUME NEW d \in Clients, PollStep(d) PROVE ControlOnly'
  <2>1. \A c \in Clients : call'[c] = call[c] \/ call'[c] \in {"idle", "stats", "state"}
    BY <1>3 DEF PollStep, StatsEngine, StatsRelease, StatsState, Step, Return, IInv, TypeOK
  <2>. QED BY <2>1 DEF ControlOnly
<1>4. CASE UNCHANGED vars
  BY <1>4 DEF vars, calls, ControlOnly
<1>. QED BY <1>1, <1>2, <1>3, <1>4 DEF Next

\* Current as a function of the variables it looks at.
CurrentOf(cap, pc, sub) ==
    IF cap # None THEN cap
    ELSE IF \E c \in Controllers : pc[c] \in {"close", "dropclose"}
         THEN sub[CHOOSE c \in Controllers : pc[c] \in {"close", "dropclose"}]
         ELSE None

LEMMA CurrentNow ==
    /\ Current = CurrentOf(capture, call, subject)
    /\ Current' = CurrentOf(capture', call', subject')
BY DEF Current, CurrentOf

LEMMA CurrentIs ==
    ASSUME NEW cap, NEW pc, NEW sub
    PROVE  /\ cap # None => CurrentOf(cap, pc, sub) = cap
           /\ \A c \in Controllers :
                 cap = None /\ pc[c] \in Closing /\ (\A d \in Controllers \ {c} : pc[d] \notin Closing)
                    => CurrentOf(cap, pc, sub) = sub[c]
           /\ cap = None /\ (\A c \in Controllers : pc[c] \notin Closing)
                 => CurrentOf(cap, pc, sub) = None
<1>1. ASSUME NEW c \in Controllers, cap = None, pc[c] \in Closing,
             \A d \in Controllers \ {c} : pc[d] \notin Closing
      PROVE  CurrentOf(cap, pc, sub) = sub[c]
  <2> DEFINE x == CHOOSE d \in Controllers : pc[d] \in {"close", "dropclose"}
  <2>1. x \in Controllers /\ pc[x] \in {"close", "dropclose"}
    BY <1>1 DEF Closing
  <2>2. x = c
    BY <1>1, <2>1 DEF Closing
  <2>. QED BY <1>1, <2>2 DEF CurrentOf, Closing
<1>. QED BY <1>1 DEF CurrentOf, Closing

\* A client that works on the capture is a controller, and no other does.
LEMMA OnlyOne ==
    ASSUME IInv, ControlOnly, NEW c \in Clients, call[c] \in Holding \cup Dropping
    PROVE  c \in Controllers /\ \A d \in Controllers \ {c} : call[d] \notin Closing
BY Alone DEF ControlOnly, Clients, Holding, Dropping, Closing

\* The subject of a call that gives a source back is the current source.
LEMMA CurrentClosing ==
    ASSUME IInv, ControlOnly, NEW c \in Clients, call[c] \in Closing
    PROVE  Current = subject[c] /\ Current \in Handles /\ capture = None /\ c \in Controllers
<1>1. capture = None /\ subject[c] \in Handles
  BY DEF IInv, Safe, Subjects
<1>2. c \in Controllers /\ \A d \in Controllers \ {c} : call[d] \notin Closing
  BY OnlyOne DEF Closing, Holding, Dropping
<1>. QED BY <1>1, <1>2, CurrentIs, CurrentNow

\* No source is current while nobody gives one back and none is installed.
LEMMA CurrentNone ==
    ASSUME capture = None, \A c \in Controllers : call[c] \notin Closing
    PROVE  Current = None
BY CurrentIs, CurrentNow

LEMMA CurrentInstalled == ASSUME capture # None PROVE Current = capture
BY CurrentIs, CurrentNow

\* A step of the session, or none.
Moves == Session!Next \/ UNCHANGED <<Phase, packets>>

\* Nothing moves while the current source and its state stay.
LEMMA SessionRests ==
    ASSUME UNCHANGED <<core, packets>>, Current' = Current,
           Current = None \/ state'[Current] = state[Current]
    PROVE  Moves
BY DEF Moves, Phase

LEMMA NoneIsNoHandle == None \notin Handles
BY ConstantsAssumption

\* While a call works on the capture, the core is there.
LEMMA CoreThere ==
    ASSUME IInv, NEW c \in Clients, call[c] \in Holding \cup Dropping
    PROVE  core # "freed"
BY DEF IInv, Safe, DropAlone, Holding, Dropping

\* A frame is of the current source, which runs; the other steps of a thread are not seen.
LEMMA ThreadMoves == ASSUME IInv, ControlOnly, NEW h \in Handles, ThreadStep(h) PROVE Moves
<1>1. UNCHANGED <<core, capture, call, subject, state>> BY ThreadLeaves
<1>2. Current' = Current BY <1>1, CurrentNow
<1>3. CASE Deliver(h)
  <2>1. packets' = packets + 1 /\ state[h] = "RUNNING"
    BY <1>3 DEF Deliver, IInv, Safe, Threads, Live
  <2>2. Current = h
    <3>1. CASE h = capture BY <3>1, NoneIsNoHandle, CurrentInstalled
    <3>2. CASE h # capture
      <4>1. PICK c \in Clients : call[c] \in Closing /\ subject[c] = h
        BY <2>1, <3>2 DEF IInv, Safe, Owned
      <4>. QED BY <4>1, CurrentClosing
    <3>. QED BY <3>1, <3>2
  <2>3. core # "freed"
    <3>1. CASE h = capture BY <3>1, NoneIsNoHandle DEF IInv, Safe, DropAlone
    <3>2. CASE h # capture
      <4>1. PICK c \in Clients : call[c] \in Closing
        BY <2>1, <3>2 DEF IInv, Safe, Owned
      <4>. QED BY <4>1, CoreThere DEF Closing, Holding, Dropping
    <3>. QED BY <3>1, <3>2
  <2>4. Phase = "running" /\ Phase' = "running"
    BY <1>1, <1>2, <2>1, <2>2, <2>3, NoneIsNoHandle DEF Phase
  <2>. QED BY <2>1, <2>4 DEF Moves, Session!Next, Session!Frame
<1>4. CASE ~Deliver(h)
  <2>1. packets' = packets
    BY <1>4 DEF ThreadStep, LoopCheck, ReadFrame, PaceOver, ReadTimeout, ReadEnds, StoreStatus,
                SetFinished, engine
  <2>. QED BY <1>1, <1>2, <2>1, SessionRests
<1>. QED BY <1>3, <1>4

\* open takes the installed source to give it back: it stays the current one.
LEMMA OpenBeginMoves == ASSUME IInv, ControlOnly, NEW c \in Controllers, OpenBegin(c) PROVE Moves
<1>0. c \in Clients /\ UNCHANGED <<core, packets, state>>
  BY DEF Clients, OpenBegin, engine, sniffers
<1>1. CASE capture # None /\ running
  <2>1. UNCHANGED <<capture, subject>> /\ call' = [call EXCEPT ![c] = "idle"]
    BY <1>1 DEF OpenBegin, Return
  <2>2. Current = capture /\ Current' = capture
    BY <1>1, <2>1, CurrentIs, CurrentNow
  <2>. QED BY <1>0, <2>2, SessionRests
<1>2. CASE ~(capture # None /\ running)
  <2>1. /\ captureLock = None /\ core = "live" /\ capture' = None
        /\ subject' = [subject EXCEPT ![c] = capture]
        /\ call' = [call EXCEPT ![c] = IF capture = None THEN "open" ELSE "close"]
    BY <1>2 DEF OpenBegin, Idle, Unlocked, Work, Step
  <2>2. \A d \in Controllers : call[d] \notin Closing
    BY <2>1, ConstantsAssumption DEF IInv, Safe, LockHeld, DropAlone, Closing, Holding, Dropping,
       Clients
  <2>3. \A d \in Controllers \ {c} : call'[d] \notin Closing
    BY <2>1, <2>2 DEF IInv, TypeOK, Clients
  <2>4. subject'[c] = capture /\ call'[c] = (IF capture = None THEN "open" ELSE "close")
    BY <1>0, <2>1 DEF IInv, TypeOK
  <2>5. CASE capture = None
    <3>1. Current = None BY <2>2, <2>5, CurrentNone
    <3>2. call'[c] \notin Closing BY <2>4, <2>5 DEF Closing
    <3>3. \A d \in Controllers : call'[d] \notin Closing BY <2>3, <3>2
    <3>4. capture' = None BY <2>1
    <3>5. CurrentOf(capture', call', subject') = None BY <3>3, <3>4, CurrentIs
    <3>6. Current' = None BY <3>5, CurrentNow
    <3>. QED BY <1>0, <3>1, <3>6, SessionRests
  <2>6. CASE capture # None
    <3>1. Current = capture BY <2>6, CurrentInstalled
    <3>2. call'[c] \in Closing BY <2>4, <2>6 DEF Closing
    <3>3. capture' = None BY <2>1
    <3>4. CurrentOf(capture', call', subject') = subject'[c] BY <2>3, <3>2, <3>3, CurrentIs
    <3>5. Current' = capture BY <2>4, <3>4, CurrentNow
    <3>. QED BY <1>0, <3>1, <3>5, SessionRests
  <2>. QED BY <2>5, <2>6
<1>. QED BY <1>1, <1>2

\* sniffer_close: the flag is not seen, the join stops the source, the rest closes it.
LEMMA CloseMoves ==
    ASSUME IInv, ControlOnly, NEW c \in Controllers, CloseStop(c) \/ CloseJoin(c) \/ CloseFree(c)
    PROVE  Moves
<1>0. /\ c \in Clients /\ call[c] \in Closing /\ UNCHANGED <<core, packets, capture>>
      /\ state \in [Handles -> Lives] /\ call \in [Clients -> CallPlaces]
      /\ subject \in [Clients -> Handles \cup {None}]
  BY DEF Clients, Closing, CloseStop, CloseJoin, CloseFree, engine, IInv, TypeOK
<1>1. /\ Current = subject[c] /\ subject[c] \in Handles /\ capture = None /\ core # "freed"
      /\ \A d \in Controllers \ {c} : call[d] \notin Closing
  BY <1>0, CurrentClosing, OnlyOne, CoreThere DEF Closing, Holding, Dropping
<1>2. CASE CloseStop(c)
  <2>1. UNCHANGED <<call, subject, state>> BY <1>2 DEF CloseStop, calls
  <2>2. Current' = Current BY <1>0, <2>1, CurrentNow
  <2>. QED BY <1>0, <2>1, <2>2, SessionRests
<1>3. CASE CloseJoin(c)
  <2>1. /\ UNCHANGED <<call, subject>> /\ state[subject[c]] = "RUNNING"
        /\ state' = [state EXCEPT ![subject[c]] = "FINISHED"]
    BY <1>3 DEF CloseJoin, calls
  <2>2. Current' = Current BY <1>0, <2>1, CurrentNow
  <2>3. state'[subject[c]] = "FINISHED" BY <1>0, <1>1, <2>1
  <2>4. Phase = "running" /\ Phase' = "stopped"
    BY <1>0, <1>1, <2>1, <2>2, <2>3, NoneIsNoHandle DEF Phase
  <2>. QED BY <1>0, <2>4 DEF Moves, Session!Next, Session!Stop
<1>4. CASE CloseFree(c)
  <2>1. /\ state[subject[c]] \in {"IDLE", "FINISHED"}
        /\ call' = [call EXCEPT ![c] = IF call[c] = "close" THEN "open" ELSE "drop"]
    BY <1>4 DEF CloseFree, Step
  <2>2. \A d \in Controllers : call'[d] \notin Closing
    BY <1>0, <1>1, <2>1 DEF Closing, Clients
  <2>3. Current' = None BY <1>0, <1>1, <2>2, CurrentIs, CurrentNow
  <2>4. Phase \in {"ready", "stopped"} /\ Phase' = "closed"
    BY <1>0, <1>1, <2>1, <2>3, NoneIsNoHandle DEF Phase
  <2>. QED BY <1>0, <2>4 DEF Moves, Session!Next, Session!Close
<1>. QED BY <1>2, <1>3, <1>4

\* open() works on a sniffer nobody sees yet; from its install on it is the current source.
LEMMA OpenMoves ==
    ASSUME IInv, ControlOnly, NEW c \in Controllers,
           OpenSource(c) \/ OpenRules(c) \/ OpenInstall(c)
    PROVE  Moves
<1>0. /\ c \in Clients /\ call[c] \in {"open", "rules", "install"} /\ core' = core
      /\ state \in [Handles -> Lives] /\ call \in [Clients -> CallPlaces]
      /\ subject \in [Clients -> Handles \cup {None}]
  BY DEF Clients, OpenSource, OpenRules, OpenInstall, IInv, TypeOK
<1>1. capture = None /\ core # "freed"
  BY <1>0, CoreThere DEF IInv, Safe, Subjects, Holding
<1>2. \A d \in Controllers : call[d] \notin Closing
  BY <1>0, OnlyOne DEF Closing, Holding, Dropping
<1>3. Current = None BY <1>1, <1>2, CurrentNone
<1>4. \A d \in Controllers : call'[d] \notin Closing
  <2>1. \E pc \in {"rules", "install", "idle"} : call' = [call EXCEPT ![c] = pc]
    BY DEF OpenSource, OpenRules, OpenInstall, Step, Return
  <2>. QED BY <1>0, <1>2, <2>1 DEF Closing, Clients
<1>5. CASE OpenSource(c) \/ OpenRules(c)
  <2>1. capture' = None /\ packets' = packets
    BY <1>1, <1>5 DEF OpenSource, OpenRules, engine
  <2>2. Current' = None BY <1>4, <2>1, CurrentIs, CurrentNow
  <2>. QED BY <1>0, <1>3, <2>1, <2>2, SessionRests
<1>6. CASE OpenInstall(c)
  <2>1. /\ call[c] = "install" /\ capture' = subject[c] /\ packets' = 0 /\ state' = state
    BY <1>6 DEF OpenInstall, FreshEngine, sniffers
  <2>2. subject[c] \in Handles /\ state[subject[c]] = "IDLE"
    BY <1>0, <2>1 DEF IInv, Safe, Subjects
  <2>3. Current' = subject[c] BY <2>1, <2>2, NoneIsNoHandle, CurrentIs, CurrentNow
  <2>4. Phase = "closed" /\ Phase' = "ready"
    BY <1>0, <1>1, <1>3, <2>1, <2>2, <2>3, NoneIsNoHandle DEF Phase
  <2>. QED BY <2>1, <2>4 DEF Moves, Session!Next, Session!Open
<1>. QED BY <1>5, <1>6

\* core_start: the installed source runs, or nothing is seen of an error.
LEMMA StartMoves == ASSUME IInv, ControlOnly, NEW c \in Controllers, Start(c) PROVE Moves
<1>0. /\ c \in Clients /\ UNCHANGED <<core, packets, capture, subject>> /\ core = "live"
      /\ state \in [Handles -> Lives] /\ call \in [Clients -> CallPlaces]
      /\ capture \in Handles \cup {None} /\ call[c] = "idle"
      /\ call' = [call EXCEPT ![c] = "idle"]
  BY DEF Clients, Start, Idle, Return, engine, IInv, TypeOK
<1>1. call' = call BY <1>0
<1>2. Current' = Current BY <1>0, <1>1, CurrentNow
<1>3. CASE state' = state
  BY <1>0, <1>2, <1>3, SessionRests
<1>4. CASE state' # state
  <2>1. /\ capture \in Handles /\ capture # None /\ state[capture] = "IDLE"
        /\ state' = [state EXCEPT ![capture] = "RUNNING"]
    BY <1>0, <1>4 DEF Start
  <2>2. Current = capture BY <2>1, CurrentInstalled
  <2>3. state'[capture] = "RUNNING" BY <1>0, <2>1
  <2>4. Phase = "ready" /\ Phase' = "running"
    BY <1>0, <1>2, <2>1, <2>2, <2>3 DEF Phase
  <2>. QED BY <1>0, <2>4 DEF Moves, Session!Next, Session!Start
<1>. QED BY <1>3, <1>4

\* core_stop: the source has stopped when its thread is joined.
LEMMA StopMoves ==
    ASSUME IInv, ControlOnly, NEW c \in Controllers, StopBegin(c) \/ StopJoin(c)
    PROVE  Moves
<1>0. /\ c \in Clients /\ UNCHANGED <<core, packets, capture>>
      /\ state \in [Handles -> Lives] /\ call \in [Clients -> CallPlaces]
      /\ subject \in [Clients -> Handles \cup {None}]
  BY DEF Clients, StopBegin, StopJoin, engine, IInv, TypeOK
<1>1. CASE StopBegin(c)
  <2>1. state' = state BY <1>1 DEF StopBegin
  <2>2. CASE capture # None
    <3>1. Current = capture /\ Current' = capture BY <1>0, <2>2, CurrentIs, CurrentNow
    <3>. QED BY <1>0, <2>1, <3>1, SessionRests
  <2>3. CASE capture = None
    <3>1. call[c] = "idle" /\ call' = [call EXCEPT ![c] = "idle"] /\ subject' = subject
      BY <1>1, <2>3 DEF StopBegin, Idle, Return
    <3>2. call' = call BY <1>0, <3>1
    <3>3. Current' = Current BY <1>0, <3>1, <3>2, CurrentNow
    <3>. QED BY <1>0, <2>1, <3>3, SessionRests
  <2>. QED BY <2>2, <2>3
<1>2. CASE StopJoin(c)
  <2>1. call[c] = "join" /\ state' = [state EXCEPT ![subject[c]] = "FINISHED"]
    BY <1>2 DEF StopJoin
  <2>2. subject[c] \in Handles /\ subject[c] = capture /\ state[capture] = "RUNNING"
    BY <1>0, <2>1 DEF IInv, Safe, Subjects
  <2>3. core # "freed" BY <1>0, <2>1, CoreThere DEF Holding
  <2>4. capture # None BY <2>2, NoneIsNoHandle
  <2>5. Current = capture /\ Current' = capture BY <1>0, <2>4, CurrentIs, CurrentNow
  <2>6. state'[capture] = "FINISHED" BY <1>0, <2>1, <2>2
  <2>7. Phase = "running" /\ Phase' = "stopped"
    BY <1>0, <2>2, <2>3, <2>4, <2>5, <2>6 DEF Phase
  <2>. QED BY <1>0, <2>7 DEF Moves, Session!Next, Session!Stop
<1>. QED BY <1>1, <1>2

\* A call outside the capture does not show.
LEMMA OtherMoves ==
    ASSUME IInv, ControlOnly, NEW c \in Clients,
           LoadRules(c) \/ LoadSpecs(c) \/ StatsEngine(c) \/ StatsRelease(c) \/ StatsState(c)
    PROVE  Moves
<1>1. UNCHANGED <<core, packets, capture, subject, state>>
  BY DEF LoadRules, LoadSpecs, StatsEngine, StatsRelease, StatsState, engine, sniffers
<1>2. \A d \in Clients : call'[d] = call[d] \/ {call[d], call'[d]} \cap Closing = {}
  BY DEF LoadRules, LoadSpecs, StatsEngine, StatsRelease, StatsState, Idle, Step, Return, Closing,
         IInv, TypeOK
<1>3. CASE capture # None
  <2>1. Current = capture /\ Current' = capture BY <1>1, <1>3, CurrentIs, CurrentNow
  <2>. QED BY <1>1, <2>1, SessionRests
<1>4. CASE capture = None /\ \E d \in Controllers : call[d] \in Closing
  <2>1. PICK d \in Controllers : call[d] \in Closing BY <1>4
  <2>2. d \in Clients /\ \A e \in Controllers \ {d} : call[e] \notin Closing
    BY <2>1, OnlyOne DEF Clients, Holding, Dropping, Closing
  <2>3. call'[d] \in Closing /\ \A e \in Controllers \ {d} : call'[e] \notin Closing
    BY <1>2, <2>1, <2>2 DEF Clients
  <2>4. Current = subject[d] BY <1>4, <2>1, <2>2, CurrentIs, CurrentNow
  <2>5. capture' = None BY <1>1, <1>4
  <2>6. CurrentOf(capture', call', subject') = subject'[d] BY <2>3, <2>5, CurrentIs
  <2>7. Current' = Current BY <1>1, <2>4, <2>6, CurrentNow
  <2>. QED BY <1>1, <2>7, SessionRests
<1>5. CASE capture = None /\ \A d \in Controllers : call[d] \notin Closing
  <2>1. \A d \in Controllers : call'[d] \notin Closing BY <1>2, <1>5 DEF Clients
  <2>2. Current = None /\ Current' = None BY <1>1, <1>5, <2>1, CurrentIs, CurrentNow
  <2>. QED BY <1>1, <2>2, SessionRests
<1>. QED BY <1>3, <1>4, <1>5

\* core_destroy: the installed source stays the current one while it is given back, and the
\* core goes when it is closed.
LEMMA DropMoves ==
    ASSUME IInv, ControlOnly, NEW c \in Controllers, DropBegin(c) \/ DropEnd(c)
    PROVE  Moves
<1>0. /\ c \in Clients /\ UNCHANGED <<packets, state>> /\ call \in [Clients -> CallPlaces]
      /\ subject \in [Clients -> Handles \cup {None}] /\ capture \in Handles \cup {None}
  BY DEF Clients, DropBegin, DropEnd, engine, sniffers, IInv, TypeOK
<1>1. CASE DropBegin(c)
  <2>1. /\ core = "live" /\ core' = "dropping" /\ capture' = None
        /\ \A d \in Clients : call[d] = "idle"
        /\ subject' = [subject EXCEPT ![c] = capture]
        /\ call' = [call EXCEPT ![c] = IF capture = None THEN "drop" ELSE "dropclose"]
    BY <1>1 DEF DropBegin, Work, Step
  <2>2. \A d \in Controllers : call[d] \notin Closing BY <2>1 DEF Closing, Clients
  <2>3. \A d \in Controllers \ {c} : call'[d] \notin Closing
    BY <1>0, <2>1 DEF Closing, Clients
  <2>4. subject'[c] = capture /\ call'[c] = (IF capture = None THEN "drop" ELSE "dropclose")
    BY <1>0, <2>1
  <2>5. Current' = Current
    <3>1. CASE capture = None
      <4>1. Current = None BY <2>2, <3>1, CurrentNone
      <4>2. \A d \in Controllers : call'[d] \notin Closing BY <2>3, <2>4, <3>1 DEF Closing
      <4>3. capture' = None BY <2>1
      <4>4. CurrentOf(capture', call', subject') = None BY <4>2, <4>3, CurrentIs
      <4>5. Current' = None BY <4>4, CurrentNow
      <4>. QED BY <4>1, <4>5
    <3>2. CASE capture # None
      <4>1. Current = capture BY <3>2, CurrentInstalled
      <4>2. call'[c] \in Closing BY <2>4, <3>2 DEF Closing
      <4>3. capture' = None BY <2>1
      <4>4. CurrentOf(capture', call', subject') = subject'[c] BY <2>3, <4>2, <4>3, CurrentIs
      <4>. QED BY <2>4, <4>1, <4>4, CurrentNow
    <3>. QED BY <3>1, <3>2
  <2>6. Phase' = Phase BY <1>0, <2>1, <2>5 DEF Phase
  <2>. QED BY <1>0, <2>6 DEF Moves
<1>2. CASE DropEnd(c)
  <2>1. /\ call[c] = "drop" /\ core' = "freed" BY <1>2 DEF DropEnd
  <2>2. capture = None /\ core # "freed"
    BY <1>0, <2>1, CoreThere DEF IInv, Safe, DropAlone, Dropping
  <2>3. \A d \in Controllers : call[d] \notin Closing
    BY <1>0, <2>1, OnlyOne DEF Holding, Dropping, Closing
  <2>4. Current = None BY <2>2, <2>3, CurrentNone
  <2>5. Phase = "closed" /\ Phase' = "gone" BY <2>1, <2>2, <2>4 DEF Phase
  <2>. QED BY <1>0, <2>5 DEF Moves, Session!Next, Session!Destroy
<1>. QED BY <1>1, <1>2

\* The locks, flags, joins and threads of the capture implement the sequential session: a
\* source is opened, started once, delivers frames only while it runs, and is stopped before
\* it is given back or the core is destroyed.
THEOREM CaptureImplementsSession == Spec => ImplementsSession
<1>1. Init => Session!Init
  <2> SUFFICES ASSUME Init PROVE Session!Init
    OBVIOUS
  <2>1. capture = None /\ packets = 0 /\ core = "live" /\ \A c \in Controllers : call[c] = "idle"
    BY DEF Init, Clients
  <2>2. Current = None BY <2>1, CurrentNone DEF Closing
  <2>. QED BY <2>1, <2>2 DEF Session!Init, Phase
<1>2. IInv /\ ControlOnly /\ [Next]_vars => [Session!Next]_(Session!vars)
  <2> SUFFICES ASSUME IInv, ControlOnly, [Next]_vars PROVE Moves
    BY DEF Moves, Session!vars
  <2>1. ASSUME NEW h \in Handles, ThreadStep(h) PROVE Moves
    BY <2>1, ThreadMoves
  <2>2. ASSUME NEW c \in Controllers, ControlStep(c) PROVE Moves
    BY <2>2, OpenBeginMoves, CloseMoves, OpenMoves, StartMoves, StopMoves, OtherMoves, DropMoves
    DEF ControlStep, Clients
  <2>3. ASSUME NEW c \in Clients, PollStep(c) PROVE Moves
    BY <2>3, OtherMoves DEF PollStep
  <2>4. CASE UNCHANGED vars
    <3>1. UNCHANGED <<core, packets, capture, call, subject, state>>
      BY <2>4 DEF vars, engine, calls, sniffers
    <3>2. Current' = Current BY <3>1, CurrentNow
    <3>. QED BY <3>1, <3>2, SessionRests
  <2>. QED BY <2>1, <2>2, <2>3, <2>4 DEF Next
<1>3. IInv /\ ControlOnly /\ [Next]_vars => ControlOnly'
  BY ControlStays
<1>. QED BY <1>1, <1>2, <1>3, ControlInit, Invariant, PTL DEF Spec, ImplementsSession, Session!Spec

=============================================================================
