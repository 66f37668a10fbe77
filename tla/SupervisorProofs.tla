--------------------------- MODULE SupervisorProofs ---------------------------
(***************************************************************************)
(* Proofs about Supervisor, for any services, limits and thresholds: no    *)
(* child is lost (ChildrenAccountedFor), none is started in its backoff,   *)
(* and the launcher gives up only when none runs.  The invariant IInv says *)
(* besides the types which processes can be running at each place of the   *)
(* launcher's thread.                                                      *)
(***************************************************************************)
EXTENDS Supervisor, TLAPS

N == Len(Procs)
Launching == phase \in {"plan", "start", "settle"}

(* A running child has its handle, a handle has no backoff, and what is not *)
(* among the processes of this mode was never started                      *)
Held ==
  \A n \in Names :
    /\ alive[n] => handle[n]
    /\ handle[n] => backoff[n] = 0
    /\ n \notin Range(Procs) => ~handle[n]

(* The processes of an attempt are started once, none being left           *)
Fresh ==
  /\ Launching => \A n \in Names : backoff[n] = 0
  /\ phase = "plan" => \A n \in Names : ~handle[n]
  /\ phase = "start" => \A j \in idx .. N : ~handle[Procs[j]]

(* What the launcher has looked at in this round, or has stopped           *)
Passed ==
  /\ phase \in {"check", "look"} /\ allDead => \A j \in 1 .. idx - 1 : ~alive[Procs[j]]
  /\ phase = "stop" => \A j \in 1 .. idx - 1 : ~alive[Procs[j]]
  /\ phase \in {"round", "settle", "plan"} => idx = 1

Tried ==
  /\ phase # "ended" => failed <= MaxRetries
  /\ phase = "settle" => mode = "standalone"

CtlTypes ==
  /\ mode \in Roles
  /\ phase \in Phases
  /\ idx \in 1 .. N
  /\ failed \in 0 .. MaxRetries + 1
  /\ allDead \in BOOLEAN
  /\ stopEvent \in BOOLEAN
  /\ exitCode \in {0, 1}
ProcTypes ==
  /\ handle \in [Names -> BOOLEAN]
  /\ alive \in [Names -> BOOLEAN]
  /\ due \in [Names -> BOOLEAN]
  /\ orphans \in [Names -> Nat]
  /\ uptime \in [Names -> NeverSet .. CrashThreshold]
  /\ crashCount \in [Names -> 0 .. CrashCap]
  /\ backoff \in [Names -> 0 .. MaxBackoff]

(* What the launcher refers to is stopped when it has ended                *)
NoneHeldAtTheEnd == phase = "ended" => \A n \in Names : ~alive[n]

IInv ==
  /\ CtlTypes
  /\ ProcTypes
  /\ Held
  /\ Fresh
  /\ Passed
  /\ Tried
  /\ DaemonLosesNoChild
  /\ NoneHeldAtTheEnd

-----------------------------------------------------------------------------
(* Constants and the list of processes.                                    *)

LEMMA ProcsList ==
  /\ Procs \in Seq(Names) /\ N \in Nat \ {0} /\ DOMAIN Procs = 1 .. N
  /\ \A i \in 1 .. N : Procs[i] \in Names
  /\ \A i, j \in 1 .. N : Procs[i] = Procs[j] => i = j
  /\ \A n \in Range(Procs) : \E i \in 1 .. N : Procs[i] = n
  /\ \A i \in 1 .. N : Procs[i] \in Range(Procs)
  <1>1. /\ Procs \in Seq(Names) /\ Procs # <<>>
        /\ \A i, j \in DOMAIN Procs : Procs[i] = Procs[j] => i = j
    BY SupervisorAssumption DEF Procs, IsInjective
  <1>2. N \in Nat \ {0} /\ DOMAIN Procs = 1 .. N
    BY <1>1 DEF N
  <1> QED  BY <1>1, <1>2 DEF Range

LEMMA SameProcs ==
  ASSUME UNCHANGED mode
  PROVE  Procs' = Procs /\ N' = N
  BY DEF Procs, N

LEMMA Limits ==
  /\ MaxRetries \in Nat /\ CrashCap \in Nat
  /\ CrashThreshold \in Nat \ {0} /\ MaxBackoff \in Nat \ {0}
  BY SupervisorAssumption

LEMMA SmallerOf ==
  ASSUME NEW x \in Nat, NEW cap \in Nat
  PROVE  Smaller(x, cap) \in 0 .. cap
  BY DEF Smaller

LEMMA TypesAreTypeOK == TypeOK <=> CtlTypes /\ ProcTypes
  <1>1. CtlTypes <=> /\ mode \in Roles /\ phase \in Phases /\ idx \in 1 .. Len(Procs)
                     /\ failed \in 0 .. MaxRetries + 1
                     /\ {allDead, stopEvent} \subseteq BOOLEAN /\ exitCode \in {0, 1}
    BY DEF CtlTypes, N
  <1>2. ProcTypes <=> /\ {handle, alive, due} \subseteq [Names -> BOOLEAN]
                      /\ orphans \in [Names -> Nat]
                      /\ uptime \in [Names -> NeverSet .. CrashThreshold]
                      /\ crashCount \in [Names -> 0 .. CrashCap]
                      /\ backoff \in [Names -> 0 .. MaxBackoff]
    BY DEF ProcTypes
  <1> QED  BY <1>1, <1>2 DEF TypeOK

-----------------------------------------------------------------------------
(* What the launcher may do to one process.                                *)

(* The others are as they were, no child loses its handle, and what is      *)
(* started has waited for its backoff                                      *)
Touches(n) ==
  /\ ProcTypes'
  /\ orphans' = orphans
  /\ \A m \in Names \ {n} : /\ handle'[m] = handle[m]
                             /\ alive'[m] = alive[m]
                             /\ backoff'[m] = backoff[m]
  /\ alive'[n] => handle'[n]
  /\ handle'[n] => backoff'[n] = 0
  /\ ~alive[n] /\ alive'[n] => backoff[n] = 0

LEMMA StartTouches ==
  ASSUME ProcTypes, Held, NEW n \in Names, ~handle[n], backoff[n] = 0, Start(n),
         UNCHANGED <<crashCount, backoff>>,
         uptime' = uptime \/ uptime' = [uptime EXCEPT ![n] = 0]
  PROVE  Touches(n)
  <1>1. ~alive[n]
    BY DEF Held
  <1>2. orphans' = orphans
    BY <1>1 DEF Start, ProcTypes
  <1>3. /\ handle' \in [Names -> BOOLEAN] /\ alive' \in [Names -> BOOLEAN]
        /\ due' \in [Names -> BOOLEAN]
    BY DEF Start, ProcTypes
  <1>4. uptime' \in [Names -> NeverSet .. CrashThreshold]
    <2>1. 0 \in NeverSet .. CrashThreshold
      BY Limits DEF NeverSet
    <2> QED  BY <2>1 DEF ProcTypes
  <1>5. ProcTypes'
    BY <1>2, <1>3, <1>4 DEF ProcTypes
  <1>6. \A m \in Names \ {n} : handle'[m] = handle[m] /\ alive'[m] = alive[m]
    BY DEF Start, ProcTypes
  <1>7. alive'[n] => handle'[n]
    BY <1>1 DEF Start, ProcTypes
  <1> QED  BY <1>2, <1>5, <1>6, <1>7 DEF Touches

LEMMA NotStartedTouches ==
  ASSUME ProcTypes, Held, NEW n \in Names, NotStarted(n)
  PROVE  Touches(n)
  <1>1. CASE backoff[n] > 0
    BY <1>1 DEF NotStarted, Touches, ProcTypes, Held
  <1>2. CASE ~(backoff[n] > 0)
    <2>1. backoff[n] = 0
      BY <1>2, Limits DEF ProcTypes
    <2> QED  BY <1>2, <2>1, StartTouches DEF NotStarted
  <1> QED  BY <1>1, <1>2

LEMMA NoticeCrashTouches ==
  ASSUME ProcTypes, Held, NEW n \in Names, NoticeCrash(n)
  PROVE  Touches(n)
  <1>1. crashCount[n] + 1 \in Nat
    BY Limits DEF ProcTypes
  <1>2. Smaller(crashCount[n] + 1, CrashCap) \in 0 .. CrashCap
    BY <1>1, Limits, SmallerOf
  <1>3. crashCount' \in [Names -> 0 .. CrashCap] /\ crashCount'[n] \in 0 .. CrashCap
    BY <1>2 DEF NoticeCrash, ProcTypes
  <1>4. 2 ^ (crashCount'[n]) \in Nat
    BY <1>3, PowersAssumption
  <1>5. Smaller(2 ^ (crashCount'[n]), MaxBackoff) \in 0 .. MaxBackoff
    BY <1>4, Limits, SmallerOf
  <1>6. backoff' \in [Names -> 0 .. MaxBackoff]
    BY <1>5 DEF NoticeCrash, ProcTypes
  <1>7. /\ handle' \in [Names -> BOOLEAN] /\ ~handle'[n]
        /\ \A m \in Names \ {n} : handle'[m] = handle[m] /\ backoff'[m] = backoff[m]
    BY DEF NoticeCrash, ProcTypes
  <1>8. ~alive'[n] /\ UNCHANGED <<alive, orphans, uptime, due>>
    BY DEF NoticeCrash, Crashed
  <1>9. ProcTypes'
    BY <1>3, <1>6, <1>7, <1>8 DEF ProcTypes
  <1> QED  BY <1>7, <1>8, <1>9 DEF Touches

LEMMA RestartAtOnceTouches ==
  ASSUME ProcTypes, Held, NEW n \in Names, RestartAtOnce(n)
  PROVE  Touches(n)
  <1>1. handle[n] /\ backoff[n] = 0 /\ UNCHANGED <<orphans, backoff>>
    BY DEF RestartAtOnce, Held
  <1>2. PICK ok \in BOOLEAN : /\ handle' = [handle EXCEPT ![n] = ok]
                              /\ alive' = [alive EXCEPT ![n] = ok]
    BY DEF RestartAtOnce
  <1>3. /\ handle' \in [Names -> BOOLEAN] /\ alive' \in [Names -> BOOLEAN]
        /\ handle'[n] = ok /\ alive'[n] = ok
        /\ \A m \in Names \ {n} : handle'[m] = handle[m] /\ alive'[m] = alive[m]
    BY <1>2 DEF ProcTypes
  <1>4. 0 \in NeverSet .. CrashThreshold /\ 0 \in 0 .. CrashCap
    BY Limits DEF NeverSet
  <1>5. /\ uptime' \in [Names -> NeverSet .. CrashThreshold]
        /\ crashCount' \in [Names -> 0 .. CrashCap]
    BY <1>4 DEF RestartAtOnce, ProcTypes
  <1>6. due' \in [Names -> BOOLEAN]
    BY DEF RestartAtOnce, ProcTypes
  <1>7. ProcTypes'
    BY <1>1, <1>3, <1>5, <1>6 DEF ProcTypes
  <1> QED  BY <1>1, <1>3, <1>7 DEF Touches

LEMMA RestartTouches ==
  ASSUME ProcTypes, Held, NEW n \in Names, RestartIfNeeded(n)
  PROVE  Touches(n)
  <1>1. CASE StillRunning(n)
    BY <1>1 DEF StillRunning, procVars, Touches, ProcTypes, Held
  <1> QED  BY <1>1, NotStartedTouches, NoticeCrashTouches, RestartAtOnceTouches
          DEF RestartIfNeeded

-----------------------------------------------------------------------------
(* The steps of the launcher's thread.                                     *)

(* On to the next process or the next phase                                *)
LEMMA NextProcMoves ==
  ASSUME CtlTypes, NEW again \in Phases, NEW p \in Phases, NextProc(again, p), UNCHANGED mode
  PROVE  /\ idx' \in 1 .. N /\ phase' \in Phases
         /\ \/ idx < N /\ idx' = idx + 1 /\ phase' = again
            \/ idx = N /\ idx' = 1 /\ phase' = p
  <1>1. N \in Nat \ {0} /\ idx \in 1 .. N
    BY ProcsList DEF CtlTypes
  <1>2. \/ idx < N /\ idx' = idx + 1 /\ phase' = again
        \/ ~(idx < N) /\ idx' = 1 /\ phase' = p
    BY DEF NextProc, N
  <1> QED  BY <1>1, <1>2

(* What a step at Procs[idx] leaves of the statements about all processes  *)
LEMMA TouchKeeps ==
  ASSUME IInv, Touches(Procs[idx]), UNCHANGED <<mode, failed>>
  PROVE  ProcTypes' /\ Held' /\ DaemonLosesNoChild'
  <1>1. Procs[idx] \in Names /\ Procs[idx] \in Range(Procs)
    BY ProcsList DEF IInv, CtlTypes
  <1>2. Procs' = Procs
    BY SameProcs
  <1>3. Held'
    BY <1>1, <1>2 DEF Held, Touches, IInv
  <1> QED  BY <1>3 DEF Touches, IInv, DaemonLosesNoChild

LEMMA TouchesOne ==
  ASSUME IInv, Touches(Procs[idx]), NEW j \in 1 .. N, j # idx
  PROVE  /\ handle'[Procs[j]] = handle[Procs[j]]
         /\ alive'[Procs[j]] = alive[Procs[j]]
  BY ProcsList DEF Touches, IInv, CtlTypes

LEMMA PlanOkKeeps == IInv /\ PlanOk => IInv'
  <1> SUFFICES ASSUME IInv, PlanOk PROVE IInv'
    OBVIOUS
  <1>1. /\ phase = "plan" /\ phase' = "start"
        /\ UNCHANGED <<mode, idx, failed, allDead, stopEvent, exitCode, procVars>>
    BY DEF PlanOk
  <1>2. Procs' = Procs /\ N' = N
    BY <1>1, SameProcs
  <1>3. CtlTypes'
    BY <1>1, <1>2 DEF IInv, CtlTypes, Phases
  <1>4. ProcTypes' /\ Held' /\ DaemonLosesNoChild'
    BY <1>1, SameProcs DEF IInv, procVars, ProcTypes, Held, DaemonLosesNoChild
  <1>5. Fresh'
    <2>1. \A j \in idx .. N : Procs[j] \in Names
      BY ProcsList DEF IInv, CtlTypes
    <2> QED  BY <1>1, <1>2, <2>1 DEF IInv, Fresh, Launching, procVars
  <1> QED  BY <1>1, <1>3, <1>4, <1>5 DEF IInv, Passed, Tried, NoneHeldAtTheEnd

LEMMA StartNextTouches ==
  ASSUME IInv, StartNext
  PROVE  Touches(Procs[idx])
  <1>1. Procs[idx] \in Names /\ ~handle[Procs[idx]] /\ backoff[Procs[idx]] = 0
    BY ProcsList DEF IInv, CtlTypes, StartNext, Fresh, Launching
  <1> QED  BY <1>1, StartTouches DEF IInv, StartNext

LEMMA StartNextKeeps == IInv /\ StartNext => IInv'
  <1> SUFFICES ASSUME IInv, StartNext PROVE IInv'
    OBVIOUS
  <1> DEFINE p == IF mode = "standalone" THEN "settle" ELSE "round"
  <1>1. /\ phase = "start" /\ NextProc("start", p)
        /\ UNCHANGED <<mode, failed, allDead, stopEvent, exitCode, uptime, crashCount, backoff>>
    BY DEF StartNext
  <1>2. Procs' = Procs /\ N' = N
    BY <1>1, SameProcs
  <1>3. /\ idx' \in 1 .. N /\ phase' \in Phases
        /\ \/ idx < N /\ idx' = idx + 1 /\ phase' = "start"
           \/ idx = N /\ idx' = 1 /\ phase' = p
    <2>1. "start" \in Phases /\ p \in Phases
      BY DEF Phases
    <2> QED  BY <1>1, <2>1, NextProcMoves DEF IInv
  <1>4. CtlTypes'
    BY <1>1, <1>2, <1>3 DEF IInv, CtlTypes
  <1>5. ProcTypes' /\ Held' /\ DaemonLosesNoChild'
    BY <1>1, StartNextTouches, TouchKeeps
  <1>6. Fresh'
    <2>1. \A n \in Names : backoff'[n] = 0
      BY <1>1 DEF IInv, Fresh, Launching
    <2>2. phase' # "plan"
      BY <1>3
    <2>3. ASSUME phase' = "start", NEW j \in idx' .. N
          PROVE  ~handle'[Procs[j]]
      <3>1. j \in 1 .. N /\ j # idx /\ j \in idx .. N
        BY <1>3, <2>3 DEF IInv, CtlTypes
      <3> QED  BY <1>1, <3>1, StartNextTouches, TouchesOne DEF IInv, Fresh
    <2> QED  BY <1>2, <2>1, <2>2, <2>3 DEF Fresh
  <1>7. phase' \in {"start", "settle", "round"} /\ (phase' = "settle" => mode = "standalone")
    BY <1>3
  <1> QED  BY <1>1, <1>3, <1>4, <1>5, <1>6, <1>7 DEF IInv, Passed, Tried, NoneHeldAtTheEnd

LEMMA SettledKeeps == IInv /\ Settled => IInv'
  <1> SUFFICES ASSUME IInv, Settled PROVE IInv'
    OBVIOUS
  <1>1. /\ phase = "settle" /\ phase' = "round"
        /\ UNCHANGED <<mode, idx, failed, allDead, stopEvent, exitCode, procVars>>
    BY DEF Settled
  <1>2. Procs' = Procs /\ N' = N
    BY <1>1, SameProcs
  <1>3. CtlTypes'
    BY <1>1, <1>2 DEF IInv, CtlTypes, Phases
  <1>4. ProcTypes' /\ Held' /\ DaemonLosesNoChild'
    BY <1>1, SameProcs DEF IInv, procVars, ProcTypes, Held, DaemonLosesNoChild
  <1> QED  BY <1>1, <1>3, <1>4
          DEF IInv, Fresh, Launching, Passed, Tried, NoneHeldAtTheEnd

LEMMA LaunchFailedKeeps == IInv /\ LaunchFailed => IInv'
  <1> SUFFICES ASSUME IInv, LaunchFailed PROVE IInv'
    OBVIOUS
  <1>1. /\ phase \in {"plan", "settle"} /\ failed' = failed + 1
        /\ \/ failed < MaxRetries /\ phase' = "plan" /\ exitCode' = exitCode
           \/ phase' = "ended" /\ exitCode' = 1
        /\ UNCHANGED <<mode, idx, allDead, stopEvent, uptime, crashCount, backoff>>
    BY DEF LaunchFailed
  <1>2. Procs' = Procs /\ N' = N
    BY <1>1, SameProcs
  <1>3. failed \in 0 .. MaxRetries
    BY <1>1, Limits DEF IInv, CtlTypes, Tried
  <1>4. CtlTypes'
    BY <1>1, <1>2, <1>3, Limits DEF IInv, CtlTypes, Phases
  <1>5. /\ handle' = [n \in Names |-> FALSE] /\ alive' = [n \in Names |-> FALSE]
        /\ due' = [n \in Names |-> FALSE]
        /\ orphans' = [n \in Names |-> orphans[n] + (IF alive[n] THEN 1 ELSE 0)]
    BY DEF LaunchFailed
  <1>6. /\ handle' \in [Names -> BOOLEAN] /\ alive' \in [Names -> BOOLEAN]
        /\ due' \in [Names -> BOOLEAN]
    BY <1>5
  <1>7. \A n \in Names : orphans[n] \in Nat /\ orphans[n] <= failed
    BY DEF IInv, ProcTypes, DaemonLosesNoChild
  <1>8. orphans' \in [Names -> Nat] /\ DaemonLosesNoChild'
    BY <1>1, <1>3, <1>5, <1>7, Limits DEF DaemonLosesNoChild
  <1>9. ProcTypes'
    BY <1>1, <1>6, <1>8 DEF IInv, ProcTypes
  <1>10. \A n \in Names : ~handle'[n] /\ ~alive'[n]
    BY <1>5
  <1>11. Held' /\ NoneHeldAtTheEnd'
    BY <1>10 DEF Held, NoneHeldAtTheEnd
  <1>12. Fresh'
    <2>1. \A n \in Names : backoff'[n] = 0
      BY <1>1 DEF IInv, Fresh, Launching
    <2> QED  BY <1>1, <1>10, <2>1 DEF Fresh
  <1>13. Passed'
    BY <1>1 DEF IInv, Passed
  <1>14. Tried'
    BY <1>1, <1>3, Limits DEF Tried
  <1> QED  BY <1>4, <1>8, <1>9, <1>11, <1>12, <1>13, <1>14 DEF IInv

LEMMA BeginRoundKeeps == IInv /\ BeginRound => IInv'
  <1> SUFFICES ASSUME IInv, BeginRound PROVE IInv'
    OBVIOUS
  <1>1. /\ phase = "round"
        /\ \/ phase' = "stop" /\ allDead' = allDead
           \/ phase' = "check" /\ allDead' = TRUE
        /\ UNCHANGED <<mode, failed, stopEvent, exitCode, procVars>>
        /\ idx' = idx
    BY DEF BeginRound
  <1>2. Procs' = Procs /\ N' = N
    BY <1>1, SameProcs
  <1>3. CtlTypes'
    BY <1>1, <1>2 DEF IInv, CtlTypes, Phases
  <1>4. ProcTypes' /\ Held' /\ DaemonLosesNoChild'
    BY <1>1, SameProcs DEF IInv, procVars, ProcTypes, Held, DaemonLosesNoChild
  <1>5. idx = 1
    BY DEF IInv, Passed, BeginRound
  <1>6. \A j \in 1 .. idx' - 1 : FALSE
    BY <1>1, <1>5
  <1> QED  BY <1>1, <1>2, <1>3, <1>4, <1>6
          DEF IInv, Fresh, Launching, Passed, Tried, NoneHeldAtTheEnd

LEMMA CheckProcTouches ==
  ASSUME IInv, CheckProc
  PROVE  Touches(Procs[idx])
  <1>1. Procs[idx] \in Names
    BY ProcsList DEF IInv, CtlTypes
  <1> QED  BY <1>1, RestartTouches DEF IInv, CheckProc

LEMMA CheckProcKeeps == IInv /\ CheckProc => IInv'
  <1> SUFFICES ASSUME IInv, CheckProc PROVE IInv'
    OBVIOUS
  <1>1. /\ phase = "check" /\ phase' = "look"
        /\ UNCHANGED <<mode, idx, failed, allDead, stopEvent, exitCode>>
    BY DEF CheckProc
  <1>2. Procs' = Procs /\ N' = N
    BY <1>1, SameProcs
  <1>3. CtlTypes'
    BY <1>1, <1>2 DEF IInv, CtlTypes, Phases
  <1>4. ProcTypes' /\ Held' /\ DaemonLosesNoChild'
    BY <1>1, CheckProcTouches, TouchKeeps
  <1>5. Passed'
    <2>1. SUFFICES ASSUME allDead, NEW j \in 1 .. idx - 1
                   PROVE  ~alive'[Procs[j]]
      BY <1>1, <1>2 DEF Passed
    <2>2. j \in 1 .. N /\ j # idx
      BY ProcsList DEF IInv, CtlTypes
    <2>3. ~alive[Procs[j]]
      BY <1>1, <2>1 DEF IInv, Passed
    <2> QED  BY <2>2, <2>3, CheckProcTouches, TouchesOne
  <1> QED  BY <1>1, <1>3, <1>4, <1>5
          DEF IInv, Fresh, Launching, Tried, NoneHeldAtTheEnd

(* A step that moves the thread and leaves the processes alone             *)
LEMMA DownMeansNotAlive ==
  ASSUME IInv, Down(Procs[idx])
  PROVE  ~alive[Procs[idx]]
  <1>1. Procs[idx] \in Names
    BY ProcsList DEF IInv, CtlTypes
  <1> QED  BY <1>1 DEF IInv, Held, Down

LEMMA LookAtProcKeeps == IInv /\ LookAtProc => IInv'
  <1> SUFFICES ASSUME IInv, LookAtProc PROVE IInv'
    OBVIOUS
  <1>1. /\ phase = "look"
        /\ allDead' = (allDead /\ Down(Procs[idx]))
        /\ UNCHANGED <<mode, failed, stopEvent, procVars>>
    BY DEF LookAtProc
  <1>2. Procs' = Procs /\ N' = N
    BY <1>1, SameProcs
  <1>3. N \in Nat \ {0} /\ idx \in 1 .. N
    BY ProcsList DEF IInv, CtlTypes
  <1>4. \/ idx' = 1 /\ phase' = "stop" /\ exitCode' = 1
        \/ idx < N /\ idx' = idx + 1 /\ phase' = "check" /\ exitCode' = exitCode
        \/ idx' = 1 /\ phase' = "round" /\ exitCode' = exitCode
    BY DEF LookAtProc, NextProc, N
  <1>5. allDead' \in BOOLEAN
    BY <1>1
  <1>6. CtlTypes'
    BY <1>1, <1>2, <1>3, <1>4, <1>5 DEF IInv, CtlTypes, Phases
  <1>7. ProcTypes' /\ Held' /\ DaemonLosesNoChild'
    BY <1>1, SameProcs DEF IInv, procVars, ProcTypes, Held, DaemonLosesNoChild
  <1>8. Passed'
    <2>1. CASE idx' = 1
      <3>1. \A j \in 1 .. idx' - 1 : FALSE
        BY <2>1
      <3> QED  BY <2>1, <3>1, <1>2 DEF Passed
    <2>2. CASE idx < N /\ idx' = idx + 1 /\ phase' = "check"
      <3>1. SUFFICES ASSUME allDead', NEW j \in 1 .. idx
                     PROVE  ~alive[Procs[j]]
        BY <1>1, <1>2, <1>3, <2>2 DEF Passed, procVars
      <3>2. allDead /\ Down(Procs[idx])
        BY <1>1, <3>1
      <3>3. CASE j = idx
        BY <3>2, <3>3, DownMeansNotAlive
      <3>4. CASE j # idx
        <4>1. j \in 1 .. idx - 1
          BY <1>3, <3>4
        <4> QED  BY <1>1, <3>2, <4>1 DEF IInv, Passed
      <3> QED  BY <3>3, <3>4
    <2> QED  BY <1>4, <2>1, <2>2
  <1>9. phase' \in {"stop", "check", "round"}
    BY <1>4
  <1> QED  BY <1>1, <1>6, <1>7, <1>8, <1>9
          DEF IInv, Fresh, Launching, Tried, NoneHeldAtTheEnd

LEMMA StopNextTouches ==
  ASSUME IInv, StopNext
  PROVE  Touches(Procs[idx]) /\ ~alive'[Procs[idx]]
  <1> DEFINE n == Procs[idx]
  <1>1. n \in Names /\ ProcTypes /\ (alive[n] => handle[n])
    BY ProcsList DEF IInv, CtlTypes, Held
  <1>2. /\ handle' = [handle EXCEPT ![n] = FALSE]
        /\ alive' = [alive EXCEPT ![n] = IF handle[n] THEN FALSE ELSE @]
        /\ UNCHANGED <<orphans, uptime, crashCount, backoff, due>>
    BY DEF StopNext
  <1> HIDE DEF n
  <1>3. handle' \in [Names -> BOOLEAN] /\ alive' \in [Names -> BOOLEAN]
    BY <1>1, <1>2 DEF ProcTypes
  <1>4. ProcTypes'
    BY <1>1, <1>2, <1>3 DEF ProcTypes
  <1>5. ~handle'[n] /\ ~alive'[n]
    BY <1>1, <1>2 DEF ProcTypes
  <1>6. \A m \in Names \ {n} : handle'[m] = handle[m] /\ alive'[m] = alive[m]
    BY <1>2, <1>1 DEF ProcTypes
  <1>7. Touches(n) /\ ~alive'[n]
    BY <1>2, <1>4, <1>5, <1>6 DEF Touches
  <1> QED  BY <1>7 DEF n

LEMMA StopNextKeeps == IInv /\ StopNext => IInv'
  <1> SUFFICES ASSUME IInv, StopNext PROVE IInv'
    OBVIOUS
  <1>1. /\ phase = "stop" /\ NextProc("stop", "ended")
        /\ UNCHANGED <<mode, failed, allDead, stopEvent, exitCode>>
    BY DEF StopNext
  <1>2. Procs' = Procs /\ N' = N
    BY <1>1, SameProcs
  <1>3. /\ idx' \in 1 .. N /\ phase' \in Phases
        /\ \/ idx < N /\ idx' = idx + 1 /\ phase' = "stop"
           \/ idx = N /\ idx' = 1 /\ phase' = "ended"
    <2>1. "stop" \in Phases /\ "ended" \in Phases
      BY DEF Phases
    <2> QED  BY <1>1, <2>1, NextProcMoves DEF IInv
  <1>4. CtlTypes'
    BY <1>1, <1>2, <1>3 DEF IInv, CtlTypes
  <1>5. ProcTypes' /\ Held' /\ DaemonLosesNoChild'
    BY <1>1, StopNextTouches, TouchKeeps
  <1>6. \A j \in 1 .. idx : ~alive'[Procs[j]]
    <2> SUFFICES ASSUME NEW j \in 1 .. idx PROVE ~alive'[Procs[j]]
      OBVIOUS
    <2>1. CASE j = idx
      BY <2>1, StopNextTouches
    <2>2. CASE j # idx
      <3>1. j \in 1 .. N /\ j \in 1 .. idx - 1
        BY <2>2, ProcsList DEF IInv, CtlTypes
      <3>2. ~alive[Procs[j]]
        BY <1>1, <3>1 DEF IInv, Passed
      <3> QED  BY <2>2, <3>1, <3>2, StopNextTouches, TouchesOne
    <2> QED  BY <2>1, <2>2
  <1>7. Passed'
    <2>1. CASE idx' = idx + 1 /\ phase' = "stop"
      <3>1. \A j \in 1 .. idx' - 1 : j \in 1 .. idx
        BY <2>1 DEF IInv, CtlTypes
      <3> QED  BY <1>2, <1>6, <2>1, <3>1 DEF Passed
    <2>2. CASE phase' = "ended"
      BY <2>2 DEF Passed
    <2> QED  BY <1>3, <2>1, <2>2
  <1>8. NoneHeldAtTheEnd'
    <2>1. SUFFICES ASSUME phase' = "ended", NEW n \in Names
                   PROVE  ~alive'[n]
      BY DEF NoneHeldAtTheEnd
    <2>2. CASE n \in Range(Procs)
      <3>1. PICK j \in 1 .. N : Procs[j] = n
        BY <2>2, ProcsList
      <3>2. j \in 1 .. idx
        BY <1>3, <2>1
      <3> QED  BY <1>6, <3>1, <3>2
    <2>3. CASE n \notin Range(Procs)
      BY <1>2, <1>5, <2>3 DEF Held
    <2> QED  BY <2>2, <2>3
  <1>9. phase' \in {"stop", "ended"} /\ failed <= MaxRetries
    BY <1>1, <1>3 DEF IInv, Tried
  <1> QED  BY <1>1, <1>4, <1>5, <1>7, <1>8, <1>9 DEF IInv, Fresh, Launching, Tried

-----------------------------------------------------------------------------
(* What happens around the launcher.                                       *)

LEMMA ChildExitsKeeps ==
  ASSUME IInv, NEW n \in Names, ChildExits(n)
  PROVE  IInv'
  <1>1. /\ alive' = [alive EXCEPT ![n] = FALSE] /\ due' = [due EXCEPT ![n] = TRUE]
        /\ UNCHANGED <<mode, phase, idx, failed, allDead, stopEvent, exitCode>>
        /\ UNCHANGED <<handle, orphans, uptime, crashCount, backoff>>
    BY DEF ChildExits, ctlVars
  <1>2. Procs' = Procs /\ N' = N
    BY <1>1, SameProcs
  <1>3. CtlTypes'
    BY <1>1, <1>2 DEF IInv, CtlTypes
  <1>4. alive' \in [Names -> BOOLEAN] /\ due' \in [Names -> BOOLEAN]
    BY <1>1 DEF IInv, ProcTypes
  <1>5. ProcTypes'
    BY <1>1, <1>4 DEF IInv, ProcTypes
  <1>6. \A m \in Names : alive'[m] => alive[m]
    BY <1>1 DEF IInv, ProcTypes
  <1>7. Held' /\ NoneHeldAtTheEnd' /\ DaemonLosesNoChild'
    BY <1>1, <1>2, <1>6 DEF IInv, Held, NoneHeldAtTheEnd, DaemonLosesNoChild
  <1>8. Fresh' /\ Tried'
    BY <1>1, <1>2 DEF IInv, Fresh, Launching, Tried
  <1>9. Passed'
    <2>1. \A j \in 1 .. idx - 1 : Procs[j] \in Names
      BY ProcsList DEF IInv, CtlTypes
    <2> QED  BY <1>1, <1>2, <1>6, <2>1 DEF IInv, Passed
  <1> QED  BY <1>3, <1>5, <1>7, <1>8, <1>9 DEF IInv

LEMMA OrphanExitsKeeps ==
  ASSUME IInv, NEW n \in Names, OrphanExits(n)
  PROVE  IInv'
  <1>1. /\ orphans[n] > 0 /\ orphans' = [orphans EXCEPT ![n] = @ - 1]
        /\ UNCHANGED <<mode, phase, idx, failed, allDead, stopEvent, exitCode>>
        /\ UNCHANGED <<handle, alive, uptime, crashCount, backoff, due>>
    BY DEF OrphanExits, ctlVars
  <1>2. Procs' = Procs /\ N' = N
    BY <1>1, SameProcs
  <1>3. CtlTypes'
    BY <1>1, <1>2 DEF IInv, CtlTypes
  <1>4. \A m \in Names : orphans[m] \in Nat /\ orphans[m] <= failed
    BY DEF IInv, ProcTypes, DaemonLosesNoChild
  <1>5. failed \in Nat
    BY Limits DEF IInv, CtlTypes
  <1>6. /\ orphans[n] - 1 \in Nat
        /\ orphans[n] - 1 <= failed
    BY <1>1, <1>4, <1>5
  <1>7. /\ orphans' \in [Names -> Nat]
        /\ \A m \in Names : orphans'[m] = IF m = n THEN orphans[n] - 1 ELSE orphans[m]
    BY <1>1, <1>6 DEF IInv, ProcTypes
  <1>8. DaemonLosesNoChild'
    BY <1>1, <1>4, <1>6, <1>7 DEF DaemonLosesNoChild
  <1>9. ProcTypes'
    BY <1>1, <1>7 DEF IInv, ProcTypes
  <1>10. Held' /\ Fresh' /\ Passed' /\ Tried' /\ NoneHeldAtTheEnd'
    BY <1>1, <1>2
       DEF IInv, Held, Fresh, Launching, Passed, Tried, NoneHeldAtTheEnd
  <1> QED  BY <1>3, <1>8, <1>9, <1>10 DEF IInv

LEMMA SignalKeeps == IInv /\ Signal => IInv'
  <1> SUFFICES ASSUME IInv, Signal PROVE IInv'
    OBVIOUS
  <1>1. /\ stopEvent' = TRUE
        /\ UNCHANGED <<mode, phase, idx, failed, allDead, exitCode, procVars>>
    BY DEF Signal
  <1>2. Procs' = Procs /\ N' = N
    BY <1>1, SameProcs
  <1>3. CtlTypes' /\ ProcTypes'
    BY <1>1, <1>2 DEF IInv, CtlTypes, ProcTypes, procVars
  <1>4. Held' /\ Fresh' /\ Passed' /\ Tried'
    BY <1>1, <1>2 DEF IInv, Held, Fresh, Launching, Passed, Tried, procVars
  <1> QED  BY <1>1, <1>3, <1>4 DEF IInv, NoneHeldAtTheEnd, DaemonLosesNoChild, procVars

LEMMA ElapseKeeps == IInv /\ Elapse => IInv'
  <1> SUFFICES ASSUME IInv, Elapse PROVE IInv'
    OBVIOUS
  <1>1. /\ uptime' = [n \in Names |-> IF uptime[n] = NeverSet THEN NeverSet
                                       ELSE Smaller(uptime[n] + 1, CrashThreshold)]
        /\ backoff' = [n \in Names |-> IF backoff[n] = 0 THEN 0 ELSE backoff[n] - 1]
        /\ UNCHANGED <<mode, phase, idx, failed, allDead, stopEvent, exitCode>>
        /\ UNCHANGED <<handle, alive, orphans, crashCount, due>>
    BY DEF Elapse, ctlVars
  <1>2. Procs' = Procs /\ N' = N
    BY <1>1, SameProcs
  <1>3. CtlTypes'
    BY <1>1, <1>2 DEF IInv, CtlTypes
  <1>4. uptime' \in [Names -> NeverSet .. CrashThreshold]
    <2> SUFFICES ASSUME NEW n \in Names, uptime[n] # NeverSet
                 PROVE  Smaller(uptime[n] + 1, CrashThreshold) \in NeverSet .. CrashThreshold
      <3>1. NeverSet \in NeverSet .. CrashThreshold
        BY Limits DEF NeverSet
      <3> QED  BY <1>1, <3>1
    <2>1. uptime[n] + 1 \in Nat
      BY Limits DEF IInv, ProcTypes, NeverSet
    <2>2. Smaller(uptime[n] + 1, CrashThreshold) \in 0 .. CrashThreshold
      BY <2>1, Limits, SmallerOf
    <2> QED  BY <2>2, Limits DEF NeverSet
  <1>5. backoff' \in [Names -> 0 .. MaxBackoff]
    BY <1>1, Limits DEF IInv, ProcTypes
  <1>6. \A n \in Names : backoff[n] = 0 => backoff'[n] = 0
    BY <1>1
  <1>7. ProcTypes'
    BY <1>1, <1>4, <1>5 DEF IInv, ProcTypes
  <1>8. Held' /\ Fresh'
    BY <1>1, <1>2, <1>6 DEF IInv, Held, Fresh, Launching
  <1> QED  BY <1>1, <1>2, <1>3, <1>7, <1>8
          DEF IInv, Passed, Tried, NoneHeldAtTheEnd, DaemonLosesNoChild

-----------------------------------------------------------------------------
(* The invariant.                                                          *)

LEMMA InitEstablishes == Init => IInv
  <1> SUFFICES ASSUME Init PROVE IInv
    OBVIOUS
  <1>1. /\ mode \in Roles /\ phase \in {"start", "plan"} /\ idx = 1 /\ failed = 0
        /\ allDead = TRUE /\ stopEvent = FALSE /\ exitCode = 0
    BY DEF Init
  <1>2. allDead \in BOOLEAN /\ stopEvent \in BOOLEAN
    BY <1>1
  <1>3. idx \in 1 .. N /\ failed \in 0 .. MaxRetries + 1 /\ failed <= MaxRetries
    BY <1>1, ProcsList, Limits
  <1>4. CtlTypes
    BY <1>1, <1>2, <1>3 DEF CtlTypes, Phases
  <1>5. /\ handle \in [Names -> BOOLEAN] /\ alive \in [Names -> BOOLEAN]
        /\ due \in [Names -> BOOLEAN]
        /\ \A n \in Names : ~handle[n] /\ ~alive[n]
    BY DEF Init
  <1>6. /\ orphans \in [Names -> Nat]
        /\ \A n \in Names : orphans[n] = 0 /\ backoff[n] = 0
    BY DEF Init
  <1>7. /\ uptime \in [Names -> NeverSet .. CrashThreshold]
        /\ crashCount \in [Names -> 0 .. CrashCap]
        /\ backoff \in [Names -> 0 .. MaxBackoff]
    BY Limits DEF Init, NeverSet
  <1>8. ProcTypes
    BY <1>5, <1>6, <1>7 DEF ProcTypes
  <1>9. Held /\ Fresh
    <2>1. \A j \in idx .. N : Procs[j] \in Names
      BY <1>1, ProcsList
    <2> QED  BY <1>5, <1>6, <2>1 DEF Held, Fresh
  <1> QED  BY <1>1, <1>3, <1>4, <1>5, <1>6, <1>8, <1>9
          DEF IInv, Passed, Tried, NoneHeldAtTheEnd, DaemonLosesNoChild

LEMMA StutterKeeps == IInv /\ UNCHANGED vars => IInv'
  <1> SUFFICES ASSUME IInv, UNCHANGED vars PROVE IInv'
    OBVIOUS
  <1>1. /\ UNCHANGED <<mode, phase, idx, failed, allDead, stopEvent, exitCode>>
        /\ UNCHANGED <<handle, alive, orphans, uptime, crashCount, backoff, due>>
    BY DEF vars, ctlVars, procVars
  <1>2. Procs' = Procs /\ N' = N
    BY <1>1, SameProcs
  <1>3. CtlTypes' /\ ProcTypes'
    BY <1>1, <1>2 DEF IInv, CtlTypes, ProcTypes
  <1>4. Held' /\ Fresh' /\ Passed' /\ Tried'
    BY <1>1, <1>2 DEF IInv, Held, Fresh, Launching, Passed, Tried
  <1> QED  BY <1>1, <1>3, <1>4 DEF IInv, NoneHeldAtTheEnd, DaemonLosesNoChild

LEMMA NextKeeps == IInv /\ [Next]_vars => IInv'
  <1> SUFFICES ASSUME IInv, [Next]_vars PROVE IInv'
    OBVIOUS
  <1>1. CASE Launcher
    BY <1>1, PlanOkKeeps, StartNextKeeps, SettledKeeps, LaunchFailedKeeps, BeginRoundKeeps,
       CheckProcKeeps, LookAtProcKeeps, StopNextKeeps DEF Launcher
  <1>2. CASE \E n \in Names : ChildExits(n) \/ OrphanExits(n)
    BY <1>2, ChildExitsKeeps, OrphanExitsKeeps
  <1> QED  BY <1>1, <1>2, SignalKeeps, ElapseKeeps, StutterKeeps DEF Next

LEMMA Invariance == Spec => []IInv
  BY InitEstablishes, NextKeeps, PTL DEF Spec

(* For any services and limits, every child that runs is accounted for: the *)
(* daemon loop loses none, and a launcher that has ended leaves none but    *)
(* those of its failed launch attempts, at most one of a service for each   *)
(* (wings_control.py:1209-1227).                                            *)
THEOREM EveryChildAccounted == Spec => []ChildrenAccountedFor
  <1>1. ASSUME IInv, phase = "ended", NEW n \in Names
        PROVE  Running(n) <= failed
    <2>1. ~alive[n] /\ orphans[n] \in Nat /\ orphans[n] <= failed
      BY <1>1 DEF IInv, NoneHeldAtTheEnd, ProcTypes, DaemonLosesNoChild
    <2> QED  BY <2>1 DEF Running
  <1>2. IInv => ChildrenAccountedFor
    BY <1>1, TypesAreTypeOK DEF IInv, ChildrenAccountedFor, EndsItsChildren
  <1> QED  BY <1>2, Invariance, PTL

(* No child is started while its backoff runs, by no path.                  *)
THEOREM NoStartInBackoff == Spec => BackoffIsKept
  <1>1. ASSUME IInv, [Next]_vars, NEW n \in Names, ~alive[n], alive'[n]
        PROVE  backoff[n] = 0
    <2>1. ASSUME Touches(Procs[idx]) PROVE backoff[n] = 0
      BY <1>1, <2>1 DEF Touches
    <2>2. CASE StartNext
      BY <1>1, <2>1, <2>2, StartNextTouches
    <2>3. CASE CheckProc
      BY <1>1, <2>1, <2>3, CheckProcTouches
    <2>4. CASE StopNext
      BY <1>1, <2>1, <2>4, StopNextTouches
    <2>5. CASE LaunchFailed
      BY <1>1, <2>5 DEF LaunchFailed
    <2>6. CASE PlanOk \/ Settled \/ BeginRound \/ LookAtProc \/ Signal \/ Elapse
      BY <1>1, <2>6 DEF PlanOk, Settled, BeginRound, LookAtProc, Signal, Elapse, procVars
    <2>7. CASE \E m \in Names : ChildExits(m) \/ OrphanExits(m)
      BY <1>1, <2>7 DEF ChildExits, OrphanExits, IInv, ProcTypes
    <2>8. CASE UNCHANGED vars
      BY <1>1, <2>8 DEF vars, procVars
    <2> QED  BY <1>1, <2>2, <2>3, <2>4, <2>5, <2>6, <2>7, <2>8 DEF Next, Launcher
  <1>2. IInv /\ [Next]_vars
          => [\A n \in Names : ~alive[n] /\ alive'[n] => backoff[n] = 0]_vars
    BY <1>1
  <1> QED  BY <1>2, Invariance, PTL DEF Spec, BackoffIsKept

(* The launcher gives up only when no child runs, in whatever order they    *)
(* start and exit between its polls.                                        *)
THEOREM GivesUpInTheEnd == Spec => GivesUpOnlyWhenAllDown
  <1>1. ASSUME IInv, Next, phase = "look", phase' = "stop", NEW n \in Names
        PROVE  ~alive[n]
    <2>1. LookAtProc
      BY <1>1 DEF Next, Launcher, PlanOk, StartNext, Settled, LaunchFailed, BeginRound,
         CheckProc, StopNext, ChildExits, OrphanExits, Signal, Elapse, ctlVars
    <2>2. N \in Nat \ {0} /\ idx \in 1 .. N
      BY <1>1, ProcsList DEF IInv, CtlTypes
    <2>3. idx = N /\ allDead /\ Down(Procs[idx])
      BY <1>1, <2>1, <2>2 DEF LookAtProc, NextProc, N
    <2>4. CASE n \in Range(Procs)
      <3>1. PICK j \in 1 .. N : Procs[j] = n
        BY <2>4, ProcsList
      <3>2. CASE j = idx
        BY <1>1, <2>3, <3>1, <3>2, DownMeansNotAlive
      <3>3. CASE j # idx
        <4>1. j \in 1 .. idx - 1
          BY <2>2, <2>3, <3>3
        <4> QED  BY <1>1, <2>3, <3>1, <4>1 DEF IInv, Passed
      <3> QED  BY <3>2, <3>3
    <2>5. CASE n \notin Range(Procs)
      BY <1>1, <2>5 DEF IInv, Held
    <2> QED  BY <2>4, <2>5
  <1>2. IInv /\ [Next]_vars
          => [phase = "look" /\ phase' = "stop" => \A n \in Names : ~alive[n]]_vars
    BY <1>1
  <1> QED  BY <1>2, Invariance, PTL DEF Spec, GivesUpOnlyWhenAllDown
=============================================================================
