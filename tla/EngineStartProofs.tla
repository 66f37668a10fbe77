--------------------------- MODULE EngineStartProofs ---------------------------
(***************************************************************************)
(* Proofs about EngineStart, for every set of plans and all bounds.  The   *)
(* invariant IInv has four parts: the types, the second engine, the flags, *)
(* and what "completed" means; each part is kept by every step and uses    *)
(* the parts before it.  The verdict of the analyzer needs three parts     *)
(* more (VInv): what it has read, what the log tells of an engine that got *)
(* far, and that none gets far before the analyzer follows the log.        *)
(***************************************************************************)
EXTENDS EngineStart, SequenceTheorems, TLAPS

LineType == [accel : BOOLEAN, error : BOOLEAN, hit : [phase : Phases, progress : 0 .. 100]]
RecordType == [phase : Phases, status : Statuses, progress : 0 .. 100]
TryType == [kind : {"dependency", "batch", "single", "override"}, features : Seq(Features)]

LEMMA LineTyped ==
  ASSUME NEW a \in BOOLEAN, NEW e \in BOOLEAN,
         NEW h \in [phase : Phases, progress : 0 .. 100]
  PROVE  Line(a, e, h) \in LineType
  BY DEF Line, LineType

(* The lines that the script and the engine write *)
LEMMA LinesTyped ==
  /\ AccelLine \in LineType /\ Loading \in LineType /\ Checking \in LineType
  /\ Ready \in LineType /\ Error \in LineType
  <1> DEFINE Hit == [phase : Phases, progress : 0 .. 100]
  <1>1. NoHit \in Hit
    BY DEF NoHit, NoPhase, Phases
  <1>2. /\ [phase |-> "model_loading", progress |-> 60] \in Hit
        /\ [phase |-> "server_checking", progress |-> 99] \in Hit
        /\ [phase |-> "ready", progress |-> 100] \in Hit
    BY DEF Phases
  <1> QED  BY <1>1, <1>2, LineTyped, ZenonT(30) DEF AccelLine, Loading, Checking, Ready, Error

LEMMA SinglesTyped ==
  ASSUME NEW kind \in {"dependency", "single"}, NEW fs \in Seq(Features)
  PROVE  Singles(kind, fs) \in Seq(TryType)
  <1>1. \A i \in 1 .. Len(fs) : fs[i] \in Features
    OBVIOUS
  <1>2. \A i \in 1 .. Len(fs) : <<fs[i]>> \in Seq(Features)
    BY <1>1
  <1>3. \A i \in 1 .. Len(fs) : Try(kind, <<fs[i]>>) \in TryType
    BY <1>2 DEF Try, TryType
  <1>4. Len(fs) \in Nat
    OBVIOUS
  <1>5. Singles(kind, fs) \in [1 .. Len(fs) -> TryType]
    BY <1>3 DEF Singles
  <1> QED  BY <1>4, <1>5, SeqDef

LEMMA PreambleTyped ==
  ASSUME plan \in Plan
  PROVE  Preamble \in Seq(TryType)
  <1>1. \A f \in Features : IfWanted(f) \in Seq(Features)
    BY DEF IfWanted
  <1>2. Patches \in Seq(Features) /\ Dependencies \in Seq(Features)
    BY <1>1 DEF Patches, Dependencies, Features
  <1>3. Singles("dependency", Dependencies) \in Seq(TryType)
    BY <1>2, SinglesTyped
  <1>4. /\ <<Try("batch", Patches)>> \in Seq(TryType)
        /\ <<Try("override", Patches)>> \in Seq(TryType)
    BY <1>2 DEF Try, TryType
  <1>5. <<>> \in Seq(TryType)
    OBVIOUS
  <1>6. plan.accel \in {"off", "auto", "override"}
    BY DEF Plan
  <1> HIDE DEF Patches, Dependencies
  <1> QED  BY <1>3, <1>4, <1>5, <1>6 DEF Preamble

LEMMA LargerIsOne ==
  ASSUME NEW x \in 0 .. 100, NEW y \in 0 .. 100
  PROVE  Larger(x, y) \in 0 .. 100
  BY DEF Larger

(* AnalyzerTypeOK with its types named *)
LEMMA AnalyzerTypes ==
  AnalyzerTypeOK <=>
    /\ log \in Seq(LineType)
    /\ pos \in 0 .. Len(log)
    /\ stage \in Stages
    /\ phase \in Phases
    /\ progress \in 0 .. 100
    /\ silence \in 0 .. MaxSilence
    /\ record \in RecordType
    /\ extra \in BOOLEAN
  BY DEF AnalyzerTypeOK, LineType, RecordType

----------------------------------------------------------------------------
(***************************************************************************)
(* Types.                                                                  *)
(***************************************************************************)
ScriptTypeOK ==
  /\ plan \in Plans
  /\ flags \in [Features -> BOOLEAN]
  /\ pc \in Places
  /\ todo \in Seq(TryType)
  /\ bad \subseteq Features
  /\ engine \in [1 .. 2 -> Alive \cup {"none", "ended", "crashed"}]
  /\ chatty \in BOOLEAN
  /\ termed \in BOOLEAN
  /\ life \in 1 .. Lives

(* Until it stops, the analyzer's patience is not used up *)
Patient == stage # "stopped" => silence < MaxSilence

(* Before the script starts it there is no analyzer; an update is for the  *)
(* installation that comes first                                           *)
Placed ==
  /\ pc \in {"begin", "down"} => pos = 0 /\ stage = "off" /\ phase = NoPhase
  /\ pc = "update" => todo # <<>>

LEMMA Types == TypeOK <=> AnalyzerTypeOK /\ ScriptTypeOK
  BY DEF TypeOK, ScriptTypeOK, TryType

LEMMA EchoTyped ==
  ASSUME AnalyzerTypeOK, NEW l \in LineType, Echoes(l)
  PROVE  log' \in Seq(LineType) /\ pos \in 0 .. Len(log')
  BY AnalyzerTypes DEF Echoes

(* The analyzer's own steps *)
LEMMA BootsTyped == AnalyzerTypeOK /\ Boots => AnalyzerTypeOK'
  <1> SUFFICES ASSUME AnalyzerTypeOK, Boots PROVE AnalyzerTypeOK'
    OBVIOUS
  <1>1. record' \in RecordType
    BY DEF Writes, RecordType, Boots, Statuses, Phases
  <1> QED  BY <1>1 DEF Boots, AnalyzerTypeOK, RecordType, Stages

LEMMA ReadsLineTyped == AnalyzerTypeOK /\ ReadsLine => AnalyzerTypeOK'
  <1> SUFFICES ASSUME AnalyzerTypeOK, ReadsLine PROVE AnalyzerTypeOK'
    OBVIOUS
  <1> DEFINE l == log[pos + 1]
  <1>1. l \in LineType /\ log' = log /\ pos' \in 0 .. Len(log)
    BY AnalyzerTypes DEF ReadsLine
  <1>2. silence' \in 0 .. MaxSilence /\ extra' \in BOOLEAN
    BY <1>1, SilenceAssumption, AnalyzerTypes DEF ReadsLine, NotesAccel, LineType
  <1>3. l.hit.phase \in Phases /\ l.hit.progress \in 0 .. 100
    BY <1>1 DEF LineType
  <1>4. stage \in Stages /\ phase \in Phases /\ progress \in 0 .. 100 /\ record \in RecordType
    BY AnalyzerTypes
  <1>5. Larger(l.hit.progress, progress) \in 0 .. 100
    BY <1>3, <1>4, LargerIsOne
  <1>6. stage' \in Stages /\ phase' \in Phases /\ progress' \in 0 .. 100 /\ record' \in RecordType
    <2>1. CASE FailsOn(l)
      <3>1. record' \in RecordType
        BY <2>1, <1>4 DEF Writes, RecordType, FailsOn, Statuses, Phases
      <3> QED  BY <2>1, <3>1, <1>4 DEF FailsOn, Stages
    <2>2. CASE AdvancesOn(l)
      <3>1. phase' \in Phases /\ progress' \in 0 .. 100 /\ stage' \in Stages
        BY <2>2, <1>3, <1>4, <1>5 DEF AdvancesOn, Stages
      <3>2. CASE l.hit.phase = "ready"
        <4>1. record' = [phase |-> "ready", status |-> "completed", progress |-> 100]
          BY <2>2, <3>2 DEF AdvancesOn, Writes
        <4>2. "ready" \in Phases /\ "completed" \in Statuses
          BY DEF Statuses, Phases
        <4>3. 100 \in 0 .. 100
          OBVIOUS
        <4> QED  BY <3>1, <4>1, <4>2, <4>3 DEF RecordType
      <3>3. CASE l.hit.phase # "ready"
        <4>1. record' = [phase |-> phase', status |-> "running", progress |-> progress']
          BY <2>2, <3>3 DEF AdvancesOn, Writes
        <4> QED  BY <3>1, <4>1 DEF RecordType, Statuses
      <3> QED  BY <3>1, <3>2, <3>3
    <2>3. CASE Ignores(l)
      BY <2>3, <1>4 DEF Ignores
    <2> QED  BY <2>1, <2>2, <2>3 DEF ReadsLine
  <1>7. log' \in Seq(LineType) /\ pos' \in 0 .. Len(log')
    BY <1>1, AnalyzerTypes
  <1> QED  BY <1>2, <1>6, <1>7 DEF AnalyzerTypeOK, LineType, RecordType

LEMMA CaughtUpTyped == AnalyzerTypeOK /\ CaughtUp => AnalyzerTypeOK'
  BY DEF CaughtUp, AnalyzerTypeOK, Stages

LEMMA TimesOutTyped ==
  ASSUME NEW answer \in BOOLEAN, AnalyzerTypeOK, Patient, TimesOut(answer)
  PROVE  AnalyzerTypeOK'
  <1>1. stage \in Stages /\ phase \in Phases /\ progress \in 0 .. 100
        /\ silence \in 0 .. MaxSilence
    BY AnalyzerTypes
  <1>2. record' \in RecordType
    <2>1. CASE Confirmed(answer)
      BY <2>1 DEF Writes, RecordType, TimesOut, Statuses, Phases
    <2>2. CASE ~Confirmed(answer)
      <3> DEFINE ph == IF phase = NoPhase THEN "timeout" ELSE phase
                 st == IF silence' >= MaxSilence THEN "failed" ELSE "warning"
      <3>1. record' = [phase |-> ph, status |-> st, progress |-> progress]
        BY <2>2 DEF TimesOut, Writes
      <3>2. ph \in Phases /\ st \in Statuses
        BY <1>1 DEF Phases, Statuses
      <3> HIDE DEF ph, st
      <3> QED  BY <1>1, <3>1, <3>2 DEF RecordType
    <2> QED  BY <2>1, <2>2
  <1>3. stage' \in Stages
    BY <1>1 DEF TimesOut, Stages
  <1>4. silence' \in 0 .. MaxSilence
    BY <1>1, SilenceAssumption DEF TimesOut, Patient
  <1> QED  BY <1>1, <1>2, <1>3, <1>4, AnalyzerTypes DEF TimesOut, AnalyzerTypeOK, RecordType

LEMMA AnalyzerPatient ==
  ASSUME Patient, AnalyzerTypeOK,
         \/ Boots \/ ReadsLine \/ CaughtUp
         \/ \E answer \in BOOLEAN : TimesOut(answer)
  PROVE  Patient'
  BY SilenceAssumption, AnalyzerTypes
     DEF Patient, Boots, ReadsLine, FailsOn, AdvancesOn, Ignores, CaughtUp, TimesOut

LEMMA AnalyzerKeepsTypes ==
  ASSUME AnalyzerTypeOK, Patient,
         \/ Boots \/ ReadsLine \/ CaughtUp
         \/ \E answer \in BOOLEAN : TimesOut(answer)
  PROVE  AnalyzerTypeOK' /\ Patient'
  BY BootsTyped, ReadsLineTyped, CaughtUpTyped, TimesOutTyped, AnalyzerPatient

(* The answers there are *)
LEMMA AnswersAre ==
  /\ Answers \subseteq BOOLEAN
  /\ \A answer \in Answers : answer => Serving
  /\ plan.reached /\ Serving => \A answer \in Answers : answer
  BY DEF Answers

(* The steps of the script, in their order *)
LEMMA TriesTyped ==
  ASSUME AnalyzerTypeOK, Patient, ScriptTypeOK, Tries
  PROVE  AnalyzerTypeOK' /\ Patient' /\ ScriptTypeOK'
  <1> DEFINE t == Head(todo)
  <1>1. todo \in Seq(TryType) /\ todo # <<>>
    BY DEF ScriptTypeOK, Tries
  <1>2. t \in TryType /\ Tail(todo) \in Seq(TryType)
    BY <1>1
  <1>3. t.features \in Seq(Features)
    BY <1>2 DEF TryType
  <1>4. Of(t) \subseteq Features
    BY <1>3 DEF Of
  <1>5. Singles("single", t.features) \in Seq(TryType)
    BY <1>3, SinglesTyped
  <1> HIDE DEF t
  <1>6. todo' \in Seq(TryType) /\ bad' \subseteq Features /\ pc' \in Places
    BY <1>1, <1>2, <1>4, <1>5 DEF Tries, ScriptTypeOK, GoesTo, Places, t
  <1>7. log' \in Seq(LineType) /\ pos \in 0 .. Len(log')
    <2>1. CASE log' = log
      BY <2>1, AnalyzerTypes
    <2>2. CASE Echoes(AccelLine)
      BY <2>2, EchoTyped, LinesTyped
    <2> QED  BY <2>1, <2>2 DEF Tries
  <1> QED  BY <1>6, <1>7 DEF Tries, ScriptTypeOK, AnalyzerTypeOK, LineType, Patient

LEMMA EndsTyped ==
  ASSUME AnalyzerTypeOK, Patient, ScriptTypeOK, Ends
  PROVE  AnalyzerTypeOK' /\ Patient' /\ ScriptTypeOK'
  <1>1. 0 \in 0 .. Len(log) /\ 0 \in 0 .. MaxSilence /\ 0 < MaxSilence
    BY AnalyzerTypes, SilenceAssumption
  <1>2. chatty' \in BOOLEAN
    BY DEF Ends
  <1>3. ScriptTypeOK'
    BY <1>2 DEF Ends, ScriptTypeOK, GoesTo, Places
  <1> QED  BY <1>1, <1>3 DEF Ends, AnalyzerTypeOK, Patient, Stages, Phases

LEMMA BeginsTyped ==
  ASSUME AnalyzerTypeOK, Patient, ScriptTypeOK, Placed, Begins
  PROVE  AnalyzerTypeOK' /\ Patient' /\ ScriptTypeOK'
  <1>1. ScriptTypeOK' /\ Patient'
    BY DEF Begins, GoesTo, Places, Patient, ScriptTypeOK, Placed
  <1>2. pos' = 0 /\ <<>> \in Seq(LineType) /\ Len(<<>>) = 0 /\ NoRecord \in RecordType
    BY DEF Begins, Placed, NoRecord, RecordType, Phases, Statuses
  <1>3. log' \in Seq(LineType) /\ pos' \in 0 .. Len(log')
    <2>1. CASE log' = <<>>
      BY <1>2, <2>1
    <2>2. CASE log' = log
      BY <1>2, <2>2, AnalyzerTypes
    <2> QED  BY <2>1, <2>2 DEF Begins
  <1> QED  BY <1>1, <1>2, <1>3 DEF Begins, AnalyzerTypeOK, LineType, RecordType, Stages

LEMMA ScriptStepTyped ==
  ASSUME AnalyzerTypeOK, Patient, ScriptTypeOK, Placed, ScriptStep
  PROVE  AnalyzerTypeOK' /\ Patient' /\ ScriptTypeOK'
  <1>1. CASE Begins
    BY <1>1, BeginsTyped
  <1>2. CASE Sources
    BY <1>2, PreambleTyped, PlansAssumption
       DEF Sources, analyzerVars, GoesTo, Places, Patient, ScriptTypeOK, AnalyzerTypeOK
  <1>3. CASE Tries
    BY <1>3, TriesTyped
  <1>4. CASE Updates
    <2>1. todo \in Seq(TryType) /\ todo # <<>>
      BY <1>4 DEF Updates, ScriptTypeOK, Placed
    <2>2. Tail(todo) \in Seq(TryType)
      BY <2>1
    <2>3. todo' = todo \/ todo' = Tail(todo)
      BY <1>4 DEF Updates
    <2>4. todo' \in Seq(TryType)
      BY <2>1, <2>2, <2>3
    <2> QED
      BY <1>4, <2>4
         DEF Updates, analyzerVars, GoesTo, Places, Patient, ScriptTypeOK, AnalyzerTypeOK
  <1>5. CASE Installed
    BY <1>5 DEF Installed, analyzerVars, GoesTo, Places, Patient, ScriptTypeOK, AnalyzerTypeOK
  <1>6. CASE Aborts
    BY <1>6 DEF Aborts, Writes, GoesTo, Places, Patient, ScriptTypeOK, AnalyzerTypeOK,
                Phases, Statuses
  <1>7. CASE Starts
    BY <1>7 DEF Starts, analyzerVars, GoesTo, Places, Patient, ScriptTypeOK, AnalyzerTypeOK,
                Alive
  <1>8. CASE Waits
    BY <1>8 DEF Waits, analyzerVars, GoesTo, Places, Patient, ScriptTypeOK, AnalyzerTypeOK
  <1>9. CASE Recovers
    BY <1>9 DEF Recovers, AllOff, GoesTo, Places, Patient, ScriptTypeOK, AnalyzerTypeOK
  <1>10. CASE Restarts
    BY <1>10 DEF Restarts, analyzerVars, GoesTo, Places, Patient, ScriptTypeOK,
                 AnalyzerTypeOK, Alive
  <1>11. CASE Reports
    BY <1>11 DEF Reports, Writes, GoesTo, Places, Patient, ScriptTypeOK, AnalyzerTypeOK,
                 Phases, Statuses
  <1>12. CASE Exits
    BY <1>12, EndsTyped DEF Exits
  <1> QED  BY <1>1, <1>2, <1>3, <1>4, <1>5, <1>6, <1>7, <1>8, <1>9, <1>10, <1>11, <1>12
           DEF ScriptStep

(* The steps of the container, of the engine, and all together *)
LEMMA EngineTyped ==
  ASSUME AnalyzerTypeOK, Patient, ScriptTypeOK, NEW i \in 1 .. 2,
         EngineLogs(i) \/ Serves(i) \/ Talks(i) \/ Leaves(i)
  PROVE  AnalyzerTypeOK' /\ Patient' /\ ScriptTypeOK'
  <1>1. engine' \in [1 .. 2 -> Alive \cup {"none", "ended", "crashed"}]
    BY DEF ScriptTypeOK, EngineLogs, Logs, Serves, Talks, Leaves, Runs, Alive
  <1>2. log' \in Seq(LineType) /\ pos \in 0 .. Len(log')
    <2>1. CASE log' = log
      BY <2>1, AnalyzerTypes
    <2>2. CASE \E l \in LineType : Echoes(l)
      BY <2>2, EchoTyped
    <2> QED  BY <2>1, <2>2, LinesTyped DEF EngineLogs, Logs, Serves, Talks, Leaves, analyzerVars
  <1>3. /\ UNCHANGED <<pos, stage, phase, progress, record, extra>>
        /\ UNCHANGED <<plan, flags, pc, todo, bad, termed, life>>
    BY DEF EngineLogs, Serves, Talks, Leaves, analyzerVars
  <1>s. silence' = silence \/ silence' = 0
    BY DEF EngineLogs, Serves, Talks, Leaves, analyzerVars
  <1>c. chatty' \in BOOLEAN
    BY DEF EngineLogs, Serves, Talks, Leaves, ScriptTypeOK
  <1>4. AnalyzerTypeOK'
    <2>1. log' \in Seq([accel : BOOLEAN, error : BOOLEAN,
                        hit : [phase : Phases, progress : 0 .. 100]])
      BY <1>2 DEF LineType
    <2>2. silence' \in 0 .. MaxSilence
      BY <1>s, SilenceAssumption DEF AnalyzerTypeOK
    <2> QED  BY <1>2, <1>3, <2>1, <2>2 DEF AnalyzerTypeOK
  <1>5. Patient'
    BY <1>3, <1>s, SilenceAssumption DEF Patient
  <1>6. ScriptTypeOK'
    BY <1>1, <1>3, <1>c DEF ScriptTypeOK
  <1> QED  BY <1>4, <1>5, <1>6

LEMMA OutsideTyped ==
  ASSUME AnalyzerTypeOK, Patient, ScriptTypeOK, Terminates \/ Killed \/ Returns
  PROVE  AnalyzerTypeOK' /\ Patient' /\ ScriptTypeOK'
  <1>1. CASE Terminates
    <2>1. record' \in RecordType
      BY <1>1, AnalyzerTypes DEF Terminates, Writes, RecordType, Phases, Statuses
    <2>2. pc' \in Places
      BY <1>1 DEF Terminates, Places, ScriptTypeOK
    <2> QED  BY <1>1, <2>1, <2>2 DEF Terminates, ScriptTypeOK, AnalyzerTypeOK, RecordType,
                                     Patient
  <1>2. CASE Killed
    BY <1>2, EndsTyped DEF Killed
  <1>3. CASE Returns
    <2>1. AnalyzerTypeOK' /\ Patient'
      BY <1>3 DEF Returns, analyzerVars, Patient, AnalyzerTypeOK
    <2>2. life' \in 1 .. Lives
      BY <1>3, BoundsAssumption DEF Returns, ScriptTypeOK
    <2> QED  BY <1>3, <2>1, <2>2 DEF Returns, GoesTo, Places, ScriptTypeOK
  <1> QED  BY <1>1, <1>2, <1>3

LEMMA PlacedKept ==
  ASSUME Placed, AnalyzerTypeOK, [Next]_vars
  PROVE  Placed'
  <1>1. CASE ScriptStep
    <2>1. CASE Tries
      BY <2>1 DEF Placed, Tries, GoesTo
    <2>2. CASE Exits
      BY <2>2 DEF Placed, Exits, Ends, GoesTo
    <2>3. CASE \/ Begins \/ Sources \/ Updates \/ Installed \/ Aborts \/ Starts \/ Waits
               \/ Recovers \/ Restarts \/ Reports
      BY <2>3 DEF Placed, Begins, Sources, Updates, Installed, Aborts, Starts, Waits,
                  Recovers, Restarts, Reports, GoesTo
    <2> QED  BY <1>1, <2>1, <2>2, <2>3 DEF ScriptStep
  <1>2. CASE Terminates \/ Killed \/ Returns
    BY <1>2 DEF Placed, Terminates, Killed, Returns, Ends, GoesTo, analyzerVars
  <1>3. CASE \E i \in 1 .. 2 : EngineLogs(i) \/ Serves(i) \/ Talks(i) \/ Leaves(i)
    BY <1>3 DEF Placed, EngineLogs, Serves, Talks, Leaves, analyzerVars
  <1>4. CASE Analyzes
    BY <1>4 DEF Placed, Analyzes, scriptVars, Boots, ReadsLine, CaughtUp,
                TimesOut
  <1>5. CASE UNCHANGED vars
    BY <1>5 DEF Placed, vars, analyzerVars, scriptVars
  <1> QED  BY <1>1, <1>2, <1>3, <1>4, <1>5 DEF Next

TypeInv == AnalyzerTypeOK /\ ScriptTypeOK /\ Patient /\ Placed

LEMMA InitTyped == Init => TypeInv
  <1> SUFFICES ASSUME Init PROVE TypeInv
    OBVIOUS
  <1>1. /\ <<>> \in Seq(LineType) /\ <<>> \in Seq(TryType) /\ Len(<<>>) = 0
        /\ NoRecord \in RecordType /\ 0 \in 0 .. MaxSilence /\ 1 \in 1 .. Lives
    BY SilenceAssumption, BoundsAssumption DEF NoRecord, RecordType, Phases, Statuses
  <1>2. AnalyzerTypeOK
    <2>1. log \in Seq(LineType) /\ pos \in 0 .. Len(log)
      BY <1>1 DEF Init, AnalyzerInit
    <2>2. record \in RecordType /\ silence \in 0 .. MaxSilence
      BY <1>1 DEF Init, AnalyzerInit
    <2>3. stage \in Stages /\ phase \in Phases
      BY DEF Init, AnalyzerInit, Stages, Phases
    <2>4. progress \in 0 .. 100
      BY DEF Init, AnalyzerInit
    <2>5. extra \in BOOLEAN
      BY DEF Init, AnalyzerInit
    <2> QED  BY <2>1, <2>2, <2>3, <2>4, <2>5, AnalyzerTypes
  <1>3. ScriptTypeOK
    <2>1. todo \in Seq(TryType) /\ life \in 1 .. Lives /\ pc \in Places
      BY <1>1 DEF Init, Places
    <2>2. flags \in [Features -> BOOLEAN]
      BY DEF Init, Advertised
    <2> QED  BY <2>1, <2>2 DEF Init, ScriptTypeOK
  <1>4. Patient /\ Placed
    BY SilenceAssumption DEF Init, AnalyzerInit, Patient, Placed
  <1> QED  BY <1>2, <1>3, <1>4 DEF TypeInv

LEMMA NextTyped == TypeInv /\ [Next]_vars => TypeInv'
  <1> SUFFICES ASSUME TypeInv, [Next]_vars PROVE TypeInv'
    OBVIOUS
  <1>0. AnalyzerTypeOK /\ ScriptTypeOK /\ Patient /\ Placed
    BY DEF TypeInv
  <1>1. Placed'
    BY <1>0, PlacedKept
  <1>2. SUFFICES AnalyzerTypeOK' /\ Patient' /\ ScriptTypeOK'
    BY <1>1 DEF TypeInv
  <1>3. CASE ScriptStep
    BY <1>0, <1>3, ScriptStepTyped
  <1>4. CASE Terminates \/ Killed \/ Returns
    BY <1>0, <1>4, OutsideTyped
  <1>5. CASE \E i \in 1 .. 2 : EngineLogs(i) \/ Serves(i) \/ Talks(i) \/ Leaves(i)
    BY <1>0, <1>5, EngineTyped
  <1>6. CASE Analyzes
    <2>1. ScriptTypeOK'
      BY <1>0, <1>6 DEF Analyzes, scriptVars, ScriptTypeOK
    <2>2. \/ Boots \/ ReadsLine \/ CaughtUp
          \/ \E answer \in BOOLEAN : TimesOut(answer)
      BY <1>6, AnswersAre DEF Analyzes
    <2> QED  BY <1>0, <2>1, <2>2, AnalyzerKeepsTypes
  <1>7. CASE UNCHANGED vars
    BY <1>0, <1>7 DEF vars, analyzerVars, scriptVars, AnalyzerTypeOK, ScriptTypeOK, Patient
  <1> QED  BY <1>3, <1>4, <1>5, <1>6, <1>7 DEF Next

----------------------------------------------------------------------------
(***************************************************************************)
(* The second engine.                                                      *)
(***************************************************************************)
RestartInv ==
  /\ pc \notin {"wait2", "report", "exit"} => engine[2] = "none"
  /\ ~termed /\ pc \in {"recover", "restart", "wait2", "report"} => engine[1] = "crashed"
  /\ ~termed /\ engine[2] # "none" => engine[1] = "crashed"

EngineType == engine \in [1 .. 2 -> Alive \cup {"none", "ended", "crashed"}]

(* What an engine is after a step of its own *)
LEMMA EngineSteps ==
  ASSUME EngineType, NEW i \in 1 .. 2, EngineLogs(i) \/ Serves(i) \/ Talks(i) \/ Leaves(i)
  PROVE  /\ \A j \in 1 .. 2 : engine[j] \notin Alive => engine'[j] = engine[j]
         /\ \A j \in 1 .. 2 : engine[j] # "loading" => engine'[j] # "loading"
         /\ \A j \in 1 .. 2 : engine[j] # "none" => engine'[j] # "none"
         /\ EngineType'
  BY DEF EngineType, EngineLogs, Logs, Serves, Talks, Leaves, Runs, Alive

LEMMA EngineUntouched ==
  Sources \/ Tries \/ Updates \/ Installed \/ Aborts \/ Waits \/ Recovers \/ Reports
    \/ Begins \/ Terminates \/ Returns \/ Analyzes => engine' = engine
  BY DEF Sources, Tries, Updates, Installed, Aborts, Waits, Recovers, Reports, Begins,
         Terminates, Returns, Analyzes, scriptVars

LEMMA RestartKept ==
  ASSUME EngineType, RestartInv, [Next]_vars
  PROVE  RestartInv'
  <1>1. CASE \/ Sources \/ Tries \/ Updates \/ Installed \/ Aborts \/ Begins \/ Returns
    <2>1. engine' = engine
      BY <1>1, EngineUntouched
    <2>2. /\ pc' \notin {"recover", "restart", "wait2", "report"}
          /\ pc \notin {"wait2", "report", "exit"}
      BY <1>1 DEF Sources, Tries, Updates, Installed, Aborts, Begins, Returns, GoesTo
    <2> QED  BY <2>1, <2>2 DEF RestartInv
  <1>2. CASE Waits \/ Recovers \/ Reports
    <2>1. engine' = engine /\ termed' = termed
      BY <1>2, EngineUntouched DEF Waits, Recovers, Reports
    <2> QED  BY <1>2, <2>1 DEF Waits, Recovers, Reports, GoesTo, RestartInv
  <1>3. CASE Starts \/ Restarts
    BY <1>3 DEF Starts, Restarts, GoesTo, RestartInv, EngineType
  <1>4. CASE Exits \/ Killed
    BY <1>4 DEF Exits, Killed, Ends, GoesTo, RestartInv
  <1>5. CASE Terminates
    BY <1>5 DEF Terminates, RestartInv
  <1>6. CASE \E i \in 1 .. 2 : EngineLogs(i) \/ Serves(i) \/ Talks(i) \/ Leaves(i)
    <2>1. pc' = pc /\ termed' = termed
      BY <1>6 DEF EngineLogs, Serves, Talks, Leaves
    <2>2. \A j \in 1 .. 2 : engine[j] \in {"none", "crashed"} => engine'[j] = engine[j]
      BY <1>6, EngineSteps DEF Alive
    <2>3. engine[2] # "none" \/ engine'[2] = "none"
      BY <2>2
    <2> QED  BY <2>1, <2>2, <2>3 DEF RestartInv
  <1>7. CASE Analyzes \/ UNCHANGED vars
    BY <1>7 DEF Analyzes, vars, scriptVars, RestartInv
  <1> QED  BY <1>1, <1>2, <1>3, <1>4, <1>5, <1>6, <1>7 DEF Next, ScriptStep

----------------------------------------------------------------------------
(***************************************************************************)
(* The flags.                                                              *)
(***************************************************************************)
Trusted == plan.accel # "override" /\ plan.installer
NoOverride(s) == \A i \in 1 .. Len(s) : s[i].kind # "override"
NoFlag == \A f \in Features : ~flags[f]

FlagInv ==
  /\ \A f \in Features : flags[f] => f \in plan.wanted
  /\ pc \in {"restart", "wait2", "report"} \/ engine[2] # "none" => NoFlag
  /\ Trusted => NoOverride(todo)
  /\ Trusted => \A f \in bad : flags[f] =>
       (pc = "update" /\ f \in Of(Head(todo))) \/ pc \in {"abort", "exit"}

LEMMA SinglesNoOverride ==
  ASSUME NEW kind \in {"dependency", "single"}, NEW fs \in Seq(Features)
  PROVE  NoOverride(Singles(kind, fs))
  <1>1. Singles(kind, fs) = [i \in 1 .. Len(fs) |-> Try(kind, <<fs[i]>>)]
    BY DEF Singles
  <1>2. Len(fs) \in Nat /\ Singles(kind, fs) \in Seq(TryType)
    BY SinglesTyped
  <1>3. Len(Singles(kind, fs)) = Len(fs)
    BY <1>1, <1>2
  <1>4. \A i \in 1 .. Len(fs) : Singles(kind, fs)[i].kind = kind
    BY <1>1 DEF Try
  <1> HIDE DEF Singles
  <1> QED  BY <1>3, <1>4 DEF NoOverride

LEMMA ConcatNoOverride ==
  ASSUME NEW s \in Seq(TryType), NEW t \in Seq(TryType), NoOverride(s), NoOverride(t)
  PROVE  NoOverride(s \o t)
  BY DEF NoOverride

LEMMA TailNoOverride ==
  ASSUME NEW s \in Seq(TryType), s # <<>>, NoOverride(s)
  PROVE  NoOverride(Tail(s)) /\ Head(s).kind # "override"
  BY DEF NoOverride

LEMMA PreambleNoOverride ==
  ASSUME plan \in Plan, Trusted
  PROVE  NoOverride(Preamble)
  <1>1. \A f \in Features : IfWanted(f) \in Seq(Features)
    BY DEF IfWanted
  <1>2. Patches \in Seq(Features) /\ Dependencies \in Seq(Features)
    BY <1>1 DEF Patches, Dependencies, Features
  <1> DEFINE singles == Singles("dependency", Dependencies)
             batch   == <<Try("batch", Patches)>>
  <1>3. singles \in Seq(TryType) /\ NoOverride(singles)
    BY <1>2, SinglesTyped, SinglesNoOverride
  <1>4. batch \in Seq(TryType) /\ NoOverride(batch)
    BY <1>2 DEF Try, TryType, NoOverride
  <1>5. <<>> \in Seq(TryType) /\ NoOverride(<<>>)
    BY DEF NoOverride
  <1> HIDE DEF singles, batch
  <1>6. NoOverride(singles \o batch) /\ NoOverride(singles \o <<>>)
    BY <1>3, <1>4, <1>5, ConcatNoOverride
  <1>7. plan.accel \in {"off", "auto"}
    BY DEF Plan, Trusted
  <1> QED  BY <1>5, <1>6, <1>7 DEF Preamble, singles, batch

LEMMA FlagKept ==
  ASSUME TypeInv, RestartInv, FlagInv, [Next]_vars
  PROVE  FlagInv'
  <1>0. /\ flags \in [Features -> BOOLEAN] /\ todo \in Seq(TryType) /\ bad \subseteq Features
        /\ plan \in Plan /\ (pc = "update" => todo # <<>>)
    BY PlansAssumption DEF TypeInv, ScriptTypeOK, Placed
  <1>p. plan' = plan
    BY DEF Next, ScriptStep, Begins, Sources, Tries, Updates, Installed, Aborts, Starts, Waits,
           Recovers, Restarts, Reports, Exits, Ends, Terminates, Killed, Returns, EngineLogs,
           Serves, Talks, Leaves, Analyzes, scriptVars, vars
  <1>1. CASE Sources
    <2>1. NoOverride(todo') \/ ~Trusted
      BY <1>0, <1>1, PreambleNoOverride DEF Sources, FlagInv
    <2> QED  BY <1>1, <1>p, <2>1 DEF Sources, GoesTo, FlagInv, Trusted, NoFlag
  <1>2. CASE Tries
    <2>1. todo # <<>> /\ pc = "installs" /\ flags' = flags /\ engine' = engine
      BY <1>2 DEF Tries
    <2>2. Trusted => NoOverride(Tail(todo)) /\ Head(todo).kind # "override"
      BY <1>0, <2>1, TailNoOverride DEF FlagInv
    <2>h. Head(todo) \in TryType
      BY <1>0, <2>1
    <2>3. Head(todo).features \in Seq(Features)
      BY <2>h DEF TryType
    <2>4. NoOverride(Singles("single", Head(todo).features))
      BY <2>3, SinglesNoOverride
    <2>5. Trusted => NoOverride(todo')
      BY <1>2, <2>2, <2>4 DEF Tries, FlagInv
    <2>6. Trusted => \A f \in bad : ~flags[f]
      BY <2>1 DEF FlagInv
    <2>7. Trusted => \/ bad' = bad
                     \/ pc' = "update" /\ todo' = todo /\ bad' = bad \cup Of(Head(todo))
      BY <1>2, <2>2 DEF Tries, GoesTo, Trusted
    <2>8. pc' \in {"installs", "update"}
      BY <1>2 DEF Tries, GoesTo
    <2> QED  BY <1>p, <2>1, <2>5, <2>6, <2>7, <2>8 DEF FlagInv, Trusted, NoFlag
  <1>3. CASE Updates
    <2>1. CASE extra
      BY <1>3, <1>p, <2>1 DEF Updates, GoesTo, FlagInv, Trusted, NoFlag
    <2>2. CASE ~extra
      <3>1. /\ \A f \in Features : flags'[f] => flags[f] /\ f \notin Of(Head(todo))
            /\ bad' = bad /\ pc' = "installs" /\ engine' = engine /\ pc = "update"
            /\ todo' = Tail(todo)
        BY <1>3, <2>2 DEF Updates, GoesTo
      <3>2. Trusted => NoOverride(todo')
        BY <1>0, <3>1, TailNoOverride DEF FlagInv
      <3> QED  BY <1>0, <1>p, <3>1, <3>2 DEF FlagInv, Trusted, NoFlag
    <2> QED  BY <2>1, <2>2
  <1>4. CASE Recovers
    <2>1. \A f \in Features : ~flags'[f]
      <3>1. CASE HasAdvanced
        BY <1>4, <3>1 DEF Recovers, AllOff
      <3>2. CASE ~HasAdvanced
        BY <1>4, <3>2 DEF Recovers, HasAdvanced, FlagInv
      <3> QED  BY <3>1, <3>2
    <2>2. todo' = todo /\ bad' = bad
      BY <1>4 DEF Recovers
    <2> QED  BY <1>0, <1>p, <2>1, <2>2 DEF FlagInv, Trusted, NoFlag
  <1>5. CASE Exits \/ Killed
    <2>1. /\ bad' = {} /\ todo' = <<>> /\ flags' = flags
          /\ engine'[2] = "none" /\ pc' = "down"
      BY <1>5 DEF Exits, Killed, Ends, GoesTo
    <2> QED  BY <1>p, <2>1 DEF FlagInv, NoOverride, Trusted, NoFlag
  <1>6. CASE Restarts
    <2>1. NoFlag /\ flags' = flags /\ todo' = todo /\ bad' = bad
      BY <1>6 DEF Restarts, FlagInv
    <2> QED  BY <1>0, <1>p, <2>1 DEF FlagInv, Trusted, NoFlag
  <1>7. CASE Starts
    <2>1. /\ flags' = flags /\ todo' = todo /\ bad' = bad /\ pc = "start"
          /\ pc' \in {"abort", "wait"} /\ engine[2] = "none"
      BY <1>7 DEF Starts, GoesTo, RestartInv
    <2>2. engine'[2] = engine[2]
      BY <1>7 DEF Starts, TypeInv, ScriptTypeOK
    <2> QED  BY <1>p, <2>1, <2>2 DEF FlagInv, Trusted, NoFlag
  <1>8. CASE Begins \/ Installed \/ Aborts \/ Waits \/ Reports \/ Terminates \/ Returns
    <2>1. /\ flags' = flags /\ todo' = todo /\ bad' = bad /\ engine' = engine
      BY <1>8, EngineUntouched
         DEF Begins, Installed, Aborts, Waits, Reports, Terminates, Returns
    <2>2. /\ pc' \in {"restart", "wait2", "report"} => pc \in {"wait2", "restart", "report"}
          /\ pc = "update" => pc' = "update"
          /\ pc \in {"abort", "exit"} => pc' \in {"abort", "exit"}
      BY <1>8 DEF Begins, Installed, Aborts, Waits, Reports, Terminates, Returns, GoesTo
    <2> QED  BY <1>p, <2>1, <2>2 DEF FlagInv, Trusted, NoFlag
  <1>9. CASE \E i \in 1 .. 2 : EngineLogs(i) \/ Serves(i) \/ Talks(i) \/ Leaves(i)
    <2>1. flags' = flags /\ todo' = todo /\ bad' = bad /\ pc' = pc
      BY <1>9 DEF EngineLogs, Serves, Talks, Leaves
    <2>2. engine[2] = "none" => engine'[2] = "none"
      BY <1>9, EngineSteps DEF EngineType, TypeInv, ScriptTypeOK, Alive
    <2> QED  BY <1>p, <2>1, <2>2 DEF FlagInv, Trusted, NoFlag
  <1>10. CASE Analyzes \/ UNCHANGED vars
    BY <1>10 DEF Analyzes, vars, scriptVars, FlagInv, Trusted, NoFlag
  <1> QED  BY <1>1, <1>2, <1>3, <1>4, <1>5, <1>6, <1>7, <1>8, <1>9, <1>10
           DEF Next, ScriptStep

----------------------------------------------------------------------------
(***************************************************************************)
(* What "completed" means.                                                 *)
(***************************************************************************)
Past == \E i \in 1 .. 2 : engine[i] \in {"checked", "serving", "ended", "crashed"}
Telling == {"server_checking", "ready"}

StartInv ==
  /\ pc \in {"begin", "overrides", "installs", "update", "abort", "start", "down"} =>
       engine[1] = "none"
  /\ ~plan.analyzed => stage = "off" /\ record.status # "completed"
  /\ plan.analyzed /\ pc \notin {"begin", "down"} =>
       \A i \in 1 .. Len(log) : log[i].hit.phase \in Telling => Past
  /\ phase \in Telling => Past
  /\ record.status = "completed" /\ pc \notin {"begin", "down"} => Past

(* An echoed line tells of an engine only if there is one to tell of *)
LEMMA EchoTells ==
  ASSUME log \in Seq(LineType), NEW l \in LineType, Echoes(l),
         \A i \in 1 .. Len(log) : log[i].hit.phase \in Telling => Past,
         Past => Past', l.hit.phase \in Telling => Past'
  PROVE  \A i \in 1 .. Len(log') : log'[i].hit.phase \in Telling => Past'
  BY DEF Echoes

LEMMA StartKeptByScript ==
  ASSUME TypeInv, RestartInv, StartInv, ScriptStep \/ Killed
  PROVE  StartInv'
  <1>0. /\ EngineType /\ plan' = plan /\ log \in Seq(LineType)
        /\ pc \in {"begin", "down"} => stage = "off" /\ phase = NoPhase
    BY AnalyzerTypes
       DEF TypeInv, ScriptTypeOK, EngineType, Placed, ScriptStep, Begins, Sources, Tries,
           Updates, Installed, Aborts, Starts, Waits, Recovers, Restarts, Reports, Exits,
           Killed, Ends
  <1>1. CASE Begins
    <2>1. /\ engine' = engine /\ phase' = phase /\ pc = "begin" /\ pc' = "overrides"
      BY <1>1 DEF Begins, GoesTo
    <2>2. CASE plan.analyzed
      <3>1. log' = <<>> /\ record' = NoRecord
        BY <1>1, <2>2 DEF Begins
      <3>2. Len(log') = 0 /\ record'.status = "none"
        BY <3>1 DEF NoRecord
      <3> QED  BY <1>0, <2>1, <2>2, <3>2 DEF StartInv, Past
    <2>3. CASE ~plan.analyzed
      BY <1>0, <1>1, <2>1, <2>3 DEF Begins, StartInv, Past
    <2> QED  BY <2>2, <2>3
  <1>2. CASE Sources \/ Updates \/ Installed \/ Waits \/ Recovers
    <2>1. /\ engine' = engine /\ phase' = phase /\ log' = log /\ record' = record
          /\ stage' = stage
      BY <1>2, EngineUntouched
         DEF Sources, Updates, Installed, Waits, Recovers, analyzerVars
    <2>2. /\ pc \notin {"begin", "down"}
          /\ pc' \in {"begin", "overrides", "installs", "update", "abort", "start", "down"}
               => pc \in {"overrides", "installs", "update"}
      BY <1>2 DEF Sources, Updates, Installed, Waits, Recovers, GoesTo
    <2> QED  BY <1>0, <2>1, <2>2 DEF StartInv, Past
  <1>3. CASE Tries
    <2>1. /\ engine' = engine /\ phase' = phase /\ record' = record /\ stage' = stage
          /\ pc = "installs" /\ pc' \in {"installs", "update"}
      BY <1>3 DEF Tries, GoesTo
    <2>2. Past' = Past
      BY <2>1 DEF Past
    <2>3. AccelLine.hit.phase \notin Telling /\ AccelLine \in LineType
      BY LinesTyped DEF AccelLine, Line, NoHit, NoPhase, Telling
    <2>4. plan.analyzed =>
            \A i \in 1 .. Len(log') : log'[i].hit.phase \in Telling => Past'
      <3>1. CASE Echoes(AccelLine)
        BY <1>0, <2>1, <2>2, <2>3, <3>1, EchoTells DEF StartInv
      <3>2. CASE log' = log
        BY <2>1, <2>2, <3>2 DEF StartInv
      <3> QED  BY <1>3, <3>1, <3>2 DEF Tries
    <2> QED  BY <1>0, <2>1, <2>2, <2>4 DEF StartInv
  <1>4. CASE Aborts \/ Reports
    <2>1. /\ engine' = engine /\ phase' = phase /\ log' = log /\ stage' = stage
          /\ pc' = "exit" /\ pc \in {"abort", "report"}
          /\ record' = record \/ record'.status = "failed"
      BY <1>4 DEF Aborts, Reports, Writes, GoesTo
    <2> QED  BY <1>0, <2>1 DEF StartInv, Past
  <1>5. CASE Starts
    <2>1. /\ phase' = phase /\ log' = log /\ record' = record /\ stage' = stage
          /\ pc = "start" /\ pc' \in {"abort", "wait"}
          /\ pc' = "abort" => engine' = engine
      BY <1>5 DEF Starts, analyzerVars, GoesTo
    <2>2. ~Past
      <3>1. engine[1] = "none" /\ engine[2] = "none"
        BY <2>1 DEF StartInv, RestartInv
      <3> QED  BY <3>1 DEF Past
    <2> QED  BY <1>0, <2>1, <2>2 DEF StartInv
  <1>6. CASE Restarts
    <2>1. /\ phase' = phase /\ log' = log /\ record' = record /\ stage' = stage
          /\ pc = "restart" /\ pc' \in {"exit", "wait2"}
          /\ engine[2] = "none"
          /\ engine' = engine \/ engine' = [engine EXCEPT ![2] = "loading"]
      BY <1>6 DEF Restarts, analyzerVars, GoesTo, RestartInv
    <2>2. Past => Past'
      BY <1>0, <2>1 DEF Past, EngineType
    <2> QED  BY <1>0, <2>1, <2>2 DEF StartInv
  <1>7. CASE Exits \/ Killed
    <2>1. /\ engine'[1] = "none" /\ phase' = NoPhase /\ record' = record /\ stage' = "off"
          /\ pc' = "down"
      BY <1>7 DEF Exits, Killed, Ends, GoesTo
    <2> QED  BY <1>0, <2>1 DEF StartInv, NoPhase, Telling
  <1> QED  BY <1>1, <1>2, <1>3, <1>4, <1>5, <1>6, <1>7 DEF ScriptStep

LEMMA StartKeptByOutside ==
  ASSUME TypeInv, StartInv, Terminates \/ Returns
  PROVE  StartInv'
  <1>1. /\ plan' = plan /\ engine' = engine /\ phase' = phase /\ log' = log /\ stage' = stage
        /\ record' = record \/ record'.status = "failed"
    BY EngineUntouched DEF Terminates, Returns, Writes, analyzerVars
  <1>2. /\ pc' \notin {"begin", "down"} => pc \notin {"begin", "down"}
        /\ pc' \in {"begin", "overrides", "installs", "update", "abort", "start", "down"} =>
           pc \in {"begin", "overrides", "installs", "update", "abort", "start", "down"}
    BY DEF Terminates, Returns, GoesTo
  <1> QED  BY <1>1, <1>2 DEF StartInv, Past

LEMMA StartKeptByEngine ==
  ASSUME TypeInv, StartInv, NEW i \in 1 .. 2, EngineLogs(i) \/ Serves(i) \/ Talks(i) \/ Leaves(i)
  PROVE  StartInv'
  <1>0. EngineType /\ log \in Seq(LineType)
    BY AnalyzerTypes DEF TypeInv, ScriptTypeOK, EngineType
  <1>1. /\ plan' = plan /\ phase' = phase /\ stage' = stage /\ record' = record /\ pc' = pc
    BY DEF EngineLogs, Serves, Talks, Leaves, analyzerVars
  <1>2. Past => Past'
    BY <1>0 DEF EngineType, Past, EngineLogs, Logs, Serves, Talks, Leaves, Runs, Alive
  <1>3. engine[1] = "none" => engine'[1] = "none"
    BY <1>0, EngineSteps DEF Alive
  <1>4. plan.analyzed /\ pc \notin {"begin", "down"} =>
          \A j \in 1 .. Len(log') : log'[j].hit.phase \in Telling => Past'
    <2> SUFFICES ASSUME plan.analyzed, pc \notin {"begin", "down"}
                 PROVE  \A j \in 1 .. Len(log') : log'[j].hit.phase \in Telling => Past'
      OBVIOUS
    <2>0. \A j \in 1 .. Len(log) : log[j].hit.phase \in Telling => Past
      BY DEF StartInv
    <2>1. CASE log' = log
      BY <1>2, <2>0, <2>1
    <2>2. CASE Echoes(Loading) \/ Echoes(Error)
      <3>1. Loading.hit.phase \notin Telling /\ Error.hit.phase \notin Telling
        BY DEF Loading, Error, Line, NoHit, NoPhase, Telling
      <3> QED  BY <1>0, <1>2, <2>0, <2>2, <3>1, LinesTyped, EchoTells
    <2>3. CASE \/ Logs(i, Checking, "checked")
               \/ /\ Logs(i, Ready, engine[i])
                  /\ engine[i] \in {"checked", "serving"}
      <3>1. Past'
        BY <1>0, <2>3 DEF EngineType, Logs, Past
      <3> QED  BY <3>1
    <2>4. CASE EngineLogs(i)
      <3>1. \/ Logs(i, Loading, "loading") \/ Logs(i, Error, engine[i])
            \/ Logs(i, Checking, "checked")
            \/ /\ Logs(i, Ready, engine[i])
               /\ engine[i] \in {"checked", "serving"}
        BY <2>4 DEF EngineLogs
      <3>2. CASE Logs(i, Loading, "loading") \/ Logs(i, Error, engine[i])
        BY <2>2, <3>2 DEF Logs
      <3> QED  BY <2>3, <3>1, <3>2
    <2>5. CASE Serves(i) \/ Talks(i) \/ Leaves(i)
      BY <2>1, <2>5 DEF Serves, Talks, Leaves, analyzerVars
    <2> QED  BY <2>4, <2>5
  <1> QED  BY <1>1, <1>2, <1>3, <1>4 DEF StartInv

LEMMA StartKeptByAnalyzer ==
  ASSUME TypeInv, StartInv, Analyzes
  PROVE  StartInv'
  <1>0. log \in Seq(LineType) /\ pos \in 0 .. Len(log)
    BY AnalyzerTypes DEF TypeInv
  <1>1. engine' = engine /\ pc' = pc /\ plan' = plan
    BY DEF Analyzes, scriptVars
  <1>2. Past' = Past /\ log' = log
    BY <1>1 DEF Past, Analyzes, Boots, ReadsLine, CaughtUp, TimesOut
  <1>3. stage # "off" /\ plan.analyzed /\ pc \notin {"begin", "down"}
    BY DEF Analyzes, Boots, ReadsLine, CaughtUp, TimesOut, StartInv, TypeInv,
           Placed
  <1>4. /\ phase' \in Telling => Past
        /\ record'.status = "completed" => Past
    <2>1. CASE Boots
      BY <1>3, <2>1 DEF Boots, Writes, StartInv
    <2>2. CASE ReadsLine
      <3> DEFINE l == log[pos + 1]
      <3>1. l.hit.phase \in Telling => Past
        BY <1>0, <1>3, <2>2 DEF ReadsLine, StartInv
      <3>2. CASE FailsOn(l)
        BY <1>3, <3>2 DEF FailsOn, Writes, StartInv
      <3>3. CASE AdvancesOn(l)
        BY <3>1, <3>3 DEF AdvancesOn, Writes, Telling
      <3>4. CASE Ignores(l)
        BY <1>3, <3>4 DEF Ignores, StartInv
      <3> QED  BY <2>2, <3>2, <3>3, <3>4 DEF ReadsLine
    <2>3. CASE CaughtUp
      BY <1>3, <2>3 DEF CaughtUp, StartInv
    <2>4. ASSUME NEW answer \in Answers, TimesOut(answer)
          PROVE  /\ phase' \in Telling => Past
                 /\ record'.status = "completed" => Past
      BY <1>3, <2>4 DEF TimesOut, Confirmed, Writes, Telling, StartInv
    <2> QED  BY <2>1, <2>2, <2>3, <2>4 DEF Analyzes
  <1> QED  BY <1>1, <1>2, <1>3, <1>4 DEF StartInv

LEMMA StartKept ==
  ASSUME TypeInv, RestartInv, StartInv, [Next]_vars
  PROVE  StartInv'
  <1>1. CASE UNCHANGED vars
    BY <1>1 DEF vars, analyzerVars, scriptVars, StartInv, Past
  <1> QED  BY <1>1, StartKeptByScript, StartKeptByOutside, StartKeptByEngine,
              StartKeptByAnalyzer DEF Next

----------------------------------------------------------------------------
(***************************************************************************)
(* The invariant of the specification, and what follows from it.           *)
(***************************************************************************)
IInv == TypeInv /\ RestartInv /\ FlagInv /\ StartInv

LEMMA InitIInv == Init => IInv
  <1> SUFFICES ASSUME Init PROVE IInv
    OBVIOUS
  <1>1. TypeInv
    BY InitTyped
  <1>2. RestartInv
    BY DEF Init, RestartInv
  <1>3. FlagInv
    <2>1. NoOverride(todo)
      BY DEF Init, NoOverride
    <2>2. \A f \in Features : flags[f] => f \in plan.wanted
      BY DEF Init, Advertised
    <2> QED  BY <2>1, <2>2 DEF Init, FlagInv
  <1>4. StartInv
    <2>1. Len(log) = 0 /\ phase = NoPhase /\ record.status = "none" /\ stage = "off"
      BY DEF Init, AnalyzerInit, NoRecord
    <2> QED  BY <2>1 DEF Init, StartInv, NoPhase, Telling
  <1> QED  BY <1>1, <1>2, <1>3, <1>4 DEF IInv

LEMMA NextIInv == IInv /\ [Next]_vars => IInv'
  <1> SUFFICES ASSUME IInv, [Next]_vars PROVE IInv'
    OBVIOUS
  <1>1. EngineType
    BY DEF IInv, TypeInv, ScriptTypeOK, EngineType
  <1> QED  BY <1>1, NextTyped, RestartKept, FlagKept, StartKept DEF IInv

(* Every variable of the script and of the analyzer keeps its type: no     *)
(* line is read that is not there, and no update is for an installation    *)
(* that is over (core/wings_entry.py:573-1236, log_analyzer.py).           *)
THEOREM TypeCorrect == Spec => []TypeOK
  <1>1. IInv => TypeOK
    BY Types DEF IInv, TypeInv
  <1> QED  BY InitIInv, NextIInv, <1>1, PTL DEF Spec

(* The types, and one engine at a time: a second one is started only after *)
(* the first has crashed, and so never beside it, unless the container was *)
(* told to end and the wait of the script was interrupted                  *)
(* (core/wings_entry.py:1131-1236).                                        *)
THEOREM OneEngineAtATime == Spec => []EnginesTakeTurns
  <1>1. IInv => TypeOK
    BY Types DEF IInv, TypeInv
  <1>2. IInv => RestartsOnlyAfterCrash
    BY DEF IInv, RestartInv, RestartsOnlyAfterCrash
  <1>3. IInv => EnginesTakeTurns
    BY <1>1, <1>2 DEF EnginesTakeTurns
  <1> QED  BY InitIInv, NextIInv, <1>3, PTL DEF Spec

(* advanced_features.json credits no running engine with a patch that this *)
(* start could not install, and the fallback engine with none: a failed    *)
(* installation clears its flag before the next is tried, and the crash    *)
(* clears all before the second start (core/wings_entry.py:740-1236).      *)
THEOREM FlagsAreHonest == Spec => []FlagsNeverOverclaim
  <1>1. IInv => FlagsNeverOverclaim
    BY DEF IInv, TypeInv, ScriptTypeOK, FlagInv, FlagsNeverOverclaim, Trusted, NoFlag
  <1> QED  BY InitIInv, NextIInv, <1>1, PTL DEF Spec

(* While a container runs, "completed" in the progress file speaks of an   *)
(* engine of this start of it: the files of an earlier start are gone and  *)
(* the analyzer knows only lines and answers of this one                   *)
(* (core/wings_entry.py:835-899, log_analyzer/log_analyzer.py:533-570).    *)
THEOREM CompletedIsOfThisStart == Spec => []CompletedMeansStarted
  <1>1. IInv => CompletedMeansStarted
    BY DEF IInv, StartInv, CompletedMeansStarted, Past
  <1> QED  BY InitIInv, NextIInv, <1>1, PTL DEF Spec

----------------------------------------------------------------------------
(***************************************************************************)
(* The verdict of the analyzer.                                            *)
(***************************************************************************)
Hit(k) == log[k].hit
Far    == {"checked", "serving"}

(* Line k is the last of the first n lines that a progress pattern matches *)
LastOf(k, n) == Hit(k) # NoHit /\ \A j \in k + 1 .. n : Hit(j) = NoHit

(* The analyzer that reads knows what the last such line has told it, and  *)
(* has followed the log only as long as no engine was ready                *)
ReadInv ==
  /\ stage \in {"catchup", "live"} => \A k \in 1 .. pos : LastOf(k, pos) =>
       phase = Hit(k).phase /\ progress >= Hit(k).progress
  /\ stage = "live" => \A k \in 1 .. pos : Hit(k).phase # "ready"
  /\ stage = "boot" => pos = 0

(* An engine that got far has said so after all that earlier ones said     *)
ToldInv ==
  ~termed /\ (\E i \in 1 .. 2 : engine[i] \in Far) =>
     \E k \in 1 .. Len(log) :
       LastOf(k, Len(log)) /\ Hit(k).phase \in Telling /\ Hit(k).progress >= 99

(* The analyzer that has told that the start has completed has stopped, or *)
(* is still catching up, behind a ready line, and stops at the end of that *)
EarlyInv ==
  record.status = "completed" =>
    /\ stage \notin {"boot", "live"}
    /\ stage = "catchup" => \E k \in 1 .. pos : Hit(k).phase = "ready"

VInv == IInv /\ ReadInv /\ ToldInv /\ EarlyInv

LEMMA LargerIsLarger ==
  ASSUME NEW x \in 0 .. 100, NEW y \in 0 .. 100
  PROVE  Larger(x, y) >= x
  BY DEF Larger

(* A line more leaves the earlier ones as they are *)
LEMMA EchoAppends ==
  ASSUME log \in Seq(LineType), NEW l \in LineType, Echoes(l)
  PROVE  /\ Len(log') = Len(log) + 1 /\ Len(log) \in Nat
         /\ \A k \in 1 .. Len(log) : Hit(k)' = Hit(k)
         /\ Hit(Len(log))' = l.hit
  BY DEF Echoes, Hit

(* The lines, and which of them tell of an engine *)
LEMMA WhatLinesTell ==
  /\ AccelLine.hit = NoHit /\ Error.hit = NoHit
  /\ Loading.hit.phase \notin Telling
  /\ Checking.hit.phase \in Telling /\ Ready.hit.phase \in Telling
  /\ Checking.hit.progress >= 99 /\ Ready.hit.progress >= 99
  /\ Checking.hit # NoHit /\ Ready.hit # NoHit
  /\ NoHit.phase \notin Telling
  <1>1. /\ AccelLine.hit = NoHit /\ Error.hit = NoHit
        /\ Loading.hit = [phase |-> "model_loading", progress |-> 60]
        /\ Checking.hit = [phase |-> "server_checking", progress |-> 99]
        /\ Ready.hit = [phase |-> "ready", progress |-> 100]
    BY DEF AccelLine, Error, Loading, Checking, Ready, Line
  <1> QED  BY <1>1 DEF NoHit, NoPhase, Telling

(* Who adds what to the log, and who empties it *)
LEMMA LogSteps ==
  ASSUME TypeInv, Next
  PROVE  \/ UNCHANGED log
         \/ Begins /\ plan.analyzed /\ log' = <<>>
         \/ Tries /\ Echoes(AccelLine)
         \/ \E i \in 1 .. 2 : EngineLogs(i) /\ Echoes(Error)
         \/ \E i \in 1 .. 2 : EngineLogs(i) /\ engine[i] = "loading" /\ Echoes(Loading)
                                /\ engine' = [engine EXCEPT ![i] = "loading"]
         \/ \E i \in 1 .. 2 : EngineLogs(i) /\ engine[i] = "loading" /\ Echoes(Checking)
         \/ \E i \in 1 .. 2 : EngineLogs(i) /\ engine[i] \in Far /\ Echoes(Ready)
  <1>1. CASE ScriptStep
    <2>1. CASE Begins  BY <2>1 DEF Begins
    <2>2. CASE Tries   BY <2>2 DEF Tries
    <2>3. CASE Exits   BY <2>3 DEF Exits, Ends
    <2>4. CASE Sources \/ Updates \/ Installed \/ Aborts \/ Starts \/ Waits \/ Recovers
                 \/ Restarts \/ Reports
      BY <2>4 DEF Sources, Updates, Installed, Aborts, Starts, Waits, Recovers, Restarts,
                  Reports, analyzerVars
    <2> QED  BY <1>1, <2>1, <2>2, <2>3, <2>4 DEF ScriptStep
  <1>2. CASE Terminates \/ Killed \/ Returns
    BY <1>2 DEF Terminates, Killed, Returns, Ends, analyzerVars
  <1>3. ASSUME NEW i \in 1 .. 2, EngineLogs(i)
        PROVE  \/ Echoes(Error)
               \/ engine[i] = "loading" /\ Echoes(Loading)
                    /\ engine' = [engine EXCEPT ![i] = "loading"]
               \/ engine[i] = "loading" /\ Echoes(Checking)
               \/ engine[i] \in Far /\ Echoes(Ready)
    BY <1>3 DEF EngineLogs, Logs, Far
  <1>4. ASSUME NEW i \in 1 .. 2, Serves(i) \/ Talks(i) \/ Leaves(i)
        PROVE  UNCHANGED log
    BY <1>4 DEF Serves, Talks, Leaves, analyzerVars
  <1>5. CASE Analyzes
    BY <1>5 DEF Analyzes, Boots, ReadsLine, CaughtUp, TimesOut
  <1> QED  BY <1>1, <1>2, <1>3, <1>4, <1>5 DEF Next

(* ReadInv is disturbed only where the analyzer or the log goes on *)
LEMMA LastStays ==
  ASSUME UNCHANGED pos, pos \in Nat, \A k \in 1 .. pos : Hit(k)' = Hit(k)
  PROVE  \A k \in 1 .. pos : LastOf(k, pos)' <=> LastOf(k, pos)
  BY DEF LastOf

LEMMA ReadKeptAside ==
  ASSUME TypeInv, ReadInv, Next, ~Analyzes
  PROVE  ReadInv'
  <1>0. log \in Seq(LineType) /\ pos \in 0 .. Len(log) /\ Len(log) \in Nat
    BY AnalyzerTypes DEF TypeInv
  <1>1. CASE Exits \/ Killed
    BY <1>1 DEF Exits, Killed, Ends, ReadInv
  <1>2. CASE Begins
    <2>1. pos' = 0
      BY <1>2 DEF Begins, TypeInv, Placed
    <2> QED  BY <2>1 DEF ReadInv
  <1>3. CASE ~(Exits \/ Killed \/ Begins)
    <2>1. UNCHANGED <<pos, stage, phase, progress>>
      BY <1>3 DEF Next, ScriptStep, Sources, Tries, Updates, Installed, Aborts, Starts, Waits,
                  Recovers, Restarts, Reports, Terminates, Returns, EngineLogs, Serves, Talks,
                  Leaves, analyzerVars
    <2>2. \A k \in 1 .. pos : Hit(k)' = Hit(k)
      <3>1. CASE UNCHANGED log
        BY <3>1 DEF Hit
      <3>2. ASSUME NEW l \in LineType, Echoes(l)
            PROVE  \A k \in 1 .. pos : Hit(k)' = Hit(k)
        BY <1>0, <3>2, EchoAppends
      <3> QED  BY <1>3, <3>1, <3>2, LogSteps, LinesTyped
    <2>3. pos \in Nat
      BY <1>0
    <2>4. \A k \in 1 .. pos : LastOf(k, pos)' <=> LastOf(k, pos)
      BY <2>1, <2>2, <2>3, LastStays
    <2> QED  BY <2>1, <2>2, <2>4 DEF ReadInv
  <1> QED  BY <1>1, <1>2, <1>3

LEMMA ReadKeptByAnalyzer ==
  ASSUME TypeInv, ReadInv, Analyzes
  PROVE  ReadInv'
  <1>0. /\ log \in Seq(LineType) /\ pos \in Nat /\ pos <= Len(log) /\ Len(log) \in Nat
        /\ progress \in 0 .. 100
    BY AnalyzerTypes DEF TypeInv
  <1>1. log' = log
    BY DEF Analyzes, Boots, ReadsLine, CaughtUp, TimesOut
  <1>2. \A k : Hit(k)' = Hit(k)
    BY <1>1 DEF Hit
  <1>l. \A k, n : LastOf(k, n)' <=> LastOf(k, n)
    BY <1>2 DEF LastOf
  <1>3. CASE Boots
    <2>1. pos' = 0 /\ stage' = "catchup"
      BY <1>3 DEF Boots, ReadInv
    <2> QED  BY <2>1 DEF ReadInv
  <1>4. CASE ReadsLine
    <2> DEFINE l == log[pos + 1]
    <2>1. /\ pos' = pos + 1 /\ pos + 1 \in 1 .. Len(log) /\ l \in LineType
          /\ stage \in {"catchup", "live"}
      BY <1>0, <1>4 DEF ReadsLine
    <2>2. l.hit = Hit(pos + 1) /\ l.hit.progress \in 0 .. 100
      BY <2>1 DEF Hit, LineType
    <2>3. CASE FailsOn(l)
      BY <2>3 DEF FailsOn, ReadInv
    <2>4. CASE AdvancesOn(l)
      <3>1. \A k \in 1 .. pos + 1 : LastOf(k, pos + 1) => k = pos + 1
        BY <1>0, <2>2, <2>4 DEF LastOf, AdvancesOn
      <3>2. phase' = l.hit.phase /\ progress' >= l.hit.progress
        <4>1. phase' = l.hit.phase /\ progress' = Larger(l.hit.progress, progress)
          BY <2>4 DEF AdvancesOn
        <4> HIDE DEF l
        <4> QED  BY <1>0, <2>2, <4>1, LargerIsLarger
      <3>3. stage' = "live" => stage = "live" /\ l.hit.phase # "ready"
        BY <2>4 DEF AdvancesOn
      <3> HIDE DEF l
      <3>4. \A k \in 1 .. pos + 1 : k \in 1 .. pos \/ k = pos + 1
        BY <1>0
      <3>5. \A k \in 1 .. pos' : LastOf(k, pos)' =>
              phase' = Hit(k)'.phase /\ progress' >= Hit(k)'.progress
        BY <1>2, <1>l, <2>1, <2>2, <3>1, <3>2
      <3>6. stage' = "live" => \A k \in 1 .. pos' : Hit(k)'.phase # "ready"
        BY <1>2, <2>1, <2>2, <3>3, <3>4 DEF ReadInv
      <3>7. stage' # "boot"
        BY <2>1, <2>4 DEF AdvancesOn
      <3> QED  BY <3>5, <3>6, <3>7 DEF ReadInv
    <2>5. CASE Ignores(l)
      <3>1. UNCHANGED <<stage, phase, progress>> /\ Hit(pos + 1) = NoHit
        BY <2>2, <2>5 DEF Ignores
      <3>2. \A k \in 1 .. pos + 1 : LastOf(k, pos + 1) => k \in 1 .. pos /\ LastOf(k, pos)
        BY <1>0, <3>1 DEF LastOf
      <3>3. NoHit.phase # "ready"
        BY DEF NoHit, NoPhase
      <3>4. \A k \in 1 .. pos + 1 : k \in 1 .. pos \/ k = pos + 1
        BY <1>0
      <3>5. \A k \in 1 .. pos' : LastOf(k, pos)' =>
              phase' = Hit(k)'.phase /\ progress' >= Hit(k)'.progress
        BY <1>2, <1>l, <2>1, <3>1, <3>2 DEF ReadInv
      <3>6. stage' = "live" => \A k \in 1 .. pos' : Hit(k)'.phase # "ready"
        BY <1>2, <2>1, <3>1, <3>3, <3>4 DEF ReadInv
      <3> QED  BY <2>1, <3>1, <3>5, <3>6 DEF ReadInv
    <2> QED  BY <1>4, <2>3, <2>4, <2>5 DEF ReadsLine
  <1>5. CASE CaughtUp
    <2>1. UNCHANGED <<pos, phase, progress>> /\ stage = "catchup"
      BY <1>5 DEF CaughtUp
    <2>2. stage' = "live" => \A k \in 1 .. pos : Hit(k).phase # "ready"
      BY <1>5 DEF CaughtUp, Hit
    <2>3. \A k \in 1 .. pos : LastOf(k, pos)' <=> LastOf(k, pos)
      BY <1>l, <2>1
    <2>4. stage' # "boot"
      BY <1>5 DEF CaughtUp
    <2> QED  BY <1>2, <2>1, <2>2, <2>3, <2>4 DEF ReadInv
  <1>6. ASSUME NEW answer \in Answers, TimesOut(answer)
        PROVE  ReadInv'
    <2>1. UNCHANGED <<pos, phase, progress>> /\ stage = "live" /\ stage' \in {"live", "stopped"}
      BY <1>6 DEF TimesOut
    <2>2. \A k \in 1 .. pos : LastOf(k, pos)' <=> LastOf(k, pos)
      BY <1>l, <2>1
    <2> QED  BY <1>2, <2>1, <2>2 DEF ReadInv
  <1> QED  BY <1>3, <1>4, <1>5, <1>6 DEF Analyzes

(* A line that tells of an engine is the last that does *)
LEMMA EchoIsLast ==
  ASSUME log \in Seq(LineType), NEW l \in LineType, Echoes(l), l.hit # NoHit,
         l.hit.phase \in Telling, l.hit.progress >= 99
  PROVE  \E k \in 1 .. Len(log') :
           LastOf(k, Len(log))' /\ Hit(k)'.phase \in Telling /\ Hit(k)'.progress >= 99
  <1>1. /\ Len(log') = Len(log) + 1 /\ Len(log) \in Nat
        /\ Hit(Len(log))' = l.hit
    BY EchoAppends
  <1>2. Len(log') \in 1 .. Len(log')
    BY <1>1
  <1>3. LastOf(Len(log), Len(log))'
    BY <1>1, <1>2 DEF LastOf
  <1> QED  BY <1>1, <1>2, <1>3 DEF LastOf, Hit

(* One that is nothing to the patterns changes nothing in that *)
LEMMA EchoIsNone ==
  ASSUME log \in Seq(LineType), NEW l \in LineType, Echoes(l), l.hit = NoHit,
         NEW k \in 1 .. Len(log), LastOf(k, Len(log))
  PROVE  k \in 1 .. Len(log') /\ LastOf(k, Len(log))' /\ Hit(k)' = Hit(k)
  <1>1. /\ Len(log') = Len(log) + 1 /\ Len(log) \in Nat
        /\ \A j \in 1 .. Len(log) : Hit(j)' = Hit(j)
        /\ Hit(Len(log))' = NoHit
    BY EchoAppends
  <1> QED  BY <1>1 DEF LastOf

(* While none was told to end, no engine gets far beside another *)
LEMMA FarAlone ==
  ASSUME EngineType, RestartInv, ~termed, NEW i \in 1 .. 2, engine[i] = "loading"
  PROVE  \A j \in 1 .. 2 : engine[j] \notin Far
  <1>1. CASE engine[2] = "none"
    <2>1. i = 1
      BY <1>1
    <2> QED  BY <1>1, <2>1 DEF Far
  <1>2. CASE engine[2] # "none"
    <2>1. engine[1] = "crashed"
      BY <1>2 DEF RestartInv
    <2>2. i = 2
      BY <2>1
    <2> QED  BY <2>1, <2>2 DEF Far
  <1> QED  BY <1>1, <1>2

(* An engine gets far only by logging that it can be checked *)
LEMMA FarSteps ==
  ASSUME EngineType, Next, NEW i \in 1 .. 2, engine'[i] \in Far
  PROVE  \/ engine[i] \in Far
         \/ EngineLogs(i) /\ engine[i] = "loading" /\ Echoes(Checking)
  <1>1. CASE ScriptStep
    BY <1>1, EngineUntouched DEF ScriptStep, Starts, Restarts, Exits, Ends, EngineType, Far
  <1>2. CASE Terminates \/ Killed \/ Returns
    BY <1>2, EngineUntouched DEF Killed, Ends, Far
  <1>3. ASSUME NEW j \in 1 .. 2, EngineLogs(j)
        PROVE  engine[i] \in Far \/ (EngineLogs(i) /\ engine[i] = "loading" /\ Echoes(Checking))
    <2>1. CASE engine'[i] = engine[i]
      BY <2>1
    <2>2. CASE engine'[i] # engine[i]
      <3>1. j = i /\ engine[i] = "loading" /\ Logs(i, Checking, "checked")
        BY <1>3, <2>2 DEF EngineLogs, Logs, EngineType
      <3> QED  BY <1>3, <3>1 DEF Logs
    <2> QED  BY <2>1, <2>2
  <1>4. ASSUME NEW j \in 1 .. 2, Serves(j) \/ Talks(j) \/ Leaves(j)
        PROVE  engine[i] \in Far
    BY <1>4 DEF Serves, Talks, Leaves, EngineType, Far
  <1>5. CASE Analyzes
    BY <1>5, EngineUntouched
  <1> QED  BY <1>1, <1>2, <1>3, <1>4, <1>5 DEF Next

LEMMA ToldKept ==
  ASSUME TypeInv, RestartInv, StartInv, ToldInv, Next
  PROVE  ToldInv'
  <1>0. EngineType /\ log \in Seq(LineType)
    BY AnalyzerTypes DEF TypeInv, ScriptTypeOK, EngineType
  <1> DEFINE Told == \E k \in 1 .. Len(log) :
                LastOf(k, Len(log)) /\ Hit(k).phase \in Telling /\ Hit(k).progress >= 99
  <1> SUFFICES ASSUME ~termed', NEW i \in 1 .. 2, engine'[i] \in Far
               PROVE  Told'
    BY DEF ToldInv
  <1>1. CASE Returns
    <2>1. engine' = engine /\ pc = "down"
      BY <1>1, EngineUntouched DEF Returns
    <2>2. engine[1] = "none" /\ engine[2] = "none"
      BY <2>1 DEF StartInv, RestartInv
    <2> QED  BY <2>1, <2>2 DEF Far
  <1>2. CASE ~Returns
    <2>1. ~termed
      BY <1>2 DEF Next, ScriptStep, Begins, Sources, Tries, Updates, Installed, Aborts, Starts,
                  Waits, Recovers, Restarts, Reports, Exits, Terminates, Killed, Ends,
                  EngineLogs, Serves, Talks, Leaves, Analyzes, scriptVars
    <2>2. CASE EngineLogs(i) /\ engine[i] = "loading" /\ Echoes(Checking)
      BY <1>0, <2>2, WhatLinesTell, LinesTyped, EchoIsLast
    <2>3. CASE engine[i] \in Far
      <3>1. PICK k \in 1 .. Len(log) :
              LastOf(k, Len(log)) /\ Hit(k).phase \in Telling /\ Hit(k).progress >= 99
        BY <2>1, <2>3 DEF ToldInv
      <3>2. CASE UNCHANGED log
        BY <3>1, <3>2 DEF LastOf, Hit
      <3>3. CASE Begins
        <4>1. pc = "begin"
          BY <3>3 DEF Begins
        <4>2. engine[1] = "none" /\ engine[2] = "none"
          BY <4>1 DEF StartInv, RestartInv
        <4> QED  BY <2>3, <4>2 DEF Far
      <3>4. CASE Echoes(AccelLine) \/ Echoes(Error)
        BY <1>0, <3>1, <3>4, WhatLinesTell, LinesTyped, EchoIsNone
      <3>5. CASE \E j \in 1 .. 2 : engine[j] = "loading"
        BY <1>0, <2>1, <2>3, <3>5, FarAlone
      <3>6. CASE Echoes(Ready)
        BY <1>0, <3>6, WhatLinesTell, LinesTyped, EchoIsLast
      <3> QED  BY <3>2, <3>3, <3>4, <3>5, <3>6, LogSteps
    <2> QED  BY <1>0, <2>2, <2>3, FarSteps
  <1> QED  BY <1>1, <1>2

(* Which steps change the stage and the record *)
LEMMA StageSteps ==
  ASSUME Next
  PROVE  \/ Analyzes
         \/ Begins
         \/ UNCHANGED <<stage, record>>
         \/ stage' = "off" /\ UNCHANGED record
         \/ UNCHANGED stage /\ record'.status = "failed"
              /\ (pc \in {"abort", "report"} \/ termed')
  <1>1. CASE ScriptStep
    <2>1. CASE Aborts \/ Reports
      BY <2>1 DEF Aborts, Reports, Writes
    <2>2. CASE Exits
      BY <2>2 DEF Exits, Ends
    <2>3. CASE Sources \/ Tries \/ Updates \/ Installed \/ Starts \/ Waits \/ Recovers \/ Restarts
      BY <2>3 DEF Sources, Tries, Updates, Installed, Starts, Waits, Recovers, Restarts,
                  analyzerVars
    <2> QED  BY <1>1, <2>1, <2>2, <2>3 DEF ScriptStep
  <1>2. CASE Terminates
    BY <1>2 DEF Terminates, Writes
  <1>3. CASE Killed \/ Returns
    BY <1>3 DEF Killed, Returns, Ends, analyzerVars
  <1>4. ASSUME NEW i \in 1 .. 2, EngineLogs(i) \/ Serves(i) \/ Talks(i) \/ Leaves(i)
        PROVE  UNCHANGED <<stage, record>>
    BY <1>4 DEF EngineLogs, Serves, Talks, Leaves, analyzerVars
  <1> QED  BY <1>1, <1>2, <1>3, <1>4 DEF Next

(* The analyzer's own record *)
LEMMA AnalyzerWrites ==
  ASSUME TypeInv, EarlyInv, Analyzes
  PROVE  /\ EarlyInv'
         /\ record.status = "completed" /\ stage # "catchup" => UNCHANGED record
  <1>0. log' = log
    BY DEF Analyzes, Boots, ReadsLine, CaughtUp, TimesOut
  <1>1. \A k : Hit(k)' = Hit(k)
    BY <1>0 DEF Hit
  <1>2. CASE Boots
    BY <1>2 DEF Boots, Writes, EarlyInv
  <1>3. CASE ReadsLine
    <2> DEFINE l == log[pos + 1]
    <2>1. /\ stage \in {"catchup", "live"} /\ pos + 1 \in 1 .. Len(log)
          /\ pos \in Nat /\ pos' = pos + 1
      BY <1>3, AnalyzerTypes DEF ReadsLine, TypeInv
    <2>2. l.hit = Hit(pos + 1)
      BY DEF Hit
    <2>3. /\ pos' \in 1 .. pos'
          /\ \A k \in 1 .. pos : k \in 1 .. pos'
      BY <2>1
    <2>4. CASE FailsOn(l)
      BY <2>1, <2>4 DEF FailsOn, Matches, Writes, EarlyInv
    <2>5. CASE AdvancesOn(l)
      <3>1. CASE l.hit.phase = "ready"
        <4>1. stage' # "boot" /\ stage' # "live"
          BY <2>1, <2>5, <3>1 DEF AdvancesOn
        <4>2. log'[pos + 1].hit.phase = "ready" /\ pos + 1 \in 1 .. pos'
          BY <1>0, <2>1, <3>1
        <4>3. stage = "live" => record.status # "completed"
          BY DEF EarlyInv
        <4> QED  BY <2>1, <4>1, <4>2, <4>3 DEF EarlyInv, Hit
      <3>2. CASE l.hit.phase # "ready"
        BY <2>1, <2>5, <3>2 DEF AdvancesOn, Writes, EarlyInv
      <3> QED  BY <3>1, <3>2
    <2>6. CASE Ignores(l)
      BY <1>1, <2>1, <2>3, <2>6 DEF Ignores, EarlyInv
    <2> QED  BY <1>3, <2>4, <2>5, <2>6 DEF ReadsLine
  <1>4. CASE CaughtUp
    <2>1. record.status = "completed" => stage' = "stopped"
      BY <1>4 DEF CaughtUp, EarlyInv, Hit
    <2>2. record' = record /\ stage' # "catchup"
      BY <1>4 DEF CaughtUp
    <2> QED  BY <2>1, <2>2 DEF EarlyInv
  <1>5. ASSUME NEW answer \in Answers, TimesOut(answer)
        PROVE  EarlyInv' /\ record.status # "completed"
    <2>1. stage = "live" /\ stage' \in {"live", "stopped"}
      BY <1>5 DEF TimesOut
    <2>2. record.status # "completed"
      BY <2>1 DEF EarlyInv
    <2>3. CASE Confirmed(answer)
      BY <1>5, <2>2, <2>3 DEF TimesOut, EarlyInv
    <2>4. CASE ~Confirmed(answer)
      BY <1>5, <2>1, <2>2, <2>4 DEF TimesOut, Writes, EarlyInv
    <2> QED  BY <2>2, <2>3, <2>4
  <1> QED  BY <1>2, <1>3, <1>4, <1>5 DEF Analyzes

LEMMA EarlyKept ==
  ASSUME TypeInv, EarlyInv, Next
  PROVE  EarlyInv'
  <1>0. log \in Seq(LineType) /\ pos \in 0 .. Len(log) /\ Len(log) \in Nat
    BY AnalyzerTypes DEF TypeInv
  <1>1. CASE Analyzes
    BY <1>1, AnalyzerWrites
  <1>2. CASE Begins
    <2>1. stage = "off"
      BY <1>2 DEF Begins, TypeInv, Placed
    <2> QED  BY <1>2, <2>1 DEF Begins, NoRecord, EarlyInv
  <1>3. CASE stage' = "off"
    BY <1>3 DEF EarlyInv
  <1>4. CASE ~Analyzes /\ ~Begins /\ stage' # "off"
    <2>1. UNCHANGED stage /\ (record' = record \/ record'.status = "failed")
      BY <1>4, StageSteps
    <2>2. pos' = pos
      BY <1>4 DEF Next, ScriptStep, Sources, Tries, Updates, Installed, Aborts, Starts, Waits,
                  Recovers, Restarts, Reports, Exits, Killed, Ends, Terminates, Returns,
                  EngineLogs, Serves, Talks, Leaves, analyzerVars
    <2>3. \A k \in 1 .. pos : Hit(k)' = Hit(k)
      <3>1. CASE UNCHANGED log
        BY <3>1 DEF Hit
      <3>2. ASSUME NEW l \in LineType, Echoes(l)
            PROVE  \A k \in 1 .. pos : Hit(k)' = Hit(k)
        BY <1>0, <3>2, EchoAppends
      <3> QED  BY <1>4, <3>1, <3>2, LogSteps, LinesTyped
    <2> QED  BY <2>1, <2>2, <2>3 DEF EarlyInv
  <1> QED  BY <1>1, <1>2, <1>3, <1>4

LEMMA VInvInit == Init => VInv
  <1> SUFFICES ASSUME Init PROVE VInv
    OBVIOUS
  <1>1. pos = 0 /\ stage = "off" /\ engine = [i \in 1 .. 2 |-> "none"]
    BY DEF Init, AnalyzerInit
  <1> QED  BY <1>1, InitIInv DEF VInv, ReadInv, ToldInv, EarlyInv, Far

LEMMA VInvNext == VInv /\ [Next]_vars => VInv'
  <1> SUFFICES ASSUME VInv, [Next]_vars PROVE VInv'
    OBVIOUS
  <1>0. TypeInv /\ RestartInv /\ StartInv
    BY DEF VInv, IInv
  <1>1. CASE Next
    <2>1. ReadInv'
      BY <1>0, <1>1, ReadKeptAside, ReadKeptByAnalyzer DEF VInv
    <2> QED  BY <1>0, <1>1, <2>1, NextIInv, ToldKept, EarlyKept DEF VInv
  <1>2. CASE UNCHANGED vars
    <2>1. UNCHANGED <<stage, pos, log, phase, progress, record, engine, termed>>
      BY <1>2 DEF vars, analyzerVars, scriptVars
    <2>2. ReadInv' /\ ToldInv' /\ EarlyInv'
      BY <2>1 DEF VInv, ReadInv, ToldInv, EarlyInv, LastOf, Hit
    <2> QED  BY <2>2, NextIInv DEF VInv
  <1> QED  BY <1>1, <1>2

(* Silence is not held against an engine that serves: its last line told   *)
(* the analyzer that it could be checked, so that its answer is asked for, *)
(* and given.                                                              *)
LEMMA NoServingTimesOut ==
  ASSUME VInv, Next
  PROVE  ~ServingTimesOut
  <1> SUFFICES ASSUME ServingTimesOut PROVE FALSE
    OBVIOUS
  <1>0. /\ pos \in 0 .. Len(log) /\ progress \in 0 .. 100
        /\ stage = "live" /\ stage' = "stopped" /\ pos' = pos
        /\ record'.status = "failed" /\ ~termed /\ Serving /\ plan.reached
    BY AnalyzerTypes DEF VInv, IInv, TypeInv, ServingTimesOut, GaveUp
  <1>1. Analyzes
    <2>1. ~Begins
      BY <1>0 DEF Begins, VInv, IInv, TypeInv, Placed
    <2> QED  BY <1>0, <2>1, StageSteps
  <1>2. PICK answer \in Answers : TimesOut(answer)
    BY <1>0, <1>1 DEF Analyzes, Boots, ReadsLine, CaughtUp
  <1>3. pos = Len(log) /\ ~(phase = "server_checking" /\ progress >= 99)
    <2>1. pos = Len(log) /\ ~Confirmed(answer)
      BY <1>0, <1>2 DEF TimesOut, Writes
    <2>2. answer = TRUE
      BY <1>0, AnswersAre
    <2> QED  BY <2>1, <2>2 DEF Confirmed
  <1>4. \E i \in 1 .. 2 : engine[i] \in Far
    BY DEF ServingTimesOut, Serving, Far
  <1>5. PICK k \in 1 .. Len(log) :
          LastOf(k, Len(log)) /\ Hit(k).phase \in Telling /\ Hit(k).progress >= 99
    BY <1>0, <1>4 DEF VInv, ToldInv
  <1>6. phase = Hit(k).phase /\ progress >= Hit(k).progress /\ Hit(k).phase # "ready"
    BY <1>0, <1>3, <1>5 DEF VInv, ReadInv
  <1>7. phase = "server_checking"
    BY <1>5, <1>6 DEF Telling
  <1>8. progress >= 99
    <2>1. Hit(k).progress \in 0 .. 100
      <3>1. log \in Seq(LineType)
        BY AnalyzerTypes DEF VInv, IInv, TypeInv
      <3>2. log[k] \in LineType
        BY <3>1
      <3> QED  BY <3>2 DEF Hit, LineType
    <2> DEFINE p == Hit(k).progress
    <2>2. p \in 0 .. 100 /\ p >= 99 /\ progress >= p
      BY <1>5, <1>6, <2>1
    <2> HIDE DEF p
    <2> QED  BY <1>0, <2>2
  <1> QED  BY <1>3, <1>7, <1>8 DEF Confirmed, ServingTimesOut

(* The analyzer has stopped once the start has completed, and no engine of *)
(* a start that is given up had got so far.                                *)
LEMMA NoCompletedTakenBack ==
  ASSUME VInv, Next
  PROVE  ~CompletedTakenBack
  <1> SUFFICES ASSUME CompletedTakenBack PROVE FALSE
    OBVIOUS
  <1>0. /\ record.status = "completed" /\ record'.status # "completed"
        /\ pc \notin {"begin", "report"} /\ stage # "catchup" /\ ~termed'
    BY DEF CompletedTakenBack
  <1>1. ~Analyzes
    <2> SUFFICES ASSUME Analyzes PROVE FALSE
      OBVIOUS
    <2> QED  BY <1>0, AnalyzerWrites DEF VInv, IInv, EarlyInv
  <1>2. ~Begins
    BY <1>0 DEF Begins
  <1>3. CASE pc = "abort"
    <2>1. engine[1] = "none" /\ engine[2] = "none"
      BY <1>3 DEF VInv, IInv, StartInv, RestartInv
    <2> QED  BY <1>0, <1>3, <2>1 DEF VInv, IInv, StartInv, Past
  <1> QED  BY <1>0, <1>1, <1>2, <1>3, StageSteps

(* The verdict of the analyzer is fair where its probe reaches the engine: *)
(* it gives up none that serves (and was not told to end); and once it     *)
(* follows the log, what it or the script writes never takes back that the *)
(* start has completed, but for a crash, a signal or the next start        *)
(* (log_analyzer/log_analyzer.py:442-467, 499-640).                        *)
THEOREM AnalyzerIsFair == Spec => VerdictIsFair
  <1>1. VInv /\ [Next]_vars => [~ServingTimesOut /\ ~CompletedTakenBack]_vars
    BY NoServingTimesOut, NoCompletedTakenBack
  <1> QED  BY VInvInit, VInvNext, <1>1, PTL DEF Spec, VerdictIsFair
=============================================================================
