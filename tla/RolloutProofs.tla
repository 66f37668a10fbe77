----------------------------- MODULE RolloutProofs -----------------------------
(***************************************************************************)
(* Proofs about Rollout, for any number of workers, any topologies and all *)
(* limits.  The invariant IInv says besides the types where the master's   *)
(* thread is (Placed), which ranks are on their way to a worker (Ranked),  *)
(* who has registered (Met), and which workers have all they need (Done).  *)
(* Last comes how many steps the thread can still make (StepsLeft).        *)
(***************************************************************************)
EXTENDS Rollout, SequenceTheorems, FiniteSetTheorems, TLAPS

Busy == phase \in {"probe", "post", "answer"}
N == Len(WorkerIps)
RanksOf(w) == {r \in 1 .. N : WorkerIps[r] = w}

MasterTypes ==
  /\ nodeIps \in Topologies
  /\ phase \in {"script", "wait", "probe", "post", "answer",
                "finished", "gaveup", "failed"}
  /\ polls \in 0 .. MaxPolls
  /\ idx \in 1 .. (IF WorkerIps = <<>> THEN 1 ELSE N)
  /\ tries \in 0 .. (IF phase = "probe" THEN MaxProbes ELSE MaxTries) - 1
  /\ reply \in {"none", "ok", "error"}
  /\ failed \in 0 .. N
ApiTypes ==
  /\ apiUp \in BOOLEAN
  /\ apiCrashes \in 0 .. MaxApiRestarts
  /\ known \subseteq Workers
  /\ met \subseteq Workers
WorkerTypes ==
  /\ worker \in [Workers -> {"registering", "serving", "aborted"}]
  /\ restarts \in 0 .. Restarts
  /\ requests \in [Workers -> Seq(Nat)]
  /\ writing \in [Workers -> BOOLEAN]
FileTypes ==
  /\ file \in [Pods -> Scripts]
  /\ ran \in [Pods -> Scripts]

(* The thread goes through the workers in their order; a worker that       *)
(* writes has a request                                                    *)
Placed ==
  /\ phase \in {"script", "wait"} =>
       idx = 1 /\ failed = 0 /\ tries = 0 /\ polls < MaxPolls
  /\ phase = "wait" => N > 0
  /\ Busy => idx \in 1 .. N /\ failed < idx
  /\ \A w \in Workers : writing[w] => requests[w] # <<>>

(* What is on its way to a pod, on its volume or was run is of its rank    *)
Ranked ==
  /\ file[Master] \in {NoScript, 0} /\ ran[Master] \in {NoScript, 0}
  /\ \A w \in Workers :
       /\ \A i \in 1 .. Len(requests[w]) : requests[w][i] \in RanksOf(w)
       /\ file[w] \in RanksOf(w) \cup {NoScript, Torn}
       /\ ran[w] \in RanksOf(w) \cup {NoScript, Torn}

(* Whoever was listed once has registered, and nothing is sent before      *)
Met ==
  /\ known \subseteq met
  /\ Busy => ToStart \subseteq met
  /\ NoneBeforeAllMet

(* A worker with a whole script and nothing left to do                     *)
Done(w) == file[w] \in Nat /\ requests[w] = <<>>

AllDone ==
  /\ phase = "answer" /\ reply = "ok" => Done(Current)
  /\ Busy /\ failed = 0 => \A i \in 1 .. N : i < idx => Done(WorkerIps[i])
  /\ phase = "finished" /\ failed = 0 => \A i \in 1 .. N : Done(WorkerIps[i])

Types == MasterTypes /\ ApiTypes /\ WorkerTypes /\ FileTypes
IInv == Types /\ Placed /\ Ranked /\ Met /\ AllDone

----------------------------------------------------------------------------
LEMMA TypesAreTypeOK == Types <=> TypeOK
  BY DEF Types, TypeOK, MasterTypes, ApiTypes, WorkerTypes, FileTypes, N

LEMMA Constants ==
  /\ Master \notin Workers /\ Master \in Pods /\ Workers \subseteq Pods
  /\ MaxPolls \in Nat \ {0} /\ MaxProbes \in Nat \ {0} /\ MaxTries \in Nat \ {0}
  /\ MaxApiRestarts \in Nat /\ Restarts \in Nat
  BY RolloutAssumption DEF Pods

LEMMA Ips ==
  ASSUME nodeIps \in Topologies
  PROVE  /\ WorkerIps \in Seq(Workers) /\ N \in Nat
         /\ DOMAIN WorkerIps = 1 .. N
         /\ \A i \in 1 .. N : WorkerIps[i] \in Workers
         /\ \A i, j \in 1 .. N : WorkerIps[i] = WorkerIps[j] => i = j
         /\ WorkerIps = <<>> <=> N = 0
         /\ ToStart = {WorkerIps[i] : i \in 1 .. N}
  <1>1. /\ WorkerIps \in Seq(Workers)
        /\ \A i, j \in DOMAIN WorkerIps : WorkerIps[i] = WorkerIps[j] => i = j
    BY UniqueAssumption DEF WorkerIps, IsInjective
  <1>2. ToStart = {WorkerIps[i] : i \in DOMAIN WorkerIps}
    BY DEF ToStart, ToSet
  <1> HIDE DEF WorkerIps
  <1> QED  BY <1>1, <1>2 DEF N

(* The worker the thread is at                                             *)
LEMMA CurrentWorker ==
  ASSUME IInv, Busy
  PROVE  /\ Current \in Workers /\ idx \in 1 .. N /\ idx \in RanksOf(Current)
         /\ \A i \in 1 .. N : i < idx => WorkerIps[i] # Current
  <1>1. nodeIps \in Topologies /\ idx \in 1 .. N
    BY DEF IInv, Types, MasterTypes, Placed
  <1>2. idx \in Nat /\ N \in Nat
    BY <1>1, Ips
  <1> QED  BY <1>1, <1>2, Ips DEF Current, RanksOf

(* Everything that is said of workers and files stays true when only the   *)
(* master's variables or the registry's change                             *)
LEMMA RankedUntouched ==
  ASSUME Ranked, UNCHANGED <<nodeIps, requests, file, ran>>
  PROVE  Ranked'
  BY DEF Ranked, RanksOf, N, WorkerIps

LEMMA InitIInv == Init => IInv
  <1> SUFFICES ASSUME Init PROVE IInv
    OBVIOUS
  <1>1. Types
    <2>1. MasterTypes
      <3>1. nodeIps \in Topologies /\ N \in Nat /\ (WorkerIps = <<>> <=> N = 0)
        BY Ips DEF Init
      <3>2. idx \in 1 .. (IF WorkerIps = <<>> THEN 1 ELSE N)
        BY <3>1 DEF Init
      <3>3. tries \in 0 .. (IF phase = "probe" THEN MaxProbes ELSE MaxTries) - 1
        BY Constants DEF Init
      <3>4. failed \in 0 .. N /\ polls \in 0 .. MaxPolls
        BY <3>1, Constants DEF Init
      <3> QED  BY <3>1, <3>2, <3>3, <3>4 DEF Init, MasterTypes
    <2>2. ApiTypes
      <3>1. apiUp \in BOOLEAN
        BY DEF Init
      <3>2. apiCrashes \in 0 .. MaxApiRestarts
        BY Constants DEF Init
      <3> QED  BY <3>1, <3>2 DEF Init, ApiTypes
    <2>3. WorkerTypes
      <3>1. <<>> \in Seq(Nat)
        OBVIOUS
      <3>2. requests \in [Workers -> Seq(Nat)]
        BY <3>1 DEF Init
      <3> QED  BY <3>2, Constants DEF Init, WorkerTypes
    <2>4. FileTypes
      BY DEF Init, FileTypes, Scripts
    <2> QED  BY <2>1, <2>2, <2>3, <2>4 DEF Types
  <1>2. Placed
    BY Constants DEF Init, Placed, Busy
  <1>3. Ranked
    BY Constants DEF Init, Ranked
  <1>4. Met
    BY Constants DEF Init, Met, NoneBeforeAllMet, Busy
  <1>5. AllDone
    BY DEF Init, AllDone, Busy
  <1> QED  BY <1>1, <1>2, <1>3, <1>4, <1>5 DEF IInv

----------------------------------------------------------------------------
(***************************************************************************)
(* The master's thread.                                                    *)
(***************************************************************************)
LEMMA SameIps ==
  ASSUME UNCHANGED nodeIps
  PROVE  /\ WorkerIps' = WorkerIps /\ N' = N /\ ToStart' = ToStart
         /\ \A w : RanksOf(w)' = RanksOf(w)
  BY DEF WorkerIps, N, ToStart, RanksOf

GoesOn(max, again) == NextWorker(0) \/ TryAgain(max, again)

(* What a step to the same or the next worker does to the thread           *)
LEMMA ThreadGoesOn ==
  ASSUME IInv, Busy, UNCHANGED <<nodeIps, polls>>,
         reply' \in {"none", "ok", "error"},
         NEW again \in {"probe", "post"},
         GoesOn(IF again = "probe" THEN MaxProbes ELSE MaxTries, again)
  PROVE  /\ MasterTypes'
         /\ phase' \in {"probe", "post", "finished"}
         /\ phase' # "finished" => idx' \in 1 .. N /\ failed' < idx'
  <1> DEFINE max == IF again = "probe" THEN MaxProbes ELSE MaxTries
  <1>1. /\ nodeIps \in Topologies /\ polls \in 0 .. MaxPolls
        /\ idx \in 1 .. N /\ failed \in 0 .. N /\ failed < idx /\ tries \in Int
        /\ tries >= 0
    BY Constants DEF IInv, Types, MasterTypes, Placed
  <1>2. N \in Nat /\ (WorkerIps = <<>> <=> N = 0) /\ WorkerIps' = WorkerIps /\ N' = N
    BY <1>1, Ips, SameIps
  <1>3. max \in Nat \ {0}
    BY Constants
  <1>4. CASE \E f \in {0, 1} : NextWorker(f)
    <2>1. PICK f \in {0, 1} : NextWorker(f)
      BY <1>4
    <2>2. failed' = failed + f /\ tries' = 0
      BY <2>1 DEF NextWorker
    <2>3. \/ idx < N /\ idx' = idx + 1 /\ phase' = "probe"
          \/ idx = N /\ idx' = idx /\ phase' = "finished"
      BY <2>1, <1>1, <1>2 DEF NextWorker, N
    <2>4. tries' \in 0 .. (IF phase' = "probe" THEN MaxProbes ELSE MaxTries) - 1
      BY <2>2, Constants
    <2>5. failed' \in 0 .. N
      BY <2>2, <1>1, <1>2
    <2>6. idx' \in 1 .. (IF WorkerIps' = <<>> THEN 1 ELSE N')
      BY <2>3, <1>1, <1>2
    <2>7. MasterTypes'
      BY <1>1, <1>2, <2>3, <2>4, <2>5, <2>6 DEF MasterTypes
    <2> QED  BY <2>2, <2>3, <2>7, <1>1, <1>2
  <1>5. CASE /\ tries + 1 < max /\ tries' = tries + 1 /\ phase' = again
             /\ UNCHANGED <<failed, idx>>
    <2>1. tries' \in 0 .. (IF phase' = "probe" THEN MaxProbes ELSE MaxTries) - 1
      BY <1>1, <1>5, Constants
    <2>2. idx' \in 1 .. (IF WorkerIps' = <<>> THEN 1 ELSE N')
      BY <1>1, <1>2, <1>5
    <2>3. MasterTypes'
      BY <1>1, <1>2, <1>5, <2>1, <2>2 DEF MasterTypes
    <2> QED  BY <1>1, <1>5, <2>3
  <1> QED  BY <1>4, <1>5 DEF GoesOn, TryAgain

(* Only a worker that is done is left without a failure                    *)
LEMMA LeavesDone ==
  ASSUME IInv, Busy, UNCHANGED <<nodeIps, file, requests>>,
         NEW again \in {"probe", "post"}, NEW max,
         \/ NextWorker(0) /\ Done(Current)
         \/ TryAgain(max, again)
  PROVE  AllDone'
  <1>1. N \in Nat /\ WorkerIps' = WorkerIps /\ N' = N
    BY Ips, SameIps DEF IInv, Types, MasterTypes
  <1>2. \A w : Done(w)' <=> Done(w)
    BY DEF Done
  <1>3. idx \in 1 .. N /\ failed \in Nat
    BY <1>1 DEF IInv, Types, MasterTypes, Placed
  <1>4. failed = 0 => \A i \in 1 .. N : i < idx => Done(WorkerIps[i])
    BY DEF IInv, AllDone
  <1>5. CASE NextWorker(0) /\ Done(Current)
    <2>1. /\ failed' = failed
          /\ \/ idx < N /\ idx' = idx + 1 /\ phase' = "probe"
             \/ idx = N /\ idx' = idx /\ phase' = "finished"
      BY <1>5, <1>1, <1>3 DEF NextWorker, N
    <2>2. failed = 0 => \A i \in 1 .. N : i <= idx => Done(WorkerIps[i])
      BY <1>5, <1>3, <1>4 DEF Current
    <2> QED  BY <2>1, <2>2, <1>1, <1>2, <1>3 DEF AllDone, Busy
  <1>6. CASE NextWorker(1)
    <2>1. failed' # 0 /\ phase' \in {"probe", "finished"}
      BY <1>6, <1>3 DEF NextWorker
    <2> QED  BY <2>1 DEF AllDone
  <1>7. CASE phase' = again /\ UNCHANGED <<failed, idx>>
    BY <1>7, <1>1, <1>2, <1>4 DEF AllDone, Busy
  <1> QED  BY <1>5, <1>6, <1>7 DEF TryAgain

LEMMA LaunchKeeps == IInv /\ LaunchMaster => IInv'
  <1> SUFFICES ASSUME IInv, LaunchMaster PROVE IInv'
    OBVIOUS
  <1>1. /\ phase = "script" /\ phase' \in {"finished", "wait", "failed"}
        /\ phase' = "finished" => WorkerIps = <<>>
        /\ phase' = "wait" => WorkerIps # <<>>
        /\ UNCHANGED <<nodeIps, polls, idx, tries, reply, failed,
                       apiCrashes, known, met, worker, restarts, requests, writing, ran>>
    BY DEF LaunchMaster, workerVars
  <1>2. file' = [file EXCEPT ![Master] = 0] \/ file' = file
    BY DEF LaunchMaster
  <1>3. WorkerIps' = WorkerIps /\ N' = N /\ N \in Nat /\ (WorkerIps = <<>> <=> N = 0)
    BY <1>1, Ips, SameIps DEF IInv, Types, MasterTypes
  <1>4. apiUp' \in BOOLEAN
    BY DEF LaunchMaster, IInv, Types, ApiTypes
  <1>5. file' \in [Pods -> Scripts] /\ file'[Master] \in {NoScript, 0}
        /\ \A w \in Workers : file'[w] = file[w]
    BY <1>2, Constants DEF IInv, Types, FileTypes, Ranked, Scripts
  <1>6. tries' \in 0 .. (IF phase' = "probe" THEN MaxProbes ELSE MaxTries) - 1
    BY <1>1, Constants DEF IInv, Placed
  <1>7. Types'
    <2>1. MasterTypes'
      BY <1>1, <1>3, <1>6 DEF IInv, Types, MasterTypes
    <2>2. ApiTypes'
      BY <1>1, <1>4 DEF IInv, Types, ApiTypes
    <2>3. WorkerTypes' /\ FileTypes'
      BY <1>1, <1>5 DEF IInv, Types, WorkerTypes, FileTypes
    <2> QED  BY <2>1, <2>2, <2>3 DEF Types
  <1>8. Placed'
    BY <1>1, <1>3 DEF IInv, Placed, Busy
  <1>9. Ranked'
    BY <1>1, <1>5, SameIps DEF IInv, Ranked
  <1>10. Met'
    <2>1. (\E w \in Workers : requests'[w] # <<>> \/ file'[w] # NoScript)
             => ToStart' \subseteq met'
      BY <1>1, <1>5, SameIps DEF IInv, Met, NoneBeforeAllMet
    <2> QED  BY <1>1, <2>1 DEF IInv, Met, NoneBeforeAllMet, Busy
  <1>11. AllDone'
    BY <1>1, <1>3 DEF AllDone, Busy
  <1> QED  BY <1>7, <1>8, <1>9, <1>10, <1>11 DEF IInv

LEMMA PollKeeps == IInv /\ Poll => IInv'
  <1> SUFFICES ASSUME IInv, Poll PROVE IInv'
    OBVIOUS
  <1>1. /\ phase = "wait" /\ phase' \in {"probe", "gaveup", "wait"}
        /\ UNCHANGED <<nodeIps, idx, tries, reply, failed, apiUp, apiCrashes, known, met,
                       worker, restarts, requests, writing, file, ran>>
    BY DEF Poll, workerVars, apiVars
  <1>2. \/ phase' = "probe" /\ polls' = polls /\ ToStart \subseteq known
        \/ phase' # "probe" /\ polls' = polls + 1 /\ (phase' = "wait" => polls' # MaxPolls)
    BY DEF Poll, AllRegistered
  <1>3. /\ idx = 1 /\ failed = 0 /\ tries = 0 /\ polls \in 0 .. MaxPolls /\ polls < MaxPolls
        /\ known \subseteq met /\ nodeIps \in Topologies
    BY <1>1 DEF IInv, Placed, Types, MasterTypes, Met
  <1>4. polls' \in 0 .. MaxPolls /\ (phase' = "wait" => polls' < MaxPolls)
    BY <1>2, <1>3, Constants
  <1>5. WorkerIps' = WorkerIps /\ N' = N /\ N \in Nat /\ ToStart' = ToStart
        /\ (WorkerIps = <<>> <=> N = 0)
    BY <1>1, <1>3, Ips, SameIps
  <1>6. tries' \in 0 .. (IF phase' = "probe" THEN MaxProbes ELSE MaxTries) - 1
    BY <1>1, <1>3, Constants
  <1>7. Types'
    <2>1. MasterTypes'
      BY <1>1, <1>4, <1>5, <1>6 DEF IInv, Types, MasterTypes
    <2>2. ApiTypes' /\ WorkerTypes' /\ FileTypes'
      BY <1>1 DEF IInv, Types, ApiTypes, WorkerTypes, FileTypes
    <2> QED  BY <2>1, <2>2 DEF Types
  <1>8. Placed'
    BY <1>1, <1>3, <1>4, <1>5 DEF IInv, Placed, Busy
  <1>9. Ranked'
    BY <1>1, RankedUntouched DEF IInv
  <1>10. Met'
    BY <1>1, <1>2, <1>3, <1>5 DEF IInv, Met, NoneBeforeAllMet, Busy
  <1>11. AllDone'
    BY <1>1, <1>3, <1>5 DEF AllDone, Busy
  <1> QED  BY <1>7, <1>8, <1>9, <1>10, <1>11 DEF IInv

(* A step of the busy thread that touches nothing else                     *)
LEMMA BusyKeeps ==
  ASSUME IInv, Busy, UNCHANGED <<nodeIps, polls, apiUp, apiCrashes, known, met,
                                 worker, restarts, requests, writing, file, ran>>,
         MasterTypes', AllDone',
         phase' \in {"probe", "post", "finished"},
         phase' # "finished" => idx' \in 1 .. N /\ failed' < idx'
  PROVE  IInv'
  <1>1. N' = N /\ ToStart' = ToStart
    BY SameIps
  <1>2. Types'
    BY DEF IInv, Types, ApiTypes, WorkerTypes, FileTypes
  <1>3. Placed'
    BY <1>1 DEF IInv, Placed, Busy
  <1>4. Ranked'
    BY RankedUntouched DEF IInv
  <1>5. Met'
    BY <1>1 DEF IInv, Met, NoneBeforeAllMet, Busy
  <1> QED  BY <1>2, <1>3, <1>4, <1>5 DEF IInv

LEMMA ProbeKeeps == IInv /\ Probe => IInv'
  <1> SUFFICES ASSUME IInv, Probe PROVE IInv'
    OBVIOUS
  <1>1. /\ Busy /\ phase = "probe"
        /\ UNCHANGED <<nodeIps, polls, reply, apiUp, apiCrashes, known, met,
                       worker, restarts, requests, writing, file, ran>>
    BY DEF Probe, Busy, workerVars, apiVars
  <1>2. CASE TryAgain(MaxProbes, "probe")
    <2>1. /\ MasterTypes' /\ phase' \in {"probe", "post", "finished"}
          /\ phase' # "finished" => idx' \in 1 .. N /\ failed' < idx'
      <3>1. reply' \in {"none", "ok", "error"}
        BY <1>1 DEF IInv, Types, MasterTypes
      <3>2. GoesOn(IF "probe" = "probe" THEN MaxProbes ELSE MaxTries, "probe")
        BY <1>2 DEF GoesOn
      <3> QED  BY <1>1, <3>1, <3>2, ThreadGoesOn
    <2>2. AllDone'
      BY <1>1, <1>2, LeavesDone
    <2> QED  BY <1>1, <2>1, <2>2, BusyKeeps
  <1>3. CASE phase' = "post" /\ tries' = 0 /\ UNCHANGED <<idx, failed>>
    <2>1. /\ idx \in 1 .. N /\ failed < idx /\ N' = N /\ WorkerIps' = WorkerIps
      BY <1>1, SameIps DEF IInv, Placed
    <2>2. tries' \in 0 .. (IF phase' = "probe" THEN MaxProbes ELSE MaxTries) - 1
      BY <1>3, Constants
    <2>3. MasterTypes'
      BY <1>1, <1>3, <2>1, <2>2 DEF IInv, Types, MasterTypes
    <2>4. AllDone'
      BY <1>1, <1>3, <2>1 DEF IInv, AllDone, Done, Busy
    <2> QED  BY <1>1, <1>3, <2>1, <2>3, <2>4, BusyKeeps
  <1> QED  BY <1>2, <1>3 DEF Probe

LEMMA AnswerKeeps == IInv /\ Answer => IInv'
  <1> SUFFICES ASSUME IInv, Answer PROVE IInv'
    OBVIOUS
  <1>1. /\ Busy /\ phase = "answer" /\ reply' = "none"
        /\ UNCHANGED <<nodeIps, polls, apiUp, apiCrashes, known, met,
                       worker, restarts, requests, writing, file, ran>>
    BY DEF Answer, Busy, workerVars, apiVars
  <1>2. \/ NextWorker(0) /\ Done(Current)
        \/ TryAgain(MaxTries, "post")
    BY <1>1 DEF Answer, IInv, AllDone
  <1>3. /\ MasterTypes' /\ phase' \in {"probe", "post", "finished"}
        /\ phase' # "finished" => idx' \in 1 .. N /\ failed' < idx'
    <2>1. GoesOn(IF "post" = "probe" THEN MaxProbes ELSE MaxTries, "post")
      BY <1>2 DEF GoesOn
    <2> QED  BY <1>1, <2>1, ThreadGoesOn
  <1>4. AllDone'
    BY <1>1, <1>2, LeavesDone
  <1> QED  BY <1>1, <1>3, <1>4, BusyKeeps

LEMMA PostKeeps == IInv /\ Post => IInv'
  <1> SUFFICES ASSUME IInv, Post PROVE IInv'
    OBVIOUS
  <1>1. /\ Busy /\ phase = "post"
        /\ UNCHANGED <<nodeIps, polls, apiUp, apiCrashes, known, met,
                       worker, restarts, writing, file, ran>>
    BY DEF Post, Busy, apiVars
  <1>2. CASE TryAgain(MaxTries, "post") /\ UNCHANGED <<requests, reply>>
    <2>1. /\ MasterTypes' /\ phase' \in {"probe", "post", "finished"}
          /\ phase' # "finished" => idx' \in 1 .. N /\ failed' < idx'
      <3>1. reply' \in {"none", "ok", "error"}
        BY <1>2 DEF IInv, Types, MasterTypes
      <3>2. GoesOn(IF "post" = "probe" THEN MaxProbes ELSE MaxTries, "post")
        BY <1>2 DEF GoesOn
      <3> QED  BY <1>1, <3>1, <3>2, ThreadGoesOn
    <2>2. AllDone'
      BY <1>1, <1>2, LeavesDone
    <2> QED  BY <1>1, <1>2, <2>1, <2>2, BusyKeeps
  <1>3. CASE /\ requests' = [requests EXCEPT ![Current] = Append(@, Rank(idx))]
             /\ phase' = "answer" /\ reply' = "none" /\ UNCHANGED <<idx, tries, failed>>
    <2>1. /\ N' = N /\ WorkerIps' = WorkerIps /\ ToStart' = ToStart
          /\ \A w : RanksOf(w)' = RanksOf(w)
      BY <1>1, SameIps
    <2>2. /\ Current \in Workers /\ idx \in 1 .. N /\ idx \in RanksOf(Current)
          /\ \A i \in 1 .. N : i < idx => WorkerIps[i] # Current
      BY <1>1, CurrentWorker
    <2>3. requests \in [Workers -> Seq(Nat)] /\ N \in Nat /\ idx \in Nat
      BY <2>2, Ips DEF IInv, Types, WorkerTypes, MasterTypes
    <2>4. /\ requests' \in [Workers -> Seq(Nat)]
          /\ requests'[Current] = Append(requests[Current], idx)
          /\ \A w \in Workers : w # Current => requests'[w] = requests[w]
      BY <1>3, <2>2, <2>3 DEF Rank
    <2>5. Types'
      <3>1. MasterTypes'
        BY <1>1, <1>3, <2>1 DEF IInv, Types, MasterTypes
      <3> QED  BY <1>1, <2>4, <3>1 DEF IInv, Types, ApiTypes, WorkerTypes, FileTypes
    <2>6. Placed'
      <3>1. \A w \in Workers : requests[w] # <<>> => requests'[w] # <<>>
        BY <2>2, <2>3, <2>4
      <3> QED  BY <1>1, <1>3, <2>1, <3>1 DEF IInv, Placed, Busy
    <2>7. Ranked'
      <3>1. ASSUME NEW w \in Workers, NEW i \in 1 .. Len(requests'[w])
            PROVE  requests'[w][i] \in RanksOf(w)
        <4>1. \A j \in 1 .. Len(requests[w]) : requests[w][j] \in RanksOf(w)
          BY DEF IInv, Ranked
        <4>2. CASE w = Current
          BY <4>1, <4>2, <2>2, <2>3, <2>4
        <4>3. CASE w # Current
          BY <4>1, <4>3, <2>4
        <4> QED  BY <4>2, <4>3
      <3> QED  BY <1>1, <2>1, <3>1 DEF IInv, Ranked
    <2>8. Met'
      BY <1>1, <1>3, <2>1 DEF IInv, Met, NoneBeforeAllMet, Busy
    <2>9. AllDone'
      <3>1. failed = 0 => \A i \in 1 .. N : i < idx => Done(WorkerIps[i])
        BY <1>1 DEF IInv, AllDone
      <3>2. \A w \in Workers : w # Current /\ Done(w) => Done(w)'
        BY <1>1, <2>4 DEF Done
      <3>3. \A i \in 1 .. N : WorkerIps[i] \in Workers
        BY Ips DEF IInv, Types, MasterTypes
      <3>4. failed' = 0 => \A i \in 1 .. N : i < idx => Done(WorkerIps[i])'
        BY <1>3, <2>1, <2>2, <3>1, <3>2, <3>3 DEF Done
      <3> QED  BY <1>3, <2>1, <3>4 DEF AllDone, Done
    <2> QED  BY <2>5, <2>6, <2>7, <2>8, <2>9 DEF IInv
  <1> QED  BY <1>2, <1>3 DEF Post

----------------------------------------------------------------------------
(***************************************************************************)
(* The API, the registry and the workers.                                  *)
(***************************************************************************)
LEMMA ApiKeeps ==
  ASSUME IInv, ApiCrashes \/ ApiStarts
  PROVE  IInv'
  <1>1. UNCHANGED <<nodeIps, phase, polls, idx, tries, reply, failed, known, met,
                    worker, restarts, requests, writing, file, ran>>
    BY DEF ApiCrashes, ApiStarts, threadVars, workerVars
  <1>2. apiUp' \in BOOLEAN
    BY DEF ApiCrashes, ApiStarts
  <1>3. apiCrashes' \in 0 .. MaxApiRestarts
    BY Constants DEF ApiCrashes, ApiStarts, IInv, Types, ApiTypes
  <1>4. N' = N /\ WorkerIps' = WorkerIps /\ ToStart' = ToStart
    BY <1>1, SameIps
  <1>5. Types'
    BY <1>1, <1>2, <1>3, <1>4 DEF IInv, Types, MasterTypes, ApiTypes, WorkerTypes, FileTypes
  <1>6. Ranked'
    BY <1>1, RankedUntouched DEF IInv
  <1> QED  BY <1>1, <1>4, <1>5, <1>6
           DEF IInv, Placed, Met, NoneBeforeAllMet, AllDone, Done, Busy, Current

LEMMA RegistryKeeps ==
  ASSUME IInv, NEW w \in Workers, Registers(w) \/ Aborts(w) \/ IsRemoved(w)
  PROVE  IInv'
  <1>1. UNCHANGED <<nodeIps, phase, polls, idx, tries, reply, failed, apiUp, apiCrashes,
                    restarts, requests, writing, file, ran>>
    BY DEF Registers, Aborts, IsRemoved, threadVars, apiVars, workerVars
  <1>2. worker' \in [Workers -> {"registering", "serving", "aborted"}]
    BY DEF Registers, Aborts, IsRemoved, workerVars, IInv, Types, WorkerTypes
  <1>3. known' \subseteq met' /\ met \subseteq met' /\ met' \subseteq Workers
    BY DEF Registers, Aborts, IsRemoved, apiVars, IInv, Types, ApiTypes, Met
  <1>4. N' = N /\ WorkerIps' = WorkerIps /\ ToStart' = ToStart
    BY <1>1, SameIps
  <1>5. Types'
    BY <1>1, <1>2, <1>3, <1>4 DEF IInv, Types, MasterTypes, ApiTypes, WorkerTypes, FileTypes
  <1>6. Ranked'
    BY <1>1, RankedUntouched DEF IInv
  <1>7. Met'
    BY <1>1, <1>3, <1>4 DEF IInv, Met, NoneBeforeAllMet, Busy
  <1> QED  BY <1>1, <1>4, <1>5, <1>6, <1>7 DEF IInv, Placed, AllDone, Done, Busy, Current

(* The requests that a worker has still to serve after one of its steps    *)
Fewer(w) ==
  \/ requests' = requests
  \/ requests[w] # <<>> /\ requests' = [requests EXCEPT ![w] = Tail(@)]
  \/ requests' = [requests EXCEPT ![w] = <<>>]

LEMMA FewerRequests ==
  ASSUME IInv, NEW w \in Workers, Fewer(w), UNCHANGED nodeIps
  PROVE  /\ requests' \in [Workers -> Seq(Nat)]
         /\ \A v \in Workers : v # w => requests'[v] = requests[v]
         /\ \A v \in Workers : requests'[v] # <<>> => requests[v] # <<>>
         /\ \A v \in Workers : \A i \in 1 .. Len(requests'[v]) :
               requests'[v][i] \in RanksOf(v)
  <1>1. requests \in [Workers -> Seq(Nat)]
    BY DEF IInv, Types, WorkerTypes
  <1>2. \A v \in Workers : \A i \in 1 .. Len(requests[v]) : requests[v][i] \in RanksOf(v)
    BY DEF IInv, Ranked
  <1>3. CASE requests' = requests
    BY <1>1, <1>2, <1>3
  <1>4. CASE requests[w] # <<>> /\ requests' = [requests EXCEPT ![w] = Tail(@)]
    <2>1. requests[w] \in Seq(Nat) /\ requests[w] # <<>>
      BY <1>1, <1>4
    <2>2. /\ Tail(requests[w]) \in Seq(Nat)
          /\ Len(Tail(requests[w])) = Len(requests[w]) - 1
          /\ \A i \in 1 .. Len(Tail(requests[w])) :
                Tail(requests[w])[i] = requests[w][i + 1] /\ i + 1 \in 1 .. Len(requests[w])
      BY <2>1
    <2>3. /\ requests' \in [Workers -> Seq(Nat)]
          /\ requests'[w] = Tail(requests[w])
          /\ \A v \in Workers : v # w => requests'[v] = requests[v]
      BY <1>1, <1>4, <2>2
    <2>4. ASSUME NEW v \in Workers
          PROVE  \A i \in 1 .. Len(requests'[v]) : requests'[v][i] \in RanksOf(v)
      <3>1. CASE v = w
        BY <1>2, <2>2, <2>3, <3>1
      <3>2. CASE v # w
        BY <1>2, <2>3, <3>2
      <3> QED  BY <3>1, <3>2
    <2>5. \A v \in Workers : requests'[v] # <<>> => requests[v] # <<>>
      BY <2>1, <2>3
    <2> QED  BY <2>3, <2>4, <2>5
  <1>5. CASE requests' = [requests EXCEPT ![w] = <<>>]
    <2>1. <<>> \in Seq(Nat) /\ Len(<<>>) = 0
      OBVIOUS
    <2>2. /\ requests' \in [Workers -> Seq(Nat)]
          /\ requests'[w] = <<>>
          /\ \A v \in Workers : v # w => requests'[v] = requests[v]
      BY <1>1, <1>5, <2>1
    <2>3. ASSUME NEW v \in Workers, NEW i \in 1 .. Len(requests'[v])
          PROVE  requests'[v][i] \in RanksOf(v)
      <3>1. CASE v = w
        <4>1. Len(requests'[v]) = 0
          BY <2>1, <2>2, <3>1
        <4> QED  BY <4>1
      <3>2. CASE v # w
        <4>1. requests'[v] = requests[v]
          BY <2>2, <3>2
        <4> QED  BY <1>2, <4>1
      <3> QED  BY <3>1, <3>2
    <2>4. ASSUME NEW v \in Workers, requests'[v] # <<>>
          PROVE  requests[v] # <<>>
      <3>1. v # w
        BY <2>2, <2>4
      <3> QED  BY <2>2, <2>4, <3>1
    <2> QED  BY <2>2, <2>3, <2>4
  <1> QED  BY <1>3, <1>4, <1>5 DEF Fewer

(* A step of a worker: it has fewer requests or as many, its file is torn  *)
(* or for a rank of its, and the thread learns at most that all is done    *)
LEMMA WorkerKeeps ==
  ASSUME IInv, NEW w \in Workers, Fewer(w),
         UNCHANGED <<nodeIps, phase, polls, idx, tries, failed, apiVars, ran>>,
         worker' \in [Workers -> {"registering", "serving", "aborted"}],
         restarts' \in 0 .. Restarts,
         writing' \in [Workers -> BOOLEAN],
         \A v \in Workers : writing'[v] => requests'[v] # <<>>,
         file' = file \/
           (requests[w] # <<>> /\
             \E f \in RanksOf(w) \cup {Torn} : file' = [file EXCEPT ![w] = f]),
         reply' \in {"none", "ok", "error"},
         reply' = "ok" /\ phase = "answer" => Done(Current) \/ Done(Current)'
  PROVE  IInv'
  <1>1. /\ N' = N /\ WorkerIps' = WorkerIps /\ ToStart' = ToStart
        /\ \A v : RanksOf(v)' = RanksOf(v)
    BY SameIps
  <1>2. N \in Nat /\ \A i \in 1 .. N : WorkerIps[i] \in Workers
    BY Ips DEF IInv, Types, MasterTypes
  <1>3. RanksOf(w) \subseteq Nat
    BY <1>2 DEF RanksOf
  <1>4. file \in [Pods -> Scripts] /\ w \in Pods /\ w # Master
    BY Constants DEF IInv, Types, FileTypes
  <1>5. /\ file' \in [Pods -> Scripts]
        /\ \A p \in Pods : p # w => file'[p] = file[p]
        /\ file'[w] \in RanksOf(w) \cup {NoScript, Torn}
        /\ requests[w] = <<>> => file' = file
    <2>1. CASE file' = file
      BY <2>1, <1>4 DEF IInv, Ranked
    <2>2. CASE requests[w] # <<>> /\
               \E f \in RanksOf(w) \cup {Torn} : file' = [file EXCEPT ![w] = f]
      BY <2>2, <1>3, <1>4 DEF Scripts
    <2> QED  BY <2>1, <2>2
  <1>6. /\ requests' \in [Workers -> Seq(Nat)]
        /\ \A v \in Workers : v # w => requests'[v] = requests[v]
        /\ \A v \in Workers : requests'[v] # <<>> => requests[v] # <<>>
        /\ \A v \in Workers : \A i \in 1 .. Len(requests'[v]) :
              requests'[v][i] \in RanksOf(v)
    BY FewerRequests
  <1>7. Types'
    <2>1. MasterTypes'
      BY <1>1 DEF IInv, Types, MasterTypes
    <2>2. ApiTypes' /\ WorkerTypes' /\ FileTypes'
      BY <1>5, <1>6 DEF IInv, Types, ApiTypes, WorkerTypes, FileTypes, apiVars
    <2> QED  BY <2>1, <2>2 DEF Types
  <1>8. Placed'
    BY <1>1 DEF IInv, Placed, Busy
  <1>9. Ranked'
    BY <1>1, <1>4, <1>5, <1>6, Constants DEF IInv, Ranked
  <1>10. Met'
    <2>1. \A v \in Workers : requests'[v] # <<>> \/ file'[v] # NoScript =>
            \E u \in Workers : requests[u] # <<>> \/ file[u] # NoScript
      BY <1>5, <1>6, Constants
    <2>2. NoneBeforeAllMet'
      BY <2>1, <1>1 DEF IInv, Met, NoneBeforeAllMet, apiVars
    <2> QED  BY <1>1, <2>2 DEF IInv, Met, Busy, apiVars
  <1>11. \A v \in Workers : Done(v) => Done(v)'
    BY <1>5, <1>6, Constants DEF Done
  <1>12. AllDone'
    <2>1. phase' = "answer" /\ reply' = "ok" => Done(Current)'
      <3>1. phase = "answer" => Current \in Workers
        BY CurrentWorker DEF Busy
      <3>2. Current' = Current
        BY <1>1 DEF Current
      <3> QED  BY <3>1, <3>2, <1>11 DEF Done
    <2> QED  BY <2>1, <1>1, <1>2, <1>11 DEF IInv, AllDone, Busy, Done
  <1> QED  BY <1>7, <1>8, <1>9, <1>10, <1>12 DEF IInv

(* The steps of a worker *)
LEMMA WorkerSteps ==
  ASSUME IInv, NEW w \in Workers,
         \/ BuildFails(w) \/ OpenScript(w) \/ WriteScript(w)
         \/ DropAbandoned(w) \/ WorkerRestarts(w)
  PROVE  IInv'
  <1>1. /\ worker \in [Workers -> {"registering", "serving", "aborted"}]
        /\ restarts \in 0 .. Restarts /\ requests \in [Workers -> Seq(Nat)]
        /\ writing \in [Workers -> BOOLEAN] /\ file \in [Pods -> Scripts]
        /\ reply \in {"none", "ok", "error"}
        /\ \A v \in Workers : writing[v] => requests[v] # <<>>
        /\ phase = "answer" /\ reply = "ok" => Done(Current)
        /\ w \in Pods
    BY Constants DEF IInv, Types, MasterTypes, WorkerTypes, FileTypes, Placed, AllDone
  <1>2. CASE BuildFails(w)
    <2>1. /\ requests[w] # <<>> /\ ~writing[w]
          /\ requests' = [requests EXCEPT ![w] = Tail(@)]
          /\ UNCHANGED <<nodeIps, phase, polls, idx, tries, failed, apiVars, worker,
                         restarts, writing, file, ran>>
          /\ reply' \in {reply, "error"}
      BY <1>2 DEF BuildFails, Finish
    <2>2. \A v \in Workers : writing'[v] => requests'[v] # <<>>
      BY <1>1, <2>1
    <2> QED  BY <1>1, <2>1, <2>2, WorkerKeeps DEF Fewer
  <1>3. CASE OpenScript(w)
    <2>1. /\ requests[w] # <<>> /\ writing' = [writing EXCEPT ![w] = TRUE]
          /\ file' = [file EXCEPT ![w] = Torn]
          /\ UNCHANGED <<nodeIps, phase, polls, idx, tries, failed, apiVars, worker,
                         restarts, requests, ran, reply>>
      BY <1>3 DEF OpenScript, threadVars
    <2>2. \A v \in Workers : writing'[v] => requests'[v] # <<>>
      BY <1>1, <2>1
    <2> QED  BY <1>1, <2>1, <2>2, WorkerKeeps DEF Fewer
  <1>4. CASE WriteScript(w)
    <2>1. /\ writing[w] /\ writing' = [writing EXCEPT ![w] = FALSE]
          /\ requests' = [requests EXCEPT ![w] = Tail(@)]
          /\ \/ file' = [file EXCEPT ![w] = requests[w][1]] /\
                (reply' = IF Awaited(w) THEN "ok" ELSE reply)
             \/ file' = file /\ reply' \in {"error", reply}
          /\ UNCHANGED <<nodeIps, phase, polls, idx, tries, failed, apiVars, worker,
                         restarts, ran>>
      BY <1>4 DEF WriteScript, Finish
    <2>2. requests[w] # <<>> /\ Len(requests[w]) \in Nat /\ requests[w][1] \in RanksOf(w)
      <3>1. requests[w] \in Seq(Nat) /\ requests[w] # <<>>
        BY <1>1, <2>1
      <3>2. 1 \in 1 .. Len(requests[w])
        BY <3>1
      <3> QED  BY <3>1, <3>2 DEF IInv, Ranked
    <2>3. \A v \in Workers : writing'[v] => requests'[v] # <<>>
      BY <1>1, <2>1
    <2>4. file' = file \/ (requests[w] # <<>> /\
            \E f \in RanksOf(w) \cup {Torn} : file' = [file EXCEPT ![w] = f])
      BY <2>1, <2>2
    <2>5. reply' \in {"none", "ok", "error"}
      BY <1>1, <2>1
    <2>6. reply' = "ok" /\ phase = "answer" => Done(Current) \/ Done(Current)'
      <3>1. ASSUME file' = [file EXCEPT ![w] = requests[w][1]], Awaited(w)
            PROVE  Done(Current)'
        <4>1. Current' = w /\ Len(requests[w]) = 1
          BY <2>1, <3>1, SameIps DEF Awaited, Current
        <4>2. Tail(requests[w]) = <<>>
          <5>1. requests[w] \in Seq(Nat) /\ requests[w] # <<>>
            BY <1>1, <2>2
          <5>2. Tail(requests[w]) \in Seq(Nat) /\ Len(Tail(requests[w])) = 0
            BY <4>1, <5>1
          <5> QED  BY <5>2, EmptySeq
        <4>3. requests'[w] = <<>>
          BY <4>2, <2>1, <1>1
        <4>4. N \in Nat
          BY Ips DEF IInv, Types, MasterTypes
        <4>5. file'[w] \in Nat
          BY <3>1, <1>1, <2>2, <4>4 DEF RanksOf
        <4> QED  BY <4>1, <4>3, <4>5 DEF Done
      <3> QED  BY <1>1, <2>1, <3>1
    <2> QED  BY <1>1, <2>1, <2>3, <2>4, <2>5, <2>6, WorkerKeeps DEF Fewer
  <1>5. CASE DropAbandoned(w)
    <2>1. /\ requests[w] # <<>> /\ ~writing[w]
          /\ requests' = [requests EXCEPT ![w] = Tail(@)]
          /\ UNCHANGED <<nodeIps, phase, polls, idx, tries, failed, apiVars, worker,
                         restarts, writing, file, ran, reply>>
      BY <1>5 DEF DropAbandoned, threadVars
    <2>2. \A v \in Workers : writing'[v] => requests'[v] # <<>>
      BY <1>1, <2>1
    <2> QED  BY <1>1, <2>1, <2>2, WorkerKeeps DEF Fewer
  <1>6. CASE WorkerRestarts(w)
    <2>1. /\ requests' = [requests EXCEPT ![w] = <<>>]
          /\ worker' = [worker EXCEPT ![w] = "registering"]
          /\ writing' = [writing EXCEPT ![w] = FALSE]
          /\ restarts' = restarts + 1 /\ restarts < Restarts
          /\ UNCHANGED <<nodeIps, phase, polls, idx, tries, failed, apiVars, file, ran, reply>>
      BY <1>6 DEF WorkerRestarts, threadVars
    <2>2. \A v \in Workers : writing'[v] => requests'[v] # <<>>
      BY <1>1, <2>1
    <2>3. restarts' \in 0 .. Restarts
      BY <1>1, <2>1, Constants
    <2> QED  BY <1>1, <2>1, <2>2, <2>3, WorkerKeeps DEF Fewer
  <1> QED  BY <1>2, <1>3, <1>4, <1>5, <1>6

LEMMA EngineKeeps ==
  ASSUME IInv, NEW p \in Pods, EngineRuns(p)
  PROVE  IInv'
  <1>1. /\ ran' = [ran EXCEPT ![p] = file[p]]
        /\ UNCHANGED <<nodeIps, threadVars, apiVars, workerVars, file>>
    BY DEF EngineRuns
  <1>2. /\ N' = N /\ WorkerIps' = WorkerIps /\ ToStart' = ToStart
        /\ \A v : RanksOf(v)' = RanksOf(v)
    BY <1>1, SameIps
  <1>3. ran \in [Pods -> Scripts] /\ file \in [Pods -> Scripts]
    BY DEF IInv, Types, FileTypes
  <1>4. /\ ran' \in [Pods -> Scripts]
        /\ \A r \in Pods : ran'[r] \in {ran[r], file[r]}
    BY <1>1, <1>3
  <1>5. Types'
    BY <1>1, <1>2, <1>4 DEF IInv, Types, MasterTypes, ApiTypes, WorkerTypes, FileTypes,
                            threadVars, apiVars, workerVars
  <1>6. Ranked'
    BY <1>1, <1>2, <1>4, Constants DEF IInv, Ranked, workerVars
  <1> QED  BY <1>1, <1>2, <1>5, <1>6
           DEF IInv, Placed, Met, NoneBeforeAllMet, AllDone, Done, Busy, Current,
               threadVars, apiVars, workerVars

LEMMA NextIInv == IInv /\ [Next]_vars => IInv'
  <1> SUFFICES ASSUME IInv, [Next]_vars PROVE IInv'
    OBVIOUS
  <1>1. CASE MasterThread
    BY <1>1, LaunchKeeps, PollKeeps, ProbeKeeps, PostKeeps, AnswerKeeps DEF MasterThread
  <1>2. CASE ApiCrashes \/ ApiStarts
    BY <1>2, ApiKeeps
  <1>3. ASSUME NEW w \in Workers, Registers(w) \/ Aborts(w) \/ IsRemoved(w)
        PROVE  IInv'
    BY <1>3, RegistryKeeps
  <1>4. ASSUME NEW w \in Workers,
               \/ BuildFails(w) \/ OpenScript(w) \/ WriteScript(w)
               \/ DropAbandoned(w) \/ WorkerRestarts(w)
        PROVE  IInv'
    BY <1>4, WorkerSteps
  <1>5. ASSUME NEW p \in Pods, EngineRuns(p) PROVE IInv'
    BY <1>5, EngineKeeps
  <1>6. CASE UNCHANGED vars
    <2>1. UNCHANGED <<nodeIps, threadVars, apiVars, workerVars, file, ran>>
      BY <1>6 DEF vars
    <2>2. /\ N' = N /\ WorkerIps' = WorkerIps /\ ToStart' = ToStart
          /\ \A v : RanksOf(v)' = RanksOf(v)
      BY <2>1, SameIps
    <2>3. Types'
      BY <2>1, <2>2 DEF IInv, Types, MasterTypes, ApiTypes, WorkerTypes, FileTypes,
                        threadVars, apiVars, workerVars
    <2>4. Ranked'
      BY <2>1, RankedUntouched DEF IInv, workerVars
    <2> QED  BY <2>1, <2>2, <2>3, <2>4
             DEF IInv, Placed, Met, NoneBeforeAllMet, AllDone, Done, Busy, Current,
                 threadVars, apiVars, workerVars
  <1> QED  BY <1>1, <1>2, <1>3, <1>4, <1>5, <1>6 DEF Next

LEMMA InvariantHolds == Spec => []IInv
  BY InitIInv, NextIInv, PTL DEF Spec

----------------------------------------------------------------------------
(***************************************************************************)
(* Theorems.                                                               *)
(***************************************************************************)
LEMMA AtMostOne ==
  ASSUME NEW S, NEW x, S \subseteq {x}
  PROVE  Cardinality(S) <= 1
  <1>1. S = {} \/ S = {x}
    OBVIOUS
  <1>2. Cardinality({}) = 0 /\ Cardinality({x}) = 1
    BY FS_EmptySet, FS_Singleton
  <1> QED  BY <1>1, <1>2

(* The rank of a pod, 0 for the master                                     *)
LEMMA RankOfPod ==
  ASSUME IInv
  PROVE  \A p \in Pods : \A r \in RanksOn(p) :
           /\ p = Master => r = 0
           /\ p # Master => r \in 1 .. N /\ WorkerIps[r] = p
  BY Constants DEF IInv, Ranked, RanksOn, RanksOf, Pods

(* Whatever is retried, answered late or started over, no pod ever has a   *)
(* script of two ranks and no two pods have the same rank.                 *)
THEOREM RanksStayApart == Spec => []OneRankPerPod
  <1>1. IInv => TypeOK
    BY TypesAreTypeOK DEF IInv
  <1>2. IInv => RanksDiffer
    <2> SUFFICES ASSUME IInv PROVE RanksDiffer
      OBVIOUS
    <2>1. /\ N \in Nat
          /\ \A i, j \in 1 .. N : WorkerIps[i] = WorkerIps[j] => i = j
      BY Ips DEF IInv, Types, MasterTypes
    <2>2. \A p \in Pods : \A r, s \in RanksOn(p) : r = s
      BY <2>1, RankOfPod
    <2>3. \A p \in Pods : Cardinality(RanksOn(p)) <= 1
      <3> SUFFICES ASSUME NEW p \in Pods PROVE Cardinality(RanksOn(p)) <= 1
        OBVIOUS
      <3>1. \E x : RanksOn(p) \subseteq {x}
        BY <2>2
      <3> QED  BY <3>1, AtMostOne
    <2>4. \A p, q \in Pods : p # q => RanksOn(p) \cap RanksOn(q) = {}
      BY <2>1, RankOfPod
    <2> QED  BY <2>3, <2>4 DEF RanksDiffer
  <1>3. IInv => OneRankPerPod
    BY <1>1, <1>2 DEF OneRankPerPod
  <1> QED  BY <1>3, InvariantHolds, PTL

(* No worker is told to start before all of them have registered.          *)
THEOREM AllMetFirst == Spec => []NoneBeforeAllMet
  <1>1. IInv => NoneBeforeAllMet
    BY DEF IInv, Met
  <1> QED  BY <1>1, InvariantHolds, PTL

(* A rollout without a reported failure has put a whole script on every    *)
(* worker, and left no request behind that could truncate it.              *)
THEOREM ReportIsTrue == Spec => []FinishedMeansStarted
  <1>1. IInv => FinishedMeansStarted
    <2> SUFFICES ASSUME IInv, phase = "finished", failed = 0, NEW w \in ToStart
                 PROVE  file[w] \in Nat /\ requests[w] = <<>>
      BY DEF FinishedMeansStarted
    <2>1. PICK i \in 1 .. N : w = WorkerIps[i]
      BY Ips DEF IInv, Types, MasterTypes
    <2>2. Done(WorkerIps[i])
      BY DEF IInv, AllDone
    <2> QED  BY <2>1, <2>2 DEF Done
  <1> QED  BY <1>1, InvariantHolds, PTL
----------------------------------------------------------------------------
(***************************************************************************)
(* Why the thread comes to an end.                                         *)
(***************************************************************************)

(* The most steps that one worker, and those behind the i-th, can cost     *)
PerWorker == MaxProbes + 2 * MaxTries
Behind(i) == (N - i) * PerWorker

(* The most steps the master's thread has before it                        *)
StepsLeft ==
  CASE phase = "script" -> Behind(0) + MaxPolls + 1
    [] phase = "wait"   -> Behind(0) + (MaxPolls - polls)
    [] phase = "probe"  -> Behind(idx) + 2 * MaxTries + (MaxProbes - tries)
    [] phase = "post"   -> Behind(idx) + 2 * (MaxTries - tries)
    [] phase = "answer" -> Behind(idx) + 2 * (MaxTries - tries) - 1
    [] OTHER            -> 0

LEMMA BehindCounts ==
  ASSUME nodeIps \in Topologies, NEW i \in 0 .. N
  PROVE  /\ Behind(i) \in Nat
         /\ i < N => Behind(i) = Behind(i + 1) + PerWorker
  <1>1. N \in Nat /\ PerWorker \in Nat
    BY Ips, Constants DEF PerWorker
  <1>2. \A k, c \in Nat : k * c \in Nat /\ (k + 1) * c = k * c + c
    OBVIOUS
  <1> HIDE DEF N, PerWorker
  <1>3. N - i \in Nat
    BY <1>1
  <1>4. Behind(i) \in Nat
    BY <1>1, <1>2, <1>3 DEF Behind
  <1>5. ASSUME i < N PROVE Behind(i) = Behind(i + 1) + PerWorker
    <2>1. N - (i + 1) \in Nat /\ N - i = (N - (i + 1)) + 1
      BY <1>1, <1>5
    <2> QED  BY <1>1, <1>2, <2>1 DEF Behind
  <1> QED  BY <1>4, <1>5

LEMMA StepsAreCounted == IInv => StepsLeft \in Nat
  <1> SUFFICES ASSUME IInv PROVE StepsLeft \in Nat
    OBVIOUS
  <1>1. nodeIps \in Topologies /\ N \in Nat
    BY Ips DEF IInv, Types, MasterTypes
  <1>2. CASE ~Busy
    <2>1. Behind(0) \in Nat /\ polls \in 0 .. MaxPolls /\ MaxPolls \in Nat
      BY <1>1, BehindCounts, Constants DEF IInv, Types, MasterTypes
    <2> HIDE DEF Behind
    <2> QED  BY <1>2, <2>1 DEF Busy, StepsLeft
  <1>3. CASE Busy
    <2>1. idx \in 1 .. N
      BY <1>3 DEF IInv, Placed
    <2>2. Behind(idx) \in Nat
      BY <1>1, <2>1, BehindCounts
    <2>3. tries \in 0 .. (IF phase = "probe" THEN MaxProbes ELSE MaxTries) - 1
      BY DEF IInv, Types, MasterTypes
    <2> HIDE DEF Behind
    <2> QED  BY <1>3, <2>2, <2>3, Constants DEF Busy, StepsLeft
  <1> QED  BY <1>2, <1>3

(* Another attempt, or the next worker, is fewer steps than the last        *)
(* attempt left                                                             *)
LEMMA GoingOnCosts ==
  ASSUME IInv, Busy, UNCHANGED nodeIps,
         NEW again \in {"probe", "post"}, (phase = "probe") <=> (again = "probe"),
         GoesOn(IF again = "probe" THEN MaxProbes ELSE MaxTries, again)
  PROVE  StepsLeft' < StepsLeft
  <1>1. /\ nodeIps \in Topologies /\ N \in Nat /\ idx \in 1 .. N
        /\ tries \in 0 .. (IF phase = "probe" THEN MaxProbes ELSE MaxTries) - 1
    BY Ips DEF IInv, Types, MasterTypes, Placed
  <1>2. /\ Behind(idx) \in Nat
        /\ idx < N => Behind(idx) = Behind(idx + 1) + PerWorker
        /\ idx < N => Behind(idx + 1) \in Nat
    BY <1>1, BehindCounts
  <1>3. Behind(idx)' = (N - idx') * PerWorker
    BY SameIps DEF Behind, PerWorker
  <1>4. CASE idx' = idx /\ tries' = tries + 1 /\ phase' = again
    <2>1. Behind(idx)' = Behind(idx)
      BY <1>3, <1>4 DEF Behind
    <2> HIDE DEF Behind
    <2> QED  BY <1>1, <1>2, <1>4, <2>1, Constants DEF Busy, StepsLeft
  <1>5. CASE idx < N /\ idx' = idx + 1 /\ tries' = 0 /\ phase' = "probe"
    <2>1. Behind(idx)' = Behind(idx + 1)
      BY <1>3, <1>5 DEF Behind
    <2> HIDE DEF Behind
    <2> QED  BY <1>1, <1>2, <1>5, <2>1, Constants DEF Busy, StepsLeft, PerWorker
  <1>6. CASE phase' = "finished"
    <2>1. StepsLeft' = 0
      BY <1>6 DEF StepsLeft
    <2> HIDE DEF Behind
    <2> QED  BY <1>1, <1>2, <2>1, Constants DEF Busy, StepsLeft
  <1> QED  BY <1>4, <1>5, <1>6 DEF GoesOn, TryAgain, NextWorker, N

LEMMA ThreadStepsCost == IInv /\ MasterThread => StepsLeft' < StepsLeft
  <1> SUFFICES ASSUME IInv, MasterThread PROVE StepsLeft' < StepsLeft
    OBVIOUS
  <1>1. /\ nodeIps \in Topologies /\ N \in Nat /\ UNCHANGED nodeIps
        /\ polls \in 0 .. MaxPolls
    BY Ips DEF IInv, Types, MasterTypes, MasterThread, LaunchMaster, Poll, Probe, Post, Answer
  <1>2. /\ Behind(0) \in Nat
        /\ 0 < N => Behind(0) = Behind(1) + PerWorker
        /\ 0 < N => Behind(1) \in Nat
    BY <1>1, BehindCounts
  <1>3. /\ Behind(0)' = Behind(0) /\ Behind(1)' = Behind(1)
        /\ idx' = idx => Behind(idx)' = Behind(idx)
    BY <1>1, SameIps DEF Behind, PerWorker
  <1>4. CASE LaunchMaster
    <2>1. /\ phase = "script" /\ phase' \in {"finished", "wait", "failed"}
          /\ polls' = polls
      BY <1>4 DEF LaunchMaster
    <2> HIDE DEF Behind
    <2> QED  BY <1>1, <1>2, <1>3, <2>1, Constants DEF StepsLeft
  <1>5. CASE Poll
    <2>1. phase = "wait" /\ idx = 1 /\ tries = 0 /\ 0 < N /\ polls < MaxPolls
      BY <1>1, <1>5 DEF Poll, IInv, Placed
    <2>2. /\ idx' = 1 /\ tries' = 0
          /\ \/ phase' = "probe"
             \/ phase' = "wait" /\ polls' = polls + 1
             \/ phase' = "gaveup"
      BY <1>5, <2>1 DEF Poll
    <2>3. Behind(idx)' = Behind(1)
      BY <1>3, <2>1, <2>2
    <2> HIDE DEF Behind
    <2> QED  BY <1>1, <1>2, <1>3, <2>1, <2>2, <2>3, Constants DEF StepsLeft, PerWorker
  <1>6. CASE phase \in {"probe", "post"} /\ UNCHANGED idx /\ phase' # phase
             /\ \/ phase = "probe" /\ phase' = "post" /\ tries' = 0
                \/ phase = "post" /\ phase' = "answer" /\ tries' = tries
    <2>1. /\ idx \in 1 .. N
          /\ tries \in 0 .. (IF phase = "probe" THEN MaxProbes ELSE MaxTries) - 1
      BY <1>6 DEF IInv, Types, MasterTypes, Placed, Busy
    <2>2. Behind(idx) \in Nat
      BY <1>1, <2>1, BehindCounts
    <2>3. Behind(idx)' = Behind(idx)
      BY <1>3, <1>6
    <2> HIDE DEF Behind
    <2> QED  BY <1>6, <2>1, <2>2, <2>3, Constants DEF StepsLeft
  <1>7. CASE Probe
    <2>1. CASE TryAgain(MaxProbes, "probe")
      <3>1. GoesOn(IF "probe" = "probe" THEN MaxProbes ELSE MaxTries, "probe")
        BY <2>1 DEF GoesOn
      <3> QED  BY <1>1, <1>7, <3>1, GoingOnCosts DEF Probe, Busy
    <2> QED  BY <1>6, <1>7, <2>1 DEF Probe
  <1>8. CASE Post
    <2>1. CASE TryAgain(MaxTries, "post")
      <3>1. GoesOn(IF "post" = "probe" THEN MaxProbes ELSE MaxTries, "post")
        BY <2>1 DEF GoesOn
      <3> QED  BY <1>1, <1>8, <3>1, GoingOnCosts DEF Post, Busy
    <2> QED  BY <1>6, <1>8, <2>1 DEF Post
  <1>9. CASE Answer
    <2>1. GoesOn(IF "post" = "probe" THEN MaxProbes ELSE MaxTries, "post")
      BY <1>9 DEF Answer, GoesOn
    <2> QED  BY <1>1, <1>9, <2>1, GoingOnCosts DEF Answer, Busy
  <1> QED  BY <1>4, <1>5, <1>7, <1>8, <1>9 DEF MasterThread

(* What workers and API do changes nothing about it                        *)
LEMMA OthersCostNothing == Next /\ ~MasterThread => StepsLeft' = StepsLeft
  <1> SUFFICES ASSUME Next, ~MasterThread PROVE StepsLeft' = StepsLeft
    OBVIOUS
  <1>1. UNCHANGED <<nodeIps, phase, polls, idx, tries>>
    BY DEF Next, ApiCrashes, ApiStarts, Registers, Aborts, IsRemoved, BuildFails, OpenScript,
           WriteScript, DropAbandoned, WorkerRestarts, EngineRuns, threadVars
  <1> QED  BY <1>1, SameIps DEF StepsLeft, Behind, PerWorker

(* The rollout cannot go on for ever: however often workers restart, calls *)
(* are lost or the API crashes, every step of the master's thread lowers a *)
(* natural number that nobody else can raise.                              *)
THEOREM ThreadRunsOut ==
  Spec => /\ [](StepsLeft \in Nat)
          /\ [][IF MasterThread THEN StepsLeft' < StepsLeft ELSE StepsLeft' = StepsLeft]_vars
  <1>1. IInv /\ [Next]_vars
          => [IF MasterThread THEN StepsLeft' < StepsLeft ELSE StepsLeft' = StepsLeft]_vars
    BY ThreadStepsCost, OthersCostNothing
  <1> QED  BY <1>1, InvariantHolds, StepsAreCounted, PTL DEF Spec
=============================================================================
