-------------------------- MODULE InstallPlanProofs --------------------------
(***************************************************************************)
(* What resumable plans guarantee, for plans of any length and any number  *)
(* of resume requests.                                                     *)
(***************************************************************************)
EXTENDS InstallPlan, TLAPS

USE NAssumption, MaxResumesAssumption

LEMMA InitType == Init => TypeOK
  BY DEF Init, TypeOK, Runs, Steps, Files, NoFile, Pending, Readable

\* Every record a run can save of itself is a file.
LEMMA ProgressType ==
    ASSUME TypeOK, NEW r \in Runs, NEW s \in Readable
    PROVE  Progress(r, s) \in Files
  <1>1. /\ dropped[r] \in 0..N
        /\ offset[r] \in 0..N
        /\ pos[r] \in 0..N
        /\ offset[r] <= dropped[r] /\ dropped[r] + pos[r] <= N
    BY DEF TypeOK
  <1>2. offset[r] + pos[r] \in 0..N
    BY <1>1
  <1> QED
    BY <1>1, <1>2 DEF Progress, Files

LEMMA StepType == TypeOK /\ [Next]_vars => TypeOK'
<1> SUFFICES ASSUME TypeOK, [Next]_vars PROVE TypeOK'
  OBVIOUS
<1>files. NoFile \in Files /\ Corrupt \in Files
  BY DEF NoFile, Corrupt, Files
<1>1. CASE Execute
  BY <1>1 DEF TypeOK, Execute, Goto, loops
<1>2. ASSUME NEW r \in Runs, RunNext(r) PROVE TypeOK'
  <2>typed. /\ dropped[r] \in 0..N /\ offset[r] \in 0..N /\ pos[r] \in 0..N
            /\ offset[r] <= dropped[r] /\ dropped[r] + pos[r] <= N
    BY DEF TypeOK
  <2>1. CASE StepOk(r) \/ StepSkipped(r)
    <3>1. /\ dropped[r] + pos[r] + 1 <= N
          /\ pos' = [pos EXCEPT ![r] = @ + 1]
          /\ installed' = installed \cup {dropped[r] + pos[r] + 1}
          /\ UNCHANGED <<file, dropped, offset, cancelled, under>>
      BY <2>1 DEF StepOk, StepSkipped, Current
    <3>2. pc' \in [Runs -> {"new", "resuming", "step", "ran", "failing", "off"}]
      BY <2>1 DEF TypeOK, StepOk, StepSkipped, Goto
    <3>3. dropped[r] + pos[r] + 1 \in Steps /\ pos[r] + 1 \in 0..N
      BY <2>typed, <3>1 DEF Steps
    <3>4. \A q \in Runs : pos'[q] = IF q = r THEN pos[r] + 1 ELSE pos[q]
      BY <3>1 DEF TypeOK
    <3>5. \A q \in Runs : offset'[q] <= dropped'[q] /\ dropped'[q] + pos'[q] <= N
      BY <2>typed, <3>1, <3>4 DEF TypeOK
    <3>6. pos' \in [Runs -> 0..N]
      BY <3>1, <3>3 DEF TypeOK
    <3>7. installed' \subseteq Steps
      BY <3>1, <3>3 DEF TypeOK
    <3> QED
      BY <3>1, <3>2, <3>5, <3>6, <3>7 DEF TypeOK
  <2>2. CASE StepFails(r) \/ Disconnect(r)
    BY <2>2 DEF TypeOK, StepFails, Disconnect, Goto, loops
  <2>3. CASE SaveProgress(r) \/ SaveFailure(r) \/ Finish(r)
    <3>1. /\ file' \in Files
          /\ UNCHANGED <<loops, cancelled, under, installed>>
      BY <2>3, <1>files, ProgressType
         DEF SaveProgress, SaveFailure, Finish, Write, Readable, Pending, TypeOK
    <3>2. pc' \in [Runs -> {"new", "resuming", "step", "ran", "failing", "off"}]
      BY <2>3 DEF TypeOK, SaveProgress, SaveFailure, Finish, Goto
    <3> QED
      BY <3>1, <3>2 DEF TypeOK, loops
  <2>4. CASE ResumeLoad(r)
    <3>1. /\ file.dropped \in 0..N /\ file.completed \in 0..N
          /\ file.dropped + file.completed < N
          /\ dropped' = [dropped EXCEPT ![r] = file.dropped + file.completed]
          /\ offset' = [offset EXCEPT ![r] = file.completed]
          /\ pos' = [pos EXCEPT ![r] = 0]
          /\ UNCHANGED <<file, cancelled, under, installed>>
      BY <2>4 DEF ResumeLoad, TypeOK, Files
    <3>2. pc' \in [Runs -> {"new", "resuming", "step", "ran", "failing", "off"}]
      BY <2>4 DEF TypeOK, ResumeLoad, Goto
    <3>3. \A q \in Runs : IF q = r THEN /\ dropped'[q] = file.dropped + file.completed
                                        /\ offset'[q] = file.completed
                                        /\ pos'[q] = 0
                           ELSE /\ dropped'[q] = dropped[q]
                                /\ offset'[q] = offset[q]
                                /\ pos'[q] = pos[q]
      BY <3>1 DEF TypeOK
    <3>4. \A q \in Runs : offset'[q] <= dropped'[q] /\ dropped'[q] + pos'[q] <= N
      BY <3>1, <3>3 DEF TypeOK
    <3>5. /\ dropped' \in [Runs -> 0..N]
          /\ offset' \in [Runs -> 0..N]
          /\ pos' \in [Runs -> 0..N]
      BY <3>1 DEF TypeOK
    <3> QED
      BY <3>1, <3>2, <3>4, <3>5 DEF TypeOK
  <2>5. CASE ResumeSave(r)
    <3>1. [status |-> "running", dropped |-> dropped[r] - offset[r],
           completed |-> offset[r]] \in Files
      BY <2>typed DEF Files, Readable, Pending
    <3>2. file' \in Files
      BY <2>5, <3>1, <1>files DEF ResumeSave, TypeOK
    <3> QED
      BY <2>5, <3>2 DEF TypeOK, ResumeSave, Goto, loops
  <2> QED
    BY <1>2, <2>1, <2>2, <2>3, <2>4, <2>5 DEF RunNext
<1>3. CASE CancelLoad
  BY <1>3 DEF TypeOK, CancelLoad, loops
<1>4. CASE CancelSave
  <2>1. [cancelled EXCEPT !.status = "cancelled"] \in Files
    BY DEF TypeOK, Files, Readable, Pending
  <2> QED
    BY <1>4, <2>1, <1>files DEF TypeOK, CancelSave, Write, loops
<1>5. CASE Archive
  BY <1>5, <1>files DEF TypeOK, Archive, loops
<1>6. CASE Crash
  BY <1>6, <1>files DEF TypeOK, Crash, loops
<1>7. CASE UNCHANGED vars
  BY <1>7 DEF TypeOK, vars
<1> QED
  BY <1>1, <1>2, <1>3, <1>4, <1>5, <1>6, <1>7 DEF Next

\* The state file, the runs and the counters have their types and bounds: no
\* run goes beyond the last step of the plan.
THEOREM TypeCorrect == Spec => []TypeOK
  BY InitType, StepType, PTL DEF Spec

-----------------------------------------------------------------------------
\* What the state file and a pending cancellation may say: where no steps
\* were left out, those listed as completed are on the machine.
Truthful(f) == f.dropped = 0 => 1..f.completed \subseteq installed

\* The invariant: resumed runs start from the file, and the file comes from
\* runs, so that neither could be shown without the other.
PlanInv ==
    /\ Truthful(file)
    /\ Truthful(cancelled)
    /\ SkipsOnlyInstalled
    /\ DoneMeansInstalled

LEMMA InitPlan == Init => PlanInv
  BY DEF Init, PlanInv, Truthful, SkipsOnlyInstalled, DoneMeansInstalled, NoFile,
         Runs

\* What a run saves is truthful, and says that all is done only if it is.
LEMMA ProgressTruthful ==
    ASSUME TypeOK, SkipsOnlyInstalled, NEW r \in Runs, NEW s
    PROVE  /\ Progress(r, s).dropped = 0 => 1..Progress(r, s).completed \subseteq installed
           /\ Progress(r, s).completed = N => Steps \subseteq installed
  <1>typed. /\ dropped[r] \in 0..N /\ offset[r] \in 0..N /\ pos[r] \in 0..N
            /\ offset[r] <= dropped[r] /\ dropped[r] + pos[r] <= N
    BY DEF TypeOK
  <1>fields. /\ Progress(r, s).dropped = dropped[r]
             /\ Progress(r, s).completed = offset[r] + pos[r]
    BY DEF Progress
  <1>1. dropped[r] = 0 => dropped[r] = offset[r] /\ offset[r] + pos[r] = dropped[r] + pos[r]
    BY <1>typed
  <1>2. offset[r] + pos[r] = N => dropped[r] = offset[r] /\ dropped[r] + pos[r] = N
    BY <1>typed
  <1>3. dropped[r] = offset[r] => 1..(dropped[r] + pos[r]) \subseteq installed
    BY DEF SkipsOnlyInstalled
  <1> QED
    BY <1>fields, <1>1, <1>2, <1>3 DEF Steps

\* Nothing that happens to the file alone can make it less truthful.
LEMMA WriteTruthful ==
    ASSUME NEW content, Write(content), PlanInv, installed' = installed,
           content.dropped = 0 => 1..content.completed \subseteq installed,
           content.status = "done" /\ content.completed = N => Steps \subseteq installed
    PROVE  Truthful(file)' /\ DoneMeansInstalled'
  <1>1. CASE file' = content
    BY <1>1 DEF Truthful, DoneMeansInstalled
  <1>2. CASE file' = file
    BY <1>2 DEF Truthful, DoneMeansInstalled, PlanInv
  <1>3. CASE file' = Corrupt
    BY <1>3 DEF Truthful, DoneMeansInstalled, Corrupt, NoFile
  <1> QED
    BY <1>1, <1>2, <1>3 DEF Write

LEMMA StepPlan == TypeOK /\ PlanInv /\ [Next]_vars => PlanInv'
<1> SUFFICES ASSUME TypeOK, PlanInv, [Next]_vars PROVE PlanInv'
  OBVIOUS
<1>same. ASSUME UNCHANGED <<file, loops, cancelled>>, installed \subseteq installed'
         PROVE  PlanInv'
  BY <1>same DEF PlanInv, Truthful, SkipsOnlyInstalled, DoneMeansInstalled, loops
<1>writes. ASSUME Truthful(file)', DoneMeansInstalled', Truthful(cancelled)',
                  UNCHANGED <<loops, installed>>
           PROVE  PlanInv'
  BY <1>writes DEF PlanInv, SkipsOnlyInstalled, loops
<1>empty. Truthful(NoFile)' /\ Truthful(Corrupt)'
  BY DEF Truthful, NoFile, Corrupt
<1>1. CASE Execute
  BY <1>1, <1>same DEF Execute
<1>2. ASSUME NEW r \in Runs, RunNext(r) PROVE PlanInv'
  <2>typed. /\ dropped[r] \in 0..N /\ offset[r] \in 0..N /\ pos[r] \in 0..N
            /\ offset[r] <= dropped[r] /\ dropped[r] + pos[r] <= N
    BY DEF TypeOK
  <2>1. CASE StepOk(r) \/ StepSkipped(r)
    \* The run moves past its current step, and this step is installed.
    <3>1. /\ pos' = [pos EXCEPT ![r] = @ + 1]
          /\ installed' = installed \cup {dropped[r] + pos[r] + 1}
          /\ UNCHANGED <<file, dropped, offset, cancelled, under>>
      BY <2>1 DEF StepOk, StepSkipped, Current
    <3>2. \A q \in Runs : pos'[q] = IF q = r THEN pos[r] + 1 ELSE pos[q]
      BY <3>1 DEF TypeOK
    <3>3. ASSUME NEW q \in Runs, dropped'[q] = offset'[q]
          PROVE  1..(dropped'[q] + pos'[q]) \subseteq installed'
      <4>1. 1..(dropped[q] + pos[q]) \subseteq installed
        BY <3>1, <3>3 DEF PlanInv, SkipsOnlyInstalled
      <4>2. CASE q = r
        <5>1. 1..(dropped[r] + (pos[r] + 1))
                = 1..(dropped[r] + pos[r]) \cup {dropped[r] + pos[r] + 1}
          BY <2>typed
        <5> QED
          BY <3>1, <3>2, <4>1, <4>2, <5>1
      <4>3. CASE q # r
        BY <3>1, <3>2, <4>1, <4>3
      <4> QED
        BY <4>2, <4>3
    <3>4. SkipsOnlyInstalled'
      BY <3>3 DEF SkipsOnlyInstalled
    <3> QED
      BY <3>1, <3>4 DEF PlanInv, Truthful, DoneMeansInstalled
  <2>2. CASE StepFails(r) \/ Disconnect(r)
    BY <2>2, <1>same DEF StepFails, Disconnect
  <2>3. CASE SaveProgress(r) \/ SaveFailure(r) \/ Finish(r)
    <3>1. PICK s \in Readable : /\ Write(Progress(r, s))
                                /\ UNCHANGED <<loops, cancelled, installed>>
      BY <2>3 DEF SaveProgress, SaveFailure, Finish, Readable, Pending
    <3>2. /\ Progress(r, s).dropped = 0 =>
                1..Progress(r, s).completed \subseteq installed
          /\ Progress(r, s).completed = N => Steps \subseteq installed
      BY ProgressTruthful DEF PlanInv
    <3>3. Truthful(file)' /\ DoneMeansInstalled'
      BY <3>1, <3>2, WriteTruthful
    <3>4. Truthful(cancelled)'
      BY <3>1 DEF PlanInv, Truthful
    <3> QED
      BY <3>1, <3>3, <3>4, <1>writes
  <2>4. CASE ResumeLoad(r)
    \* The loaded file is truthful when it lists all the steps.
    <3>1. /\ file.dropped \in 0..N /\ file.completed \in 0..N
          /\ dropped' = [dropped EXCEPT ![r] = file.dropped + file.completed]
          /\ offset' = [offset EXCEPT ![r] = file.completed]
          /\ pos' = [pos EXCEPT ![r] = 0]
          /\ UNCHANGED <<file, cancelled, installed>>
      BY <2>4 DEF ResumeLoad, TypeOK, Files
    <3>2. \A q \in Runs : IF q = r THEN /\ dropped'[q] = file.dropped + file.completed
                                        /\ offset'[q] = file.completed
                                        /\ pos'[q] = 0
                           ELSE /\ dropped'[q] = dropped[q]
                                /\ offset'[q] = offset[q]
                                /\ pos'[q] = pos[q]
      BY <3>1 DEF TypeOK
    <3>3. file.dropped = 0 => 1..file.completed \subseteq installed
      BY DEF PlanInv, Truthful
    <3>4. ASSUME NEW q \in Runs, dropped'[q] = offset'[q]
          PROVE  1..(dropped'[q] + pos'[q]) \subseteq installed'
      <4>1. CASE q = r
        <5>1. dropped'[q] + pos'[q] = file.completed /\ file.dropped = 0
          BY <3>1, <3>2, <3>4, <4>1
        <5> QED
          BY <3>1, <3>3, <5>1
      <4>2. CASE q # r
        BY <3>1, <3>2, <3>4, <4>2 DEF PlanInv, SkipsOnlyInstalled
      <4> QED
        BY <4>1, <4>2
    <3>5. SkipsOnlyInstalled'
      BY <3>4 DEF SkipsOnlyInstalled
    <3> QED
      BY <3>1, <3>5 DEF PlanInv, Truthful, DoneMeansInstalled
  <2>5. CASE ResumeSave(r)
    \* The file says running, with the count that the run has started from.
    <3> DEFINE back == [status |-> "running", dropped |-> dropped[r] - offset[r],
                        completed |-> offset[r]]
    <3>1. Write(back) /\ UNCHANGED <<loops, cancelled, installed>>
      BY <2>5 DEF ResumeSave, Write
    <3>2. back.dropped = 0 => 1..back.completed \subseteq installed
      <4>1. ASSUME dropped[r] - offset[r] = 0 PROVE 1..offset[r] \subseteq installed
        <5>1. dropped[r] = offset[r] /\ offset[r] <= dropped[r] + pos[r]
          BY <2>typed, <4>1
        <5>2. 1..(dropped[r] + pos[r]) \subseteq installed
          BY <5>1 DEF PlanInv, SkipsOnlyInstalled
        <5> QED
          BY <2>typed, <5>1, <5>2
      <4> QED
        BY <4>1
    <3>3. back.status # "done"
      OBVIOUS
    <3>4. Truthful(file)' /\ DoneMeansInstalled'
      <4> HIDE DEF back
      <4> QED
        BY <3>1, <3>2, <3>3, WriteTruthful
    <3>5. Truthful(cancelled)'
      BY <3>1 DEF PlanInv, Truthful
    <3> QED
      BY <3>1, <3>4, <3>5, <1>writes
  <2> QED
    BY <1>2, <2>1, <2>2, <2>3, <2>4, <2>5 DEF RunNext
<1>3. CASE CancelLoad
  <2>1. /\ cancelled' = file
        /\ UNCHANGED <<file, loops, installed>>
    BY <1>3 DEF CancelLoad
  <2>2. Truthful(file)' /\ Truthful(cancelled)' /\ DoneMeansInstalled'
    BY <2>1 DEF PlanInv, Truthful, DoneMeansInstalled
  <2> QED
    BY <2>1, <2>2, <1>writes
<1>4. CASE CancelSave
  <2> DEFINE content == [cancelled EXCEPT !.status = "cancelled"]
  <2>1. /\ Write(content)
        /\ UNCHANGED <<loops, installed>>
        /\ Truthful(cancelled)'
    BY <1>4, <1>empty DEF CancelSave
  <2>2. /\ content.dropped = cancelled.dropped
        /\ content.completed = cancelled.completed
        /\ content.status = "cancelled"
    BY DEF TypeOK, Files
  <2>3. content.dropped = 0 => 1..content.completed \subseteq installed
    BY <2>2 DEF PlanInv, Truthful
  <2>4. installed' = installed
    BY <2>1
  <2>5. Truthful(file)' /\ DoneMeansInstalled'
    <3> HIDE DEF content
    <3> QED
      BY <2>1, <2>2, <2>3, <2>4, WriteTruthful
  <2> QED
    BY <2>1, <2>5, <1>writes
<1>5. CASE Archive
  <2>1. DoneMeansInstalled'
    BY <1>5 DEF Archive, DoneMeansInstalled, NoFile
  <2> QED
    BY <1>5, <2>1, <1>empty, <1>writes DEF Archive, PlanInv, Truthful
<1>6. CASE Crash
  <2>1. DoneMeansInstalled'
    BY <1>6 DEF Crash, DoneMeansInstalled, PlanInv, Corrupt, NoFile
  <2>2. Truthful(file)'
    BY <1>6, <1>empty DEF Crash, PlanInv, Truthful
  <2>3. cancelled' = NoFile /\ UNCHANGED <<loops, installed>>
    BY <1>6 DEF Crash
  <2>4. Truthful(cancelled)'
    BY <2>3 DEF Truthful, NoFile
  <2> QED
    BY <2>1, <2>2, <2>3, <2>4, <1>writes
<1>7. CASE UNCHANGED vars
  BY <1>7, <1>same DEF vars, loops
<1> QED
  BY <1>1, <1>2, <1>3, <1>4, <1>5, <1>6, <1>7 DEF Next

LEMMA PlanInvariance == Spec => [](TypeOK /\ PlanInv)
<1>1. Init => TypeOK /\ PlanInv
  BY InitType, InitPlan
<1>2. (TypeOK /\ PlanInv) /\ [Next]_vars => (TypeOK /\ PlanInv)'
  BY StepType, StepPlan
<1> QED
  BY <1>1, <1>2, PTL DEF Spec

\* A run resumed from a file with all the steps leaves out only steps that
\* are on the machine, however many requests there are.
THEOREM SkipsAreSound == Spec => []SkipsOnlyInstalled
<1>1. TypeOK /\ PlanInv => SkipsOnlyInstalled
  BY DEF PlanInv
<1> QED
  BY <1>1, PlanInvariance, PTL

\* A plan saved as done with all its steps listed is installed.
THEOREM DoneIsInstalled == Spec => []DoneMeansInstalled
<1>1. TypeOK /\ PlanInv => DoneMeansInstalled
  BY DEF PlanInv
<1> QED
  BY <1>1, PlanInvariance, PTL

-----------------------------------------------------------------------------
\* Nothing can be written or cancelled before the plan has been executed: the
\* one request that does not look at the file is not made on a cancelled plan.
CancelInv ==
    /\ CancelSticks
    /\ pc[0] = "new" => file = NoFile /\ cancelled = NoFile
    /\ \A r \in Runs : pc[r] # "new" => pc[0] # "new"

LEMMA InitCancel == Init => CancelInv
  BY DEF Init, CancelInv, CancelSticks, NoFile, Runs, UnderWay

\* A step by which no request gets under way, and which does not write a
\* cancellation, leaves every run in the place that the invariant gives it.
LEMMA QuietCancel ==
    ASSUME CancelInv, UNCHANGED under,
           file'.status = "cancelled" => file.status = "cancelled",
           \A r \in Runs : UnderWay(r)' => UnderWay(r)
    PROVE  CancelSticks'
  BY DEF CancelInv, CancelSticks

LEMMA StepCancel == TypeOK /\ CancelInv /\ [Next]_vars => CancelInv'
<1> SUFFICES ASSUME TypeOK, CancelInv, [Next]_vars PROVE CancelInv'
  OBVIOUS
<1>status. Corrupt.status = "corrupt" /\ NoFile.status = "none"
  BY DEF Corrupt, NoFile
<1>zero. 0 \in Runs
  BY DEF Runs
<1>1. CASE Execute
  <2>1. pc[0] = "new" /\ pc' = [pc EXCEPT ![0] = "step"] /\ UNCHANGED <<file, cancelled, under>>
    BY <1>1 DEF Execute, Goto
  <2>2. file'.status # "cancelled" /\ pc'[0] # "new"
    BY <1>status, <1>zero, <2>1 DEF CancelInv, TypeOK
  <2> QED
    BY <2>2 DEF CancelInv, CancelSticks
<1>2. ASSUME NEW r \in Runs, RunNext(r) PROVE CancelInv'
  <2>old. UNCHANGED <<cancelled, under>>
    BY <1>2 DEF RunNext, StepOk, StepSkipped, StepFails, SaveProgress, SaveFailure, Finish,
       Disconnect, ResumeLoad, ResumeSave, loops
  <2>else. \A q \in Runs \ {r} : pc'[q] = pc[q]
    BY <1>2 DEF RunNext, StepOk, StepSkipped, StepFails, SaveProgress, SaveFailure, Finish,
       Disconnect, ResumeLoad, ResumeSave, Goto, TypeOK
  <2>after. pc'[r] # "new"
    BY <1>2 DEF RunNext, StepOk, StepSkipped, StepFails, SaveProgress, SaveFailure, Finish,
       Disconnect, ResumeLoad, ResumeSave, Goto, TypeOK
  \* Only a request for which the plan has been executed gets here.
  <2>begun. pc[0] # "new"
    <3>1. CASE ResumeLoad(r)
      BY <3>1, <1>status DEF ResumeLoad, CancelInv, Pending
    <3>2. CASE ~ResumeLoad(r)
      <4>1. pc[r] # "new"
        BY <1>2, <3>2 DEF RunNext, StepOk, StepSkipped, StepFails, SaveProgress, SaveFailure,
           Finish, Disconnect, ResumeSave
      <4> QED
        BY <4>1 DEF CancelInv
    <3> QED
      BY <3>1, <3>2
  <2>zero. pc'[0] # "new"
    BY <2>begun, <2>else, <2>after, <1>zero
  <2>1. CASE ResumeLoad(r)
    BY <2>1, <2>zero DEF ResumeLoad, CancelInv, CancelSticks, Pending
  <2>2. CASE ~ResumeLoad(r)
    <3>1. UnderWay(r)
      BY <1>2, <2>2 DEF RunNext, StepOk, StepSkipped, StepFails, SaveProgress, SaveFailure,
         Finish, Disconnect, ResumeSave, UnderWay
    <3>2. \A q \in Runs : UnderWay(q)' => UnderWay(q)
      BY <2>else, <3>1 DEF UnderWay
    <3>3. file'.status = "cancelled" => file.status = "cancelled"
      BY <1>2, <1>status, <2>2 DEF RunNext, StepOk, StepSkipped, StepFails, SaveProgress,
         SaveFailure, Finish, Disconnect, ResumeSave, Write, Progress
    <3>4. CancelSticks'
      BY <2>old, <3>2, <3>3, QuietCancel
    <3> QED
      BY <2>zero, <3>4 DEF CancelInv
  <2> QED
    BY <2>1, <2>2
<1>3. CASE CancelLoad
  <2>1. UNCHANGED <<file, pc, under>> /\ file # NoFile
    BY <1>3, <1>status DEF CancelLoad, Readable, Pending
  <2> QED
    BY <2>1 DEF CancelInv, CancelSticks, UnderWay
<1>4. CASE CancelSave
  <2>1. UNCHANGED pc /\ cancelled # NoFile /\ under' = {r \in Runs : UnderWay(r)}
    BY <1>4 DEF CancelSave
  <2> QED
    BY <2>1 DEF CancelInv, CancelSticks, UnderWay
<1>5. CASE Archive
  BY <1>5, <1>status DEF Archive, CancelInv, CancelSticks
<1>6. CASE Crash
  <2>1. /\ \A r \in Runs : pc'[r] = IF pc[r] = "new" THEN "new" ELSE "off"
        /\ UNCHANGED under /\ cancelled' = NoFile
        /\ file' = file \/ file' = Corrupt
    BY <1>6 DEF Crash
  <2>2. CancelSticks'
    BY <2>1 DEF CancelSticks, UnderWay
  <2>3. pc'[0] = "new" => file' = NoFile
    <3>1. ASSUME pc'[0] = "new" PROVE ~Saving
      BY <1>zero, <2>1, <3>1 DEF Saving, CancelInv
    <3> QED
      BY <1>6, <1>zero, <2>1, <3>1 DEF Crash, CancelInv
  <2> QED
    BY <2>1, <2>2, <2>3, <1>zero DEF CancelInv
<1>7. CASE UNCHANGED vars
  BY <1>7 DEF vars, CancelInv, CancelSticks, UnderWay
<1> QED
  BY <1>1, <1>2, <1>3, <1>4, <1>5, <1>6, <1>7 DEF Next

\* For as long as the file says cancelled, the plan is carried out only by
\* requests that were under way when it was cancelled: with any number of
\* them, which overlap in any way, a cancellation is lost to no other.
THEOREM CancellationSticks == Spec => []CancelSticks
<1>1. Init => TypeOK /\ CancelInv
  BY InitType, InitCancel
<1>2. (TypeOK /\ CancelInv) /\ [Next]_vars => (TypeOK /\ CancelInv)'
  BY StepType, StepCancel
<1>3. TypeOK /\ CancelInv => CancelSticks
  BY DEF CancelInv
<1> QED
  BY <1>1, <1>2, <1>3, PTL DEF Spec
=============================================================================
