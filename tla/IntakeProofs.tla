---------------------------- MODULE IntakeProofs ----------------------------
(***************************************************************************)
(* What holds of the scan intake for any number of runs, any batch limit   *)
(* and any bundles: the rows of a run agree with each other and with what  *)
(* was true of its bundle, whatever the two processes do at once and       *)
(* wherever they stop.                                                     *)
(***************************************************************************)
EXTENDS Intake, FiniteSetTheorems, TLAPS

\* The evidence of a completed run does not hold up.
Unsound(r) == r \in Completed /\ ~Sound(Head(bundle[r]))

\* What a process knows of the run it works on, by the step it stands at.
Standing(p) ==
  /\ at[p] # "next" => ~Free(p)
  /\ at[p] = "unpack" =>
       Run(p) \in Completed /\ Bundle(p).artifacts = 1
  /\ at[p] \in {"persist", "record"} =>
       Run(p) \in Completed /\ Sound(Bundle(p))
  /\ at[p] = "record" => scan[Run(p)] # "none"
  /\ at[p] = "reject" =>
       Run(p) \in misled \/ Unsound(Run(p))

\* What the two rows of a run say of its bundle.
Recorded(r) ==
  /\ scan[r] # "none" =>
       /\ r \in Completed
       /\ Sound(Head(bundle[r])) /\ Head(bundle[r]).subject
       /\ scan[r] = Status(Head(bundle[r]))
  /\ intake[r] = "ingested" => scan[r] # "none"
  /\ intake[r] = "rejected" =>
       r \in misled \/ Unsound(r)

\* The inductive invariant.
IndInv ==
  /\ TypeOK
  /\ \A p \in Processes : Standing(p)
  /\ \A r \in Runs : Recorded(r)

(***************************************************************************)
(* Facts about the operators of the model.                                 *)
(***************************************************************************)

\* A set of natural numbers that is not empty has its least member: the run a
\* process works on is one of its batch.
LEMMA MinIsLeast ==
  ASSUME NEW S \in SUBSET Nat, S # {}
  PROVE  Min(S) \in S /\ \A n \in S : Min(S) <= n
  <1>1. \E x \in S : \A y \in S : ~(<<y, x>> \in OpToRel(<, Nat))
    BY NatLessThanWellFounded, WFMin
  <1>2. ASSUME NEW x \in S, NEW y \in S, ~(<<y, x>> \in OpToRel(<, Nat))
        PROVE  x <= y
    <2>1. x \in Nat /\ y \in Nat
      OBVIOUS
    <2>2. ~(y < x)
      BY <1>2, <2>1 DEF OpToRel
    <2> QED
      BY <2>1, <2>2
  <1>3. \E x \in S : \A y \in S : x <= y
    BY <1>1, <1>2
  <1> QED
    BY <1>3 DEF Min

\* The bundle of a run that completed is one of the bundles.
LEMMA BundleType ==
  ASSUME TypeOK, NEW r \in Completed
  PROVE  /\ Head(bundle[r]) \in Bundles
         /\ bundle[r] = <<Head(bundle[r])>>
  BY DEF TypeOK, Completed

\* The oldest run of a batch is a run.
LEMMA RunType ==
  ASSUME TypeOK, NEW p \in Processes, ~Free(p)
  PROVE  Run(p) \in Runs /\ Run(p) \in batch[p]
  BY MinIsLeast, IntakeAssumption DEF TypeOK, Free, Run, Runs

\* A bundle that holds up and whose scan run is complete proves every job.
LEMMA StatusIsProven ==
  ASSUME NEW b \in Bundles, Sound(b), Status(b) = "complete"
  PROVE  /\ b.conclusion /\ b.others
         /\ \A j \in RuntimeJobs : b.claimed[j] = "success" /\ b.record[j] = "pass"
  <1>1. b.conclusion /\ b.others /\ \A j \in RuntimeJobs : ProvenResult(b, j) = "success"
    BY DEF Status
  <1>2. ASSUME NEW j \in RuntimeJobs
        PROVE  b.claimed[j] = "success" /\ b.record[j] = "pass"
    <2>1. b.record[j] \in Verdicts /\ b.record[j] # "none" /\ RecordProblems(b, j) = {}
      BY BundlesAssumption DEF Sound, Acceptable
    <2>2. b.claimed[j] = "success"
      BY <1>1, <2>1 DEF ProvenResult
    <2>3. b.record[j] \notin {"other", "fail"}
      BY <2>1, <2>2 DEF RecordProblems
    <2> QED
      BY <2>1, <2>2, <2>3 DEF Verdicts
  <1> QED
    BY <1>1, <1>2

(***************************************************************************)
(* What a step leaves alone.                                               *)
(***************************************************************************)

\* A step of one process, or of GitHub, takes no knowledge from the others.
LEMMA StandingStays ==
  ASSUME IndInv, NEW q \in Processes,
         batch'[q] = batch[q], at'[q] = at[q],
         \A r \in Completed : bundle'[r] = bundle[r],
         \A r \in Runs : scan[r] # "none" => scan'[r] # "none",
         misled \subseteq misled'
  PROVE  Standing(q)'
  <1>1. Free(q)' <=> Free(q)
    BY DEF Free
  <1>2. Run(q)' = Run(q)
    BY DEF Run
  <1>3. \A r \in Completed : r \in Completed' /\ Head(bundle[r])' = Head(bundle[r])
    BY DEF Completed
  <1>4. ASSUME at[q] # "next"
        PROVE  Run(q) \in Runs
    BY <1>4, RunType DEF IndInv, Standing
  <1> QED
    BY <1>1, <1>2, <1>3, <1>4
    DEF IndInv, Standing, Bundle, Unsound

\* Rows a step does not touch still tell what they told.
LEMMA RecordedStays ==
  ASSUME IndInv, NEW r \in Runs,
         \A s \in Completed : bundle'[s] = bundle[s],
         intake'[r] = intake[r], scan'[r] = scan[r],
         misled \subseteq misled'
  PROVE  Recorded(r)'
  <1>1. r \in Completed => r \in Completed' /\ Head(bundle[r])' = Head(bundle[r])
    BY DEF Completed
  <1> QED
    BY <1>1
    DEF IndInv, Recorded, Unsound

(***************************************************************************)
(* The invariant holds initially and every action keeps it.                *)
(***************************************************************************)

\* Nothing is recorded at the start and both processes are free.
LEMMA InitIndInv == Init => IndInv
  BY IntakeAssumption
  DEF Init, IndInv, TypeOK, Standing, Recorded, Runs, Processes, Steps

\* A run that completes had no bundle that anything could rest on.
LEMMA CompleteKeeps ==
  ASSUME IndInv, NEW r \in Runs, Complete(r)
  PROVE  IndInv'
  <1>1. \A s \in Completed : bundle'[s] = bundle[s]
    BY DEF Complete, Completed, IndInv, TypeOK
  <1>2. TypeOK'
    BY DEF Complete, IndInv, TypeOK
  <1>3. \A q \in Processes : Standing(q)'
    BY <1>1, StandingStays DEF Complete
  <1>4. \A s \in Runs : Recorded(s)'
    BY <1>1, RecordedStays DEF Complete
  <1> QED
    BY <1>2, <1>3, <1>4 DEF IndInv

\* A free process stands at no run, so it may take any batch.
LEMMA PollKeeps ==
  ASSUME IndInv, NEW p \in Processes, Poll(p)
  PROVE  IndInv'
  <1>1. TypeOK'
    BY DEF Poll, IndInv, TypeOK, Unseen, Completed
  <1>2. ASSUME NEW q \in Processes
        PROVE  Standing(q)'
    <2>1. CASE q = p
      <3>1. at'[q] = "next"
        BY <2>1 DEF Poll, IndInv, Standing
      <3> QED
        BY <3>1 DEF Standing
    <2>2. CASE q # p
      <3>1. batch'[q] = batch[q]
        BY <2>2 DEF Poll, IndInv, TypeOK
      <3> QED
        BY <3>1, StandingStays DEF Poll
    <2> QED
      BY <2>1, <2>2
  <1>3. \A s \in Runs : Recorded(s)'
    BY RecordedStays DEF Poll
  <1> QED
    BY <1>1, <1>2, <1>3 DEF IndInv

\* So may the command with a run id.
LEMMA IngestRunIdKeeps ==
  ASSUME IndInv, IngestRunId
  PROVE  IndInv'
  <1>1. TypeOK'
    BY IntakeAssumption DEF IngestRunId, IndInv, TypeOK, Processes
  <1>2. ASSUME NEW q \in Processes
        PROVE  Standing(q)'
    <2>1. CASE q = "cli"
      <3>1. at'[q] = "next"
        BY <2>1 DEF IngestRunId, IndInv, Standing
      <3> QED
        BY <3>1 DEF Standing
    <2>2. CASE q # "cli"
      <3>1. batch'[q] = batch[q]
        BY <2>2 DEF IngestRunId, IndInv, TypeOK
      <3> QED
        BY <3>1, StandingStays DEF IngestRunId
    <2> QED
      BY <2>1, <2>2
  <1>3. \A s \in Runs : Recorded(s)'
    BY RecordedStays DEF IngestRunId
  <1> QED
    BY <1>1, <1>2, <1>3 DEF IndInv

\* A process moves to a step, or on to the next run; the other does not move.
LEMMA Moves ==
  ASSUME IndInv, NEW p \in Processes,
         \/ \E step \in Steps : GoesTo(p, step)
         \/ Done(p) \/ Raises(p)
  PROVE  /\ batch' \in [Processes -> SUBSET Runs]
         /\ at' \in [Processes -> Steps]
         /\ \A q \in Processes \ {p} : batch'[q] = batch[q] /\ at'[q] = at[q]
         /\ Done(p) \/ Raises(p) => at'[p] = "next"
         /\ \A step \in Steps : GoesTo(p, step) =>
              /\ at'[p] = step
              /\ Free(p)' = Free(p) /\ Run(p)' = Run(p)
  <1> USE DEF IndInv, TypeOK
  <1>1. CASE Done(p)
    BY <1>1 DEF Done, GoesTo, Free, Run, Raises, Steps
  <1>2. CASE Raises(p)
    BY <1>2 DEF Raises, GoesTo, Free, Run, Done, Steps
  <1>3. ASSUME NEW step \in Steps, GoesTo(p, step)
        PROVE  /\ batch' \in [Processes -> SUBSET Runs]
               /\ at' \in [Processes -> Steps]
               /\ \A q \in Processes \ {p} : batch'[q] = batch[q] /\ at'[q] = at[q]
               /\ at'[p] = step
               /\ Free(p)' = Free(p) /\ Run(p)' = Run(p)
    BY <1>3 DEF GoesTo, Free, Run
  <1> QED
    BY <1>1, <1>2, <1>3 DEF Done, Raises, GoesTo

\* A process that looks at a run finds it seen, still running, or with artifacts.
LEMMA LookKeeps ==
  ASSUME IndInv, NEW p \in Processes, Look(p)
  PROVE  IndInv'
  <1>1. \/ Done(p)
        \/ GoesTo(p, "reject") \/ GoesTo(p, "unpack")
    BY DEF Look
  <1>2. /\ batch' \in [Processes -> SUBSET Runs]
        /\ at' \in [Processes -> Steps]
        /\ \A q \in Processes \ {p} : batch'[q] = batch[q] /\ at'[q] = at[q]
    BY <1>1, Moves DEF Steps
  <1>3. Run(p) \in Runs
    BY RunType DEF Look, IndInv
  <1>4. TypeOK'
    BY <1>2, <1>3 DEF Look, IndInv, TypeOK
  <1>5. Standing(p)'
    <2>1. CASE Done(p)
      BY <2>1, Moves DEF Standing
    <2>2. CASE Run(p) \notin Completed /\ GoesTo(p, "reject")
                /\ misled' = misled \cup {Run(p)}
      BY <2>2, Moves DEF Standing, Steps, Look
    <2>3. CASE Run(p) \in Completed /\ GoesTo(p, "unpack")
                /\ Bundle(p).artifacts = 1
      BY <2>3, Moves DEF Standing, Steps, Look, Bundle, Completed
    <2>4. CASE Run(p) \in Completed /\ GoesTo(p, "reject")
                /\ Bundle(p).artifacts # 1
      BY <2>4, Moves
      DEF Standing, Steps, Look, Bundle, Completed, Unsound, Sound
    <2> QED
      BY <2>1, <2>2, <2>3, <2>4 DEF Look
  <1>6. \A q \in Processes \ {p} : Standing(q)'
    BY <1>2, StandingStays DEF Look
  <1>7. \A r \in Runs : Recorded(r)'
    BY RecordedStays DEF Look
  <1> QED
    BY <1>4, <1>5, <1>6, <1>7 DEF IndInv

\* The check lets a run pass only when its evidence holds up; a rejection is
\* for evidence that does not, or the run was read from a torn directory.
LEMMA CheckKeeps ==
  ASSUME IndInv, NEW p \in Processes, Check(p)
  PROVE  IndInv'
  <1>1. GoesTo(p, "persist") \/ GoesTo(p, "reject")
    BY DEF Check
  <1>2. /\ batch' \in [Processes -> SUBSET Runs]
        /\ at' \in [Processes -> Steps]
        /\ \A q \in Processes \ {p} : batch'[q] = batch[q] /\ at'[q] = at[q]
    BY <1>1, Moves DEF Steps
  <1>3. Run(p) \in Runs /\ Run(p) \in Completed /\ Bundle(p).artifacts = 1
    BY RunType DEF Check, IndInv, Standing
  <1>4. TypeOK'
    BY <1>2, <1>3 DEF Check, IndInv, TypeOK
  <1>5. Standing(p)'
    <2>1. CASE GoesTo(p, "persist") /\ Sound(Bundle(p))
      BY <2>1, <1>3, Moves DEF Standing, Steps, Check, Bundle, Completed
    <2>2. CASE GoesTo(p, "reject") /\ ~Sound(Bundle(p))
      BY <2>2, <1>3, Moves DEF Standing, Steps, Check, Bundle, Completed, Unsound
    <2>3. CASE GoesTo(p, "reject") /\ misled' = misled \cup {Run(p)}
      BY <2>3, Moves DEF Standing, Steps, Check
    <2> QED
      BY <1>3, <2>1, <2>2, <2>3 DEF Check, Sound
  <1>6. \A q \in Processes \ {p} : Standing(q)'
    BY <1>2, StandingStays DEF Check
  <1>7. \A r \in Runs : Recorded(r)'
    BY RecordedStays DEF Check
  <1> QED
    BY <1>4, <1>5, <1>6, <1>7 DEF IndInv

\* A rejection without an answer is remembered as one.
LEMMA CheckUnansweredKeeps ==
  ASSUME IndInv, NEW p \in Processes, CheckUnanswered(p)
  PROVE  IndInv'
  <1>1. GoesTo(p, "reject")
    BY DEF CheckUnanswered
  <1>2. /\ batch' \in [Processes -> SUBSET Runs]
        /\ at' \in [Processes -> Steps]
        /\ \A q \in Processes \ {p} : batch'[q] = batch[q] /\ at'[q] = at[q]
        /\ at'[p] = "reject" /\ Free(p)' = Free(p) /\ Run(p)' = Run(p)
    BY <1>1, Moves DEF Steps
  <1>3. Run(p) \in Runs
    BY RunType DEF CheckUnanswered, IndInv
  <1>4. TypeOK'
    BY <1>2, <1>3, IntakeAssumption DEF CheckUnanswered, IndInv, TypeOK
  <1>5. Standing(p)'
    BY <1>2 DEF Standing, CheckUnanswered
  <1>6. \A q \in Processes \ {p} : Standing(q)'
    BY <1>2, StandingStays DEF CheckUnanswered
  <1>7. \A r \in Runs : Recorded(r)'
    BY RecordedStays DEF CheckUnanswered
  <1> QED
    BY <1>4, <1>5, <1>6, <1>7 DEF IndInv

\* The scan run is written from the bundle the check let pass, or is there.
LEMMA PersistKeeps ==
  ASSUME IndInv, NEW p \in Processes, Persist(p)
  PROVE  IndInv'
  <1>1. GoesTo(p, "record") \/ Raises(p)
    BY DEF Persist
  <1>2. /\ batch' \in [Processes -> SUBSET Runs]
        /\ at' \in [Processes -> Steps]
        /\ \A q \in Processes \ {p} : batch'[q] = batch[q] /\ at'[q] = at[q]
    BY <1>1, Moves DEF Steps
  <1>3. Run(p) \in Runs /\ Run(p) \in Completed /\ Sound(Bundle(p))
    BY RunType DEF Persist, IndInv, Standing
  <1>4. Status(Bundle(p)) \in {"complete", "incomplete"}
    BY DEF Status
  <1>5. TypeOK'
    BY <1>2, <1>3, <1>4 DEF Persist, IndInv, TypeOK
  <1>6. /\ \A r \in Runs : scan[r] # "none" => scan'[r] = scan[r]
        /\ \A r \in Runs \ {Run(p)} : scan'[r] = scan[r]
        /\ UNCHANGED <<bundle, intake, misled>>
    BY DEF Persist, IndInv, TypeOK
  <1>7. Standing(p)'
    <2>1. CASE GoesTo(p, "record")
      <3>1. scan'[Run(p)] # "none"
        BY <1>3, <1>4, <2>1 DEF Persist, IndInv, TypeOK, Raises, GoesTo
      <3>2. /\ at'[p] = "record" /\ ~Free(p)' /\ Run(p)' = Run(p)
            /\ Bundle(p)' = Bundle(p) /\ Completed' = Completed
        BY <2>1, Moves DEF Steps, Persist, Bundle, Completed
      <3> QED
        BY <1>3, <3>1, <3>2 DEF Standing
    <2>2. CASE Raises(p)
      BY <2>2, Moves DEF Standing
    <2> QED
      BY <1>1, <2>1, <2>2
  <1>8. \A q \in Processes \ {p} : Standing(q)'
    BY <1>2, <1>6, StandingStays
  <1>9. PICK r \in Runs : r = Run(p)
    BY <1>3
  <1>10. Recorded(r)'
    <2>1. CASE UNCHANGED scan
      BY <1>6, <2>1, RecordedStays
    <2>2. CASE /\ scan[Run(p)] = "none" /\ Bundle(p).subject
               /\ scan' = [scan EXCEPT ![Run(p)] = Status(Bundle(p))]
      <3>1. scan'[r] = Status(Head(bundle[r])) /\ Head(bundle[r]).subject
        BY <1>9, <2>2 DEF IndInv, TypeOK, Bundle
      <3>2. intake'[r] = "rejected" =>
              r \in misled' \/ Unsound(r)'
        BY <1>3, <1>6, <1>9 DEF IndInv, Recorded, Unsound, Bundle, Completed
      <3>3. r \in Completed' /\ bundle' = bundle
        BY <1>3, <1>6, <1>9 DEF Completed
      <3> QED
        BY <1>3, <1>4, <1>9, <3>1, <3>2, <3>3 DEF Recorded, Bundle
    <2> QED
      BY <2>1, <2>2 DEF Persist
  <1>11. \A s \in Runs : Recorded(s)'
    BY <1>6, <1>9, <1>10, RecordedStays
  <1> QED
    BY <1>5, <1>7, <1>8, <1>11 DEF IndInv

\* The intake row is written once, with what the process stands for.
LEMMA RecordKeeps ==
  ASSUME IndInv, NEW p \in Processes, Record(p)
  PROVE  IndInv'
  <1>1. Done(p) \/ Raises(p)
    BY DEF Record
  <1>2. /\ batch' \in [Processes -> SUBSET Runs]
        /\ at' \in [Processes -> Steps]
        /\ \A q \in Processes \ {p} : batch'[q] = batch[q] /\ at'[q] = at[q]
        /\ at'[p] = "next"
    BY <1>1, Moves
  <1>3. Run(p) \in Runs
    BY RunType DEF Record, IndInv
  <1>4. TypeOK'
    BY <1>2, <1>3 DEF Record, IndInv, TypeOK
  <1>5. \A q \in Processes : Standing(q)'
    <2>1. Standing(p)'
      BY <1>2 DEF Standing
    <2>2. \A q \in Processes \ {p} : Standing(q)'
      BY <1>2, StandingStays DEF Record
    <2> QED
      BY <2>1, <2>2
  <1>6. PICK r \in Runs : r = Run(p)
    BY <1>3
  <1>7. \A s \in Runs \ {r} : Recorded(s)'
    <2>1. \A s \in Runs \ {r} : intake'[s] = intake[s]
      BY <1>6 DEF Record, IndInv, TypeOK
    <2> QED
      BY <2>1, RecordedStays DEF Record
  <1>8. Recorded(r)'
    <2>1. CASE UNCHANGED intake
      BY <2>1, RecordedStays DEF Record
    <2>2. CASE intake' = [intake EXCEPT ![Run(p)] =
                            IF at[p] = "record" THEN "ingested" ELSE "rejected"]
      <3>1. /\ at[p] = "record" => intake'[r] = "ingested"
            /\ at[p] # "record" => intake'[r] = "rejected"
            /\ UNCHANGED <<bundle, scan, misled>>
        BY <1>6, <2>2 DEF Record, IndInv, TypeOK
      <3>2. Recorded(r) /\ Standing(p)
        BY <1>6 DEF IndInv
      <3>3. CASE at[p] = "record"
        BY <1>6, <3>1, <3>2, <3>3 DEF Recorded, Standing, Bundle, Completed
      <3>4. CASE at[p] = "reject"
        BY <1>6, <3>1, <3>2, <3>4 DEF Recorded, Standing, Bundle, Completed, Unsound
      <3> QED
        BY <3>3, <3>4 DEF Record
    <2> QED
      BY <2>1, <2>2 DEF Record
  <1> QED
    BY <1>4, <1>5, <1>7, <1>8 DEF IndInv

\* A process that dies forgets its batch and leaves the rows as they are.
LEMMA FailKeeps ==
  ASSUME IndInv, NEW p \in Processes, Fail(p)
  PROVE  IndInv'
  <1>1. /\ batch' \in [Processes -> SUBSET Runs]
        /\ at' \in [Processes -> Steps]
        /\ \A q \in Processes \ {p} : batch'[q] = batch[q] /\ at'[q] = at[q]
        /\ at'[p] = "next"
    BY Moves DEF Fail
  <1>2. TypeOK'
    BY <1>1, IntakeAssumption DEF Fail, IndInv, TypeOK
  <1>3. Standing(p)'
    BY <1>1 DEF Standing
  <1>4. \A q \in Processes \ {p} : Standing(q)'
    BY <1>1, StandingStays DEF Fail
  <1>5. \A r \in Runs : Recorded(r)'
    BY RecordedStays DEF Fail
  <1> QED
    BY <1>2, <1>3, <1>4, <1>5 DEF IndInv

(***************************************************************************)
(* The theorems.                                                           *)
(***************************************************************************)

\* What the processes know and what the rows say holds in every state.
THEOREM Invariance == Spec => []IndInv
  <1>1. IndInv /\ [Next]_vars => IndInv'
    <2> SUFFICES ASSUME IndInv, [Next]_vars
                 PROVE  IndInv'
      OBVIOUS
    <2>1. CASE UNCHANGED vars
      BY <2>1, StandingStays, RecordedStays DEF vars, IndInv, TypeOK
    <2>2. CASE Next
      BY <2>2, CompleteKeeps, IngestRunIdKeeps, PollKeeps, LookKeeps, CheckKeeps,
         CheckUnansweredKeeps, PersistKeeps, RecordKeeps, FailKeeps
      DEF Next, Works
    <2> QED
      BY <2>1, <2>2
  <1> QED
    BY <1>1, InitIndInv, PTL DEF Spec

\* Types, and the order of the steps: nothing is checked, persisted or recorded
\* for a run that has not completed, and no row says ingested before its scan run.
THEOREM Types == Spec => []Inv
  <1>1. IndInv => Inv
    BY DEF IndInv, Inv, Standing
  <1> QED
    BY <1>1, Invariance, PTL

\* The two transactions of a run agree, wherever a process died between them and
\* whatever the other process made of the run.
THEOREM RowsAlwaysAgree == Spec => []RowsAgree
  <1>1. IndInv => RowsAgree
    BY DEF IndInv, Recorded, RowsAgree, Unsound
  <1> QED
    BY <1>1, Invariance, PTL

\* A complete scan run rests on a bundle that proves every one of its jobs.
THEOREM CompleteIsAlwaysProven == Spec => []CompleteIsProven
  <1>1. IndInv => CompleteIsProven
    <2> SUFFICES ASSUME IndInv, NEW r \in Runs, scan[r] = "complete"
                 PROVE  LET b == Head(bundle[r]) IN
                   /\ b.artifacts = 1 /\ b.digest /\ b.loads /\ b.wrong = {}
                   /\ b.descends /\ b.conclusion /\ b.others /\ b.subject
                   /\ \A j \in RuntimeJobs :
                        b.claimed[j] = "success" /\ b.record[j] = "pass"
      BY DEF CompleteIsProven
    <2> DEFINE b == Head(bundle[r])
    <2>1. /\ r \in Completed /\ Sound(b) /\ b.subject /\ Status(b) = "complete"
          /\ b \in Bundles
      BY BundleType DEF IndInv, Recorded
    <2>2. /\ b.conclusion /\ b.others
          /\ \A j \in RuntimeJobs : b.claimed[j] = "success" /\ b.record[j] = "pass"
      BY <2>1, StatusIsProven
    <2> QED
      BY <2>1, <2>2 DEF Sound, Acceptable
  <1> QED
    BY <1>1, Invariance, PTL

\* A row, once written, is never changed and never taken back: the intake row of
\* a run, its scan run, and the bundle both were judged by.
RowsAreFinal ==
  \A r \in Runs :
    /\ intake[r] # "none" => intake'[r] = intake[r]
    /\ scan[r] # "none" => scan'[r] = scan[r]
    /\ r \in Completed => bundle'[r] = bundle[r]

\* Both processes write a row only where there is none.
THEOREM RowsStayFinal == Spec => [][RowsAreFinal]_vars
  <1>1. IndInv /\ [Next]_vars => [RowsAreFinal]_vars
    <2> SUFFICES ASSUME IndInv, Next
                 PROVE  RowsAreFinal
      BY DEF vars, RowsAreFinal
    <2> USE DEF RowsAreFinal, IndInv, TypeOK
    <2>1. ASSUME NEW r \in Runs, Complete(r) PROVE RowsAreFinal
      BY <2>1 DEF Complete, Completed
    <2>2. CASE IngestRunId
      BY <2>2 DEF IngestRunId
    <2>3. ASSUME NEW p \in Processes, Works(p) \/ CheckUnanswered(p) \/ Fail(p)
          PROVE  RowsAreFinal
      BY <2>3 DEF Works, Poll, Look, Check, Persist, Record, CheckUnanswered, Fail
    <2> QED
      BY <2>1, <2>2, <2>3 DEF Next
  <1> QED
    BY <1>1, Invariance, PTL DEF Spec
=============================================================================
