------------------------- MODULE ControlPlaneProofs -------------------------
(***************************************************************************)
(* The bounded jobs: first the worktree leases and the reports of the      *)
(* dispatch adapters (JobDispatch), then the jobs, the queue and the slots *)
(* of the control plane (ControlPlane), then the container executions of   *)
(* the workers (ContainerExecutions). A minimum of a set of naturals, which *)
(* the first two need, comes first.                                        *)
(***************************************************************************)
EXTENDS ControlPlane, JobDispatch, ContainerExecutions, FiniteSetTheorems, SequenceTheorems,
        WellFoundedInduction, TLAPS

\* A set of naturals that is not empty has a least element.
LEMMA NatMinimum ==
    ASSUME NEW S, S \subseteq Nat, S # {}
    PROVE  \E x \in S : \A y \in S : x <= y
  <1> DEFINE R == OpToRel(<, Nat)
  <1>1. \A x, y \in Nat : <<y, x>> \in R <=> y < x
    BY DEF OpToRel
  <1>2. IsWellFoundedOn(R, Nat)
    BY NatLessThanWellFounded
  <1> HIDE DEF R
  <1>3. \E x \in S : \A y \in S : ~(<<y, x>> \in R)
    BY <1>2, WFMin
  <1>4. PICK x \in S : \A y \in S : ~(<<y, x>> \in R)
    BY <1>3
  <1>5. ASSUME NEW y \in S PROVE x <= y
    <2>1. x \in Nat /\ y \in Nat
      OBVIOUS
    <2>2. ~(y < x)
      BY <1>1, <1>4, <2>1
    <2> QED BY <2>1, <2>2
  <1> QED BY <1>5

-----------------------------------------------------------------------------
(***************************************************************************)
(* The worktree leases and the reports of JobDispatch, for any set of      *)
(* jobs, any scenes and any number of faults: two writers are fenced       *)
(* (WritersFenced) and an accepted job is reported once                    *)
(* (ReportedExactlyOnce).                                                  *)
(*                                                                         *)
(* Neither is inductive.  Both rest on the order of an ended run: the      *)
(* process is told to stop before the lease is given back, and the lease   *)
(* is given back before the report.  So the invariant says, phase by       *)
(* phase, where a job's process, answer and reports are (Life), that the   *)
(* manager's chain holds one acquire for a job that acquires and one       *)
(* release for a job that ends (Queue), and that a running writer is       *)
(* without its lease only if it lapsed (Lease).  That a grant finds a next *)
(* token at all needs the tokens to be bounded (Bounded); nothing is       *)
(* assumed of the set of jobs.                                             *)
(*                                                                         *)
(* Most steps move one job and no lease (OneJobInv).  Of these, the ones   *)
(* that end a run are instances of EndsRun, the ones that call nothing are *)
(* instances of Quiet.  The lemmas on the three operations of the lease    *)
(* manager treat the jobs' half of a step and the leases' half apart.      *)
(***************************************************************************)

Outcomes == {"completed", "failed", "cancelled", "interrupted", "timedOut"}

LeaseRec == [state : {"none", "held", "released"}, fence : Nat, orphaned : BOOLEAN]

Phases == {"new", "acquiring", "handshake", "turn", "accepted", "releasing", "released", "over", "dead"}
Procs == {"none", "running", "stopping", "gone"}
Answers == {"none", "accepted", "thrown"}

JobRec == [phase : Phases, settled : BOOLEAN, cancelled : BOOLEAN,
           turn : BOOLEAN, leased : BOOLEAN, result : Outcomes \cup {"none"},
           asked : BOOLEAN]

CallRec == [op : {"acquire", "renew", "release"}, job : Runs]

DispatchTypeOK ==
    /\ records \in [Runs -> LeaseRec] /\ leaseFile \in [Runs -> LeaseRec]
    /\ job \in [Runs -> JobRec] /\ calls \in Seq(CallRec)
    /\ process \in [Runs -> Procs]
    /\ delivered \in [Runs -> Seq(Outcomes)]
    /\ answer \in [Runs -> Answers]
    /\ up \in BOOLEAN

\* Of one job: where its process is in each phase of its run, that the lease is
\* given up when the run ends, and when its report is due.
Life(j) ==
    /\ job[j].settled <=> job[j].phase \in {"releasing", "released", "over", "dead"}
    /\ job[j].leased => job[j].phase \notin {"new", "acquiring"}
    /\ job[j].phase \in {"new", "acquiring"} => process[j] = "none"
    /\ job[j].phase \in {"acquiring", "handshake", "turn"} => Codex
    /\ job[j].phase = "accepted" => process[j] \in {"running", "stopping"}
    /\ job[j].phase = "releasing" => process[j] # "running"
    /\ answer[j] = "accepted" => job[j].phase \in {"accepted", "releasing", "released", "over", "dead"}
    /\ answer[j] = "accepted" /\ job[j].phase \in {"releasing", "released"} => job[j].result # "none"
    /\ delivered[j] # <<>> => job[j].phase \in {"over", "dead"}
    /\ Len(delivered[j]) <= 1
    /\ answer[j] = "accepted" /\ job[j].phase = "over" /\ j \notin stuck => Len(delivered[j]) = 1
    /\ ~up => job[j].phase \in {"new", "dead"} /\ process[j] # "running"

\* What waits in the manager's chain is what the jobs are at.
Queue ==
    /\ \A i \in DOMAIN calls :
        /\ calls[i].op = "acquire" => job[calls[i].job].phase = "acquiring"
        /\ calls[i].op = "release" => job[calls[i].job].phase = "releasing"
        /\ calls[i].op = "renew" => job[calls[i].job].leased \/ job[calls[i].job].settled
    /\ \A i, k \in DOMAIN calls : calls[i] = calls[k] /\ calls[i].op # "renew" => i = k
    /\ \A j \in Runs : job[j].phase = "releasing" =>
            \E i \in DOMAIN calls : calls[i] = [op |-> "release", job |-> j]
    /\ ~up => calls = <<>>

\* The lease of one job: a job that has not begun has none, an orphan has no
\* process, and a running writer loses its lease only by missing its heartbeats.
Lease(j) ==
    /\ job[j].phase = "new" => records[j] = NoLease /\ leaseFile[j] = NoLease
    /\ records[j].orphaned => process[j] # "running"
    /\ process[j] = "running" /\ 0 < records[j].fence /\ records[j].state # "held" => j \in lapsed

Bounded == \E m \in Nat : \A j \in Runs : records[j].fence <= m /\ leaseFile[j].fence <= m

DispatchOK ==
    /\ DispatchTypeOK
    /\ \A j \in Runs : Life(j) /\ Lease(j)
    /\ Queue /\ Bounded /\ WritersFenced

-----------------------------------------------------------------------------
\* The job after a run's end, field by field.
LEMMA CleaningFacts ==
    ASSUME NEW j, NEW e \in JobRec, NEW r \in Outcomes \cup {"none"}
    PROVE  /\ Cleaning(j, e) \in JobRec
           /\ Cleaning(j, e).settled /\ ~Cleaning(j, e).leased
           /\ Cleaning(j, e).phase = IF e.leased THEN "releasing" ELSE "released"
           /\ [Cleaning(j, e) EXCEPT !.result = r] \in JobRec
           /\ [Cleaning(j, e) EXCEPT !.result = r].settled
           /\ ~[Cleaning(j, e) EXCEPT !.result = r].leased
           /\ [Cleaning(j, e) EXCEPT !.result = r].phase = IF e.leased THEN "releasing" ELSE "released"
           /\ [Cleaning(j, e) EXCEPT !.result = r].result = r
  BY DEF Cleaning, JobRec, Outcomes, Phases

LEMMA StutterInv ==
    ASSUME DispatchOK, UNCHANGED <<scene, records, leaseFile, lapsed, job, process, calls, answer, delivered, up, stuck>>
    PROVE  DispatchOK'
  <1>1. DispatchTypeOK'
    BY DEF DispatchOK, DispatchTypeOK
  <1>2. \A j \in Runs : Life(j)' /\ Lease(j)'
    BY DEF DispatchOK, Life, Codex, Lease
  <1>3. Queue'
    BY DEF DispatchOK, Queue
  <1>4. Bounded' /\ WritersFenced'
    BY DEF DispatchOK, Bounded, WritersFenced
  <1> QED BY <1>1, <1>2, <1>3, <1>4 DEF DispatchOK

\* One job moves; no lease does.
OneJob(j) ==
    /\ \E e \in JobRec : job' = [job EXCEPT ![j] = e] /\ e.phase # "new"
    /\ \E p \in Procs : /\ process' = [process EXCEPT ![j] = p]
                        /\ p = "running" => process[j] = "running" \/ records[j] = NoLease
    /\ \E a \in Answers : answer' = [answer EXCEPT ![j] = a]
    /\ \E r \in Seq(Outcomes) : delivered' = [delivered EXCEPT ![j] = r]
    /\ UNCHANGED <<scene, leases, up, stuck>>

LEMMA OneJobInv ==
    ASSUME DispatchOK, NEW j \in Runs, OneJob(j), Life(j)', calls' \in Seq(CallRec), Queue'
    PROVE  DispatchOK'
  <1>1. PICK e \in JobRec : job' = [job EXCEPT ![j] = e] /\ e.phase # "new"
    BY DEF OneJob
  <1>2. PICK p \in Procs : /\ process' = [process EXCEPT ![j] = p]
                           /\ p = "running" => process[j] = "running" \/ records[j] = NoLease
    BY DEF OneJob
  <1>3. PICK a \in Answers : answer' = [answer EXCEPT ![j] = a]
    BY DEF OneJob
  <1>4. PICK r \in Seq(Outcomes) : delivered' = [delivered EXCEPT ![j] = r]
    BY DEF OneJob
  <1>5. UNCHANGED <<scene, records, leaseFile, lapsed, up, stuck>>
    BY DEF OneJob, leases
  <1>6. DispatchTypeOK'
    BY <1>1, <1>2, <1>3, <1>4, <1>5 DEF DispatchOK, DispatchTypeOK, Procs, Answers
  <1>7. ASSUME NEW k \in Runs, k # j
        PROVE  job'[k] = job[k] /\ process'[k] = process[k] /\ answer'[k] = answer[k] /\ delivered'[k] = delivered[k]
    BY <1>1, <1>2, <1>3, <1>4, <1>7 DEF DispatchOK, DispatchTypeOK
  <1>8. ASSUME NEW k \in Runs  PROVE  Life(k)'
    <2>1. CASE k = j
      BY <2>1
    <2>2. CASE k # j
      BY <2>2, <1>5, <1>7 DEF Life, Codex, DispatchOK
    <2> QED BY <2>1, <2>2
  <1>9. process'[j] = p /\ job'[j] = e
    BY <1>1, <1>2 DEF DispatchOK, DispatchTypeOK
  <1>10. ASSUME NEW k \in Runs  PROVE  Lease(k)'
    <2>1. CASE k = j
      BY <2>1, <1>1, <1>2, <1>5, <1>9 DEF Lease, DispatchOK, NoLease
    <2>2. CASE k # j
      BY <2>2, <1>5, <1>7 DEF Lease, DispatchOK
    <2> QED BY <2>1, <2>2
  <1>11. Bounded'
    BY <1>5 DEF DispatchOK, Bounded
  <1>12. WritersFenced'
    <2>1. ASSUME NEW k \in Runs, process'[k] = "running"
          PROVE  process[k] = "running" \/ records[k].fence = 0
      <3>1. CASE k = j
        BY <2>1, <3>1, <1>2, <1>9 DEF NoLease
      <3>2. CASE k # j
        BY <2>1, <3>2, <1>7
      <3> QED BY <3>1, <3>2
    <2>2. \A k \in Runs : records[k].fence \in Nat
      BY DEF DispatchOK, DispatchTypeOK, LeaseRec
    <2> QED BY <2>1, <2>2, <1>5 DEF WritersFenced, DispatchOK
  <1> QED BY <1>6, <1>8, <1>10, <1>11, <1>12 DEF DispatchOK

\* Nothing is called, and the job stays where its calls expect it.
LEMMA SameCalls ==
    ASSUME DispatchOK, NEW j \in Runs, NEW e \in JobRec, job' = [job EXCEPT ![j] = e],
           e.phase = "acquiring" <=> job[j].phase = "acquiring",
           e.phase = "releasing" <=> job[j].phase = "releasing",
           job[j].leased \/ job[j].settled => e.leased \/ e.settled,
           calls' = calls, up' = up
    PROVE  calls' \in Seq(CallRec) /\ Queue'
  <1>1. job'[j] = e /\ \A k \in Runs \ {j} : job'[k] = job[k]
    BY DEF DispatchOK, DispatchTypeOK
  <1>2. \A i \in DOMAIN calls : calls[i] \in CallRec
    BY DEF DispatchOK, DispatchTypeOK
  <1>3. \A i \in DOMAIN calls : calls[i].job \in Runs
    BY <1>2 DEF CallRec
  <1> QED BY <1>1, <1>3 DEF DispatchOK, Queue, DispatchTypeOK

\* One more call of a job that had none of that kind.
LEMMA OneMoreCall ==
    ASSUME DispatchOK, up, up' = up, NEW j \in Runs, NEW e \in JobRec, job' = [job EXCEPT ![j] = e],
           NEW op \in {"acquire", "renew", "release"}, Call(op, j),
           job[j].phase \notin {"acquiring", "releasing"},
           op = "acquire" <=> e.phase = "acquiring",
           op = "release" <=> e.phase = "releasing",
           op = "renew" \/ job[j].leased \/ job[j].settled => e.leased \/ e.settled
    PROVE  calls' \in Seq(CallRec) /\ Queue'
  <1>1. job'[j] = e /\ \A k \in Runs \ {j} : job'[k] = job[k]
    BY DEF DispatchOK, DispatchTypeOK
  <1> DEFINE c == [op |-> op, job |-> j]
  <1>2. c \in CallRec /\ calls \in Seq(CallRec)
    BY DEF CallRec, DispatchOK, DispatchTypeOK
  <1>3. calls' = Append(calls, c)
    BY DEF Call
  <1>4. /\ calls' \in Seq(CallRec) /\ DOMAIN calls' = 1 .. (Len(calls) + 1)
        /\ Len(calls) \in Nat /\ DOMAIN calls = 1 .. Len(calls)
        /\ \A i \in DOMAIN calls : calls'[i] = calls[i] /\ calls[i] \in CallRec
        /\ calls'[Len(calls) + 1] = c
    BY <1>2, <1>3
  <1> HIDE DEF c
  <1>5. c.op = op /\ c.job = j
    BY DEF c
  <1>6. \A i \in DOMAIN calls' :
          /\ calls'[i].op = "acquire" => job'[calls'[i].job].phase = "acquiring"
          /\ calls'[i].op = "release" => job'[calls'[i].job].phase = "releasing"
          /\ calls'[i].op = "renew" => job'[calls'[i].job].leased \/ job'[calls'[i].job].settled
    <2> SUFFICES ASSUME NEW i \in DOMAIN calls'
                 PROVE  /\ calls'[i].op = "acquire" => job'[calls'[i].job].phase = "acquiring"
                        /\ calls'[i].op = "release" => job'[calls'[i].job].phase = "releasing"
                        /\ calls'[i].op = "renew" => job'[calls'[i].job].leased \/ job'[calls'[i].job].settled
      OBVIOUS
    <2>1. CASE i = Len(calls) + 1
      BY <2>1, <1>1, <1>4, <1>5
    <2>2. CASE i \in DOMAIN calls
      <3>1. calls'[i] = calls[i] /\ calls[i].job \in Runs
        BY <2>2, <1>4 DEF CallRec
      <3> QED BY <3>1, <2>2, <1>1 DEF DispatchOK, Queue
    <2> QED BY <2>1, <2>2, <1>4
  <1>7. ASSUME NEW i \in DOMAIN calls, op # "renew"  PROVE  calls[i] # c
    <2>1. calls[i].op = op /\ calls[i].job = j => FALSE
      BY <1>7, <1>4 DEF DispatchOK, Queue
    <2> QED BY <2>1, <1>5
  <1>8. \A i, k \in DOMAIN calls' : calls'[i] = calls'[k] /\ calls'[i].op # "renew" => i = k
    BY <1>4, <1>5, <1>7 DEF DispatchOK, Queue
  <1>9. ASSUME NEW k \in Runs, job'[k].phase = "releasing"
        PROVE  \E i \in DOMAIN calls' : calls'[i] = [op |-> "release", job |-> k]
    <2>1. CASE k = j
      BY <2>1, <1>9, <1>1, <1>4 DEF c
    <2>2. CASE k # j
      BY <2>2, <1>9, <1>1, <1>4 DEF DispatchOK, Queue
    <2> QED BY <2>1, <2>2
  <1> QED BY <1>4, <1>6, <1>8, <1>9 DEF Queue

-----------------------------------------------------------------------------
(***************************************************************************)
(* A run ends: it is cleaned up, its process is told to stop or is gone,   *)
(* the caller that still waits is answered, and a job that was accepted    *)
(* has an outcome.                                                         *)
(***************************************************************************)
EndsRun(j) ==
    /\ up /\ job[j].phase \in {"handshake", "turn", "accepted"}
    /\ \E e \in JobRec :
        /\ e.settled /\ ~e.leased /\ e.phase = (IF job[j].leased THEN "releasing" ELSE "released")
        /\ job' = [job EXCEPT ![j] = e]
        /\ \E a \in {"accepted", "thrown"} :
            /\ answer' = [answer EXCEPT ![j] = a]
            /\ a = "accepted" => e.result # "none"
    /\ \E p \in {"none", "stopping", "gone"} : process' = [process EXCEPT ![j] = p]
    /\ Releases(j)
    /\ UNCHANGED <<scene, leases, delivered, up, stuck>>

LEMMA EndsRunInv ==
    ASSUME DispatchOK, NEW j \in Runs, EndsRun(j)
    PROVE  DispatchOK'
  <1>1. PICK e \in JobRec :
        /\ e.settled /\ ~e.leased /\ e.phase = (IF job[j].leased THEN "releasing" ELSE "released")
        /\ job' = [job EXCEPT ![j] = e]
        /\ \E a \in {"accepted", "thrown"} :
            /\ answer' = [answer EXCEPT ![j] = a]
            /\ a = "accepted" => e.result # "none"
    BY DEF EndsRun
  <1>2. PICK a \in {"accepted", "thrown"} : /\ answer' = [answer EXCEPT ![j] = a]
                                            /\ a = "accepted" => e.result # "none"
    BY <1>1
  <1>3. PICK p \in {"none", "stopping", "gone"} : process' = [process EXCEPT ![j] = p]
    BY DEF EndsRun
  <1>4. up /\ job[j].phase \in {"handshake", "turn", "accepted"} /\ UNCHANGED <<scene, leases, delivered, up, stuck>>
    BY DEF EndsRun
  <1>5. job'[j] = e /\ answer'[j] = a /\ process'[j] = p /\ delivered'[j] = delivered[j]
    BY <1>1, <1>2, <1>3, <1>4 DEF DispatchOK, DispatchTypeOK
  <1>6. delivered[j] = <<>> /\ delivered[j] \in Seq(Outcomes) /\ job[j].leased \in BOOLEAN
    BY <1>4 DEF DispatchOK, Life, DispatchTypeOK, JobRec, Phases
  <1>7. OneJob(j)
    <2>1. delivered' = [delivered EXCEPT ![j] = delivered[j]]
      BY <1>4 DEF DispatchOK, DispatchTypeOK
    <2> QED BY <2>1, <1>1, <1>2, <1>3, <1>4, <1>6 DEF OneJob, Answers, Procs
  <1>8. Life(j)'
    BY <1>1, <1>2, <1>4, <1>5, <1>6 DEF Life, Codex, DispatchOK
  <1>9. calls' \in Seq(CallRec) /\ Queue'
    <2>1. CASE job[j].leased
      <3>1. Call("release", j)
        BY <2>1 DEF EndsRun, Releases
      <3> QED BY <3>1, <2>1, <1>1, <1>4, OneMoreCall
    <2>2. CASE ~job[j].leased
      <3>1. calls' = calls
        BY <2>2 DEF EndsRun, Releases
      <3> QED BY <3>1, <2>2, <1>1, <1>4, SameCalls
    <2> QED BY <2>1, <2>2
  <1> QED BY <1>7, <1>8, <1>9, OneJobInv

\* The three ways to end a run that the steps use.
LEMMA SignalledFacts ==
    ASSUME DispatchOK, NEW j \in Runs, Signalled(j)
    PROVE  \E p \in {"none", "stopping", "gone"} : process' = [process EXCEPT ![j] = p]
  <1>1. process[j] \in {"none", "running", "stopping", "gone"}
    BY DEF DispatchOK, DispatchTypeOK, Procs
  <1>2. CASE process[j] = "running"
    BY <1>2 DEF Signalled
  <1>3. CASE process[j] # "running"
    BY <1>1, <1>3 DEF Signalled
  <1> QED BY <1>2, <1>3

LEMMA FinishEnds ==
    ASSUME DispatchOK, up, NEW j \in Runs, job[j].phase \in {"handshake", "turn", "accepted"},
           NEW o \in Outcomes, FinishRun(j, o), UNCHANGED <<scene, leases, delivered, up, stuck>>
    PROVE  EndsRun(j)
  <1>1. ~job[j].settled
    BY DEF DispatchOK, Life
  <1>2. /\ job' = [job EXCEPT ![j] = [Cleaning(j, @) EXCEPT !.result = o]]
        /\ answer' = IF answer[j] = "none" THEN [answer EXCEPT ![j] = "thrown"] ELSE answer
        /\ Releases(j) /\ Signalled(j)
    BY <1>1 DEF FinishRun
  <1> DEFINE e == [Cleaning(j, job[j]) EXCEPT !.result = o]
  <1>3. /\ e \in JobRec /\ e.settled /\ ~e.leased /\ e.result = o
        /\ e.phase = IF job[j].leased THEN "releasing" ELSE "released"
    <2>1. job[j] \in JobRec
      BY DEF DispatchOK, DispatchTypeOK
    <2> QED BY <2>1, CleaningFacts
  <1>4. job' = [job EXCEPT ![j] = e]
    BY <1>2
  <1>5. \E a \in {"accepted", "thrown"} : answer' = [answer EXCEPT ![j] = a]
    <2>1. answer[j] \in {"none", "accepted", "thrown"} /\ answer = [answer EXCEPT ![j] = answer[j]]
      BY DEF DispatchOK, DispatchTypeOK, Answers
    <2> QED BY <2>1, <1>2
  <1>6. o # "none"
    BY DEF Outcomes
  <1> HIDE DEF e
  <1> QED BY <1>2, <1>3, <1>4, <1>5, <1>6, SignalledFacts DEF EndsRun

LEMMA DispatchFailsEnds ==
    ASSUME DispatchOK, up, NEW j \in Runs, job[j].phase \in {"handshake", "turn", "accepted"},
           DispatchFails(j), UNCHANGED <<scene, leases, delivered, up, stuck>>
    PROVE  EndsRun(j)
  <1>1. job[j] \in JobRec
    BY DEF DispatchOK, DispatchTypeOK
  <1> DEFINE e == Cleaning(j, job[j])
  <1>2. /\ e \in JobRec /\ e.settled /\ ~e.leased
        /\ e.phase = IF job[j].leased THEN "releasing" ELSE "released"
    BY <1>1, CleaningFacts
  <1>3. job' = [job EXCEPT ![j] = e] /\ answer' = [answer EXCEPT ![j] = "thrown"]
    BY DEF DispatchFails
  <1> HIDE DEF e
  <1> QED BY <1>2, <1>3, SignalledFacts DEF EndsRun, DispatchFails

LEMMA FatalEnds ==
    ASSUME DispatchOK, up, NEW j \in Runs, job[j].phase \in {"handshake", "turn", "accepted"},
           NEW o \in Outcomes, Fatal(j, o), UNCHANGED <<scene, leases, delivered, up, stuck>>
    PROVE  EndsRun(j)
  <1>1. ~job[j].settled
    BY DEF DispatchOK, Life
  <1>2. CASE job[j].phase = "accepted"
    <2>1. "cancelled" \in Outcomes
      BY DEF Outcomes
    <2>2. FinishRun(j, IF job[j].cancelled THEN "cancelled" ELSE o)
      BY <1>1, <1>2 DEF Fatal
    <2> QED BY <2>1, <2>2, FinishEnds
  <1>3. CASE job[j].phase # "accepted"
    BY <1>1, <1>3, DispatchFailsEnds DEF Fatal
  <1> QED BY <1>2, <1>3

-----------------------------------------------------------------------------
(***************************************************************************)
(* The steps of the Codex adapter that end a run                           *)
(***************************************************************************)
LEMMA RequestFailsInv == ASSUME DispatchOK, NEW j \in Runs, RequestFails(j)  PROVE DispatchOK'
  BY DispatchFailsEnds, EndsRunInv DEF RequestFails, Talking

LEMMA TurnCompletedInv ==
    ASSUME DispatchOK, NEW j \in Runs, NEW status, TurnCompleted(j, status)
    PROVE  DispatchOK'
  <1>1. TurnOutcome(j, status) \in Outcomes
    BY DEF TurnOutcome, Outcomes
  <1> QED BY <1>1, FinishEnds, EndsRunInv DEF TurnCompleted, Talking

LEMMA StartedAndCompletedInv == ASSUME DispatchOK, NEW j \in Runs, StartedAndCompleted(j)  PROVE DispatchOK'
  <1> DEFINE e == [Cleaning(j, job[j]) EXCEPT !.result = "completed"]
  <1>1. /\ e \in JobRec /\ e.settled /\ ~e.leased /\ e.result = "completed"
        /\ e.phase = IF job[j].leased THEN "releasing" ELSE "released"
    <2>1. job[j] \in JobRec /\ "completed" \in Outcomes \cup {"none"}
      BY DEF DispatchOK, DispatchTypeOK, Outcomes
    <2> QED BY <2>1, CleaningFacts
  <1>2. job' = [job EXCEPT ![j] = e] /\ answer' = [answer EXCEPT ![j] = "accepted"]
    BY DEF StartedAndCompleted
  <1> HIDE DEF e
  <1>3. EndsRun(j)
    BY <1>1, <1>2, SignalledFacts DEF EndsRun, StartedAndCompleted, Talking
  <1> QED BY <1>3, EndsRunInv

LEMMA BadOutputInv == ASSUME DispatchOK, NEW j \in Runs, BadOutput(j)  PROVE DispatchOK'
  <1>1. "failed" \in Outcomes
    BY DEF Outcomes
  <1> QED BY <1>1, FatalEnds, EndsRunInv DEF BadOutput, Talking

LEMMA CodexErrorInv == ASSUME DispatchOK, NEW j \in Runs, CodexError(j)  PROVE DispatchOK'
  <1>1. up /\ process[j] = "running" /\ Fatal(j, "interrupted") /\ UNCHANGED <<scene, leases, delivered, up, stuck, faults>>
    BY DEF CodexError, Talking
  <1>2. CASE job[j].settled
    <2>1. UNCHANGED <<scene, records, leaseFile, lapsed, job, process, calls, answer, delivered, up, stuck>>
      BY <1>1, <1>2 DEF Fatal, leases
    <2> QED BY <2>1, StutterInv
  <1>3. CASE ~job[j].settled
    <2>1. job[j].phase \in {"handshake", "turn", "accepted"}
      <3>1. job[j] \in JobRec /\ Life(j)
        BY DEF DispatchOK, DispatchTypeOK
      <3> QED BY <3>1, <1>1, <1>3 DEF JobRec, Life, Phases
    <2>2. "interrupted" \in Outcomes
      BY DEF Outcomes
    <2> QED BY <2>1, <2>2, <1>1, FatalEnds, EndsRunInv
  <1> QED BY <1>2, <1>3

\* A process that goes away under a job that expects nothing of it any more.
LEMMA ProcessGone ==
    ASSUME DispatchOK, NEW j \in Runs, process[j] \in {"running", "stopping"}, ~up \/ job[j].settled,
           process' = [process EXCEPT ![j] = "gone"], UNCHANGED <<scene, leases, job, answer, calls, delivered, up, stuck>>
    PROVE  DispatchOK'
  <1>1. job' = [job EXCEPT ![j] = job[j]] /\ answer' = [answer EXCEPT ![j] = answer[j]]
        /\ delivered' = [delivered EXCEPT ![j] = delivered[j]] /\ job[j] \in JobRec /\ process'[j] = "gone"
        /\ answer[j] \in Answers /\ delivered[j] \in Seq(Outcomes)
    BY DEF DispatchOK, DispatchTypeOK, Answers
  <1>2. Life(j) /\ Life(j)' /\ job[j].phase # "new"
    BY <1>1 DEF DispatchOK, Life
  <1>3. OneJob(j)
    BY <1>1, <1>2 DEF OneJob, Procs
  <1>4. calls' \in Seq(CallRec) /\ Queue'
    BY <1>1, SameCalls
  <1> QED BY <1>2, <1>3, <1>4, OneJobInv

LEMMA CodexExitInv == ASSUME DispatchOK, NEW j \in Runs, CodexExit(j)  PROVE DispatchOK'
  <1>1. process[j] \in {"running", "stopping"} /\ process' = [process EXCEPT ![j] = "gone"]
        /\ UNCHANGED <<scene, leases, delivered, up, stuck>>
    BY DEF CodexExit
  <1>2. CASE ~up \/ job[j].settled
    <2>1. UNCHANGED <<job, answer, calls>>
      BY <1>2 DEF CodexExit
    <2> QED BY <2>1, <1>1, <1>2, ProcessGone
  <1>3. CASE up /\ ~job[j].settled
    <2> DEFINE o == CASE answer[j] = "none" -> "none"
                      [] answer[j] # "none" /\ job[j].cancelled -> "cancelled"
                      [] OTHER -> "interrupted"
               e == [Cleaning(j, job[j]) EXCEPT !.result = o]
    <2>1. job[j] \in JobRec /\ Life(j) /\ answer[j] \in {"none", "accepted", "thrown"}
      BY DEF DispatchOK, DispatchTypeOK, Answers
    <2>2. job[j].phase \in {"handshake", "turn", "accepted"}
      BY <2>1, <1>1, <1>3 DEF JobRec, Life, Phases
    <2>3. o \in Outcomes \cup {"none"} /\ (answer[j] # "none" => o # "none")
      BY DEF Outcomes
    <2> HIDE DEF o
    <2>4. /\ e \in JobRec /\ e.settled /\ ~e.leased /\ e.result = o
          /\ e.phase = IF job[j].leased THEN "releasing" ELSE "released"
      BY <2>1, <2>3, CleaningFacts
    <2>5. /\ job' = [job EXCEPT ![j] = e] /\ Releases(j)
          /\ answer' = IF answer[j] = "none" THEN [answer EXCEPT ![j] = "thrown"] ELSE answer
      BY <1>3 DEF CodexExit, o
    <2>6. \E a \in {"accepted", "thrown"} : answer' = [answer EXCEPT ![j] = a] /\ (a = "accepted" => o # "none")
      <3>1. answer = [answer EXCEPT ![j] = answer[j]]
        BY DEF DispatchOK, DispatchTypeOK
      <3> QED BY <3>1, <2>1, <2>3, <2>5
    <2> HIDE DEF e
    <2>7. EndsRun(j)
      BY <1>1, <1>3, <2>2, <2>4, <2>5, <2>6 DEF EndsRun
    <2> QED BY <2>7, EndsRunInv
  <1> QED BY <1>2, <1>3

LEMMA CancellationTimerInv == ASSUME DispatchOK, NEW j \in Runs, CancellationTimer(j)  PROVE DispatchOK'
  <1>1. job[j].phase \in {"handshake", "turn", "accepted"}
    BY DEF CancellationTimer, Running, DispatchOK, Life
  <1>2. "cancelled" \in Outcomes
    BY DEF Outcomes
  <1> QED BY <1>1, <1>2, FinishEnds, EndsRunInv DEF CancellationTimer

-----------------------------------------------------------------------------
(***************************************************************************)
(* Steps of one job that call nothing                                      *)
(***************************************************************************)
Quiet(j, e, p, a, r) ==
    /\ e \in JobRec /\ p \in Procs /\ a \in Answers /\ r \in Seq(Outcomes)
    /\ job' = [job EXCEPT ![j] = e] /\ process' = [process EXCEPT ![j] = p]
    /\ answer' = [answer EXCEPT ![j] = a] /\ delivered' = [delivered EXCEPT ![j] = r]
    /\ UNCHANGED <<scene, leases, calls, up, stuck>>
    /\ e.phase # "new" /\ (p = "running" => process[j] = "running" \/ records[j] = NoLease)
    /\ e.phase = "acquiring" <=> job[j].phase = "acquiring"
    /\ e.phase = "releasing" <=> job[j].phase = "releasing"
    /\ job[j].leased \/ job[j].settled => e.leased \/ e.settled

LEMMA QuietFields ==
    ASSUME DispatchOK, NEW j \in Runs, NEW e, NEW p, NEW a, NEW r, Quiet(j, e, p, a, r)
    PROVE  job'[j] = e /\ process'[j] = p /\ answer'[j] = a /\ delivered'[j] = r /\ up' = up
           /\ stuck' = stuck /\ scene' = scene
  BY DEF DispatchOK, DispatchTypeOK, Quiet

LEMMA QuietStep ==
    ASSUME DispatchOK, NEW j \in Runs, NEW e, NEW p, NEW a, NEW r, Quiet(j, e, p, a, r), Life(j)'
    PROVE  DispatchOK'
  <1>1. OneJob(j)
    BY DEF OneJob, Quiet
  <1>2. calls' \in Seq(CallRec) /\ Queue'
    BY SameCalls DEF Quiet
  <1> QED BY <1>1, <1>2, OneJobInv

\* The fields of a job that a step changes.
LEMMA PhaseFacts ==
    ASSUME NEW q \in JobRec, NEW f \in Phases
    PROVE  /\ [q EXCEPT !.phase = f] \in JobRec
           /\ [q EXCEPT !.phase = f].phase = f
           /\ [q EXCEPT !.phase = f].settled = q.settled
           /\ [q EXCEPT !.phase = f].leased = q.leased
           /\ [q EXCEPT !.phase = f].result = q.result
  BY DEF JobRec, Phases

LEMMA JobFacts ==
    ASSUME NEW q \in JobRec
    PROVE  /\ LET e == [q EXCEPT !.phase = "accepted", !.turn = TRUE] IN
                /\ e \in JobRec /\ e.phase = "accepted" /\ e.settled = q.settled
                /\ e.leased = q.leased /\ e.result = q.result
           /\ LET e == [q EXCEPT !.settled = TRUE, !.phase = "over"] IN
                /\ e \in JobRec /\ e.phase = "over" /\ e.settled
                /\ e.leased = q.leased /\ e.result = q.result
           /\ LET e == [q EXCEPT !.phase = "over", !.settled = TRUE] IN
                /\ e \in JobRec /\ e.phase = "over" /\ e.settled
                /\ e.leased = q.leased /\ e.result = q.result
           /\ LET e == [q EXCEPT !.phase = "handshake", !.leased = TRUE] IN
                /\ e \in JobRec /\ e.phase = "handshake" /\ e.settled = q.settled /\ e.leased
           /\ LET e == [q EXCEPT !.cancelled = TRUE] IN
                /\ e \in JobRec /\ e.phase = q.phase /\ e.settled = q.settled
                /\ e.leased = q.leased /\ e.result = q.result
           /\ LET e == [q EXCEPT !.asked = TRUE] IN
                /\ e \in JobRec /\ e.phase = q.phase /\ e.settled = q.settled
                /\ e.leased = q.leased /\ e.result = q.result
  BY DEF JobRec, Phases

\* What the types say of one job.
LEMMA Selves ==
    ASSUME DispatchOK, NEW j \in Runs
    PROVE  /\ job[j] \in JobRec /\ process[j] \in Procs /\ answer[j] \in Answers /\ delivered[j] \in Seq(Outcomes)
           /\ job = [job EXCEPT ![j] = job[j]] /\ process = [process EXCEPT ![j] = process[j]]
           /\ answer = [answer EXCEPT ![j] = answer[j]] /\ delivered = [delivered EXCEPT ![j] = delivered[j]]
           /\ Life(j) /\ Lease(j)
  BY DEF DispatchOK, DispatchTypeOK, Procs, Answers

LEMMA HandshakeOKInv == ASSUME DispatchOK, NEW j \in Runs, HandshakeOK(j)  PROVE DispatchOK'
  <1> DEFINE e == [job[j] EXCEPT !.phase = "turn"]
  <1>1. /\ e \in JobRec /\ e.phase = "turn" /\ e.settled = job[j].settled
        /\ e.leased = job[j].leased /\ e.result = job[j].result
    <2>a. "turn" \in Phases /\ job[j] \in JobRec
      BY Selves DEF Phases
    <2> QED BY <2>a, PhaseFacts
  <1>2. job' = [job EXCEPT ![j] = e] /\ job[j].phase = "handshake" /\ process[j] = "running" /\ up
        /\ UNCHANGED <<scene, leases, calls, process, delivered, answer, up, stuck>>
    BY DEF HandshakeOK, Talking
  <1> HIDE DEF e
  <1>3. Quiet(j, e, process[j], answer[j], delivered[j])
    BY <1>1, <1>2, Selves DEF Quiet
  <1>4. Life(j)'
    BY <1>1, <1>2, <1>3, Selves, QuietFields DEF Life, Codex
  <1> QED BY <1>3, <1>4, QuietStep

LEMMA TurnStartedInv == ASSUME DispatchOK, NEW j \in Runs, TurnStarted(j)  PROVE DispatchOK'
  <1> DEFINE e == [job[j] EXCEPT !.phase = "accepted", !.turn = TRUE]
  <1>1. /\ e \in JobRec /\ e.phase = "accepted" /\ e.settled = job[j].settled
        /\ e.leased = job[j].leased /\ e.result = job[j].result
    BY Selves, JobFacts
  <1>2. job' = [job EXCEPT ![j] = e] /\ job[j].phase = "turn" /\ process[j] = "running" /\ up
        /\ UNCHANGED <<scene, leases, calls, process, delivered, up, stuck>>
        /\ answer' = [answer EXCEPT ![j] = "accepted"]
    BY DEF TurnStarted, Talking
  <1> HIDE DEF e
  <1>3. Quiet(j, e, process[j], "accepted", delivered[j])
    BY <1>1, <1>2, Selves DEF Quiet, Answers
  <1>4. Life(j)'
    BY <1>1, <1>2, <1>3, Selves, QuietFields DEF Life, Codex
  <1> QED BY <1>3, <1>4, QuietStep

LEMMA CancelInv == ASSUME DispatchOK, NEW j \in Runs, CancelRun(j)  PROVE DispatchOK'
  <1> DEFINE e == [job[j] EXCEPT !.cancelled = TRUE]
  <1>1. /\ e \in JobRec /\ e.phase = job[j].phase /\ e.settled = job[j].settled
        /\ e.leased = job[j].leased /\ e.result = job[j].result
    BY Selves, JobFacts
  <1>2. job' = [job EXCEPT ![j] = e] /\ Running(j) /\ up
        /\ UNCHANGED <<scene, leases, calls, delivered, answer, up, stuck>>
    BY DEF CancelRun
  <1> HIDE DEF e
  <1>3. PICK p \in Procs : /\ process' = [process EXCEPT ![j] = p]
                           /\ \/ p = process[j]
                              \/ process[j] = "running" /\ p = "stopping"
    <2>1. CASE process' = process
      BY <2>1, Selves
    <2>2. CASE Signalled(j)
      BY <2>2, Selves DEF Signalled, Procs
    <2> QED BY <2>1, <2>2 DEF CancelRun
  <1>4. Quiet(j, e, p, answer[j], delivered[j])
    BY <1>1, <1>2, <1>3, Selves DEF Quiet, Running
  <1>5. Life(j)'
    BY <1>1, <1>2, <1>3, <1>4, Selves, QuietFields DEF Life, Codex, Running
  <1> QED BY <1>4, <1>5, QuietStep

LEMMA TimeoutInv == ASSUME DispatchOK, NEW j \in Runs, Timeout(j)  PROVE DispatchOK'
  <1>1. up /\ job[j].phase = "accepted" /\ UNCHANGED <<scene, leases, delivered, up, stuck>>
    BY DEF Timeout
  <1>2. CASE Codex
    <2>1. FinishRun(j, "timedOut") /\ "timedOut" \in Outcomes
      BY <1>2 DEF Timeout, Outcomes
    <2> QED BY <2>1, <1>1, FinishEnds, EndsRunInv
  <1>3. CASE ~Codex
    <2> DEFINE e == [job[j] EXCEPT !.asked = TRUE]
    <2>1. /\ e \in JobRec /\ e.phase = job[j].phase /\ e.settled = job[j].settled
          /\ e.leased = job[j].leased /\ e.result = job[j].result
      BY Selves, JobFacts
    <2>2. job' = [job EXCEPT ![j] = e] /\ Signalled(j) /\ UNCHANGED <<calls, answer>>
      BY <1>3 DEF Timeout
    <2> HIDE DEF e
    <2>3. PICK p \in Procs : /\ process' = [process EXCEPT ![j] = p]
                             /\ p # "running" /\ (p = process[j] \/ p = "stopping")
      <3>1. CASE process[j] = "running"
        BY <3>1, <2>2 DEF Signalled, Procs
      <3>2. CASE process[j] # "running"
        BY <3>2, <2>2, Selves DEF Signalled
      <3> QED BY <3>1, <3>2
    <2>4. Quiet(j, e, p, answer[j], delivered[j])
      BY <1>1, <2>1, <2>2, <2>3, Selves DEF Quiet
    <2>5. Life(j)'
      BY <1>1, <2>1, <2>3, <2>4, Selves, QuietFields DEF Life, Codex
    <2> QED BY <2>4, <2>5, QuietStep
  <1> QED BY <1>2, <1>3

\* A headless job is reported: its first report, and its last.
LEMMA ReportedInv ==
    ASSUME DispatchOK, NEW j \in Runs, Headless(j), NEW o \in Outcomes, Reported(j, o),
           NEW p \in Procs, process' = [process EXCEPT ![j] = p], p = "running" => process[j] = "running",
           UNCHANGED <<scene, leases, calls, answer, up, stuck>>
    PROVE  DispatchOK'
  <1> DEFINE e == [job[j] EXCEPT !.settled = TRUE, !.phase = "over"]
             r == Append(delivered[j], o)
  <1>1. /\ e \in JobRec /\ e.phase = "over" /\ e.settled
        /\ e.leased = job[j].leased /\ e.result = job[j].result
    BY Selves, JobFacts
  <1>2. job' = [job EXCEPT ![j] = e] /\ delivered' = [delivered EXCEPT ![j] = r]
    BY DEF Reported
  <1>3. job[j].phase = "accepted" /\ up
    BY DEF Headless
  <1>4. r \in Seq(Outcomes) /\ Len(r) = 1
    <2>1. delivered[j] = <<>>
      BY <1>3, Selves DEF Life, Codex
    <2> QED BY <2>1
  <1> HIDE DEF e, r
  <1>5. Quiet(j, e, p, answer[j], r)
    BY <1>1, <1>2, <1>3, <1>4, Selves DEF Quiet
  <1>6. /\ job'[j] = e /\ process'[j] = p /\ delivered'[j] = r /\ answer'[j] = answer[j]
        /\ up' /\ Len(delivered'[j]) = 1
    BY <1>3, <1>4, <1>5, QuietFields
  <1>7. Life(j)'
    BY <1>1, <1>6 DEF Life
  <1> QED BY <1>5, <1>7, QuietStep

LEMMA HeadlessExitInv ==
    ASSUME DispatchOK, NEW j \in Runs, NEW result \in {"completed", "failed"}, HeadlessExit(j, result)
    PROVE  DispatchOK'
  <1>1. /\ ~Codex /\ process[j] \in {"running", "stopping"} /\ process' = [process EXCEPT ![j] = "gone"]
        /\ UNCHANGED <<scene, leases, calls, answer, up, stuck>>
    BY DEF HeadlessExit
  <1>2. CASE Headless(j)
    <2>1. Reported(j, ExitOutcome(j, result))
      BY <1>2 DEF HeadlessExit
    <2>2. ExitOutcome(j, result) \in Outcomes /\ "gone" \in Procs
      BY DEF ExitOutcome, Outcomes, Procs
    <2> QED BY <1>1, <1>2, <2>1, <2>2, ReportedInv
  <1>3. CASE ~Headless(j)
    <2>1. UNCHANGED <<job, delivered>>
      BY <1>3 DEF HeadlessExit
    <2>2. ~up \/ job[j].settled
      <3>1. job[j].phase \notin {"new", "acquiring", "accepted"} \/ ~up
        BY <1>1, <1>3, Selves DEF Headless, Life
      <3>2. job[j].phase \notin {"handshake", "turn"}
        BY <1>1, Selves DEF Life
      <3> QED BY <3>1, <3>2, Selves DEF Life, JobRec, Phases
    <2> QED BY <1>1, <2>1, <2>2, ProcessGone
  <1> QED BY <1>2, <1>3

LEMMA HeadlessErrorInv == ASSUME DispatchOK, NEW j \in Runs, HeadlessError(j)  PROVE DispatchOK'
  <1>1. /\ Headless(j) /\ UNCHANGED <<scene, leases, calls, answer, up, stuck>>
        /\ Reported(j, IF scene.kind = "antigravity" THEN ExitOutcome(j, "failed") ELSE "failed")
    BY DEF HeadlessError
  <1>2. (IF scene.kind = "antigravity" THEN ExitOutcome(j, "failed") ELSE "failed") \in Outcomes
    BY DEF ExitOutcome, Outcomes
  <1>3. PICK p \in Procs : process' = [process EXCEPT ![j] = p] /\ (p = "running" => process[j] = "running")
    BY Selves DEF HeadlessError, Procs
  <1> QED BY <1>1, <1>2, <1>3, ReportedInv

LEMMA OverflowInv == ASSUME DispatchOK, NEW j \in Runs, Overflow(j)  PROVE DispatchOK'
  <1>1. /\ Headless(j) /\ UNCHANGED <<scene, leases, calls, answer, up, stuck>>
        /\ Reported(j, "failed") /\ "failed" \in Outcomes
    BY DEF Overflow, Outcomes
  <1>2. PICK p \in {"none", "stopping", "gone"} : process' = [process EXCEPT ![j] = p]
    BY SignalledFacts DEF Overflow
  <1> QED BY <1>1, <1>2, ReportedInv DEF Procs

\* The report of an ended run: its first, since nothing was reported before.
LEMMA ReportInv == ASSUME DispatchOK, NEW j \in Runs, Report(j)  PROVE DispatchOK'
  <1> DEFINE e == [job[j] EXCEPT !.phase = "over"]
  <1>1. /\ e \in JobRec /\ e.phase = "over" /\ e.settled = job[j].settled
        /\ e.leased = job[j].leased /\ e.result = job[j].result
    <2>a. "over" \in Phases /\ job[j] \in JobRec
      BY Selves DEF Phases
    <2> QED BY <2>a, PhaseFacts
  <1>2. job' = [job EXCEPT ![j] = e] /\ job[j].phase = "released" /\ up
        /\ UNCHANGED <<scene, leases, calls, process, answer, up, stuck>>
    BY DEF Report
  <1>3. job[j].result \in Outcomes \cup {"none"} /\ delivered[j] = <<>> /\ job[j].settled
    BY <1>2, Selves DEF JobRec, Life, Phases
  <1>4. PICK r \in Seq(Outcomes) : /\ delivered' = [delivered EXCEPT ![j] = r] /\ Len(r) <= 1
                                   /\ job[j].result # "none" => Len(r) = 1
    <2>1. CASE delivered' = IF job[j].result = "none" THEN delivered
                            ELSE [delivered EXCEPT ![j] = Append(@, job[j].result)]
      <3>1. CASE job[j].result = "none"
        <4>1. delivered' = [delivered EXCEPT ![j] = delivered[j]] /\ Len(delivered[j]) = 0
          BY <1>3, <2>1, <3>1, Selves
        <4>2. delivered[j] \in Seq(Outcomes)
          BY Selves
        <4> WITNESS delivered[j] \in Seq(Outcomes)
        <4> QED BY <3>1, <4>1
      <3>2. CASE job[j].result # "none"
        <4> DEFINE r == Append(delivered[j], job[j].result)
        <4>1. r \in Seq(Outcomes) /\ Len(r) = 1 /\ delivered' = [delivered EXCEPT ![j] = r]
          BY <1>3, <2>1, <3>2
        <4> HIDE DEF r
        <4>2. r \in Seq(Outcomes)
          BY <4>1
        <4> WITNESS r \in Seq(Outcomes)
        <4> QED BY <4>1
      <3> QED BY <3>1, <3>2
    <2>2. CASE delivered' = [delivered EXCEPT ![j] = Append(@, "failed")]
      <3> DEFINE r == Append(delivered[j], "failed")
      <3>1. "failed" \in Outcomes
        BY DEF Outcomes
      <3>2. r \in Seq(Outcomes) /\ Len(r) = 1 /\ delivered' = [delivered EXCEPT ![j] = r]
        BY <1>3, <2>2, <3>1
      <3> HIDE DEF r
      <3>3. r \in Seq(Outcomes)
        BY <3>2
      <3> WITNESS r \in Seq(Outcomes)
      <3> QED BY <3>2
    <2> QED BY <2>1, <2>2 DEF Report
  <1> HIDE DEF e
  <1>5. Quiet(j, e, process[j], answer[j], r)
    BY <1>1, <1>2, <1>3, <1>4, Selves DEF Quiet
  <1>6. /\ job'[j] = e /\ process'[j] = process[j] /\ delivered'[j] = r /\ answer'[j] = answer[j]
        /\ up' /\ Len(delivered'[j]) <= 1 /\ (job[j].result # "none" => Len(delivered'[j]) = 1)
    BY <1>2, <1>4, <1>5, QuietFields
  <1>7. answer[j] = "accepted" => job[j].result # "none"
    BY <1>2, Selves DEF Life
  <1>8. Life(j)'
    BY <1>1, <1>3, <1>6, <1>7 DEF Life
  <1> QED BY <1>5, <1>8, QuietStep

-----------------------------------------------------------------------------
(***************************************************************************)
(* Steps that call the manager                                             *)
(***************************************************************************)
LEMMA DispatchInv == ASSUME DispatchOK, NEW j \in Runs, Dispatch(j)  PROVE DispatchOK'
  <1>1. up /\ job[j].phase = "new" /\ answer[j] = "none" /\ UNCHANGED <<scene, leases, delivered, up, stuck>>
    BY DEF Dispatch
  <1>2. /\ delivered[j] = <<>> /\ process[j] = "none" /\ ~job[j].settled /\ ~job[j].leased
        /\ records[j] = NoLease /\ Len(delivered[j]) <= 1
    BY <1>1, Selves DEF Life, Lease, JobRec, Phases
  <1>3. CASE Codex /\ j \in scene.writes
    <2> DEFINE e == [job[j] EXCEPT !.phase = "acquiring"]
    <2>1. /\ e \in JobRec /\ e.phase = "acquiring" /\ e.settled = job[j].settled
          /\ e.leased = job[j].leased /\ e.result = job[j].result
      <3>a. "acquiring" \in Phases /\ job[j] \in JobRec
        BY Selves DEF Phases
      <3> QED BY <3>a, PhaseFacts
    <2>2. job' = [job EXCEPT ![j] = e] /\ Call("acquire", j) /\ UNCHANGED <<process, answer>>
      BY <1>3 DEF Dispatch
    <2> HIDE DEF e
    <2>3. OneJob(j)
      BY <1>1, <2>1, <2>2, <1>2, Selves DEF OneJob
    <2>4. calls' \in Seq(CallRec) /\ Queue'
      BY <1>1, <1>2, <2>1, <2>2, OneMoreCall
    <2>5. job'[j] = e
      BY <2>2 DEF DispatchOK, DispatchTypeOK
    <2>6. Life(j)'
      BY <1>1, <1>2, <1>3, <2>1, <2>2, <2>5 DEF Life, Codex, Dispatch
    <2> QED BY <2>3, <2>4, <2>6, OneJobInv
  <1>4. CASE ~(Codex /\ j \in scene.writes)
    <2>1. PICK f \in {"handshake", "accepted"} :
              /\ job' = [job EXCEPT ![j].phase = f] /\ (f = "handshake" => Codex)
              /\ answer' = [answer EXCEPT ![j] = IF f = "handshake" THEN "none" ELSE "accepted"]
      <3>1. CASE Codex
        BY <3>1, <1>4 DEF Dispatch
      <3>2. CASE ~Codex
        BY <3>2 DEF Dispatch
      <3> QED BY <3>1, <3>2
    <2> DEFINE e == [job[j] EXCEPT !.phase = f]
               a == IF f = "handshake" THEN "none" ELSE "accepted"
    <2>2. /\ e \in JobRec /\ e.phase = f /\ e.settled = job[j].settled
          /\ e.leased = job[j].leased /\ e.result = job[j].result
      <3>1. f \in Phases /\ job[j] \in JobRec
        BY Selves DEF Phases
      <3> QED BY <3>1, PhaseFacts
    <2>3. job' = [job EXCEPT ![j] = e] /\ process' = [process EXCEPT ![j] = "running"] /\ calls' = calls
          /\ answer' = [answer EXCEPT ![j] = a]
      BY <1>4, <2>1 DEF Dispatch
    <2>4. a \in Answers /\ "running" \in Procs /\ (a = "accepted" => f = "accepted")
      BY DEF Answers, Procs
    <2> HIDE DEF e, a
    <2>5. Quiet(j, e, "running", a, delivered[j])
      BY <1>1, <1>2, <2>2, <2>3, <2>4, Selves DEF Quiet
    <2>6. Life(j)'
      BY <1>1, <1>2, <2>1, <2>2, <2>4, <2>5, QuietFields DEF Life, Codex
    <2> QED BY <2>5, <2>6, QuietStep
  <1> QED BY <1>3, <1>4

LEMMA HeartbeatInv == ASSUME DispatchOK, NEW j \in Runs, Heartbeat(j)  PROVE DispatchOK'
  <1>1. /\ up /\ job[j].leased /\ ~job[j].settled /\ Call("renew", j)
        /\ UNCHANGED <<scene, leases, job, process, delivered, answer, up, stuck>>
    BY DEF Heartbeat
  <1>2. job[j].phase \notin {"new", "acquiring", "releasing"}
    BY <1>1, Selves DEF Life, Codex
  <1>3. OneJob(j)
    BY <1>1, <1>2, Selves DEF OneJob
  <1>4. calls' \in Seq(CallRec) /\ Queue'
    BY <1>1, <1>2, Selves, OneMoreCall
  <1>5. Life(j)'
    BY <1>1, Selves DEF Life, Codex
  <1> QED BY <1>3, <1>4, <1>5, OneJobInv

-----------------------------------------------------------------------------
(***************************************************************************)
(* Steps that touch the leases                                             *)
(***************************************************************************)
Leases == [Runs -> LeaseRec]

\* Snapshots of `js` as `r` has them are in the file, and nothing else is new.
Written(js, r) ==
    /\ leaseFile' \in Leases
    /\ \A k \in Runs : leaseFile'[k] = leaseFile[k] \/ (k \in js /\ leaseFile'[k] = r[k])

LEMMA AppendWrites ==
    ASSUME leaseFile \in Leases, NEW r \in Leases, NEW js, Append_(js, r)
    PROVE  Written(js, r)
  BY DEF Leases, Append_, Written

LEMMA AppendFailsWrites ==
    ASSUME leaseFile \in Leases, NEW r \in Leases, NEW js, NEW j, AppendFails(js, j, r)
    PROVE  Written(js \cup {j}, r)
  <1>1. CASE Append_(js, r)
    BY <1>1, AppendWrites DEF Written
  <1>2. CASE leaseFile' = [k \in Runs |-> IF k \in js THEN r[k] ELSE leaseFile[k]]
    BY <1>2 DEF Leases, Written
  <1>3. CASE Append_(js \cup {j}, r)
    BY <1>3, AppendWrites
  <1> QED BY <1>1, <1>2, <1>3 DEF AppendFails

LEMMA ReleasedFacts ==
    ASSUME NEW r \in Leases, NEW js
    PROVE  /\ Released(r, js) \in Leases
           /\ \A k \in Runs : /\ Released(r, js)[k].fence = r[k].fence
                              /\ Released(r, js)[k].orphaned = r[k].orphaned
                              /\ Released(r, js)[k].state = IF k \in js THEN "released" ELSE r[k].state
                              /\ k \notin js => Released(r, js)[k] = r[k]
  BY DEF Leases, LeaseRec, Released

\* The token that a grant takes exists, since the tokens are bounded, and no
\* lease of the target has one as high.
LEMMA NextFenceFacts ==
    ASSUME NEW r \in Leases, NEW m \in Nat, \A k \in Runs : r[k].fence <= m, NEW j \in Runs
    PROVE  /\ NextFence(r) \in Nat /\ NextFence(r) <= m + 1
           /\ \A k \in Runs : r[k].fence < NextFence(r)
  <1> DEFINE S == {r[k].fence : k \in Runs}
             D == {m - n : n \in S}
  <1>1. \A k \in Runs : r[k].fence \in Nat
    BY DEF Leases, LeaseRec
  <1>2. D \subseteq Nat /\ D # {}
    BY <1>1
  <1>3. \E d \in D : \A x \in D : d <= x
    BY <1>2, NatMinimum
  <1>4. PICK d \in D : \A x \in D : d <= x
    BY <1>3
  <1>5. PICK n \in S : d = m - n
    OBVIOUS
  <1>6. ASSUME NEW k \in Runs  PROVE  r[k].fence <= n
    <2>1. r[k].fence \in Nat /\ n \in Nat /\ m - r[k].fence \in D
      BY <1>1
    <2>2. m - n <= m - r[k].fence
      BY <1>4, <1>5, <2>1
    <2> QED BY <2>1, <2>2
  <1>7. \E n_1 \in S : \A k \in Runs : r[k].fence <= n_1
    BY <1>6
  <1> DEFINE top == CHOOSE n_1 \in S : \A k \in Runs : r[k].fence <= n_1
  <1>8. top \in S /\ \A k \in Runs : r[k].fence <= top
    BY <1>7
  <1>9. NextFence(r) = 1 + top
    BY DEF NextFence
  <1> HIDE DEF top, D
  <1>10. top \in Nat /\ top <= m
    BY <1>1, <1>8
  <1> QED BY <1>1, <1>8, <1>9, <1>10

LEMMA LeasesMove ==
    ASSUME DispatchOK, records' \in Leases, leaseFile' \in Leases, lapsed \subseteq lapsed',
           \A k \in Runs :
              /\ records'[k].fence = records[k].fence /\ records'[k].orphaned = records[k].orphaned
              /\ \/ records'[k].state = records[k].state
                 \/ k \in lapsed
                 \/ process'[k] # "running"
              /\ job'[k].phase = "new" => /\ job[k].phase = "new"
                                          /\ records'[k] = records[k] /\ leaseFile'[k] = leaseFile[k]
              /\ process'[k] = "running" => process[k] = "running"
    PROVE  WritersFenced' /\ \A k \in Runs : Lease(k)'
  <1>1. ASSUME NEW k \in Runs  PROVE  Lease(k)'
    <2>1. Lease(k)
      BY DEF DispatchOK
    <2> QED BY <2>1 DEF Lease
  <1>2. WritersFenced'
    BY DEF DispatchOK, WritersFenced
  <1> QED BY <1>1, <1>2

LEMMA BoundedMove ==
    ASSUME DispatchOK, records' \in Leases, leaseFile' \in Leases,
           \A k \in Runs : /\ records'[k].fence = records[k].fence
                           /\ leaseFile'[k].fence = leaseFile[k].fence \/ leaseFile'[k].fence = records[k].fence
    PROVE  Bounded'
  BY DEF DispatchOK, Bounded

\* The jobs' half of a step that touches the leases as well.
LEMMA LifeOfOne ==
    ASSUME DispatchOK, NEW j \in Runs, NEW e \in JobRec, NEW p \in Procs, NEW a \in Answers,
           job' = [job EXCEPT ![j] = e], process' = [process EXCEPT ![j] = p],
           answer' = [answer EXCEPT ![j] = a], UNCHANGED <<scene, delivered, up>>,
           stuck' \in {stuck, stuck \cup {j}}, Life(j)'
    PROVE  /\ job' \in [Runs -> JobRec] /\ process' \in [Runs -> Procs]
           /\ answer' \in [Runs -> Answers]
           /\ \A k \in Runs : Life(k)'
  <1>1. ASSUME NEW k \in Runs, k # j
        PROVE  job'[k] = job[k] /\ process'[k] = process[k] /\ answer'[k] = answer[k] /\ (k \in stuck' <=> k \in stuck)
    BY <1>1 DEF DispatchOK, DispatchTypeOK
  <1>2. ASSUME NEW k \in Runs, k # j  PROVE  Life(k)'
    BY <1>1, <1>2, Selves DEF Life, Codex
  <1>3. \A k \in Runs : Life(k)'
    BY <1>2
  <1> QED BY <1>3 DEF DispatchOK, DispatchTypeOK, Procs, Answers

\* What is left of the chain when its head is served.
LEMMA TailFacts ==
    ASSUME DispatchOK, calls # <<>>
    PROVE  /\ Head(calls) = calls[1] /\ calls[1] \in CallRec /\ 1 \in DOMAIN calls
           /\ Tail(calls) \in Seq(CallRec) /\ Len(Tail(calls)) \in Nat
           /\ DOMAIN Tail(calls) = 1 .. Len(Tail(calls))
           /\ \A i \in DOMAIN Tail(calls) : /\ i + 1 \in DOMAIN calls /\ i + 1 # 1
                                            /\ Tail(calls)[i] = calls[i + 1] /\ calls[i + 1] \in CallRec
           /\ \A i \in DOMAIN calls : i # 1 => i - 1 \in DOMAIN Tail(calls) /\ i - 1 + 1 = i
  <1>1. calls \in Seq(CallRec)
    BY DEF DispatchOK, DispatchTypeOK
  <1>2. Len(calls) \in Nat /\ Len(calls) >= 1 /\ DOMAIN calls = 1 .. Len(calls)
    BY <1>1
  <1>3. /\ Tail(calls) \in Seq(CallRec) /\ Len(Tail(calls)) = Len(calls) - 1
        /\ \A i \in 1 .. Len(Tail(calls)) : Tail(calls)[i] = calls[i + 1]
    BY <1>1
  <1>4. \A i \in DOMAIN calls : calls[i] \in CallRec
    BY <1>1
  <1>5. DOMAIN Tail(calls) = 1 .. Len(Tail(calls))
    BY <1>3
  <1> QED BY <1>1, <1>2, <1>3, <1>4, <1>5

\* A job whose acquire or release is served expects nothing more of the chain.
LEMMA ServedCalls ==
    ASSUME DispatchOK, up, up' = up, calls # <<>>, Head(calls).op \in {"acquire", "release"}, calls' = Tail(calls),
           NEW j \in Runs, j = Head(calls).job, NEW e \in JobRec, job' = [job EXCEPT ![j] = e],
           e.phase # "releasing", job[j].settled => e.settled
    PROVE  calls' \in Seq(CallRec) /\ Queue'
  <1>1. job'[j] = e /\ \A k \in Runs \ {j} : job'[k] = job[k]
    BY DEF DispatchOK, DispatchTypeOK
  <1>2. ASSUME NEW i \in DOMAIN Tail(calls), Tail(calls)[i].job = j
        PROVE  Tail(calls)[i].op = "renew" /\ e.settled
    <2>1. /\ Tail(calls)[i] = calls[i + 1] /\ calls[i + 1] \in CallRec /\ i + 1 \in DOMAIN calls /\ i + 1 # 1
          /\ calls[1] = Head(calls) /\ 1 \in DOMAIN calls /\ calls[1] \in CallRec
      BY TailFacts
    <2>2. calls[1].job = j /\ calls[1].op \in {"acquire", "release"}
      BY <2>1
    <2>3. calls[1].op = "acquire" => job[j].phase = "acquiring" /\ ~job[j].leased /\ ~job[j].settled
      BY <2>1, <2>2, Selves DEF DispatchOK, Queue, Life
    <2>4. calls[1].op = "release" => job[j].phase = "releasing" /\ job[j].settled
      BY <2>1, <2>2, Selves DEF DispatchOK, Queue, Life
    <2>5. calls[i + 1].op = "acquire" => job[j].phase = "acquiring"
      BY <2>1, <1>2 DEF DispatchOK, Queue
    <2>6. calls[i + 1].op = "release" => job[j].phase = "releasing"
      BY <2>1, <1>2 DEF DispatchOK, Queue
    <2>7. calls[i + 1].op = "renew" => job[j].leased \/ job[j].settled
      BY <2>1, <1>2 DEF DispatchOK, Queue
    <2>8. calls[i + 1].op # "renew" => calls[i + 1] # calls[1]
      BY <2>1 DEF DispatchOK, Queue
    <2>9. calls[i + 1].op = calls[1].op => calls[i + 1] = calls[1]
      BY <2>1, <2>2, <1>2 DEF CallRec
    <2>10. calls[i + 1].op \in {"acquire", "renew", "release"}
      BY <2>1 DEF CallRec
    <2> QED BY <2>1, <2>2, <2>3, <2>4, <2>5, <2>6, <2>7, <2>8, <2>9, <2>10
  <1>3. \A i \in DOMAIN calls' :
          /\ calls'[i].op = "acquire" => job'[calls'[i].job].phase = "acquiring"
          /\ calls'[i].op = "release" => job'[calls'[i].job].phase = "releasing"
          /\ calls'[i].op = "renew" => job'[calls'[i].job].leased \/ job'[calls'[i].job].settled
    <2> SUFFICES ASSUME NEW i \in DOMAIN Tail(calls)
                 PROVE  /\ Tail(calls)[i].op = "acquire" => job'[Tail(calls)[i].job].phase = "acquiring"
                        /\ Tail(calls)[i].op = "release" => job'[Tail(calls)[i].job].phase = "releasing"
                        /\ Tail(calls)[i].op = "renew" =>
                                job'[Tail(calls)[i].job].leased \/ job'[Tail(calls)[i].job].settled
      OBVIOUS
    <2>1. /\ Tail(calls)[i] = calls[i + 1] /\ calls[i + 1] \in CallRec /\ i + 1 \in DOMAIN calls
      BY TailFacts
    <2>2. CASE Tail(calls)[i].job = j
      BY <2>2, <1>1, <1>2
    <2>3. CASE Tail(calls)[i].job # j
      <3>1. calls[i + 1].job \in Runs \ {j}
        BY <2>1, <2>3 DEF CallRec
      <3>2. job'[calls[i + 1].job] = job[calls[i + 1].job]
        BY <3>1, <1>1
      <3> QED BY <2>1, <3>2 DEF DispatchOK, Queue
    <2> QED BY <2>2, <2>3
  <1>4. \A i, k \in DOMAIN calls' : calls'[i] = calls'[k] /\ calls'[i].op # "renew" => i = k
    <2> SUFFICES ASSUME NEW i \in DOMAIN Tail(calls), NEW k \in DOMAIN Tail(calls),
                        Tail(calls)[i] = Tail(calls)[k], Tail(calls)[i].op # "renew"
                 PROVE  i = k
      OBVIOUS
    <2>1. i + 1 \in DOMAIN calls /\ k + 1 \in DOMAIN calls /\ calls[i + 1] = calls[k + 1] /\ calls[i + 1].op # "renew"
      BY TailFacts
    <2>2. i + 1 = k + 1
      BY <2>1 DEF DispatchOK, Queue
    <2> QED BY <2>2, TailFacts
  <1>5. ASSUME NEW k \in Runs, job'[k].phase = "releasing"
        PROVE  \E i \in DOMAIN calls' : calls'[i] = [op |-> "release", job |-> k]
    <2>1. k # j /\ job[k].phase = "releasing"
      BY <1>1, <1>5
    <2>2. PICK i \in DOMAIN calls : calls[i] = [op |-> "release", job |-> k]
      BY <2>1 DEF DispatchOK, Queue
    <2>3. i # 1
      BY <2>1, <2>2, TailFacts
    <2>4. i - 1 \in DOMAIN Tail(calls) /\ Tail(calls)[i - 1] = calls[i]
      BY <2>3, TailFacts
    <2> QED BY <2>2, <2>4
  <1> QED BY <1>3, <1>4, <1>5, TailFacts DEF Queue

\* What acquire makes of the leases: the expired ones are released, and the
\* token it would take is above them all.
Expired == Released(records, Held \cap lapsed)

Grant == [state |-> "held", fence |-> NextFence(Expired), orphaned |-> FALSE]

LEMMA ExpiredFacts ==
    ASSUME DispatchOK, NEW j \in Runs
    PROVE  /\ Expired \in Leases /\ Grant \in LeaseRec /\ [Expired EXCEPT ![j] = Grant] \in Leases
           /\ \A k \in Runs : /\ Expired[k].fence = records[k].fence /\ Expired[k].orphaned = records[k].orphaned
                              /\ Expired[k].state = records[k].state \/ k \in lapsed
                              /\ Expired[k].fence < Grant.fence
                              /\ job[k].phase = "new" => Expired[k] = records[k] /\ k \notin Held
           /\ \E m \in Nat : /\ Grant.fence <= m
                             /\ \A k \in Runs : records[k].fence <= m /\ leaseFile[k].fence <= m
  <1>1. records \in Leases /\ leaseFile \in Leases
    BY DEF DispatchOK, DispatchTypeOK, Leases
  <1>2. /\ Expired \in Leases
        /\ \A k \in Runs : /\ Expired[k].fence = records[k].fence /\ Expired[k].orphaned = records[k].orphaned
                           /\ Expired[k].state = records[k].state \/ k \in lapsed
                           /\ k \notin Held => Expired[k] = records[k]
    BY <1>1, ReleasedFacts DEF Expired
  <1>3. \A k \in Runs : job[k].phase = "new" => k \notin Held
    BY Selves DEF Held, Lease, NoLease
  <1>4. PICK m \in Nat : \A k \in Runs : records[k].fence <= m /\ leaseFile[k].fence <= m
    BY DEF DispatchOK, Bounded
  <1>5. \A k \in Runs : Expired[k].fence <= m
    BY <1>2, <1>4
  <1>6. /\ NextFence(Expired) \in Nat /\ NextFence(Expired) <= m + 1
        /\ \A k \in Runs : Expired[k].fence < NextFence(Expired)
    BY <1>2, <1>5, NextFenceFacts
  <1>7. Grant \in LeaseRec /\ Grant.fence = NextFence(Expired)
    BY <1>6 DEF LeaseRec, Grant
  <1>8. [Expired EXCEPT ![j] = Grant] \in Leases
    BY <1>2, <1>7 DEF Leases
  <1>9. \A k \in Runs : records[k].fence \in Nat /\ leaseFile[k].fence \in Nat
    BY <1>1 DEF Leases, LeaseRec
  <1>10. m + 1 \in Nat /\ \A k \in Runs : records[k].fence <= m + 1 /\ leaseFile[k].fence <= m + 1
    BY <1>4, <1>9
  <1> QED BY <1>2, <1>3, <1>6, <1>7, <1>8, <1>10

\* The lease is granted.
LEMMA GrantInv ==
    ASSUME DispatchOK, NEW j \in Runs, up, calls # <<>>, Head(calls).op = "acquire", j = Head(calls).job,
           calls' = Tail(calls), Blocking = {},
           records' = [Expired EXCEPT ![j] = Grant], Append_((Held \cap lapsed) \cup {j}, records'),
           lapsed' = lapsed \ {j}, process' = [process EXCEPT ![j] = "running"],
           job' = [job EXCEPT ![j].phase = "handshake", ![j].leased = TRUE],
           UNCHANGED <<scene, delivered, answer, up, stuck>>
    PROVE  DispatchOK'
  <1> DEFINE e == [job[j] EXCEPT !.phase = "handshake", !.leased = TRUE]
  <1>1. e \in JobRec /\ e.phase = "handshake" /\ e.settled = job[j].settled /\ e.leased
    BY Selves, JobFacts
  <1>2. job' = [job EXCEPT ![j] = e]
    BY Selves
  <1> HIDE DEF e
  <1>3. job[j].phase = "acquiring"
    <2>1. calls[1] = Head(calls) /\ 1 \in DOMAIN calls
      BY TailFacts
    <2> QED BY <2>1 DEF DispatchOK, Queue
  <1>4. job'[j] = e /\ process'[j] = "running" /\ \A k \in Runs \ {j} : job'[k] = job[k] /\ process'[k] = process[k]
    BY <1>2 DEF DispatchOK, DispatchTypeOK
  <1>5. Life(j)'
    BY <1>1, <1>3, <1>4, Selves DEF Life, Codex
  <1>6. /\ job' \in [Runs -> JobRec] /\ process' \in [Runs -> Procs]
        /\ answer' \in [Runs -> Answers]
        /\ \A k \in Runs : Life(k)'
    <2>1. "running" \in Procs
      BY DEF Procs
    <2> QED BY <2>1, <1>1, <1>2, <1>5, Selves, LifeOfOne
  <1>7. calls' \in Seq(CallRec) /\ Queue'
    BY <1>1, <1>2, ServedCalls
  <1>8. /\ Expired \in Leases /\ Grant \in LeaseRec /\ records' \in Leases
        /\ \A k \in Runs : /\ Expired[k].fence = records[k].fence /\ Expired[k].orphaned = records[k].orphaned
                           /\ Expired[k].state = records[k].state \/ k \in lapsed
                           /\ Expired[k].fence < Grant.fence
                           /\ job[k].phase = "new" => Expired[k] = records[k] /\ k \notin Held
    <2>1. [Expired EXCEPT ![j] = Grant] \in Leases
      BY ExpiredFacts
    <2>2. records' \in Leases
      BY <2>1
    <2>3. Expired \in Leases /\ Grant \in LeaseRec
      BY ExpiredFacts
    <2>4. \A k \in Runs : /\ Expired[k].fence = records[k].fence /\ Expired[k].orphaned = records[k].orphaned
                          /\ Expired[k].state = records[k].state \/ k \in lapsed
                          /\ Expired[k].fence < Grant.fence
                          /\ job[k].phase = "new" => Expired[k] = records[k] /\ k \notin Held
      BY ExpiredFacts
    <2> QED BY <2>2, <2>3, <2>4
  <1>9. Written((Held \cap lapsed) \cup {j}, records')
    BY <1>8, AppendWrites DEF DispatchOK, DispatchTypeOK, Leases
  <1>10. records'[j] = Grant /\ \A k \in Runs \ {j} : records'[k] = Expired[k]
    BY <1>8 DEF Leases
  <1>11. Grant.state = "held" /\ ~Grant.orphaned
    BY DEF Grant
  <1>12. ASSUME NEW k \in Runs  PROVE  Lease(k)'
    <2>1. CASE k = j
      BY <2>1, <1>1, <1>4, <1>10, <1>11 DEF Lease
    <2>2. CASE k # j
      <3>1. job'[k] = job[k] /\ process'[k] = process[k] /\ records'[k] = Expired[k] /\ (k \in lapsed' <=> k \in lapsed)
        BY <2>2, <1>4, <1>10
      <3>2. job[k].phase = "new" => leaseFile'[k] = leaseFile[k]
        BY <2>2, <1>8, <1>9 DEF Written
      <3>3. Lease(k)
        BY Selves
      <3>4. job'[k].phase = "new" => records'[k] = NoLease /\ leaseFile'[k] = NoLease
        BY <3>1, <3>2, <3>3, <1>8 DEF Lease
      <3>5. records'[k].orphaned => process'[k] # "running"
        BY <3>1, <3>3, <1>8 DEF Lease
      <3>6. process'[k] = "running" /\ 0 < records'[k].fence /\ records'[k].state # "held" => k \in lapsed'
        BY <3>1, <3>3, <1>8 DEF Lease
      <3> QED BY <3>4, <3>5, <3>6 DEF Lease
    <2> QED BY <2>1, <2>2
  <1>13. Bounded'
    <2>1. PICK m \in Nat : /\ Grant.fence <= m
                           /\ \A k \in Runs : records[k].fence <= m /\ leaseFile[k].fence <= m
      BY ExpiredFacts
    <2>2. ASSUME NEW k \in Runs  PROVE  records'[k].fence <= m /\ leaseFile'[k].fence <= m
      <3>1. records'[k].fence <= m
        BY <2>1, <1>8, <1>10
      <3> QED BY <3>1, <2>1, <1>9 DEF Written
    <2> QED BY <2>2 DEF Bounded
  <1>14. WritersFenced'
    <2> SUFFICES ASSUME NEW k \in Runs, NEW l \in Runs, process'[k] = "running", process'[l] = "running",
                        0 < records'[k].fence, records'[k].fence < records'[l].fence
                 PROVE  k \in lapsed'
      BY DEF WritersFenced
    <2>1. k # j
      <3>1. Grant.fence \in Nat /\ records'[l] \in LeaseRec
        BY <1>8 DEF Leases, LeaseRec
      <3>2. records'[l].fence \in Nat
        BY <3>1 DEF LeaseRec
      <3>3. l # j => records'[l].fence < Grant.fence
        BY <1>8, <1>10
      <3>4. k = j => records'[k].fence = Grant.fence
        BY <1>10
      <3>5. l = j => records'[l].fence = Grant.fence
        BY <1>10
      <3> QED BY <3>1, <3>2, <3>3, <3>4, <3>5
    <2>2. process[k] = "running" /\ records'[k] = Expired[k] /\ Expired[k].fence = records[k].fence /\ 0 < records[k].fence
      BY <2>1, <1>4, <1>8, <1>10
    <2>3. CASE l = j
      <3>1. CASE records[k].state = "held"
        BY <3>1, <2>1 DEF Blocking, Held
      <3>2. CASE records[k].state # "held"
        BY <3>2, <2>1, <2>2, Selves DEF Lease
      <3> QED BY <3>1, <3>2
    <2>4. CASE l # j
      <3>1. process[l] = "running" /\ records'[l].fence = records[l].fence
        BY <2>4, <1>4, <1>8, <1>10
      <3> QED BY <3>1, <2>1, <2>2 DEF DispatchOK, WritersFenced
    <2> QED BY <2>3, <2>4
  <1> QED BY <1>6, <1>7, <1>8, <1>9, <1>12, <1>13, <1>14 DEF DispatchOK, DispatchTypeOK, Leases, Written

\* The lease is refused, or granted in a file that could not be written.
LEMMA RefusalInv ==
    ASSUME DispatchOK, NEW j \in Runs, up, calls # <<>>, Head(calls).op = "acquire", j = Head(calls).job,
           calls' = Tail(calls), Refused(j),
           records' = Expired, lapsed' = lapsed, process' = process,
           \/ AppendFails(Held \cap lapsed, j, [Expired EXCEPT ![j] = Grant])
           \/ Append_(Held \cap lapsed, Expired),
           UNCHANGED <<scene, delivered, up, stuck>>
    PROVE  DispatchOK'
  <1> DEFINE e == [job[j] EXCEPT !.phase = "over", !.settled = TRUE]
             w == [Expired EXCEPT ![j] = Grant]
  <1>1. /\ e \in JobRec /\ e.phase = "over" /\ e.settled
        /\ e.leased = job[j].leased /\ e.result = job[j].result
    BY Selves, JobFacts
  <1>2. job' = [job EXCEPT ![j] = e] /\ answer' = [answer EXCEPT ![j] = "thrown"]
    BY DEF Refused
  <1> HIDE DEF e
  <1>3. job'[j] = e /\ answer'[j] = "thrown" /\ \A k \in Runs \ {j} : job'[k] = job[k]
    BY <1>2 DEF DispatchOK, DispatchTypeOK
  <1>4. job[j].phase = "acquiring"
    <2>1. calls[1] = Head(calls) /\ 1 \in DOMAIN calls
      BY TailFacts
    <2> QED BY <2>1 DEF DispatchOK, Queue
  <1>5. Life(j)'
    BY <1>1, <1>3, <1>4, Selves DEF Life
  <1>6. /\ job' \in [Runs -> JobRec] /\ process' \in [Runs -> Procs]
        /\ answer' \in [Runs -> Answers]
        /\ \A k \in Runs : Life(k)'
    <2>1. "thrown" \in Answers /\ process' = [process EXCEPT ![j] = process[j]]
      BY Selves DEF Answers
    <2> QED BY <2>1, <1>1, <1>2, <1>5, Selves, LifeOfOne
  <1>7. calls' \in Seq(CallRec) /\ Queue'
    BY <1>1, <1>2, ServedCalls
  <1>8. /\ Expired \in Leases /\ Grant \in LeaseRec /\ w \in Leases /\ leaseFile \in Leases
        /\ w[j] = Grant /\ \A k \in Runs \ {j} : w[k] = Expired[k]
    <2>1. Expired \in Leases /\ Grant \in LeaseRec
      BY ExpiredFacts
    <2> QED BY <2>1 DEF Leases, DispatchOK, DispatchTypeOK
  <1>9. \A k \in Runs : /\ Expired[k].fence = records[k].fence /\ Expired[k].orphaned = records[k].orphaned
                        /\ Expired[k].state = records[k].state \/ k \in lapsed
                        /\ Expired[k].fence < Grant.fence
                        /\ job[k].phase = "new" => Expired[k] = records[k] /\ k \notin Held
    BY ExpiredFacts
  <1>10. \/ Written((Held \cap lapsed) \cup {j}, w)
         \/ Written(Held \cap lapsed, Expired)
    BY <1>8, AppendWrites, AppendFailsWrites
  <1> HIDE DEF w
  <1>11. leaseFile' \in Leases /\ \A k \in Runs : /\ leaseFile'[k] \in {leaseFile[k], Expired[k], Grant}
                                                  /\ job'[k].phase = "new" => leaseFile'[k] = leaseFile[k]
    <2>1. leaseFile' \in Leases
      BY <1>10 DEF Written
    <2>2. ASSUME NEW k \in Runs  PROVE  leaseFile'[k] \in {leaseFile[k], Expired[k], Grant}
      <3>1. w[k] \in {Expired[k], Grant}
        BY <1>8
      <3> QED BY <3>1, <1>10 DEF Written
    <2>3. ASSUME NEW k \in Runs, job'[k].phase = "new"  PROVE  leaseFile'[k] = leaseFile[k]
      <3>1. k # j /\ k \notin Held
        BY <2>3, <1>1, <1>3, <1>9
      <3> QED BY <3>1, <1>10 DEF Written
    <2> QED BY <2>1, <2>2, <2>3
  <1>12. WritersFenced' /\ \A k \in Runs : Lease(k)'
    <2>1. \A k \in Runs : job'[k].phase = "new" => job[k].phase = "new" /\ records'[k] = records[k]
      BY <1>1, <1>3, <1>9
    <2> QED BY <2>1, <1>8, <1>9, <1>11, LeasesMove
  <1>13. Bounded'
    <2>1. PICK m \in Nat : /\ Grant.fence <= m
                           /\ \A k \in Runs : records[k].fence <= m /\ leaseFile[k].fence <= m
      BY ExpiredFacts
    <2>2. ASSUME NEW k \in Runs  PROVE  records'[k].fence <= m /\ leaseFile'[k].fence <= m
      BY <2>1, <1>9, <1>11
    <2> QED BY <2>2 DEF Bounded
  <1> QED BY <1>6, <1>7, <1>8, <1>11, <1>12, <1>13 DEF DispatchOK, DispatchTypeOK, Leases

LEMMA ServeAcquireInv == ASSUME DispatchOK, ServeAcquire  PROVE DispatchOK'
  <1> DEFINE j == Head(calls).job
  <1>1. /\ up /\ calls # <<>> /\ Head(calls).op = "acquire" /\ calls' = Tail(calls)
        /\ Acquire(j) /\ UNCHANGED <<scene, delivered, up, stuck>>
    BY DEF ServeAcquire
  <1>2. j \in Runs
    <2>1. Head(calls) \in CallRec
      BY <1>1, TailFacts
    <2> QED BY <2>1 DEF CallRec
  <1>3. CASE /\ Blocking = {}
             /\ records' = [Expired EXCEPT ![j] = Grant] /\ Append_((Held \cap lapsed) \cup {j}, records')
             /\ lapsed' = lapsed \ {j}
             /\ job' = [job EXCEPT ![j].phase = "handshake", ![j].leased = TRUE]
             /\ process' = [process EXCEPT ![j] = "running"]
             /\ answer' = answer
    <2> HIDE DEF j
    <2>1. j = Head(calls).job
      BY DEF j
    <2> QED BY <2>1, <1>1, <1>2, <1>3, GrantInv
  <1>4. CASE /\ records' = Expired /\ Refused(j) /\ UNCHANGED <<process, lapsed>>
             /\ \/ AppendFails(Held \cap lapsed, j, [Expired EXCEPT ![j] = Grant])
                \/ Append_(Held \cap lapsed, Expired)
    <2> HIDE DEF j
    <2>1. j = Head(calls).job
      BY DEF j
    <2> QED BY <2>1, <1>1, <1>2, <1>4, RefusalInv
  <1> QED BY <1>1, <1>3, <1>4 DEF Acquire, Expired, Grant

LEMMA ServeReleaseInv == ASSUME DispatchOK, ServeRelease  PROVE DispatchOK'
  <1>1. PICK j : j = Head(calls).job
    OBVIOUS
  <1>2. /\ up /\ calls # <<>> /\ Head(calls).op = "release" /\ calls' = Tail(calls)
        /\ UNCHANGED <<scene, delivered, up, lapsed, answer, process>>
    BY DEF ServeRelease, Release
  <1>3. j \in Runs /\ job[j].phase = "releasing"
    <2>1. calls[1] = Head(calls) /\ 1 \in DOMAIN calls /\ calls[1] \in CallRec
      BY <1>2, TailFacts
    <2> QED BY <2>1, <1>1, <1>2 DEF DispatchOK, Queue, CallRec
  <1>4. PICK f \in {"over", "released"} :
          /\ job' = [job EXCEPT ![j].phase = f]
          /\ stuck' = IF f = "over" THEN stuck \cup {j} ELSE stuck
          /\ records' \in {records, Released(records, {j})}
          /\ Written({j}, Released(records, {j}))
    <2>1. Release(j)
      BY <1>1 DEF ServeRelease
    <2>2. records \in Leases /\ leaseFile \in Leases /\ Released(records, {j}) \in Leases
      BY ReleasedFacts DEF DispatchOK, DispatchTypeOK, Leases
    <2>3. CASE stuck' = stuck \cup {j} /\ job' = [job EXCEPT ![j].phase = "over"] /\ UNCHANGED <<records, leaseFile>>
      BY <2>2, <2>3 DEF Written
    <2>4. CASE /\ records' = Released(records, {j}) /\ Append_({j} \cap Held, Released(records, {j}))
               /\ job' = [job EXCEPT ![j].phase = "released"] /\ stuck' = stuck
      <3>1. Written({j} \cap Held, Released(records, {j}))
        BY <2>2, <2>4, AppendWrites
      <3> QED BY <2>4, <3>1 DEF Written
    <2>5. CASE /\ AppendFails({}, j, Released(records, {j})) /\ UNCHANGED records
               /\ stuck' = stuck \cup {j} /\ job' = [job EXCEPT ![j].phase = "over"]
      <3>1. Written({} \cup {j}, Released(records, {j}))
        BY <2>2, <2>5, AppendFailsWrites
      <3> QED BY <2>5, <3>1 DEF Written
    <2> QED BY <2>1, <2>3, <2>4, <2>5 DEF Release
  <1> DEFINE e == [job[j] EXCEPT !.phase = f]
  <1>5. /\ e \in JobRec /\ e.phase = f /\ e.settled = job[j].settled
        /\ e.leased = job[j].leased /\ e.result = job[j].result
    <2>1. f \in Phases /\ job[j] \in JobRec
      BY <1>3, Selves DEF Phases
    <2> QED BY <2>1, PhaseFacts
  <1>6. job' = [job EXCEPT ![j] = e]
    BY <1>4
  <1> HIDE DEF e
  <1>7. job'[j] = e /\ \A k \in Runs \ {j} : job'[k] = job[k]
    BY <1>3, <1>6 DEF DispatchOK, DispatchTypeOK
  <1>8. Life(j)'
    <2>1. f = "over" => j \in stuck'
      BY <1>4
    <2> QED BY <2>1, <1>2, <1>3, <1>5, <1>7, Selves DEF Life
  <1>9. /\ job' \in [Runs -> JobRec] /\ process' \in [Runs -> Procs]
        /\ answer' \in [Runs -> Answers]
        /\ \A k \in Runs : Life(k)'
    <2>1. stuck' \in {stuck, stuck \cup {j}}
      BY <1>4
    <2>2. /\ process' = [process EXCEPT ![j] = process[j]] /\ answer' = [answer EXCEPT ![j] = answer[j]]
          /\ process[j] \in Procs /\ answer[j] \in Answers
      BY <1>2, <1>3, Selves
    <2>3. UNCHANGED <<scene, delivered, up>>
      BY <1>2
    <2> QED BY <2>1, <2>2, <2>3, <1>3, <1>5, <1>6, <1>8, LifeOfOne
  <1>10. calls' \in Seq(CallRec) /\ Queue'
    BY <1>1, <1>2, <1>3, <1>5, <1>6, ServedCalls
  <1>11. /\ records' \in Leases /\ leaseFile' \in Leases
         /\ \A k \in Runs : /\ records'[k].fence = records[k].fence /\ records'[k].orphaned = records[k].orphaned
                            /\ leaseFile'[k].fence = leaseFile[k].fence \/ leaseFile'[k].fence = records[k].fence
                            /\ k # j => records'[k] = records[k] /\ leaseFile'[k] = leaseFile[k]
    <2>1. records \in Leases
      BY DEF DispatchOK, DispatchTypeOK, Leases
    <2>2. /\ Released(records, {j}) \in Leases
          /\ \A k \in Runs : /\ Released(records, {j})[k].fence = records[k].fence
                             /\ Released(records, {j})[k].orphaned = records[k].orphaned
                             /\ k # j => Released(records, {j})[k] = records[k]
      BY <2>1, ReleasedFacts
    <2>3. records' \in Leases /\ leaseFile' \in Leases
      BY <2>1, <2>2, <1>4 DEF Written
    <2>4. ASSUME NEW k \in Runs
          PROVE  /\ records'[k].fence = records[k].fence /\ records'[k].orphaned = records[k].orphaned
                 /\ k # j => records'[k] = records[k]
      <3>1. CASE records' = records
        BY <3>1
      <3>2. CASE records' = Released(records, {j})
        BY <3>2, <2>2
      <3> QED BY <3>1, <3>2, <1>4
    <2>5. ASSUME NEW k \in Runs
          PROVE  /\ leaseFile'[k].fence = leaseFile[k].fence \/ leaseFile'[k].fence = records[k].fence
                 /\ k # j => leaseFile'[k] = leaseFile[k]
      BY <2>2, <1>4 DEF Written
    <2> QED BY <2>3, <2>4, <2>5
  <1>12. process'[j] # "running"
    BY <1>2, <1>3, Selves DEF Life
  <1>13. WritersFenced' /\ \A k \in Runs : Lease(k)'
    <2>1. \A k \in Runs : job'[k].phase = "new" =>
             job[k].phase = "new" /\ records'[k] = records[k] /\ leaseFile'[k] = leaseFile[k]
      BY <1>4, <1>5, <1>7, <1>11
    <2>2. \A k \in Runs : records'[k].state = records[k].state \/ process'[k] # "running"
      BY <1>11, <1>12
    <2> QED BY <2>1, <2>2, <1>2, <1>11, LeasesMove
  <1>14. Bounded'
    BY <1>11, BoundedMove
  <1> QED BY <1>2, <1>9, <1>10, <1>11, <1>13, <1>14 DEF DispatchOK, DispatchTypeOK, Leases

-----------------------------------------------------------------------------
(***************************************************************************)
(* A renewal: it renews, or it ends the run                                *)
(***************************************************************************)
LEMMA RenewedCalls ==
    ASSUME DispatchOK, up, up' = up, calls # <<>>, Head(calls).op = "renew", calls' = Tail(calls), job' = job
    PROVE  calls' \in Seq(CallRec) /\ Queue'
  <1>1. \A i \in DOMAIN calls' :
          /\ calls'[i].op = "acquire" => job[calls'[i].job].phase = "acquiring"
          /\ calls'[i].op = "release" => job[calls'[i].job].phase = "releasing"
          /\ calls'[i].op = "renew" => job[calls'[i].job].leased \/ job[calls'[i].job].settled
    BY TailFacts DEF DispatchOK, Queue
  <1>2. ASSUME NEW i \in DOMAIN calls', NEW k \in DOMAIN calls', calls'[i] = calls'[k], calls'[i].op # "renew"
        PROVE  i = k
    <2>1. i + 1 = k + 1
      BY <1>2, TailFacts DEF DispatchOK, Queue
    <2> QED BY <2>1, <1>2, TailFacts
  <1>3. ASSUME NEW k \in Runs, job[k].phase = "releasing"
        PROVE  \E i \in DOMAIN calls' : calls'[i] = [op |-> "release", job |-> k]
    <2>1. PICK i \in DOMAIN calls : calls[i] = [op |-> "release", job |-> k]
      BY <1>3 DEF DispatchOK, Queue
    <2>2. i # 1
      BY <2>1, TailFacts
    <2>3. i - 1 \in DOMAIN Tail(calls) /\ Tail(calls)[i - 1] = calls[i]
      BY <2>2, TailFacts
    <2> QED BY <2>1, <2>3
  <1> QED BY <1>1, <1>2, <1>3, TailFacts DEF Queue

LEMMA FailedRenewalCalls ==
    ASSUME DispatchOK, up, up' = up, calls # <<>>, Head(calls).op = "renew",
           NEW j \in Runs, job[j].phase \in {"handshake", "turn", "accepted"},
           calls' = Append(Tail(calls), [op |-> "release", job |-> j]),
           NEW e \in JobRec, job' = [job EXCEPT ![j] = e], e.phase = "releasing", e.settled
    PROVE  calls' \in Seq(CallRec) /\ Queue'
  <1> DEFINE c == [op |-> "release", job |-> j]
             n == Len(Tail(calls))
  <1>1. c \in CallRec /\ c.op = "release" /\ c.job = j
    BY DEF CallRec
  <1>2. job'[j] = e /\ \A k \in Runs \ {j} : job'[k] = job[k]
    BY DEF DispatchOK, DispatchTypeOK
  <1>3. calls' = Append(Tail(calls), c)
    OBVIOUS
  <1> HIDE DEF c
  <1>4. /\ calls' \in Seq(CallRec) /\ n \in Nat /\ DOMAIN calls' = 1 .. (n + 1) /\ calls'[n + 1] = c
        /\ \A i \in 1 .. n : calls'[i] = Tail(calls)[i]
    <2>1. Tail(calls) \in Seq(CallRec)
      BY TailFacts
    <2> QED BY <2>1, <1>1, <1>3
  <1>5. \A i \in 1 .. n : calls'[i] = calls[i + 1] /\ calls[i + 1] \in CallRec /\ i + 1 \in DOMAIN calls
    BY <1>4, TailFacts
  <1>6. ASSUME NEW i \in 1 .. n
        PROVE  /\ calls'[i] # c
               /\ calls'[i].op = "acquire" => job'[calls'[i].job].phase = "acquiring"
               /\ calls'[i].op = "release" => job'[calls'[i].job].phase = "releasing"
               /\ calls'[i].op = "renew" => job'[calls'[i].job].leased \/ job'[calls'[i].job].settled
    <2>1. calls'[i] = calls[i + 1] /\ calls[i + 1] \in CallRec /\ i + 1 \in DOMAIN calls
      BY <1>5
    <2>2. CASE calls[i + 1].job = j
      <3>1. calls[i + 1].op # "acquire" /\ calls[i + 1].op # "release"
        BY <2>1, <2>2 DEF DispatchOK, Queue
      <3> QED BY <2>1, <2>2, <3>1, <1>1, <1>2
    <2>3. CASE calls[i + 1].job # j
      <3>1. calls[i + 1].job \in Runs
        BY <2>1 DEF CallRec
      <3>2. job'[calls[i + 1].job] = job[calls[i + 1].job]
        BY <2>3, <3>1, <1>2
      <3>3. /\ calls[i + 1].op = "acquire" => job[calls[i + 1].job].phase = "acquiring"
            /\ calls[i + 1].op = "release" => job[calls[i + 1].job].phase = "releasing"
            /\ calls[i + 1].op = "renew" => job[calls[i + 1].job].leased \/ job[calls[i + 1].job].settled
        BY <2>1 DEF DispatchOK, Queue
      <3> QED BY <2>1, <2>3, <3>2, <3>3, <1>1
    <2> QED BY <2>2, <2>3
  <1>7. \A i \in DOMAIN calls' :
          /\ calls'[i].op = "acquire" => job'[calls'[i].job].phase = "acquiring"
          /\ calls'[i].op = "release" => job'[calls'[i].job].phase = "releasing"
          /\ calls'[i].op = "renew" => job'[calls'[i].job].leased \/ job'[calls'[i].job].settled
    <2>1. job'[c.job].phase = "releasing"
      BY <1>1, <1>2
    <2>2. \A i \in DOMAIN calls' : i \in 1 .. n \/ i = n + 1
      BY <1>4
    <2> QED BY <2>1, <2>2, <1>1, <1>4, <1>6
  <1>8. ASSUME NEW i \in DOMAIN calls', NEW k \in DOMAIN calls', calls'[i] = calls'[k], calls'[i].op # "renew"
        PROVE  i = k
    <2>1. (i \in 1 .. n \/ i = n + 1) /\ (k \in 1 .. n \/ k = n + 1)
      BY <1>4
    <2>2. CASE i \in 1 .. n /\ k \in 1 .. n
      <3>1. i + 1 = k + 1
        BY <2>2, <1>5, <1>8 DEF DispatchOK, Queue
      <3> QED BY <3>1, <2>2, <1>4
    <2> QED BY <2>1, <2>2, <1>4, <1>6, <1>8
  <1>9. ASSUME NEW k \in Runs, job'[k].phase = "releasing"
        PROVE  \E i \in DOMAIN calls' : calls'[i] = [op |-> "release", job |-> k]
    <2>1. CASE k = j
      <3>1. calls'[n + 1] = [op |-> "release", job |-> k] /\ n + 1 \in DOMAIN calls'
        BY <2>1, <1>4 DEF c
      <3> QED BY <3>1
    <2>2. CASE k # j
      <3>1. PICK i \in DOMAIN calls : calls[i] = [op |-> "release", job |-> k]
        BY <2>2, <1>2, <1>9 DEF DispatchOK, Queue
      <3>2. i # 1
        BY <3>1, TailFacts
      <3>3. i - 1 \in DOMAIN Tail(calls) /\ Tail(calls)[i - 1] = calls[i] /\ DOMAIN Tail(calls) = 1 .. n
        BY <3>2, TailFacts
      <3>4. i - 1 \in DOMAIN calls' /\ calls'[i - 1] = calls[i]
        BY <3>3, <1>4
      <3> QED BY <3>1, <3>4
    <2> QED BY <2>1, <2>2
  <1> QED BY <1>4, <1>7, <1>8, <1>9 DEF Queue

\* The jobs' half of a renewal that fails: the run ends, unless it already has.
LEMMA HeartbeatFailedFacts ==
    ASSUME DispatchOK, NEW j \in Runs, up, calls # <<>>, Head(calls).op = "renew", j = Head(calls).job,
           HeartbeatFailed(j), UNCHANGED <<scene, delivered, up, stuck>>
    PROVE  /\ job' \in [Runs -> JobRec] /\ process' \in [Runs -> Procs]
           /\ answer' \in [Runs -> Answers]
           /\ calls' \in Seq(CallRec) /\ Queue'
           /\ \A k \in Runs : /\ Life(k)' /\ (process'[k] = "running" => process[k] = "running")
                              /\ job'[k].phase = "new" => k # j /\ job[k].phase = "new"
  <1>1. job[j].leased \/ job[j].settled
    <2>1. calls[1] = Head(calls) /\ 1 \in DOMAIN calls
      BY TailFacts
    <2> QED BY <2>1 DEF DispatchOK, Queue
  <1>2. CASE job[j].settled
    <2>1. UNCHANGED <<job, answer, process>> /\ calls' = Tail(calls)
      BY <1>2 DEF HeartbeatFailed
    <2>2. job[j].phase # "new"
      BY <1>2, Selves DEF Life
    <2>3. \A k \in Runs : Life(k)'
      BY <2>1 DEF DispatchOK, Life, Codex
    <2>4. calls' \in Seq(CallRec) /\ Queue'
      BY <2>1, RenewedCalls
    <2> QED BY <2>1, <2>2, <2>3, <2>4 DEF DispatchOK, DispatchTypeOK
  <1>3. CASE ~job[j].settled
    <2> DEFINE o == CASE answer[j] = "none" -> "none"
                      [] answer[j] # "none" /\ job[j].cancelled -> "cancelled"
                      [] OTHER -> "interrupted"
               e == [Cleaning(j, job[j]) EXCEPT !.result = o]
    <2>1. job[j] \in JobRec /\ Life(j) /\ answer[j] \in {"none", "accepted", "thrown"}
      BY DEF DispatchOK, DispatchTypeOK, Answers
    <2>2. job[j].leased /\ job[j].phase \in {"handshake", "turn", "accepted"}
      BY <2>1, <1>1, <1>3 DEF JobRec, Life, Phases
    <2>3. o \in Outcomes \cup {"none"} /\ (answer[j] # "none" => o # "none")
      BY DEF Outcomes
    <2> HIDE DEF o
    <2>4. e \in JobRec /\ e.settled /\ ~e.leased /\ e.result = o /\ e.phase = "releasing"
      <3>1. /\ e \in JobRec /\ e.settled /\ ~e.leased /\ e.result = o
            /\ e.phase = IF job[j].leased THEN "releasing" ELSE "released"
        BY <2>1, <2>3, CleaningFacts
      <3> QED BY <3>1, <2>2
    <2>5. /\ job' = [job EXCEPT ![j] = e] /\ Signalled(j)
          /\ answer' = IF answer[j] = "none" THEN [answer EXCEPT ![j] = "thrown"] ELSE answer
          /\ calls' = Append(Tail(calls), [op |-> "release", job |-> j])
      BY <1>3 DEF HeartbeatFailed, o
    <2>6. PICK a \in {"accepted", "thrown"} : answer' = [answer EXCEPT ![j] = a] /\ (a = "accepted" => o # "none")
      <3>1. answer = [answer EXCEPT ![j] = answer[j]]
        BY DEF DispatchOK, DispatchTypeOK
      <3> QED BY <3>1, <2>1, <2>3, <2>5
    <2>7. PICK p \in {"none", "stopping", "gone"} : process' = [process EXCEPT ![j] = p]
      BY <2>5, SignalledFacts
    <2> HIDE DEF e
    <2>8. /\ job'[j] = e /\ answer'[j] = a /\ process'[j] = p
          /\ \A k \in Runs \ {j} : job'[k] = job[k] /\ process'[k] = process[k]
      BY <2>5, <2>6, <2>7 DEF DispatchOK, DispatchTypeOK
    <2>9. Life(j)'
      <3>1. delivered[j] = <<>> /\ Len(delivered[j]) <= 1
        BY <2>1, <2>2 DEF Life
      <3> QED BY <3>1, <2>4, <2>6, <2>8 DEF Life
    <2>10. a \in Answers /\ p \in Procs
      BY DEF Answers, Procs
    <2>11. /\ job' \in [Runs -> JobRec] /\ process' \in [Runs -> Procs]
           /\ answer' \in [Runs -> Answers]
           /\ \A k \in Runs : Life(k)'
      BY <2>4, <2>5, <2>6, <2>7, <2>9, <2>10, LifeOfOne
    <2>12. calls' \in Seq(CallRec) /\ Queue'
      BY <2>2, <2>4, <2>5, FailedRenewalCalls
    <2> QED BY <2>4, <2>8, <2>11, <2>12
  <1> QED BY <1>2, <1>3

LEMMA ServeRenewInv == ASSUME DispatchOK, ServeRenew  PROVE DispatchOK'
  <1>1. PICK j : j = Head(calls).job
    OBVIOUS
  <1> DEFINE r == Released(records, {j} \cap lapsed)
  <1>2. /\ up /\ calls # <<>> /\ Head(calls).op = "renew" /\ Renew(j)
        /\ UNCHANGED <<scene, delivered, up, stuck, lapsed>>
    BY <1>1 DEF ServeRenew, Renew
  <1>3. j \in Runs /\ job[j].phase # "new"
    <2>1. calls[1] = Head(calls) /\ 1 \in DOMAIN calls /\ calls[1] \in CallRec
      BY <1>2, TailFacts
    <2>2. j \in Runs /\ (job[j].leased \/ job[j].settled)
      BY <2>1, <1>1, <1>2 DEF DispatchOK, Queue, CallRec
    <2> QED BY <2>2, Selves DEF Life
  <1>4. records \in Leases /\ leaseFile \in Leases /\ r \in Leases
    <2>1. records \in Leases /\ leaseFile \in Leases
      BY DEF DispatchOK, DispatchTypeOK, Leases
    <2> QED BY <2>1, ReleasedFacts
  <1>5. \A k \in Runs : /\ r[k].fence = records[k].fence /\ r[k].orphaned = records[k].orphaned
                        /\ r[k].state = records[k].state \/ k \in lapsed
                        /\ k # j => r[k] = records[k]
    BY <1>4, ReleasedFacts
  <1>6. /\ records' \in {records, r}
        /\ Written({j}, r) \/ Written({j}, records)
        /\ HeartbeatFailed(j) \/ (calls' = Tail(calls) /\ UNCHANGED <<job, answer, process>>)
    <2>1. CASE records' = r /\ Append_({j} \cap lapsed \cap Held, r) /\ HeartbeatFailed(j)
      <3>1. Written({j} \cap lapsed \cap Held, r)
        BY <2>1, <1>4, AppendWrites
      <3> QED BY <2>1, <3>1 DEF Written
    <2>2. CASE Append_({j}, records) /\ calls' = Tail(calls) /\ UNCHANGED <<records, job, answer, process>>
      BY <2>2, <1>4, AppendWrites
    <2>3. CASE AppendFails({}, j, records) /\ HeartbeatFailed(j) /\ UNCHANGED records
      <3>1. Written({} \cup {j}, records)
        BY <2>3, <1>4, AppendFailsWrites
      <3> QED BY <2>3, <3>1 DEF Written
    <2> QED BY <2>1, <2>2, <2>3, <1>2 DEF Renew
  <1> HIDE DEF r
  <1>7. /\ records' \in Leases /\ leaseFile' \in Leases
        /\ \A k \in Runs : /\ records'[k].fence = records[k].fence /\ records'[k].orphaned = records[k].orphaned
                           /\ records'[k].state = records[k].state \/ k \in lapsed
                           /\ leaseFile'[k].fence = leaseFile[k].fence \/ leaseFile'[k].fence = records[k].fence
                           /\ k # j => records'[k] = records[k] /\ leaseFile'[k] = leaseFile[k]
    <2>1. records' \in Leases /\ leaseFile' \in Leases
      BY <1>4, <1>6 DEF Written
    <2>2. ASSUME NEW k \in Runs
          PROVE  /\ records'[k].fence = records[k].fence /\ records'[k].orphaned = records[k].orphaned
                 /\ records'[k].state = records[k].state \/ k \in lapsed
                 /\ k # j => records'[k] = records[k]
      <3>1. CASE records' = records
        BY <3>1
      <3>2. CASE records' = r
        BY <3>2, <1>5
      <3> QED BY <3>1, <3>2, <1>6
    <2>3. ASSUME NEW k \in Runs
          PROVE  /\ leaseFile'[k].fence = leaseFile[k].fence \/ leaseFile'[k].fence = records[k].fence
                 /\ k # j => leaseFile'[k] = leaseFile[k]
      BY <1>5, <1>6 DEF Written
    <2> QED BY <2>1, <2>2, <2>3
  <1>8. /\ job' \in [Runs -> JobRec] /\ process' \in [Runs -> Procs]
        /\ answer' \in [Runs -> Answers]
        /\ calls' \in Seq(CallRec) /\ Queue'
        /\ \A k \in Runs : /\ Life(k)' /\ (process'[k] = "running" => process[k] = "running")
                           /\ job'[k].phase = "new" => k # j /\ job[k].phase = "new"
    <2>1. CASE HeartbeatFailed(j)
      BY <2>1, <1>1, <1>2, <1>3, HeartbeatFailedFacts
    <2>2. CASE calls' = Tail(calls) /\ UNCHANGED <<job, answer, process>>
      <3>1. \A k \in Runs : Life(k)'
        BY <2>2, <1>2 DEF DispatchOK, Life, Codex
      <3>2. calls' \in Seq(CallRec) /\ Queue'
        BY <2>2, <1>2, RenewedCalls
      <3> QED BY <2>2, <3>1, <3>2, <1>3 DEF DispatchOK, DispatchTypeOK
    <2> QED BY <2>1, <2>2, <1>6
  <1>9. WritersFenced' /\ \A k \in Runs : Lease(k)'
    BY <1>2, <1>7, <1>8, LeasesMove
  <1>10. Bounded'
    BY <1>7, BoundedMove
  <1> QED BY <1>2, <1>7, <1>8, <1>9, <1>10 DEF DispatchOK, DispatchTypeOK, Leases

-----------------------------------------------------------------------------
(***************************************************************************)
(* Time, the operator, crashes                                             *)
(***************************************************************************)
LEMMA LapseInv == ASSUME DispatchOK, NEW j \in Runs, Lapse(j)  PROVE DispatchOK'
  <1>1. /\ UNCHANGED <<scene, records, leaseFile, calls, job, process, delivered, answer, up, stuck>>
        /\ lapsed \subseteq lapsed'
    BY DEF Lapse
  <1>2. records \in Leases /\ leaseFile \in Leases
    BY DEF DispatchOK, DispatchTypeOK, Leases
  <1>3. WritersFenced' /\ \A k \in Runs : Lease(k)'
    BY <1>1, <1>2, LeasesMove
  <1>4. \A k \in Runs : Life(k)'
    BY <1>1 DEF DispatchOK, Life, Codex
  <1>5. DispatchTypeOK'
    BY <1>1 DEF DispatchOK, DispatchTypeOK
  <1>6. Queue' /\ Bounded'
    BY <1>1 DEF DispatchOK, Queue, Bounded
  <1> QED BY <1>3, <1>4, <1>5, <1>6 DEF DispatchOK

LEMMA ResolveOrphanInv == ASSUME DispatchOK, NEW j \in Runs, ResolveOrphan(j)  PROVE DispatchOK'
  <1> DEFINE r == Released(records, {j})
  <1>1. /\ records[j].state = "held" /\ records[j].orphaned /\ records' = r /\ Append_({j}, r)
        /\ UNCHANGED <<scene, lapsed, calls, job, process, delivered, answer, up, stuck>>
    BY DEF ResolveOrphan
  <1>2. records \in Leases /\ leaseFile \in Leases
    BY DEF DispatchOK, DispatchTypeOK, Leases
  <1>3. /\ r \in Leases
        /\ \A k \in Runs : /\ r[k].fence = records[k].fence /\ r[k].orphaned = records[k].orphaned
                           /\ k # j => r[k] = records[k]
    BY <1>2, ReleasedFacts
  <1> HIDE DEF r
  <1>4. Written({j}, r)
    BY <1>1, <1>2, <1>3, AppendWrites
  <1>5. job[j].phase # "new" /\ process[j] # "running"
    BY <1>1, Selves DEF Lease, NoLease
  <1>6. /\ records' \in Leases /\ leaseFile' \in Leases
        /\ \A k \in Runs : /\ records'[k].fence = records[k].fence /\ records'[k].orphaned = records[k].orphaned
                           /\ records'[k].state = records[k].state \/ process'[k] # "running"
                           /\ leaseFile'[k].fence = leaseFile[k].fence \/ leaseFile'[k].fence = records[k].fence
                           /\ k # j => records'[k] = records[k] /\ leaseFile'[k] = leaseFile[k]
    BY <1>1, <1>3, <1>4, <1>5 DEF Written
  <1>7. WritersFenced' /\ \A k \in Runs : Lease(k)'
    BY <1>1, <1>5, <1>6, LeasesMove
  <1>8. \A k \in Runs : Life(k)'
    BY <1>1 DEF DispatchOK, Life, Codex
  <1>9. DispatchTypeOK'
    BY <1>1, <1>6 DEF DispatchOK, DispatchTypeOK, Leases
  <1>10. Queue'
    BY <1>1 DEF DispatchOK, Queue
  <1>11. Bounded'
    BY <1>6, BoundedMove
  <1> QED BY <1>7, <1>8, <1>9, <1>10, <1>11 DEF DispatchOK

LEMMA CrashInv == ASSUME DispatchOK, BrokerCrash  PROVE DispatchOK'
  <1>0. ~up' /\ up' \in BOOLEAN /\ calls' = <<>> /\ UNCHANGED <<scene, leaseFile, lapsed, delivered, answer, stuck>>
    BY DEF BrokerCrash
  <1>1. /\ records' = [j \in Runs |-> NoLease]
        /\ job' = [j \in Runs |-> IF job[j].phase = "new" THEN job[j]
                                  ELSE [job[j] EXCEPT !.phase = "dead", !.settled = TRUE, !.leased = FALSE]]
        /\ process' = [j \in Runs |-> IF process[j] = "running" THEN "stopping" ELSE process[j]]
    BY DEF BrokerCrash
  <1>2. ASSUME NEW q \in JobRec
        PROVE  LET e == [q EXCEPT !.phase = "dead", !.settled = TRUE, !.leased = FALSE]
               IN  e \in JobRec /\ e.phase = "dead" /\ e.settled /\ ~e.leased
    BY DEF JobRec, Phases
  <1>3. ASSUME NEW j \in Runs
        PROVE  /\ job'[j] \in JobRec /\ process'[j] \in {"none", "stopping", "gone"}
               /\ job[j].phase = "new" => job'[j] = job[j] /\ process'[j] = "none"
               /\ job[j].phase # "new" => job'[j].phase = "dead" /\ job'[j].settled /\ ~job'[j].leased
    <2>1. job[j] \in JobRec /\ process[j] \in {"none", "running", "stopping", "gone"} /\ Life(j)
      BY DEF DispatchOK, DispatchTypeOK, Procs
    <2>2. process'[j] \in {"none", "stopping", "gone"} /\ (process[j] = "none" => process'[j] = "none")
      BY <1>1, <2>1
    <2>3. CASE job[j].phase = "new"
      BY <1>1, <2>1, <2>2, <2>3 DEF Life
    <2>4. CASE job[j].phase # "new"
      BY <1>1, <1>2, <2>1, <2>2, <2>4
    <2> QED BY <2>3, <2>4
  <1>4. DispatchTypeOK'
    <2>1. records' \in [Runs -> LeaseRec]
      BY <1>1 DEF LeaseRec, NoLease
    <2>2. job' \in [Runs -> JobRec]
      BY <1>1, <1>3
    <2>3. process' \in [Runs -> Procs]
      BY <1>1, <1>3 DEF Procs
    <2>4. calls' \in Seq(CallRec)
      BY <1>0
    <2> QED BY <1>0, <2>1, <2>2, <2>3, <2>4 DEF DispatchOK, DispatchTypeOK
  <1>5. ASSUME NEW j \in Runs  PROVE  Life(j)'
    <2>1. CASE job[j].phase = "new"
      BY <2>1, <1>0, <1>3, Selves DEF Life
    <2>2. CASE job[j].phase # "new"
      <3>1. delivered'[j] = delivered[j] /\ answer'[j] = answer[j] /\ Len(delivered[j]) <= 1
        BY <1>0, Selves DEF Life
      <3> QED BY <2>2, <3>1, <1>0, <1>3 DEF Life
    <2> QED BY <2>1, <2>2
  <1>6. ASSUME NEW j \in Runs  PROVE  Lease(j)'
    <2>1. records'[j] = NoLease
      BY <1>1
    <2>2. job'[j].phase = "new" => job[j].phase = "new"
      BY <1>3
    <2>3. job[j].phase = "new" => leaseFile'[j] = NoLease
      BY <1>0, Selves DEF Lease
    <2> QED BY <2>1, <2>2, <2>3 DEF Lease, NoLease
  <1>7. Queue'
    <2>1. DOMAIN calls' = {}
      BY <1>0
    <2>2. \A j \in Runs : job'[j].phase # "releasing"
      BY <1>3
    <2> QED BY <2>1, <2>2, <1>0 DEF Queue
  <1>8. Bounded'
    <2>1. PICK m \in Nat : \A j \in Runs : records[j].fence <= m /\ leaseFile[j].fence <= m
      BY DEF DispatchOK, Bounded
    <2>2. \A j \in Runs : records'[j].fence = 0 /\ leaseFile'[j] = leaseFile[j]
      BY <1>0, <1>1 DEF NoLease
    <2> QED BY <2>1, <2>2 DEF Bounded
  <1>9. WritersFenced'
    BY <1>3 DEF WritersFenced
  <1> QED BY <1>4, <1>5, <1>6, <1>7, <1>8, <1>9 DEF DispatchOK

LEMMA RecoverInv == ASSUME DispatchOK, Recover  PROVE DispatchOK'
  <1> DEFINE holding == {j \in Runs : leaseFile[j].state = "held"}
             now == [j \in Runs |-> CASE j \in holding \cap lapsed -> [leaseFile[j] EXCEPT !.state = "released"]
                                      [] j \in holding \ lapsed -> [leaseFile[j] EXCEPT !.orphaned = TRUE]
                                      [] OTHER -> leaseFile[j]]
             js == {j \in Runs : now[j] # leaseFile[j]}
  <1>1. /\ ~up /\ up' /\ up' \in BOOLEAN /\ records' = now /\ Append_(js, now)
        /\ UNCHANGED <<scene, lapsed, calls, job, process, delivered, answer, stuck>>
    BY DEF Recover
  <1>2. leaseFile \in Leases
    BY DEF DispatchOK, DispatchTypeOK, Leases
  <1>3. ASSUME NEW j \in Runs
        PROVE  /\ now[j] \in LeaseRec /\ now[j].fence = leaseFile[j].fence
               /\ leaseFile[j].state # "held" => now[j] = leaseFile[j]
    <2>1. leaseFile[j] \in LeaseRec
      BY <1>2 DEF Leases
    <2>2. CASE j \in holding \cap lapsed
      <3>1. now[j] = [leaseFile[j] EXCEPT !.state = "released"]
        BY <2>2
      <3> QED BY <2>1, <2>2, <3>1 DEF LeaseRec
    <2>3. CASE j \in holding \ lapsed
      <3>1. now[j] = [leaseFile[j] EXCEPT !.orphaned = TRUE]
        BY <2>3
      <3> QED BY <2>1, <2>3, <3>1 DEF LeaseRec
    <2>4. CASE j \notin holding
      <3>1. now[j] = leaseFile[j]
        BY <2>4
      <3> QED BY <2>1, <3>1
    <2> QED BY <2>2, <2>3, <2>4
  <1>4. now \in Leases
    BY <1>3 DEF Leases
  <1> HIDE DEF now
  <1>5. Written(js, now)
    BY <1>1, <1>2, <1>4, AppendWrites
  <1> HIDE DEF js
  <1>6. calls' = <<>> /\ \A j \in Runs : job'[j].phase \in {"new", "dead"} /\ process'[j] # "running"
    BY <1>1, Selves DEF Life, DispatchOK, Queue
  <1>7. \A j \in Runs : Life(j)'
    <2> SUFFICES ASSUME NEW j \in Runs  PROVE Life(j)'
      OBVIOUS
    <2> QED BY <1>1, Selves DEF Life, Codex
  <1>8. ASSUME NEW j \in Runs  PROVE  Lease(j)'
    <2>1. job'[j].phase = "new" => records'[j] = NoLease /\ leaseFile'[j] = NoLease
      <3> SUFFICES ASSUME job[j].phase = "new"  PROVE records'[j] = NoLease /\ leaseFile'[j] = NoLease
        BY <1>1
      <3>1. leaseFile[j] = NoLease
        BY Selves DEF Lease
      <3>2. now[j] = NoLease
        BY <3>1, <1>3 DEF NoLease
      <3> QED BY <3>1, <3>2, <1>1, <1>5 DEF Written
    <2> QED BY <2>1, <1>6 DEF Lease
  <1>9. DispatchTypeOK'
    BY <1>1, <1>4, <1>5 DEF DispatchOK, DispatchTypeOK, Leases, Written
  <1>10. Queue'
    <2>1. DOMAIN calls' = {}
      BY <1>6
    <2>2. \A j \in Runs : job'[j].phase # "releasing"
      BY <1>6
    <2> QED BY <2>1, <2>2, <1>1 DEF Queue
  <1>11. Bounded'
    <2>1. PICK m \in Nat : \A j \in Runs : records[j].fence <= m /\ leaseFile[j].fence <= m
      BY DEF DispatchOK, Bounded
    <2>2. ASSUME NEW j \in Runs  PROVE  records'[j].fence <= m /\ leaseFile'[j].fence <= m
      BY <2>1, <1>1, <1>3, <1>5 DEF Written
    <2> QED BY <2>2 DEF Bounded
  <1>12. WritersFenced'
    BY <1>6 DEF WritersFenced
  <1> QED BY <1>7, <1>8, <1>9, <1>10, <1>11, <1>12 DEF DispatchOK

-----------------------------------------------------------------------------
LEMMA DispatchInitInv == ASSUME DispatchInit  PROVE DispatchOK
  <1>1. DispatchTypeOK
    BY DEF DispatchInit, DispatchTypeOK, NoLease, NewJob, LeaseRec, JobRec, Phases, Procs, Answers
  <1>2. ASSUME NEW j \in Runs  PROVE  Life(j) /\ Lease(j)
    BY DEF DispatchInit, Life, Lease, NewJob, NoLease
  <1>3. Queue
    <2>1. DOMAIN calls = {} /\ up /\ \A j \in Runs : job[j].phase = "new"
      BY DEF DispatchInit, NewJob
    <2> QED BY <2>1 DEF Queue
  <1>4. Bounded
    <2>1. \A j \in Runs : records[j].fence <= 0 /\ leaseFile[j].fence <= 0
      BY DEF DispatchInit, NoLease
    <2> QED BY <2>1 DEF Bounded
  <1>5. WritersFenced
    BY DEF DispatchInit, WritersFenced
  <1> QED BY <1>1, <1>2, <1>3, <1>4, <1>5 DEF DispatchOK

LEMMA DispatchStepInv == ASSUME DispatchOK, [DispatchNext]_dispatchVars  PROVE DispatchOK'
  <1>1. ASSUME NEW j \in Runs,
               \/ Dispatch(j) \/ Heartbeat(j) \/ HandshakeOK(j) \/ RequestFails(j) \/ TurnStarted(j)
               \/ StartedAndCompleted(j) \/ BadOutput(j)
               \/ \E status \in {"completed", "interrupted", "failed"} : TurnCompleted(j, status)
        PROVE  DispatchOK'
    BY <1>1, DispatchInv, HeartbeatInv, HandshakeOKInv, RequestFailsInv, TurnStartedInv,
       StartedAndCompletedInv, BadOutputInv, TurnCompletedInv
  <1>2. ASSUME NEW j \in Runs,
               \/ CodexExit(j) \/ CodexError(j)
               \/ \E result \in {"completed", "failed"} : HeadlessExit(j, result)
               \/ HeadlessError(j) \/ Overflow(j)
        PROVE  DispatchOK'
    BY <1>2, CodexExitInv, CodexErrorInv, HeadlessExitInv, HeadlessErrorInv, OverflowInv
  <1>3. ASSUME NEW j \in Runs,
               \/ CancelRun(j) \/ CancellationTimer(j) \/ Timeout(j) \/ Report(j) \/ Lapse(j) \/ ResolveOrphan(j)
        PROVE  DispatchOK'
    BY <1>3, CancelInv, CancellationTimerInv, TimeoutInv, ReportInv, LapseInv, ResolveOrphanInv
  <1>4. CASE ServeAcquire \/ ServeRenew \/ ServeRelease \/ BrokerCrash \/ Recover
    BY <1>4, ServeAcquireInv, ServeRenewInv, ServeReleaseInv, CrashInv, RecoverInv
  <1>5. CASE UNCHANGED dispatchVars
    BY <1>5, StutterInv DEF dispatchVars, leases
  <1> QED BY <1>1, <1>2, <1>3, <1>4, <1>5 DEF DispatchNext

LEMMA DispatchSpecInv == DispatchSpec => []DispatchOK
  <1>1. DispatchInit => DispatchOK
    BY DispatchInitInv
  <1>2. DispatchOK /\ [DispatchNext]_dispatchVars => DispatchOK'
    BY DispatchStepInv
  <1> QED BY <1>1, <1>2, PTL DEF DispatchSpec

-----------------------------------------------------------------------------
(***************************************************************************)
(* Leases, jobs, the manager's chain and the reports are well formed in    *)
(* every reachable state.                                                  *)
(***************************************************************************)
THEOREM DispatchTypeCorrect == DispatchSpec => []DispatchTypeOK
  <1>1. DispatchOK => DispatchTypeOK
    BY DEF DispatchOK
  <1> QED BY <1>1, DispatchSpecInv, PTL

(***************************************************************************)
(* WorktreeLeaseManager: of two processes that write the worktree, the one *)
(* with the lower token has missed its heartbeats for a whole TTL.         *)
(***************************************************************************)
THEOREM DispatchWritersFenced == DispatchSpec => []WritersFenced
  <1>1. DispatchOK => WritersFenced
    BY DEF DispatchOK
  <1> QED BY <1>1, DispatchSpecInv, PTL

(***************************************************************************)
(* The dispatch adapters: no job is reported twice, and an accepted one    *)
(* that is over, whose lease could be given back, has been reported.       *)
(***************************************************************************)
THEOREM DispatchReportedExactlyOnce == DispatchSpec => []ReportedExactlyOnce
  <1>1. ASSUME DispatchOK  PROVE ReportedExactlyOnce
    <2> SUFFICES ASSUME NEW j \in Runs, answer[j] = "accepted", process[j] = "gone", calls = <<>>,
                        j \notin stuck, job[j].phase \notin {"released", "dead"}
                 PROVE  Len(delivered[j]) = 1
      BY <1>1, Selves DEF ReportedExactlyOnce, Life
    <2>1. job[j].phase # "releasing"
      <3>1. DOMAIN calls = {}
        OBVIOUS
      <3> QED BY <3>1, <1>1 DEF DispatchOK, Queue
    <2>2. job[j].phase = "over"
      BY <2>1, <1>1, Selves DEF Life
    <2> QED BY <2>2, <1>1, Selves DEF Life
  <1> QED BY <1>1, DispatchSpecInv, PTL
-----------------------------------------------------------------------------
(***************************************************************************)
(* The control plane, for any set of jobs and any setups: the state keeps  *)
(* its shape, which includes that no job waits twice and that the slots    *)
(* never exceed the ceiling (PlaneTypeCorrect), and the jobs agree with    *)
(* the scheduler at every await (PlaneAdmissionMatchesJobs).               *)
(***************************************************************************)
(***************************************************************************)
(* The agreement is not inductive. A method that ends a job has changed    *)
(* the job before its write and gives the slot back after it, so the       *)
(* invariant says that such a job has ended (Endings) and that the         *)
(* scheduler holds nothing of a job nobody submitted (Absences); and the   *)
(* loop of pump hands a job from the queue to the adapter and then awaits  *)
(* a method of its own, so it says where the loop is, that the job it      *)
(* dispatches has its slot, and that it awaits one method (PumpAwaits).    *)
(* That the loop passes over no job it could admit needs the queue to hold *)
(* every job once (Distinct), which is also what makes the foremost        *)
(* admissible job unique.                                                  *)
(***************************************************************************)
(***************************************************************************)
(* LoopFacts says what a turn of the loop does. A method that returns      *)
(* leaves the jobs as they are and runs the loop (LoopKeeps), finds it     *)
(* running (BusyKeeps) or either (PumpKeeps), and keeps the invariant if   *)
(* what it leaves of the queue and of the slots still serves the jobs      *)
(* (WaitsIn, SlotsIn). A step that ends a job is an instance of            *)
(* EndsJobKeeps, and a step that neither side notices of StillKeeps.       *)
(***************************************************************************)

Distinct(q) == \A m, n \in DOMAIN q : q[m] = q[n] => m = n

Pumps == [job : Jobs \cup {NoJob}, at : {"idle", "dispatch", "task"}, chain : BOOLEAN]
Debits == {"no", "known", "unknown"}
PlaneRuns == {"none", "launching", "running", "stopping", "rejected", "over"}
Reports(s) == [job : Jobs, result : s.results]

\* TypeOK, and what it follows from: the queue holds no job twice.
JobTypes ==
    /\ setup \in Setups
    /\ entry \in [Jobs -> Lifecycles] /\ disk \in [Jobs -> Lifecycles]
    /\ tasks \subseteq Tasks /\ during \subseteq Jobs \X Jobs
    /\ admitted \subseteq Jobs /\ charged \in [Jobs -> Debits]
    /\ reports \in Seq(Reports(setup))
    /\ draining \in [serving : BOOLEAN, left : SUBSET Jobs]

SchedulerTypes ==
    /\ queue \in Seq(Jobs) /\ Distinct(queue)
    /\ reserved \subseteq Jobs /\ IsFiniteSet(reserved) /\ Cardinality(reserved) <= setup.ceiling
    /\ pump \in Pumps /\ stalled \in BOOLEAN
    /\ proc \in [Jobs -> PlaneRuns]

PlaneTypes == JobTypes /\ SchedulerTypes

\* The scheduler knows nothing of a job nobody submitted.
Absences == \A j \in Jobs : Status(j) = "absent" => j \notin reserved /\ pump.job # j

\* A job whose ending is being written has ended.
Endings == \A t \in tasks : t.kind \in {"settle", "interrupt"} => Status(t.job) \in {"settled", "interrupted"}

\* The loop of pump and the method it awaits.
PumpAwaits ==
    /\ pump.at = "idle" <=> pump.job = NoJob
    /\ pump.at = "task" => Status(pump.job) # "queued"
    /\ pump.at = "dispatch" /\ Status(pump.job) = "queued" => pump.job \in reserved
    /\ \A t \in tasks : t.by = "pump" => pump.at = "task" /\ t.job = pump.job
    /\ \A t \in tasks : t.kind = "mark" => t.by = "pump"
    /\ \A t, u \in tasks : t.by = "pump" /\ u.by = "pump" => t = u

PlaneInv == PlaneTypes /\ Absences /\ Endings /\ PumpAwaits /\ AdmissionMatchesJobs
-----------------------------------------------------------------------------
\* f is the filter of Without, up to n places of q.
Filter(f, q, js, n) ==
    f = [i \in 0..n |-> IF i = 0 THEN <<>>
                        ELSE IF q[i] \in js THEN f[i - 1] ELSE Append(f[i - 1], q[i])]

LEMMA FilterValues ==
    ASSUME NEW f, NEW q, NEW js, NEW n \in Nat, Filter(f, q, js, n)
    PROVE  /\ f[0] = <<>>
           /\ \A i \in 1..n : f[i] = IF q[i] \in js THEN f[i - 1] ELSE Append(f[i - 1], q[i])
  <1>1. \A i \in 0..n : f[i] = IF i = 0 THEN <<>>
                               ELSE IF q[i] \in js THEN f[i - 1] ELSE Append(f[i - 1], q[i])
    BY DEF Filter
  <1>2. 0 \in 0..n /\ \A i \in 1..n : i \in 0..n /\ i # 0
    OBVIOUS
  <1> QED BY ONLY <1>1, <1>2

LEMMA FilterExists ==
    ASSUME NEW q, NEW js, NEW n \in Nat
    PROVE  \E f : Filter(f, q, js, n)
  <1> DEFINE Missing == {m \in Nat : ~ \E f : Filter(f, q, js, m)}
  <1>1. SUFFICES ASSUME Missing # {}  PROVE FALSE
    OBVIOUS
  <1>2. PICK m \in Missing : \A k \in Missing : m <= k
    BY <1>1, NatMinimum
  <1>3. m \in Nat /\ ~ \E f : Filter(f, q, js, m)
    OBVIOUS
  <1>4. CASE m = 0
    <2> DEFINE g == [i \in 0..0 |-> <<>>]
    <2>1. Filter(g, q, js, 0)
      BY DEF Filter
    <2> QED BY <1>3, <1>4, <2>1
  <1>5. CASE m > 0
    <2>1. m - 1 \in Nat /\ m - 1 \notin Missing
      BY <1>2, <1>3, <1>5
    <2>2. PICK f : Filter(f, q, js, m - 1)
      BY <2>1
    <2> DEFINE g == [i \in 0..m |-> IF i = m THEN (IF q[m] \in js THEN f[m - 1] ELSE Append(f[m - 1], q[m]))
                                    ELSE f[i]]
    <2>3. f[0] = <<>> /\ \A i \in 1..(m - 1) : f[i] = IF q[i] \in js THEN f[i - 1] ELSE Append(f[i - 1], q[i])
      BY <2>1, <2>2, FilterValues
    <2>4. ASSUME NEW i \in 0..m
          PROVE  g[i] = IF i = 0 THEN <<>> ELSE IF q[i] \in js THEN g[i - 1] ELSE Append(g[i - 1], q[i])
      BY <1>3, <1>5, <2>3
    <2>5. Filter(g, q, js, m)
      BY <2>4 DEF Filter
    <2> QED BY <1>3, <2>5
  <1> QED BY <1>3, <1>4, <1>5

\* What the filter has kept of the first i places.
Kept(S, f, q, js, i) ==
    /\ f[i] \in Seq(S)
    /\ Queued(f[i]) = {q[k] : k \in 1..i} \ js
    /\ Distinct(q) => Distinct(f[i])

LEMMA AppendOne ==
    ASSUME NEW S, NEW s \in Seq(S), NEW e \in S
    PROVE  /\ Append(s, e) \in Seq(S)
           /\ Queued(Append(s, e)) = Queued(s) \cup {e}
           /\ Distinct(s) /\ e \notin Queued(s) => Distinct(Append(s, e))
  <1> DEFINE z == Append(s, e)
  <1>1. z \in Seq(S) /\ DOMAIN s = 1..Len(s) /\ DOMAIN z = 1..(Len(s) + 1) /\ Len(s) \in Nat
    OBVIOUS
  <1>2. z[Len(s) + 1] = e /\ \A i \in 1..Len(s) : z[i] = s[i]
    OBVIOUS
  <1> HIDE DEF z
  <1>3. Queued(z) = Queued(s) \cup {e}
    <2>1. 1..(Len(s) + 1) = 1..Len(s) \cup {Len(s) + 1}
      BY <1>1
    <2> QED BY <1>1, <1>2, <2>1 DEF Queued
  <1>4. ASSUME Distinct(s), e \notin Queued(s), NEW m \in DOMAIN z, NEW n \in DOMAIN z, z[m] = z[n]
        PROVE  m = n
    <2>1. \A i \in 1..Len(s) : s[i] # e
      BY <1>1, <1>4 DEF Queued
    <2>2. m \in 1..Len(s) \/ m = Len(s) + 1
      BY <1>1, <1>4
    <2>3. n \in 1..Len(s) \/ n = Len(s) + 1
      BY <1>1, <1>4
    <2> QED BY <1>1, <1>2, <1>4, <2>1, <2>2, <2>3 DEF Distinct
  <1>5. Distinct(s) /\ e \notin Queued(s) => Distinct(z)
    BY <1>4 DEF Distinct
  <1> QED BY <1>1, <1>3, <1>5 DEF z

LEMMA FilterKeeps ==
    ASSUME NEW S, NEW q \in Seq(S), NEW js, NEW f, Filter(f, q, js, Len(q)), NEW i \in 0..Len(q)
    PROVE  Kept(S, f, q, js, i)
  <1> DEFINE Wrong == {m \in 0..Len(q) : ~Kept(S, f, q, js, m)}
  <1>1. SUFFICES ASSUME Wrong # {}  PROVE FALSE
    OBVIOUS
  <1>2. PICK m \in Wrong : \A k \in Wrong : m <= k
    <2>1. Wrong \subseteq Nat
      OBVIOUS
    <2> QED BY <1>1, <2>1, NatMinimum
  <1>3. Len(q) \in Nat /\ m \in 0..Len(q) /\ ~Kept(S, f, q, js, m)
    OBVIOUS
  <1>4. f[0] = <<>> /\ \A k \in 1..Len(q) : f[k] = IF q[k] \in js THEN f[k - 1] ELSE Append(f[k - 1], q[k])
    BY <1>3, FilterValues
  <1>5. m # 0
    <2>1. Kept(S, f, q, js, 0)
      BY <1>4 DEF Kept, Queued, Distinct
    <2> QED BY <1>3, <2>1
  <1>6. m \in 1..Len(q) /\ m - 1 \in 0..Len(q) /\ q[m] \in S
    BY <1>3, <1>5
  <1>7. m - 1 \notin Wrong
    BY <1>2, <1>6
  <1>8. Kept(S, f, q, js, m - 1)
    BY <1>6, <1>7
  <1>9. {q[k] : k \in 1..m} = {q[k] : k \in 1..(m - 1)} \cup {q[m]}
    BY <1>6
  <1>10. CASE q[m] \in js
    <2>1. f[m] = f[m - 1]
      BY <1>4, <1>6, <1>10
    <2> QED BY <1>3, <1>8, <1>9, <1>10, <2>1 DEF Kept
  <1>11. CASE q[m] \notin js
    <2>1. f[m] = Append(f[m - 1], q[m])
      BY <1>4, <1>6, <1>11
    <2>2. Distinct(q) => q[m] \notin {q[k] : k \in 1..(m - 1)}
      BY <1>6 DEF Distinct
    <2> HIDE DEF Wrong
    <2>3. f[m - 1] \in Seq(S)
      BY <1>8 DEF Kept
    <2>4. /\ f[m] \in Seq(S)
          /\ Queued(f[m]) = Queued(f[m - 1]) \cup {q[m]}
          /\ Distinct(f[m - 1]) /\ q[m] \notin Queued(f[m - 1]) => Distinct(f[m])
      BY <1>6, <2>1, <2>3, AppendOne
    <2> QED BY <1>3, <1>8, <1>9, <1>11, <2>2, <2>4 DEF Kept
  <1> QED BY <1>10, <1>11

\* Without takes the named jobs out of a queue and keeps the others, each once.
LEMMA WithoutFacts ==
    ASSUME NEW S, NEW q \in Seq(S), NEW js
    PROVE  /\ Without(q, js) \in Seq(S)
           /\ Queued(Without(q, js)) = Queued(q) \ js
           /\ Distinct(q) => Distinct(Without(q, js))
  <1> DEFINE kept == CHOOSE f : Filter(f, q, js, Len(q))
  <1>1. Len(q) \in Nat /\ Len(q) \in 0..Len(q)
    OBVIOUS
  <1>2. Without(q, js) = kept[Len(q)]
    BY DEF Without, Filter
  <1>3. Filter(kept, q, js, Len(q))
    BY <1>1, FilterExists
  <1> HIDE DEF kept
  <1>4. Kept(S, kept, q, js, Len(q))
    BY <1>1, <1>3, FilterKeeps
  <1>5. {q[k] : k \in 1..Len(q)} = Queued(q)
    BY DEF Queued
  <1> QED BY <1>2, <1>4, <1>5 DEF Kept

\* The job a turn of the loop takes is the foremost one that can be admitted.
LEMMA FirstFacts ==
    ASSUME NEW q \in Seq(Jobs), NEW r, NEW e, Admissible(q, r, e) # {}
    PROVE  /\ First(q, r, e) \in Admissible(q, r, e)
           /\ \A k \in Admissible(q, r, e) \ {First(q, r, e)} : Before(q, First(q, r, e), k)
  <1> DEFINE S == {n \in DOMAIN q : q[n] \in Admissible(q, r, e)}
             IsFirst(j) == \A k \in Admissible(q, r, e) \ {j} : Before(q, j, k)
  <1>1. \A k \in Admissible(q, r, e) : \E n \in S : q[n] = k
    BY DEF Admissible, Eligible, Queued
  <1>2. S \subseteq Nat /\ S # {}
    BY <1>1
  <1>3. PICK n \in S : \A m \in S : n <= m
    BY <1>2, NatMinimum
  <1>4. n \in Nat /\ n \in DOMAIN q /\ q[n] \in Admissible(q, r, e)
    BY <1>2
  <1>5. ASSUME NEW k \in Admissible(q, r, e) \ {q[n]}
        PROVE  Before(q, q[n], k)
    <2>1. PICK m \in S : q[m] = k
      BY <1>1
    <2>2. m \in Nat /\ m # n /\ n <= m /\ m \in DOMAIN q
      BY <1>2, <1>3, <1>5, <2>1
    <2>3. n < m
      BY <1>4, <2>2
    <2> QED BY <1>4, <2>1, <2>2, <2>3 DEF Before
  <1>6. IsFirst(q[n])
    BY <1>5
  <1>7. First(q, r, e) = CHOOSE j \in Admissible(q, r, e) : IsFirst(j)
    BY DEF First
  <1> HIDE DEF IsFirst
  <1>8. First(q, r, e) \in Admissible(q, r, e) /\ IsFirst(First(q, r, e))
    BY <1>4, <1>6, <1>7
  <1> QED BY <1>8 DEF IsFirst

\* No job comes both before and after another in a queue without repetitions.
LEMMA BeforeAsymmetric ==
    ASSUME NEW q \in Seq(Jobs), Distinct(q), NEW j, NEW k, Before(q, j, k), Before(q, k, j)
    PROVE  FALSE
  <1>1. PICK a, b \in DOMAIN q : a < b /\ q[a] = j /\ q[b] = k
    BY DEF Before
  <1>2. PICK c, d \in DOMAIN q : c < d /\ q[c] = k /\ q[d] = j
    BY DEF Before
  <1>3. a = d /\ b = c
    BY <1>1, <1>2 DEF Distinct
  <1>4. a \in Nat /\ b \in Nat
    OBVIOUS
  <1> QED BY <1>1, <1>2, <1>3, <1>4

\* What a turn of the loop does to the scheduler.
Advanced(q, r) ==
    /\ queue' \in Seq(Jobs) /\ Distinct(queue')
    /\ \A k \in Queued(q) : Status(k) = "queued" =>
          k \in Queued(queue') \/ (pump'.job = k /\ pump'.at = "dispatch")
    /\ IsFiniteSet(reserved') /\ Cardinality(reserved') <= setup.ceiling
    /\ pump' \in Pumps /\ stalled' \in BOOLEAN
    /\ proc' \in [Jobs -> PlaneRuns]
    /\ \/ pump' = NoPump /\ reserved' = r
       \/ /\ pump'.at = "dispatch" /\ pump'.job \in Jobs /\ Status(pump'.job) = "queued"
          /\ reserved' = r \cup {pump'.job}

\* A set below its ceiling has room for one more.
LEMMA RoomForOne ==
    ASSUME NEW r, IsFiniteSet(r), NEW j, NEW c \in Nat, ~(Cardinality(r) >= c)
    PROVE  IsFiniteSet(r \cup {j}) /\ Cardinality(r \cup {j}) <= c
  <1>1. /\ IsFiniteSet(r \cup {j})
        /\ Cardinality(r \cup {j}) = IF j \in r THEN Cardinality(r) ELSE Cardinality(r) + 1
    BY FS_AddElement
  <1>2. Cardinality(r) \in Nat
    BY FS_CardinalityType
  <1> QED BY <1>1, <1>2

LEMMA LoopFacts ==
    ASSUME ControlPlaneConstants, PlaneTypes, NEW q \in Seq(Jobs), Distinct(q),
           NEW r, r \subseteq Jobs, IsFiniteSet(r), Cardinality(r) <= setup.ceiling,
           NEW chain \in BOOLEAN, Loop(q, r, entry, chain)
    PROVE  Advanced(q, r)
  <1>1. CASE AdmissionOpen /\ Admissible(q, r, entry) # {}
    <2> DEFINE j == First(q, r, entry)
               gone == {j} \cup {k \in Eligible(q, r) : Before(q, k, j)}
    <2>1. j \in Admissible(q, r, entry) /\ \A k \in Admissible(q, r, entry) \ {j} : Before(q, j, k)
      BY <1>1, FirstFacts
    <2>2. /\ queue' = Without(q, gone) /\ reserved' = r \cup {j}
          /\ pump' = [job |-> j, at |-> "dispatch", chain |-> chain]
          /\ Launch(j) /\ UNCHANGED stalled
      BY <1>1 DEF Loop
    <2> HIDE DEF j, gone
    <2>3. j \in Queued(q) /\ j \in Jobs /\ entry[j].status = "queued" /\ ~BlockReason(j, r)
      BY <2>1 DEF Admissible, Eligible, Queued
    <2>4. /\ queue' \in Seq(Jobs) /\ Queued(queue') = Queued(q) \ gone /\ Distinct(queue')
      BY <2>2, WithoutFacts
    <2>5. ASSUME NEW k \in Queued(q), Status(k) = "queued", k \in gone
          PROVE  k = j
      <3>1. SUFFICES ASSUME k # j  PROVE FALSE
        OBVIOUS
      <3>2. k \in Eligible(q, r) /\ Before(q, k, j)
        BY <2>5, <3>1 DEF gone
      <3>3. k \in Admissible(q, r, entry) \ {j}
        BY <2>5, <3>1, <3>2 DEF Admissible, Status
      <3> QED BY <2>1, <3>2, <3>3, BeforeAsymmetric
    <2>6. IsFiniteSet(r \cup {j}) /\ Cardinality(r \cup {j}) <= setup.ceiling
      <3>1. ~(Cardinality(r) >= setup.ceiling)
        BY <2>3 DEF BlockReason
      <3>2. setup.ceiling \in Nat
        BY DEF ControlPlaneConstants, PlaneTypes, JobTypes, SetupOK
      <3> QED BY <3>1, <3>2, RoomForOne
    <2>7. proc' \in [Jobs -> PlaneRuns]
      BY <2>2 DEF Launch, PlaneTypes, SchedulerTypes, PlaneRuns
    <2>8. pump' \in Pumps /\ pump'.at = "dispatch" /\ pump'.job = j
      BY <2>2, <2>3 DEF Pumps
    <2>9. \A k \in Queued(q) : Status(k) = "queued" => k \in Queued(queue') \/ k = j
      BY <2>4, <2>5
    <2>10. stalled' \in BOOLEAN /\ Status(j) = "queued"
      BY <2>2, <2>3 DEF PlaneTypes, SchedulerTypes, Status
    <2> QED BY ONLY <2>2, <2>3, <2>4, <2>6, <2>7, <2>8, <2>9, <2>10 DEF Advanced
  <1>2. CASE ~(AdmissionOpen /\ Admissible(q, r, entry) # {})
    <2>1. /\ queue' = IF AdmissionOpen THEN Without(q, Eligible(q, r)) ELSE q
          /\ reserved' = r /\ pump' = NoPump /\ stalled' = FALSE /\ proc' = proc
      BY <1>2 DEF Loop
    <2>2. queue' \in Seq(Jobs) /\ Distinct(queue')
      BY <2>1, WithoutFacts
    <2>3. ASSUME NEW k \in Queued(q), Status(k) = "queued"
          PROVE  k \in Queued(queue')
      <3>1. CASE AdmissionOpen
        <4>1. k \notin Eligible(q, r)
          BY <1>2, <2>3, <3>1 DEF Admissible, Status
        <4> QED BY <2>1, <3>1, <4>1, WithoutFacts
      <3>2. CASE ~AdmissionOpen
        BY <2>1, <3>2
      <3> QED BY <3>1, <3>2
    <2>4. pump' \in Pumps
      BY <2>1 DEF NoPump, Pumps
    <2>5. proc' \in [Jobs -> PlaneRuns] /\ stalled' \in BOOLEAN
      BY <2>1 DEF PlaneTypes, SchedulerTypes
    <2>6. IsFiniteSet(reserved') /\ Cardinality(reserved') <= setup.ceiling
      <3>1. reserved' = r /\ IsFiniteSet(r) /\ Cardinality(r) <= setup.ceiling
        BY <2>1
      <3> QED BY ONLY <3>1
    <2>7. \A k \in Queued(q) : Status(k) = "queued" => k \in Queued(queue') \/ (pump'.job = k /\ pump'.at = "dispatch")
      BY <2>3
    <2>8. pump' = NoPump /\ reserved' = r
      BY <2>1
    <2> QED BY ONLY <2>2, <2>4, <2>5, <2>6, <2>7, <2>8 DEF Advanced
  <1> QED BY <1>1, <1>2

-----------------------------------------------------------------------------
\* The parts that relate the scheduler to the jobs.
Agreement == Absences /\ Endings /\ PumpAwaits /\ AdmissionMatchesJobs

Created(j) == \E t \in tasks : t.kind = "create" /\ t.job = j

\* What the queue q and the reservations r must still hold before the loop goes on.
WaitsIn(q) ==
    \A j \in Jobs \ damaged : Status(j) = "queued" =>
        j \in Queued(q) \/ (pump.job = j /\ pump.at = "dispatch") \/ Created(j)'
SlotsIn(r) ==
    \A j \in Jobs \ damaged :
        /\ Status(j) = "dispatched" => j \in r
        /\ j \in r => Status(j) = "dispatched" \/ (Status(j) = "queued" /\ pump.job = j) \/ Ending(j)'

\* The jobs stay as they are and methods return.
Returned == entry' = entry /\ tasks' \subseteq tasks /\ damaged' = damaged /\ setup' = setup

\* The slots that are left, when some are given back.
LEMMA FewerSlots ==
    ASSUME ControlPlaneConstants, PlaneTypes, NEW r, r \subseteq reserved
    PROVE  r \subseteq Jobs /\ IsFiniteSet(r) /\ Cardinality(r) <= setup.ceiling
  <1>1. reserved \subseteq Jobs /\ IsFiniteSet(reserved) /\ Cardinality(reserved) <= setup.ceiling
        /\ setup.ceiling \in Nat
    BY DEF PlaneTypes, JobTypes, SchedulerTypes, ControlPlaneConstants, SetupOK
  <1>2. IsFiniteSet(r) /\ Cardinality(r) <= Cardinality(reserved)
    BY <1>1, FS_Subset
  <1>3. Cardinality(r) \in Nat /\ Cardinality(reserved) \in Nat
    BY <1>1, <1>2, FS_CardinalityType
  <1>4. r \subseteq reserved
    OBVIOUS
  <1> QED BY ONLY <1>1, <1>2, <1>3, <1>4

\* A method returns and the loop goes on.
LEMMA LoopKeeps ==
    ASSUME ControlPlaneConstants, PlaneInv, Returned,
           NEW q \in Seq(Jobs), Distinct(q), NEW r, r \subseteq reserved,
           NEW chain \in BOOLEAN, Loop(q, r, entry, chain),
           \A t \in tasks' : t.by # "pump",
           pump.at = "dispatch" => Status(pump.job) # "queued",
           WaitsIn(q), SlotsIn(r)
    PROVE  SchedulerTypes' /\ Agreement'
  <1>1. PlaneTypes /\ Absences /\ Endings /\ PumpAwaits
    BY DEF PlaneInv
  <1>2. r \subseteq Jobs /\ IsFiniteSet(r) /\ Cardinality(r) <= setup.ceiling
    BY <1>1, FewerSlots
  <1>3. Advanced(q, r)
    BY <1>1, <1>2, LoopFacts
  <1>4. \A j : Status(j)' = Status(j)
    BY DEF Returned, Status
  <1>5. pump.at \in {"idle", "dispatch", "task"} /\ pump.job \in Jobs \cup {NoJob} /\ NoJob \notin Jobs
    BY <1>1 DEF PlaneTypes, SchedulerTypes, Pumps, ControlPlaneConstants
  <1>6. ~(Status(pump.job) = "queued" /\ pump.job \in Jobs)
    BY <1>1, <1>5 DEF PumpAwaits
  <1>7. /\ pump' \in Pumps /\ reserved' \subseteq Jobs
        /\ \/ pump'.at = "idle" /\ pump'.job = NoJob /\ reserved' = r
           \/ /\ pump'.at = "dispatch" /\ pump'.job \in Jobs /\ Status(pump'.job) = "queued"
              /\ reserved' = r \cup {pump'.job}
    BY <1>2, <1>3 DEF Advanced, NoPump
  <1>8. SchedulerTypes'
    BY <1>3, <1>7 DEF Advanced, SchedulerTypes, Returned
  <1>9. Absences'
    BY <1>1, <1>4, <1>5, <1>7 DEF Absences
  <1>10. Endings'
    BY <1>1, <1>4 DEF Endings, Returned
  <1>11. PumpAwaits'
    <2>1. \A t \in tasks' : t.kind = "mark" => t.by = "pump"
      BY <1>1 DEF PumpAwaits, Returned
    <2> QED BY <1>4, <1>5, <1>7, <2>1 DEF PumpAwaits
  <1>12. AdmissionMatchesJobs'
    <2>1. SUFFICES ASSUME NEW j \in Jobs \ damaged
          PROVE  /\ Status(j) = "queued" =>
                       j \in Queued(queue') \/ (pump'.job = j /\ pump'.at = "dispatch") \/ Created(j)'
                 /\ Status(j) = "dispatched" => j \in reserved'
                 /\ j \in reserved' =>
                       Status(j) = "dispatched" \/ (Status(j) = "queued" /\ pump'.job = j) \/ Ending(j)'
      <3>1. damaged' = damaged
        BY DEF Returned
      <3> QED BY <1>4, <2>1, <3>1 DEF AdmissionMatchesJobs, Created
    <2>2. Status(j) = "queued" => j \in Queued(queue') \/ (pump'.job = j /\ pump'.at = "dispatch") \/ Created(j)'
      BY <1>3, <1>6 DEF WaitsIn, Advanced
    <2>3. Status(j) = "dispatched" => j \in reserved'
      BY <1>7 DEF SlotsIn
    <2>4. j \in reserved' => Status(j) = "dispatched" \/ (Status(j) = "queued" /\ pump'.job = j) \/ Ending(j)'
      BY <1>6, <1>7 DEF SlotsIn
    <2> QED BY <2>2, <2>3, <2>4
  <1> QED BY <1>8, <1>9, <1>10, <1>11, <1>12 DEF Agreement

\* A call of pump while the loop runs, and every return that leaves the loop alone.
LEMMA BusyKeeps ==
    ASSUME ControlPlaneConstants, PlaneInv, Returned,
           NEW q \in Seq(Jobs), Distinct(q), NEW r, r \subseteq reserved,
           queue' = q, reserved' = r, UNCHANGED <<pump, stalled, proc>>,
           pump.at = "dispatch" /\ Status(pump.job) = "queued" => pump.job \in r,
           WaitsIn(q), SlotsIn(r)
    PROVE  SchedulerTypes' /\ Agreement'
  <1>1. PlaneTypes /\ Absences /\ Endings /\ PumpAwaits
    BY DEF PlaneInv
  <1>2. \A j : Status(j)' = Status(j)
    BY DEF Returned, Status
  <1>3. r \subseteq Jobs /\ IsFiniteSet(r) /\ Cardinality(r) <= setup.ceiling
    BY <1>1, FewerSlots
  <1>4. SchedulerTypes'
    <2>1. pump \in Pumps /\ stalled \in BOOLEAN /\ proc \in [Jobs -> PlaneRuns]
      BY <1>1 DEF PlaneTypes, SchedulerTypes
    <2> QED BY <1>3, <2>1 DEF SchedulerTypes, Returned
  <1>5. Absences'
    BY <1>1, <1>2 DEF Absences
  <1>6. Endings'
    BY <1>1, <1>2 DEF Endings, Returned
  <1>7. PumpAwaits'
    BY <1>1, <1>2 DEF PumpAwaits, Returned
  <1>8. AdmissionMatchesJobs'
    BY <1>2 DEF WaitsIn, SlotsIn, AdmissionMatchesJobs, Created, Returned
  <1> QED BY <1>4, <1>5, <1>6, <1>7, <1>8 DEF Agreement

\* A method returns and calls pump.
LEMMA PumpKeeps ==
    ASSUME ControlPlaneConstants, PlaneInv, Returned,
           NEW q \in Seq(Jobs), Distinct(q), NEW r, r \subseteq reserved,
           NEW chain \in BOOLEAN, Pump(q, r, entry, chain),
           pump.at = "dispatch" /\ Status(pump.job) = "queued" => pump.job \in r,
           WaitsIn(q), SlotsIn(r)
    PROVE  SchedulerTypes' /\ Agreement'
  <1>1. CASE Pumping
    BY <1>1, BusyKeeps DEF Pump
  <1>2. CASE ~Pumping
    <2>1. Loop(q, r, entry, chain) /\ pump.at = "idle"
      BY <1>2 DEF Pump, Pumping
    <2>2. \A t \in tasks' : t.by # "pump"
      BY <2>1 DEF PlaneInv, PumpAwaits, Returned
    <2> QED BY <2>1, <2>2, LoopKeeps
  <1> QED BY <1>1, <1>2

-----------------------------------------------------------------------------
\* The endings of the other jobs, when the method t returns.
LEMMA OthersEnd ==
    ASSUME NEW t, tasks' = tasks \ {t}, NEW j, Ending(j), t.job # j \/ t.kind \notin {"settle", "interrupt"}
    PROVE  Ending(j)'
  BY DEF Ending

\* enqueue: the new job is put somewhere into the queue, once.
LEMMA EnqueuedFacts ==
    ASSUME NEW j \in Jobs, queue \in Seq(Jobs), Distinct(queue), NEW q \in Enqueued(j)
    PROVE  /\ q \in Seq(Jobs) /\ Distinct(q)
           /\ Queued(queue) \subseteq Queued(q)
           /\ j \in Queued(q) \/ j \in reserved
  <1>1. CASE j \in Queued(queue) \cup reserved
    BY <1>1 DEF Enqueued
  <1>2. CASE j \notin Queued(queue) \cup reserved
    <2>1. PICK n \in 0..Len(queue) :
              q = SubSeq(queue, 1, n) \o <<j>> \o SubSeq(queue, n + 1, Len(queue))
      BY <1>2 DEF Enqueued
    <2> DEFINE L == Len(queue)
    <2>2. L \in Nat /\ n \in Nat /\ n <= L /\ DOMAIN queue = 1..L /\ \A i \in 1..L : queue[i] \in Jobs
      BY <2>1
    <2> DEFINE a == SubSeq(queue, 1, n)
               b == SubSeq(queue, n + 1, L)
    <2>3. a \in Seq(Jobs) /\ Len(a) = n /\ \A i \in 1..n : a[i] = queue[i]
      <3>1. \A i \in 1..n : queue[i] \in Jobs
        BY <2>2
      <3>2. /\ SubSeq(queue, 1, n) \in Seq(Jobs)
            /\ Len(SubSeq(queue, 1, n)) = IF 1 <= n THEN n - 1 + 1 ELSE 0
            /\ \A i \in 1..n - 1 + 1 : SubSeq(queue, 1, n)[i] = queue[1 + i - 1]
        BY <2>2, <3>1, SubSeqProperties
      <3> QED BY <2>2, <3>2
    <2>4. b \in Seq(Jobs) /\ Len(b) = L - n /\ \A i \in 1..L - n : b[i] = queue[n + i]
      <3>1. \A i \in n + 1..L : queue[i] \in Jobs
        BY <2>2
      <3>2. /\ SubSeq(queue, n + 1, L) \in Seq(Jobs)
            /\ Len(SubSeq(queue, n + 1, L)) = IF n + 1 <= L THEN L - (n + 1) + 1 ELSE 0
            /\ \A i \in 1..L - (n + 1) + 1 : SubSeq(queue, n + 1, L)[i] = queue[n + 1 + i - 1]
        BY <2>2, <3>1, SubSeqProperties
      <3> HIDE DEF b, L
      <3>3. (L - (n + 1)) + 1 = L - n /\ (n + 1 <= L \/ L - n = 0)
        BY <2>2
      <3>4. \A i \in 1..L - n : ((n + 1) + i) - 1 = n + i
        BY <2>2
      <3>5. b \in Seq(Jobs) /\ Len(b) = IF n + 1 <= L THEN (L - (n + 1)) + 1 ELSE 0
        BY <3>2 DEF b
      <3>6. \A i \in 1..(L - (n + 1)) + 1 : b[i] = queue[((n + 1) + i) - 1]
        BY <3>2 DEF b
      <3>7. \A i \in 1..L - n : b[i] = queue[n + i]
        BY ONLY <3>3, <3>4, <3>6
      <3>8. Len(b) = L - n
        BY ONLY <2>2, <3>3, <3>5
      <3> QED BY <3>5, <3>7, <3>8
    <2> HIDE DEF a, b, L
    <2> DEFINE c == a \o <<j>>
    <2>5. c \in Seq(Jobs) /\ Len(c) = n + 1 /\ c[n + 1] = j /\ \A i \in 1..n : c[i] = queue[i]
      <3>1. <<j>> \in Seq(Jobs) /\ Len(<<j>>) = 1 /\ <<j>>[1] = j
        OBVIOUS
      <3>2. /\ a \o <<j>> \in Seq(Jobs)
            /\ Len(a \o <<j>>) = n + 1
            /\ \A i \in 1..n + 1 : (a \o <<j>>)[i] = IF i <= n THEN a[i] ELSE <<j>>[i - n]
        BY <2>3, <3>1, ConcatProperties
      <3> QED BY <2>2, <2>3, <3>1, <3>2
    <2> HIDE DEF c
    <2>6. /\ q \in Seq(Jobs) /\ Len(q) = L + 1
          /\ \A i \in 1..n : q[i] = queue[i]
          /\ q[n + 1] = j
          /\ \A i \in n + 2..L + 1 : q[i] = queue[i - 1]
      <3>1. q = c \o b
        BY <2>1 DEF a, b, c, L
      <3>2. /\ c \o b \in Seq(Jobs) /\ Len(c \o b) = n + 1 + (L - n)
            /\ \A i \in 1..n + 1 + (L - n) : (c \o b)[i] = IF i <= n + 1 THEN c[i] ELSE b[i - (n + 1)]
        <4>1. /\ c \o b \in Seq(Jobs) /\ Len(c \o b) = Len(c) + Len(b)
              /\ \A i \in 1..Len(c) + Len(b) : (c \o b)[i] = IF i <= Len(c) THEN c[i] ELSE b[i - Len(c)]
          BY <2>4, <2>5, ConcatProperties
        <4> QED BY ONLY <2>4, <2>5, <4>1
      <3>3. n + 1 + (L - n) = L + 1
        BY <2>2
      <3>4. \A i \in n + 2..L + 1 : i - (n + 1) \in 1..L - n /\ n + (i - (n + 1)) = i - 1 /\ i \in 1..L + 1 /\ ~(i <= n + 1)
        BY <2>2
      <3>5. \A i \in 1..n + 1 : i \in 1..L + 1
        BY <2>2
      <3>6. \A i \in n + 2..L + 1 : q[i] = queue[i - 1]
        BY <2>4, <3>1, <3>2, <3>3, <3>4
      <3>7. \A i \in 1..n + 1 : q[i] = c[i]
        BY <2>2, <3>1, <3>2, <3>3, <3>5
      <3> QED BY <2>2, <2>5, <3>1, <3>2, <3>3, <3>6, <3>7
    <2>7. DOMAIN q = 1..L + 1
      BY <2>2, <2>6
    <2>8. \A i \in 1..L : queue[i] # j
      BY <1>2, <2>2 DEF Queued
    <2>9. Distinct(q)
      <3>1. SUFFICES ASSUME NEW x \in 1..L + 1, NEW y \in 1..L + 1, q[x] = q[y]
            PROVE  x = y
        BY <2>7 DEF Distinct
      <3> DEFINE Place(z, i) == IF i <= n THEN z = i ELSE z = i - 1
      <3>2. \A i \in 1..L + 1 : i = n + 1 \/ (i <= n /\ i \in 1..L /\ q[i] = queue[i])
                                 \/ (i > n + 1 /\ i - 1 \in 1..L /\ q[i] = queue[i - 1])
        BY <2>2, <2>6
      <3>3. \A m, k \in 1..L : queue[m] = queue[k] => m = k
        BY <2>2 DEF Distinct
      <3>4. CASE x = n + 1 \/ y = n + 1
        BY <2>2, <2>6, <2>8, <3>1, <3>2, <3>4
      <3>5. CASE x # n + 1 /\ y # n + 1
        BY <2>2, <3>1, <3>2, <3>3, <3>5
      <3> QED BY <3>4, <3>5
    <2>10. Queued(queue) \subseteq Queued(q)
      <3>1. SUFFICES ASSUME NEW i \in 1..L
            PROVE  \E k \in 1..L + 1 : q[k] = queue[i]
        BY <2>2, <2>7 DEF Queued
      <3>2. CASE i <= n
        BY <2>2, <2>6, <3>2
      <3>3. CASE i > n
        <4>1. i + 1 \in n + 2..L + 1 /\ i + 1 \in 1..L + 1 /\ (i + 1) - 1 = i
          BY <2>2, <3>3
        <4> QED BY <2>6, <4>1
      <3> QED BY <2>2, <3>2, <3>3
    <2>11. j \in Queued(q)
      BY <2>2, <2>6, <2>7 DEF Queued
    <2> QED BY <2>6, <2>9, <2>10, <2>11
  <1> QED BY <1>1, <1>2

-----------------------------------------------------------------------------
\* One lemma for each action.
LEMMA ResumeInv ==
    ASSUME ControlPlaneConstants, PlaneInv, NEW t \in tasks, Resume(t)
    PROVE  PlaneInv'
  <1>1. PlaneTypes /\ JobTypes /\ SchedulerTypes /\ Absences /\ Endings /\ PumpAwaits /\ AdmissionMatchesJobs
    BY DEF PlaneInv, PlaneTypes
  <1>2. /\ tasks' = tasks \ {t} /\ entry' = entry /\ damaged' = damaged /\ setup' = setup
        /\ disk' = disk /\ reports' = reports /\ draining' = draining
    BY DEF Resume
  <1>3. Returned
    BY <1>2 DEF Returned
  <1>4. /\ t.job \in Jobs /\ t.usage \in {"known", "unknown"}
        /\ t.kind \in {"create", "settle", "interrupt", "mark", "acknowledge"}
    BY <1>1 DEF JobTypes, Tasks
  <1>5. /\ queue \in Seq(Jobs) /\ Distinct(queue) /\ pump.chain \in BOOLEAN
        /\ pump.at \in {"idle", "dispatch", "task"} /\ NoJob \notin Jobs
    BY <1>1 DEF SchedulerTypes, Pumps, ControlPlaneConstants
  <1>6. pump.at = "dispatch" /\ Status(pump.job) = "queued" => pump.job \in reserved
    BY <1>1 DEF PumpAwaits
  <1>7. \A j : t.kind # "create" /\ Created(j) => Created(j)'
    BY <1>2 DEF Created
  <1>8. JobTypes'
    <2>1. CASE CreateReturns(t)
      <3>1. during' \subseteq Jobs \X Jobs /\ admitted' = admitted /\ charged' = charged
        BY <1>1, <2>1 DEF CreateReturns, JobTypes, ledger
      <3> QED BY <1>1, <1>2, <3>1 DEF JobTypes
    <2>2. CASE EndReturns(t)
      <3>1. during' = during /\ admitted' = admitted
        BY <2>2 DEF EndReturns
      <3>2. charged' \in [Jobs -> Debits]
        BY <1>1, <1>4, <2>2 DEF EndReturns, Debited, JobTypes, Debits
      <3> QED BY <1>1, <1>2, <3>1, <3>2 DEF JobTypes
    <2>3. CASE MarkReturns(t) \/ AcknowledgeReturns(t)
      <3>1. during' = during /\ admitted' = admitted /\ charged' = charged
        BY <2>3 DEF MarkReturns, AcknowledgeReturns, ledger
      <3> QED BY <1>1, <1>2, <3>1 DEF JobTypes
    <2> QED BY <2>1, <2>2, <2>3 DEF Resume
  <1>9. t.kind \notin {"settle", "interrupt"} => SlotsIn(reserved)
    BY <1>1, <1>2, OthersEnd DEF SlotsIn, AdmissionMatchesJobs
  <1>10. t.kind # "create" => WaitsIn(queue)
    BY <1>1, <1>7 DEF WaitsIn, AdmissionMatchesJobs, Created
  <1>11. t.by = "pump" => pump.at = "task" /\ \A u \in tasks' : u.by # "pump"
    BY <1>1, <1>2 DEF PumpAwaits
  <1>12. CASE CreateReturns(t)
    <2>1. t.kind = "create"
      BY <1>12 DEF CreateReturns
    <2>2. PICK q \in Enqueued(t.job) : Pump(q, reserved, entry, FALSE)
      BY <1>12 DEF CreateReturns
    <2>3. /\ q \in Seq(Jobs) /\ Distinct(q) /\ Queued(queue) \subseteq Queued(q)
          /\ t.job \in Queued(q) \/ t.job \in reserved
      BY <1>4, <1>5, EnqueuedFacts
    <2>4. ASSUME NEW j \in Jobs \ damaged, Status(j) = "queued"
          PROVE  j \in Queued(q) \/ (pump.job = j /\ pump.at = "dispatch") \/ Created(j)'
      <3>1. j \in Queued(queue) \/ (pump.job = j /\ pump.at = "dispatch") \/ Created(j)
        BY <1>1, <2>4 DEF AdmissionMatchesJobs, Created
      <3>2. CASE Created(j) /\ ~Created(j)'
        <4>1. t.job = j
          BY <1>2, <3>2 DEF Created
        <4>2. ~Ending(j)
          BY <1>1, <2>4 DEF Endings, Ending
        <4>3. CASE j \in reserved
          <5>1. pump.job = j
            BY <1>1, <2>4, <4>2, <4>3 DEF AdmissionMatchesJobs
          <5>2. pump.at # "idle" /\ pump.at # "task"
            BY <1>1, <1>5, <2>4, <5>1 DEF PumpAwaits
          <5> QED BY <1>5, <5>1, <5>2
        <4> QED BY <2>3, <4>1, <4>3
      <3> QED BY <2>3, <3>1, <3>2
    <2>5. WaitsIn(q)
      BY <2>4 DEF WaitsIn
    <2>6. SchedulerTypes' /\ Agreement'
      BY <1>3, <1>6, <1>9, <2>1, <2>2, <2>3, <2>5, PumpKeeps
    <2> QED BY <1>8, <2>6 DEF PlaneInv, PlaneTypes, Agreement
  <1>13. CASE EndReturns(t)
    <2> DEFINE q == Without(queue, {t.job})
               r == reserved \ {t.job}
    <2>1. t.kind \in {"settle", "interrupt"} /\ ReleaseSlot(t)
      BY <1>13 DEF EndReturns
    <2>2. Status(t.job) \in {"settled", "interrupted"}
      BY <1>1, <2>1 DEF Endings
    <2>3. q \in Seq(Jobs) /\ Queued(q) = Queued(queue) \ {t.job} /\ Distinct(q)
      BY <1>5, WithoutFacts
    <2>4. IF t.by = "pump" THEN Loop(q, r, entry, pump.chain) ELSE Pump(q, r, entry, t.by = "chain")
      BY <2>1 DEF ReleaseSlot
    <2> HIDE DEF q
    <2>5. WaitsIn(q)
      BY <1>1, <1>7, <2>1, <2>2, <2>3 DEF WaitsIn, AdmissionMatchesJobs, Created
    <2>6. SlotsIn(r)
      <3>1. ASSUME NEW j \in Jobs \ damaged
            PROVE  /\ Status(j) = "dispatched" => j \in r
                   /\ j \in r => Status(j) = "dispatched" \/ (Status(j) = "queued" /\ pump.job = j) \/ Ending(j)'
        <4>1. j # t.job /\ Ending(j) => Ending(j)'
          BY <1>2, OthersEnd
        <4> QED BY <1>1, <2>2, <4>1 DEF AdmissionMatchesJobs
      <3> QED BY <3>1 DEF SlotsIn
    <2>7. pump.at = "dispatch" /\ Status(pump.job) = "queued" => pump.job \in r
      BY <1>6, <2>2
    <2>8. r \subseteq reserved
      OBVIOUS
    <2> HIDE DEF r
    <2>9. CASE t.by = "pump"
      <3>1. Loop(q, r, entry, pump.chain) /\ pump.at # "dispatch"
        BY <1>11, <2>4, <2>9
      <3>2. SchedulerTypes' /\ Agreement'
        BY <1>3, <1>5, <1>11, <2>3, <2>5, <2>6, <2>8, <2>9, <3>1, LoopKeeps
      <3> QED BY <1>8, <3>2 DEF PlaneInv, PlaneTypes, Agreement
    <2>10. CASE t.by # "pump"
      <3>1. Pump(q, r, entry, t.by = "chain") /\ (t.by = "chain") \in BOOLEAN
        BY <2>4, <2>10
      <3>2. SchedulerTypes' /\ Agreement'
        BY <1>3, <2>3, <2>5, <2>6, <2>7, <2>8, <3>1, PumpKeeps
      <3> QED BY <1>8, <3>2 DEF PlaneInv, PlaneTypes, Agreement
    <2> QED BY <2>9, <2>10
  <1>14. CASE MarkReturns(t)
    <2>1. t.kind = "mark" /\ Loop(queue, reserved, entry, pump.chain)
      BY <1>14 DEF MarkReturns
    <2>2. t.by = "pump"
      BY <1>1, <2>1 DEF PumpAwaits
    <2>3. SchedulerTypes' /\ Agreement'
      BY <1>3, <1>5, <1>9, <1>10, <1>11, <2>1, <2>2, LoopKeeps
    <2> QED BY <1>8, <2>3 DEF PlaneInv, PlaneTypes, Agreement
  <1>15. CASE AcknowledgeReturns(t)
    <2>1. t.kind = "acknowledge" /\ queue' = queue /\ reserved' = reserved /\ UNCHANGED <<pump, stalled, proc>>
      BY <1>15 DEF AcknowledgeReturns, scheduler
    <2>2. SchedulerTypes' /\ Agreement'
      BY <1>3, <1>5, <1>6, <1>9, <1>10, <2>1, BusyKeeps
    <2> QED BY <1>8, <2>2 DEF PlaneInv, PlaneTypes, Agreement
  <1> QED BY <1>12, <1>13, <1>14, <1>15 DEF Resume

\* A job ends, and the method that ends it waits for its write.
EndsJob(j, record, kind, by, usage) ==
    /\ entry' = [entry EXCEPT ![j] = record]
    /\ tasks' = tasks \cup {Task(kind, j, by, record, usage)}

LEMMA EndsJobKeeps ==
    ASSUME ControlPlaneConstants, PlaneInv, NEW j \in Jobs, NEW record \in Lifecycles,
           NEW kind \in {"settle", "interrupt"}, NEW by \in {"call", "chain", "pump", "drain"},
           NEW usage \in {"known", "unknown"},
           EndsJob(j, record, kind, by, usage), record.status \in {"settled", "interrupted"},
           Status(j) # "absent",
           UNCHANGED <<setup, queue, reserved, stalled, damaged>>, proc' \in [Jobs -> PlaneRuns],
           \/ by # "pump" /\ pump' = pump
           \/ by = "pump" /\ pump.at = "dispatch" /\ pump.job = j /\ pump' = [pump EXCEPT !.at = "task"]
    PROVE  /\ entry' \in [Jobs -> Lifecycles] /\ tasks' \subseteq Tasks
           /\ SchedulerTypes' /\ Agreement'
  <1>1. PlaneTypes /\ JobTypes /\ SchedulerTypes /\ Absences /\ Endings /\ PumpAwaits /\ AdmissionMatchesJobs
    BY DEF PlaneInv, PlaneTypes
  <1>2. entry' = [entry EXCEPT ![j] = record] /\ entry \in [Jobs -> Lifecycles]
    BY <1>1 DEF EndsJob, JobTypes
  <1> DEFINE new == Task(kind, j, by, record, usage)
  <1>3. /\ tasks' = tasks \cup {new} /\ new \in Tasks
        /\ new.job = j /\ new.kind = kind /\ new.by = by
    BY DEF EndsJob, Task, Tasks
  <1> HIDE DEF new
  <1>4. entry' \in [Jobs -> Lifecycles] /\ tasks' \subseteq Tasks
    BY <1>1, <1>2, <1>3 DEF JobTypes
  <1>5. Status(j)' \in {"settled", "interrupted"} /\ \A k \in Jobs : k # j => Status(k)' = Status(k)
    BY <1>2 DEF Status
  <1>6. pump \in Pumps /\ \A t \in tasks : t.job \in Jobs /\ t.kind \in {"create", "settle", "interrupt", "mark", "acknowledge"}
    BY <1>1 DEF SchedulerTypes, JobTypes, Tasks
  <1>7. /\ pump' \in Pumps /\ pump'.job = pump.job /\ pump'.chain = pump.chain
        /\ pump.job \in Jobs \cup {NoJob} /\ NoJob \notin Jobs
        /\ \/ by # "pump" /\ pump'.at = pump.at
           \/ by = "pump" /\ pump.at = "dispatch" /\ pump.job = j /\ pump'.at = "task"
    BY <1>6 DEF Pumps, ControlPlaneConstants
  <1>8. SchedulerTypes'
    BY <1>1, <1>7 DEF SchedulerTypes
  <1>9. Absences'
    BY <1>1, <1>5, <1>7 DEF Absences
  <1>10. Endings'
    BY <1>1, <1>3, <1>5, <1>6 DEF Endings
  <1>11. PumpAwaits'
    <2>1. pump'.at = "idle" <=> pump'.job = NoJob
      BY <1>1, <1>7 DEF PumpAwaits
    <2>2. pump'.at = "task" => Status(pump.job)' # "queued"
      BY <1>1, <1>5, <1>7, <2>1 DEF PumpAwaits
    <2>3. pump'.at = "dispatch" /\ Status(pump.job)' = "queued" => pump.job \in reserved'
      BY <1>1, <1>5, <1>7, <2>1 DEF PumpAwaits
    <2>4. \A t \in tasks' : t.by = "pump" => pump'.at = "task" /\ t.job = pump'.job
      BY <1>1, <1>3, <1>7 DEF PumpAwaits
    <2>5. \A t \in tasks' : t.kind = "mark" => t.by = "pump"
      BY <1>1, <1>3 DEF PumpAwaits
    <2>6. \A t, u \in tasks' : t.by = "pump" /\ u.by = "pump" => t = u
      BY <1>1, <1>3, <1>7 DEF PumpAwaits
    <2> QED BY <1>7, <2>1, <2>2, <2>3, <2>4, <2>5, <2>6 DEF PumpAwaits
  <1>12. AdmissionMatchesJobs'
    <2>1. Ending(j)' /\ \A k : Ending(k) => Ending(k)'
      BY <1>3 DEF Ending
    <2>2. \A k : Created(k) => Created(k)'
      BY <1>3 DEF Created
    <2>3. ASSUME NEW k \in Jobs \ damaged
          PROVE  /\ Status(k)' = "queued" =>
                       k \in Queued(queue) \/ (pump.job = k /\ pump'.at = "dispatch") \/ Created(k)'
                 /\ Status(k)' = "dispatched" => k \in reserved
                 /\ k \in reserved =>
                       Status(k)' = "dispatched" \/ (Status(k)' = "queued" /\ pump.job = k) \/ Ending(k)'
      <3>1. CASE k = j
        BY <1>5, <2>1, <3>1
      <3>2. CASE k # j
        <4>1. Status(k)' = Status(k)
          BY <1>5, <3>2
        <4>2. pump.job = k /\ pump.at = "dispatch" => pump'.at = "dispatch"
          BY <1>7, <3>2
        <4> QED BY <1>1, <2>1, <2>2, <4>1, <4>2 DEF AdmissionMatchesJobs, Created
      <3> QED BY <3>1, <3>2
    <2> QED BY <1>7, <2>3 DEF AdmissionMatchesJobs, Created
  <1> QED BY <1>4, <1>8, <1>9, <1>10, <1>11, <1>12 DEF Agreement

LEMMA SettleKeeps ==
    ASSUME ControlPlaneConstants, PlaneInv, NEW j \in Jobs,
           NEW outcome \in {"completed", "failed", "cancelled"}, NEW usage \in {"known", "unknown"},
           NEW by \in {"call", "chain", "pump", "drain"},
           Settle(j, outcome, usage, by), Status(j) # "absent",
           UNCHANGED <<setup, queue, reserved, stalled, damaged>>, proc' \in [Jobs -> PlaneRuns],
           \/ by # "pump" /\ pump' = pump
           \/ by = "pump" /\ pump.at = "dispatch" /\ pump.job = j /\ pump' = [pump EXCEPT !.at = "task"]
    PROVE  /\ entry' \in [Jobs -> Lifecycles] /\ tasks' \subseteq Tasks
           /\ SchedulerTypes' /\ Agreement'
  <1> DEFINE record == [status |-> "settled", outcome |-> outcome,
                        reportBack |-> IF Parent(j) = NoJob THEN entry[j].reportBack ELSE "pending"]
  <1>1. entry[j] \in Lifecycles
    BY DEF PlaneInv, PlaneTypes, JobTypes
  <1>2. record \in Lifecycles /\ record.status = "settled"
    BY <1>1 DEF Lifecycles
  <1>3. EndsJob(j, record, "settle", by, usage)
    BY DEF Settle, EndsJob
  <1> HIDE DEF record
  <1> QED BY <1>2, <1>3, EndsJobKeeps

LEMMA InterruptKeeps ==
    ASSUME ControlPlaneConstants, PlaneInv, NEW j \in Jobs, NEW by \in {"call", "chain"},
           Interrupt(j, by), Status(j) # "absent",
           UNCHANGED <<setup, queue, reserved, stalled, damaged, proc, pump>>
    PROVE  /\ entry' \in [Jobs -> Lifecycles] /\ tasks' \subseteq Tasks
           /\ SchedulerTypes' /\ Agreement'
  <1> DEFINE record == [entry[j] EXCEPT !.status = "interrupted"]
  <1>1. entry[j] \in Lifecycles /\ proc \in [Jobs -> PlaneRuns]
    BY DEF PlaneInv, PlaneTypes, JobTypes, SchedulerTypes
  <1>2. record \in Lifecycles /\ record.status = "interrupted"
    BY <1>1 DEF Lifecycles
  <1>3. EndsJob(j, record, "interrupt", by, "unknown")
    BY DEF Interrupt, EndsJob
  <1> HIDE DEF record
  <1>4. by \in {"call", "chain", "pump", "drain"} /\ by # "pump"
    OBVIOUS
  <1> QED BY <1>1, <1>2, <1>3, <1>4, EndsJobKeeps

\* Steps that the jobs and the scheduler do not notice.
LEMMA StillKeeps ==
    ASSUME PlaneInv, proc' \in [Jobs -> PlaneRuns],
           UNCHANGED <<setup, entry, tasks, queue, reserved, pump, stalled, damaged>>
    PROVE  SchedulerTypes' /\ Agreement'
  <1>1. PlaneTypes /\ SchedulerTypes /\ Absences /\ Endings /\ PumpAwaits /\ AdmissionMatchesJobs
    BY DEF PlaneInv, PlaneTypes
  <1>2. SchedulerTypes'
    BY <1>1 DEF SchedulerTypes
  <1>3. Absences' /\ Endings' /\ PumpAwaits'
    BY <1>1 DEF Absences, Endings, PumpAwaits, Status
  <1>4. AdmissionMatchesJobs'
    BY <1>1 DEF AdmissionMatchesJobs, Status, Ending
  <1> QED BY <1>2, <1>3, <1>4 DEF Agreement

\* What a report is.
LEMMA ReportFacts ==
    ASSUME ControlPlaneConstants, JobTypes, NEW report \in Reports(setup)
    PROVE  /\ report.job \in Jobs
           /\ report.result[1] \in {"completed", "failed", "interrupted"}
           /\ report.result[2] \in {"known", "unknown"}
  <1>1. setup.results \subseteq {"completed", "failed", "interrupted"} \X {"known", "unknown"}
    BY DEF ControlPlaneConstants, JobTypes, SetupOK
  <1>2. report.job \in Jobs /\ report.result \in setup.results
    BY DEF Reports
  <1> QED BY <1>1, <1>2

LEMMA IngestKeeps ==
    ASSUME ControlPlaneConstants, PlaneInv, NEW report \in Reports(setup), NEW by \in {"call", "chain"},
           Ingest(report, by),
           UNCHANGED <<setup, queue, reserved, stalled, damaged, proc, pump>>
    PROVE  /\ entry' \in [Jobs -> Lifecycles] /\ tasks' \subseteq Tasks
           /\ SchedulerTypes' /\ Agreement'
  <1>1. /\ JobTypes /\ entry \in [Jobs -> Lifecycles] /\ tasks \subseteq Tasks
        /\ proc \in [Jobs -> PlaneRuns]
    BY DEF PlaneInv, PlaneTypes, JobTypes, SchedulerTypes
  <1> DEFINE j == report.job
  <1>2. /\ j \in Jobs /\ report.result[1] \in {"completed", "failed", "interrupted"}
        /\ report.result[2] \in {"known", "unknown"}
    BY <1>1, ReportFacts
  <1>3. CASE Over(j)
    <2>1. UNCHANGED <<entry, tasks>>
      BY <1>3 DEF Ingest
    <2> QED BY <1>1, <2>1, StillKeeps
  <1>4. CASE ~Over(j) /\ report.result[1] = "interrupted"
    <2>1. Interrupt(j, by) /\ Status(j) # "absent"
      BY <1>4 DEF Ingest, Over
    <2> HIDE DEF j
    <2> QED BY <1>2, <2>1, InterruptKeeps
  <1>5. CASE ~Over(j) /\ report.result[1] # "interrupted"
    <2> DEFINE outcome == report.result[1]
               usage == report.result[2]
    <2>1. Settle(j, outcome, usage, by) /\ Status(j) # "absent"
      BY <1>5 DEF Ingest, Over
    <2>2. outcome \in {"completed", "failed", "cancelled"} /\ usage \in {"known", "unknown"}
      BY <1>2, <1>5
    <2>3. by \in {"call", "chain", "pump", "drain"} /\ by # "pump"
      OBVIOUS
    <2> HIDE DEF j, outcome, usage
    <2> QED BY <1>1, <1>2, <2>1, <2>2, <2>3, SettleKeeps
  <1> QED BY <1>3, <1>4, <1>5

LEMMA IngestNextInv ==
    ASSUME ControlPlaneConstants, PlaneInv, IngestNext
    PROVE  PlaneInv'
  <1>1. PlaneTypes /\ JobTypes
    BY DEF PlaneInv, PlaneTypes
  <1>2. reports \in Seq(Reports(setup)) /\ reports # <<>>
    BY <1>1 DEF IngestNext, JobTypes
  <1>3. Head(reports) \in Reports(setup) /\ Tail(reports) \in Seq(Reports(setup))
    BY <1>2, HeadTailProperties
  <1>4. /\ Ingest(Head(reports), "chain") /\ reports' = Tail(reports)
        /\ UNCHANGED <<setup, queue, reserved, stalled, damaged, proc, pump>>
        /\ UNCHANGED <<during, disk, admitted, charged, draining>>
    BY DEF IngestNext, scheduler, ledger
  <1>5. /\ entry' \in [Jobs -> Lifecycles] /\ tasks' \subseteq Tasks
        /\ SchedulerTypes' /\ Agreement'
    BY <1>3, <1>4, IngestKeeps
  <1>6. Reports(setup)' = Reports(setup)
    BY <1>4 DEF Reports
  <1>7. JobTypes'
    BY <1>1, <1>3, <1>4, <1>5, <1>6 DEF JobTypes
  <1> QED BY <1>5, <1>7 DEF PlaneInv, PlaneTypes, Agreement

LEMMA IngestCallInv ==
    ASSUME ControlPlaneConstants, PlaneInv, NEW j \in Jobs, NEW result \in setup.results, IngestCall(j, result)
    PROVE  PlaneInv'
  <1>1. PlaneTypes /\ JobTypes
    BY DEF PlaneInv, PlaneTypes
  <1> DEFINE report == [job |-> j, result |-> result]
  <1>2. report \in Reports(setup)
    BY DEF Reports
  <1>3. /\ Ingest(report, "call")
        /\ UNCHANGED <<setup, queue, reserved, stalled, damaged, proc, pump>>
        /\ UNCHANGED <<during, disk, admitted, charged, draining, reports>>
    BY DEF IngestCall, scheduler, ledger
  <1> HIDE DEF report
  <1>4. /\ entry' \in [Jobs -> Lifecycles] /\ tasks' \subseteq Tasks
        /\ SchedulerTypes' /\ Agreement'
    BY <1>2, <1>3, IngestKeeps
  <1>5. Reports(setup)' = Reports(setup)
    BY <1>3 DEF Reports
  <1>6. JobTypes'
    BY <1>1, <1>3, <1>4, <1>5 DEF JobTypes
  <1> QED BY <1>4, <1>6 DEF PlaneInv, PlaneTypes, Agreement

LEMMA CancelKeeps ==
    ASSUME ControlPlaneConstants, PlaneInv, NEW j \in Jobs, NEW by \in {"call", "drain"},
           CancelSteps(j, by), ~Over(j),
           UNCHANGED <<setup, queue, reserved, stalled, damaged, pump>>
    PROVE  /\ entry' \in [Jobs -> Lifecycles] /\ tasks' \subseteq Tasks
           /\ SchedulerTypes' /\ Agreement'
  <1>1. /\ entry \in [Jobs -> Lifecycles] /\ tasks \subseteq Tasks
        /\ proc \in [Jobs -> PlaneRuns] /\ Status(j) # "absent"
    BY DEF PlaneInv, PlaneTypes, JobTypes, SchedulerTypes, Over
  <1>2. proc' \in [Jobs -> PlaneRuns]
    BY <1>1 DEF CancelSteps, PlaneRuns
  <1>3. CASE Settle(j, "cancelled", "unknown", by)
    <2>1. by \in {"call", "chain", "pump", "drain"} /\ by # "pump"
      OBVIOUS
    <2> QED BY <1>1, <1>2, <1>3, <2>1, SettleKeeps
  <1>4. CASE UNCHANGED <<entry, tasks>>
    BY <1>1, <1>2, <1>4, StillKeeps
  <1> QED BY <1>3, <1>4 DEF CancelSteps

LEMMA PlaneCancelInv ==
    ASSUME ControlPlaneConstants, PlaneInv, NEW j \in Jobs, Cancel(j)
    PROVE  PlaneInv'
  <1>1. PlaneTypes /\ JobTypes
    BY DEF PlaneInv, PlaneTypes
  <1>2. /\ CancelSteps(j, "call") /\ ~Over(j)
        /\ UNCHANGED <<setup, queue, reserved, stalled, damaged, pump>>
        /\ UNCHANGED <<during, disk, admitted, charged, draining, reports>>
    BY DEF Cancel, ledger
  <1>3. /\ entry' \in [Jobs -> Lifecycles] /\ tasks' \subseteq Tasks
        /\ SchedulerTypes' /\ Agreement'
    BY <1>2, CancelKeeps
  <1>4. Reports(setup)' = Reports(setup)
    BY <1>2 DEF Reports
  <1>5. JobTypes'
    BY <1>1, <1>2, <1>3, <1>4 DEF JobTypes
  <1> QED BY <1>3, <1>5 DEF PlaneInv, PlaneTypes, Agreement

LEMMA DrainInv ==
    ASSUME ControlPlaneConstants, PlaneInv, NEW j \in Jobs, Drain(j)
    PROVE  PlaneInv'
  <1>1. PlaneTypes /\ JobTypes
    BY DEF PlaneInv, PlaneTypes
  <1>2. /\ UNCHANGED <<setup, queue, reserved, stalled, damaged, pump>>
        /\ UNCHANGED <<during, disk, admitted, charged, reports>>
        /\ draining' = [draining EXCEPT !.left = @ \ {j}]
    BY DEF Drain, ledger
  <1>3. /\ entry' \in [Jobs -> Lifecycles] /\ tasks' \subseteq Tasks
        /\ SchedulerTypes' /\ Agreement'
    <2>1. CASE Over(j)
      <3>1. UNCHANGED <<entry, tasks, proc>>
        BY <2>1 DEF Drain
      <3>2. /\ entry \in [Jobs -> Lifecycles] /\ tasks \subseteq Tasks /\ proc \in [Jobs -> PlaneRuns]
        BY <1>1 DEF PlaneTypes, JobTypes, SchedulerTypes
      <3> QED BY <1>2, <3>1, <3>2, StillKeeps
    <2>2. CASE ~Over(j)
      <3>1. CancelSteps(j, "drain")
        BY <2>2 DEF Drain
      <3> QED BY <1>2, <2>2, <3>1, CancelKeeps
    <2> QED BY <2>1, <2>2
  <1>4. Reports(setup)' = Reports(setup)
    BY <1>2 DEF Reports
  <1>5. draining' \in [serving : BOOLEAN, left : SUBSET Jobs]
    BY <1>1, <1>2 DEF JobTypes
  <1>6. JobTypes'
    BY <1>1, <1>2, <1>3, <1>4, <1>5 DEF JobTypes
  <1> QED BY <1>3, <1>6 DEF PlaneInv, PlaneTypes, Agreement

LEMMA DispatchRejectedInv ==
    ASSUME ControlPlaneConstants, PlaneInv, DispatchRejected
    PROVE  PlaneInv'
  <1>1. PlaneTypes /\ JobTypes /\ SchedulerTypes /\ PumpAwaits /\ Absences
    BY DEF PlaneInv, PlaneTypes
  <1> DEFINE j == pump.job
  <1>2. /\ pump.at = "dispatch" /\ proc' = [proc EXCEPT ![j] = "rejected"]
        /\ Settle(j, "failed", "unknown", "pump") /\ pump' = [pump EXCEPT !.at = "task"]
        /\ UNCHANGED <<setup, queue, reserved, stalled, damaged>>
        /\ UNCHANGED <<during, disk, admitted, charged, draining, reports>>
    BY DEF DispatchRejected, ledger
  <1>3. j \in Jobs /\ Status(j) # "absent"
    BY <1>1, <1>2 DEF SchedulerTypes, Pumps, PumpAwaits, Absences
  <1>4. proc' \in [Jobs -> PlaneRuns]
    BY <1>1, <1>2 DEF SchedulerTypes, PlaneRuns
  <1>5. pump.job = j
    OBVIOUS
  <1> HIDE DEF j
  <1>6. /\ entry' \in [Jobs -> Lifecycles] /\ tasks' \subseteq Tasks
        /\ SchedulerTypes' /\ Agreement'
    BY <1>2, <1>3, <1>4, <1>5, SettleKeeps
  <1>7. Reports(setup)' = Reports(setup)
    BY <1>2 DEF Reports
  <1>8. JobTypes'
    BY <1>1, <1>2, <1>6, <1>7 DEF JobTypes
  <1> QED BY <1>6, <1>8 DEF PlaneInv, PlaneTypes, Agreement

LEMMA DispatchAcceptedInv ==
    ASSUME ControlPlaneConstants, PlaneInv, DispatchAccepted
    PROVE  PlaneInv'
  <1>1. PlaneTypes /\ JobTypes /\ SchedulerTypes /\ PumpAwaits /\ Absences /\ Endings /\ AdmissionMatchesJobs
    BY DEF PlaneInv, PlaneTypes
  <1>0. PICK j \in Jobs \cup {NoJob} : j = pump.job
    BY <1>1 DEF SchedulerTypes, Pumps
  <1> DEFINE record == [entry[j] EXCEPT !.status = "dispatched"]
             new == Task("mark", j, "pump", record, "unknown")
  <1>2. /\ pump.at = "dispatch" /\ UNCHANGED <<setup, damaged>>
        /\ UNCHANGED <<during, disk, admitted, charged, draining, reports>>
    BY <1>0 DEF DispatchAccepted, ledger
  <1>3. /\ pump \in Pumps /\ j \in Jobs /\ entry \in [Jobs -> Lifecycles] /\ tasks \subseteq Tasks
        /\ NoJob \notin Jobs
    BY <1>0, <1>1, <1>2 DEF SchedulerTypes, JobTypes, Pumps, PumpAwaits, ControlPlaneConstants
  <1>4. Reports(setup)' = Reports(setup)
    BY <1>2 DEF Reports
  <1>5. \A t \in tasks : t.by # "pump"
    BY <1>1, <1>2 DEF PumpAwaits
  <1>6. CASE Status(j) = "queued"
    <2>1. /\ entry' = [entry EXCEPT ![j] = record] /\ tasks' = tasks \cup {new}
          /\ pump' = [pump EXCEPT !.at = "task"]
          /\ UNCHANGED <<queue, reserved, stalled, proc>>
      BY <1>0, <1>6 DEF DispatchAccepted
    <2>2. record \in Lifecycles /\ record.status = "dispatched"
      BY <1>3 DEF Lifecycles
    <2>3. new \in Tasks /\ new.job = j /\ new.by = "pump" /\ new.kind = "mark"
      BY <1>3, <2>2 DEF Task, Tasks
    <2> HIDE DEF record, new
    <2>4. entry' \in [Jobs -> Lifecycles] /\ tasks' \subseteq Tasks
      BY <1>3, <2>1, <2>2, <2>3
    <2>5. JobTypes'
      BY <1>1, <1>2, <1>4, <2>4 DEF JobTypes
    <2>6. pump' \in Pumps /\ pump'.at = "task" /\ pump'.job = j
      BY <1>0, <1>3, <2>1 DEF Pumps
    <2>7. Status(j)' = "dispatched" /\ \A k \in Jobs : k # j => Status(k)' = Status(k)
      BY <1>3, <2>1, <2>2 DEF Status
    <2>8. pump.job = j /\ j \in reserved
      BY <1>0, <1>1, <1>2, <1>6 DEF PumpAwaits
    <2>9. SchedulerTypes'
      BY <1>1, <1>2, <2>1, <2>6 DEF SchedulerTypes
    <2>10. Absences'
      BY <1>1, <2>1, <2>6, <2>7, <2>8 DEF Absences
    <2>11. Endings'
      <3>1. \A t \in tasks : t.job \in Jobs
        BY <1>3 DEF Tasks
      <3> QED BY <1>1, <1>6, <2>1, <2>3, <2>7, <3>1 DEF Endings
    <2>12. PumpAwaits'
      <3>1. \A t \in tasks' : t.kind = "mark" => t.by = "pump"
        BY <1>1, <2>1, <2>3 DEF PumpAwaits
      <3>2. \A t \in tasks' : t.by = "pump" => t = new
        BY <1>5, <2>1
      <3> QED BY <1>3, <2>3, <2>6, <2>7, <3>1, <3>2 DEF PumpAwaits
    <2>13. AdmissionMatchesJobs'
      <3>1. \A k : Ending(k) => Ending(k)'
        BY <2>1 DEF Ending
      <3>2. \A k : Created(k) => Created(k)'
        BY <2>1 DEF Created
      <3>3. ASSUME NEW k \in Jobs \ damaged
            PROVE  /\ Status(k)' = "queued" =>
                         k \in Queued(queue) \/ (j = k /\ pump'.at = "dispatch") \/ Created(k)'
                   /\ Status(k)' = "dispatched" => k \in reserved
                   /\ k \in reserved =>
                         Status(k)' = "dispatched" \/ (Status(k)' = "queued" /\ j = k) \/ Ending(k)'
        <4>1. CASE k = j
          BY <1>0, <2>7, <2>8, <4>1
        <4>2. CASE k # j
          <5>1. Status(k)' = Status(k)
            BY <2>7, <4>2
          <5> QED BY <1>1, <2>8, <3>1, <3>2, <4>2, <5>1 DEF AdmissionMatchesJobs, Created
        <4> QED BY <4>1, <4>2
      <3> QED BY <1>2, <2>1, <2>6, <3>3 DEF AdmissionMatchesJobs, Created
    <2> QED BY <2>5, <2>9, <2>10, <2>11, <2>12, <2>13 DEF PlaneInv, PlaneTypes
  <1>7. CASE Status(j) # "queued"
    <2>1. Loop(queue, reserved, entry, pump.chain) /\ UNCHANGED <<entry, tasks>>
      BY <1>0, <1>7 DEF DispatchAccepted
    <2>2. Returned
      BY <1>2, <2>1 DEF Returned
    <2>3. WaitsIn(queue) /\ SlotsIn(reserved)
      BY <1>1, <2>1 DEF WaitsIn, SlotsIn, AdmissionMatchesJobs, Created, Ending
    <2>4. queue \in Seq(Jobs) /\ Distinct(queue) /\ pump.chain \in BOOLEAN
      BY <1>1, <1>3 DEF SchedulerTypes, Pumps
    <2>5. \A t \in tasks' : t.by # "pump"
      BY <1>5, <2>1
    <2>6. SchedulerTypes' /\ Agreement'
      BY <1>0, <1>7, <2>1, <2>2, <2>3, <2>4, <2>5, LoopKeeps
    <2>7. JobTypes'
      BY <1>1, <1>2, <1>4, <2>1 DEF JobTypes
    <2> QED BY <2>6, <2>7 DEF PlaneInv, PlaneTypes, Agreement
  <1> QED BY <1>6, <1>7

LEMMA CreateInv ==
    ASSUME ControlPlaneConstants, PlaneInv, NEW j \in Jobs, Create(j)
    PROVE  PlaneInv'
  <1>1. PlaneTypes /\ JobTypes /\ SchedulerTypes /\ PumpAwaits /\ Absences /\ Endings /\ AdmissionMatchesJobs
    BY DEF PlaneInv, PlaneTypes
  <1> DEFINE record == [Absent EXCEPT !.status = "queued"]
             new == Task("create", j, "call", record, "unknown")
  <1>2. /\ entry[j] = Absent /\ entry' = [entry EXCEPT ![j] = record] /\ tasks' = tasks \cup {new}
        /\ admitted' = admitted \cup {j}
        /\ during' = during \cup {<<t.job, j>> : t \in {u \in tasks : u.kind = "create"}}
        /\ UNCHANGED <<setup, disk, queue, reserved, pump, stalled, proc, charged, reports, draining, damaged>>
    BY DEF Create, scheduler
  <1>3. record \in Lifecycles /\ record.status = "queued" /\ Status(j) = "absent"
    BY <1>2 DEF Absent, Lifecycles, Status
  <1>4. new \in Tasks /\ new.job = j /\ new.by = "call" /\ new.kind = "create"
    BY <1>3 DEF Task, Tasks
  <1> HIDE DEF record, new
  <1>5. \A t \in tasks : t.job \in Jobs
    BY <1>1 DEF JobTypes, Tasks
  <1>6. JobTypes'
    <2>1. entry' \in [Jobs -> Lifecycles] /\ tasks' \subseteq Tasks /\ during' \subseteq Jobs \X Jobs
      BY <1>1, <1>2, <1>3, <1>4, <1>5 DEF JobTypes
    <2>2. Reports(setup)' = Reports(setup)
      BY <1>2 DEF Reports
    <2> QED BY <1>1, <1>2, <2>1, <2>2 DEF JobTypes
  <1>7. Status(j)' = "queued" /\ \A k \in Jobs : k # j => Status(k)' = Status(k)
    BY <1>1, <1>2, <1>3 DEF Status, JobTypes
  <1>8. j \notin reserved /\ pump.job # j /\ NoJob \notin Jobs /\ pump \in Pumps
    BY <1>1, <1>3 DEF Absences, ControlPlaneConstants, SchedulerTypes
  <1>9. SchedulerTypes'
    BY <1>1, <1>2 DEF SchedulerTypes
  <1>10. Absences'
    BY <1>1, <1>2, <1>7 DEF Absences
  <1>11. Endings'
    BY <1>1, <1>2, <1>3, <1>4, <1>5, <1>7 DEF Endings
  <1>12. PumpAwaits'
    <2>1. pump.at # "idle" => pump.job \in Jobs /\ pump.job # j
      BY <1>1, <1>8 DEF PumpAwaits, Pumps
    <2>2. pump.at = "task" => Status(pump.job)' # "queued"
      BY <1>1, <1>2, <1>7, <2>1 DEF PumpAwaits, Status
    <2>3. pump.at = "dispatch" /\ Status(pump.job)' = "queued" => pump.job \in reserved
      BY <1>1, <1>2, <1>7, <2>1 DEF PumpAwaits, Status
    <2>4. \A t \in tasks' : t.by = "pump" => t \in tasks
      BY <1>2, <1>4
    <2>5. \A t \in tasks' : t.kind = "mark" => t \in tasks
      BY <1>2, <1>4
    <2> QED BY <1>1, <1>2, <2>2, <2>3, <2>4, <2>5 DEF PumpAwaits
  <1>13. AdmissionMatchesJobs'
    <2>1. Created(j)' /\ \A k : Created(k) => Created(k)'
      BY <1>2, <1>4 DEF Created
    <2>2. \A k : Ending(k) => Ending(k)'
      BY <1>2 DEF Ending
    <2>3. ASSUME NEW k \in Jobs \ damaged
          PROVE  /\ Status(k)' = "queued" =>
                       k \in Queued(queue) \/ (pump.job = k /\ pump.at = "dispatch") \/ Created(k)'
                 /\ Status(k)' = "dispatched" => k \in reserved
                 /\ k \in reserved =>
                       Status(k)' = "dispatched" \/ (Status(k)' = "queued" /\ pump.job = k) \/ Ending(k)'
      <3>1. CASE k = j
        BY <1>7, <1>8, <2>1, <3>1
      <3>2. CASE k # j
        <4>1. Status(k)' = Status(k)
          BY <1>7, <3>2
        <4> QED BY <1>1, <2>1, <2>2, <4>1 DEF AdmissionMatchesJobs, Created
      <3> QED BY <3>1, <3>2
    <2> QED BY <1>2, <2>3 DEF AdmissionMatchesJobs, Created
  <1> QED BY <1>6, <1>9, <1>10, <1>11, <1>12, <1>13 DEF PlaneInv, PlaneTypes

LEMMA AcknowledgeReportInv ==
    ASSUME ControlPlaneConstants, PlaneInv, NEW j \in Jobs, AcknowledgeReport(j)
    PROVE  PlaneInv'
  <1>1. PlaneTypes /\ JobTypes /\ SchedulerTypes /\ PumpAwaits /\ Absences /\ Endings /\ AdmissionMatchesJobs
    BY DEF PlaneInv, PlaneTypes
  <1> DEFINE record == [entry[j] EXCEPT !.reportBack = "delivered"]
             new == Task("acknowledge", j, "call", record, "unknown")
  <1>2. /\ entry' = [entry EXCEPT ![j] = record] /\ tasks' = tasks \cup {new}
        /\ UNCHANGED <<setup, during, disk, queue, reserved, pump, stalled, proc, admitted, charged,
                       reports, draining, damaged>>
    BY DEF AcknowledgeReport, scheduler, ledger
  <1>3. record \in Lifecycles /\ record.status = Status(j)
    BY <1>1 DEF Lifecycles, Status, JobTypes
  <1>4. new \in Tasks /\ new.job = j /\ new.by = "call" /\ new.kind = "acknowledge"
    BY <1>3 DEF Task, Tasks
  <1> HIDE DEF record, new
  <1>5. JobTypes'
    <2>1. entry' \in [Jobs -> Lifecycles] /\ tasks' \subseteq Tasks
      BY <1>1, <1>2, <1>3, <1>4 DEF JobTypes
    <2>2. Reports(setup)' = Reports(setup)
      BY <1>2 DEF Reports
    <2> QED BY <1>1, <1>2, <2>1, <2>2 DEF JobTypes
  <1>6. \A k \in Jobs : Status(k)' = Status(k)
    BY <1>1, <1>2, <1>3 DEF Status, JobTypes
  <1>7. \A t \in tasks : t.job \in Jobs
    BY <1>1 DEF JobTypes, Tasks
  <1>8. SchedulerTypes'
    BY <1>1, <1>2 DEF SchedulerTypes
  <1>9. Absences'
    BY <1>1, <1>2, <1>6 DEF Absences
  <1>10. Endings'
    BY <1>1, <1>2, <1>4, <1>6, <1>7 DEF Endings
  <1>11. PumpAwaits'
    <2>1. pump.at # "idle" => pump.job \in Jobs
      BY <1>1 DEF PumpAwaits, SchedulerTypes, Pumps
    <2>2. pump.at \in {"dispatch", "task"} => Status(pump.job)' = Status(pump.job)
      BY <1>2, <1>6, <2>1 DEF Status
    <2>3. \A t \in tasks' : t.by = "pump" \/ t.kind = "mark" => t \in tasks
      BY <1>2, <1>4
    <2> QED BY <1>1, <1>2, <2>2, <2>3 DEF PumpAwaits
  <1>12. AdmissionMatchesJobs'
    <2>1. \A k : /\ Created(k) => Created(k)'
                 /\ Ending(k) => Ending(k)'
      BY <1>2 DEF Created, Ending
    <2> QED BY <1>1, <1>2, <1>6, <2>1 DEF AdmissionMatchesJobs, Created
  <1> QED BY <1>5, <1>8, <1>9, <1>10, <1>11, <1>12 DEF PlaneInv, PlaneTypes

LEMMA WriteLandsInv ==
    ASSUME ControlPlaneConstants, PlaneInv, NEW t \in tasks, WriteLands(t)
    PROVE  PlaneInv'
  <1>1. PlaneTypes /\ JobTypes /\ SchedulerTypes /\ PumpAwaits /\ Absences /\ Endings /\ AdmissionMatchesJobs
    BY DEF PlaneInv, PlaneTypes
  <1> DEFINE new == [t EXCEPT !.at = "emit"]
  <1>2. /\ disk' = [disk EXCEPT ![t.job] = t.snap] /\ tasks' = (tasks \ {t}) \cup {new}
        /\ UNCHANGED <<setup, during, entry, queue, reserved, pump, stalled, proc, admitted,
                       charged, reports, draining, damaged>>
    BY DEF WriteLands, scheduler, ledger
  <1>3. t \in Tasks
    BY <1>1 DEF JobTypes
  <1>4. new \in Tasks /\ new.job = t.job /\ new.by = t.by /\ new.kind = t.kind
    BY <1>3 DEF Tasks
  <1> HIDE DEF new
  <1>5. JobTypes'
    <2>1. disk' \in [Jobs -> Lifecycles] /\ tasks' \subseteq Tasks
      BY <1>1, <1>2, <1>3, <1>4 DEF JobTypes, Tasks
    <2>2. Reports(setup)' = Reports(setup)
      BY <1>2 DEF Reports
    <2> QED BY <1>1, <1>2, <2>1, <2>2 DEF JobTypes
  <1>6. SchedulerTypes' /\ Absences'
    BY <1>1, <1>2 DEF SchedulerTypes, Absences, Status
  <1>7. Endings'
    BY <1>1, <1>2, <1>4 DEF Endings, Status
  <1>8. PumpAwaits'
    <2>1. \A u \in tasks' : u.by = "pump" => pump.at = "task" /\ u.job = pump.job
      BY <1>1, <1>2, <1>4 DEF PumpAwaits
    <2>2. \A u \in tasks' : u.kind = "mark" => u.by = "pump"
      BY <1>1, <1>2, <1>4 DEF PumpAwaits
    <2>3. \A u, v \in tasks' : u.by = "pump" /\ v.by = "pump" => u = v
      BY <1>1, <1>2, <1>4 DEF PumpAwaits
    <2> QED BY <1>1, <1>2, <2>1, <2>2, <2>3 DEF PumpAwaits, Status
  <1>9. AdmissionMatchesJobs'
    <2>1. \A k : /\ Created(k) => Created(k)'
                 /\ Ending(k) => Ending(k)'
      BY <1>2, <1>4 DEF Created, Ending
    <2> QED BY <1>1, <1>2, <2>1 DEF AdmissionMatchesJobs, Created, Status
  <1> QED BY <1>5, <1>6, <1>7, <1>8, <1>9 DEF PlaneInv, PlaneTypes

LEMMA WriteFailsInv ==
    ASSUME ControlPlaneConstants, PlaneInv, NEW t \in tasks, WriteFails(t)
    PROVE  PlaneInv'
  <1>1. PlaneTypes /\ JobTypes /\ SchedulerTypes /\ PumpAwaits /\ Absences /\ Endings /\ AdmissionMatchesJobs
    BY DEF PlaneInv, PlaneTypes
  <1>2. /\ tasks' = tasks \ {t} /\ damaged' = damaged \cup {t.job}
        /\ IF t.by = "pump" THEN pump' = NoPump /\ stalled' = TRUE ELSE UNCHANGED <<pump, stalled>>
        /\ UNCHANGED <<setup, during, entry, disk, queue, reserved, proc, admitted, charged, reports, draining>>
    BY DEF WriteFails, ledger
  <1>3. JobTypes'
    <2>1. Reports(setup)' = Reports(setup)
      BY <1>2 DEF Reports
    <2> QED BY <1>1, <1>2, <2>1 DEF JobTypes
  <1>4. /\ pump' \in Pumps /\ stalled' \in BOOLEAN
        /\ pump' = pump \/ (pump'.at = "idle" /\ pump'.job = NoJob /\ pump.job = t.job /\ t.by = "pump")
    <2>1. pump \in Pumps /\ stalled \in BOOLEAN
      BY <1>1 DEF SchedulerTypes
    <2>2. CASE t.by = "pump"
      <3>1. pump' = NoPump /\ stalled' = TRUE /\ pump.job = t.job
        BY <1>1, <1>2, <2>2 DEF PumpAwaits
      <3> QED BY <2>2, <3>1 DEF NoPump, Pumps
    <2>3. CASE t.by # "pump"
      BY <1>2, <2>1, <2>3
    <2> QED BY <2>2, <2>3
  <1>5. NoJob \notin Jobs
    BY DEF ControlPlaneConstants
  <1>6. SchedulerTypes'
    BY <1>1, <1>2, <1>4 DEF SchedulerTypes
  <1>7. Absences' /\ Endings'
    BY <1>1, <1>2, <1>4, <1>5 DEF Absences, Endings, Status
  <1>8. PumpAwaits'
    <2>1. CASE pump' = pump
      BY <1>1, <1>2, <2>1 DEF PumpAwaits, Status
    <2>2. CASE pump'.at = "idle" /\ pump'.job = NoJob /\ t.by = "pump"
      <3>1. \A u \in tasks' : u.by # "pump"
        BY <1>1, <1>2, <2>2 DEF PumpAwaits
      <3>2. \A u \in tasks' : u.kind # "mark"
        BY <1>1, <1>2, <3>1 DEF PumpAwaits
      <3> QED BY <2>2, <3>1, <3>2 DEF PumpAwaits
    <2> QED BY <1>4, <2>1, <2>2
  <1>9. AdmissionMatchesJobs'
    <2>1. ASSUME NEW k \in Jobs \ damaged'
          PROVE  /\ Status(k) = "queued" =>
                       k \in Queued(queue) \/ (pump'.job = k /\ pump'.at = "dispatch") \/ Created(k)'
                 /\ Status(k) = "dispatched" => k \in reserved
                 /\ k \in reserved =>
                       Status(k) = "dispatched" \/ (Status(k) = "queued" /\ pump'.job = k) \/ Ending(k)'
      <3>1. k \in Jobs \ damaged /\ k # t.job
        BY <1>2, <2>1
      <3>2. /\ Created(k) => Created(k)'
            /\ Ending(k) => Ending(k)'
        BY <1>2, <3>1 DEF Created, Ending
      <3>3. pump.job = k => pump' = pump
        BY <1>4, <3>1
      <3> QED BY <1>1, <3>1, <3>2, <3>3 DEF AdmissionMatchesJobs, Created
    <2> QED BY <1>2, <2>1 DEF AdmissionMatchesJobs, Created, Status
  <1> QED BY <1>3, <1>6, <1>7, <1>8, <1>9 DEF PlaneInv, PlaneTypes

LEMMA LaunchedInv ==
    ASSUME PlaneInv, NEW j \in Jobs, Launched(j)
    PROVE  PlaneInv'
  <1>1. PlaneTypes /\ JobTypes /\ SchedulerTypes
    BY DEF PlaneInv, PlaneTypes
  <1>2. /\ proc' = [proc EXCEPT ![j] = "running"]
        /\ UNCHANGED <<setup, entry, tasks, queue, reserved, pump, stalled, damaged>>
        /\ UNCHANGED <<during, disk, admitted, charged, draining, reports>>
    BY DEF Launched, ledger
  <1>3. proc' \in [Jobs -> PlaneRuns]
    BY <1>1, <1>2 DEF SchedulerTypes, PlaneRuns
  <1>4. SchedulerTypes' /\ Agreement'
    BY <1>2, <1>3, StillKeeps
  <1>5. JobTypes'
    BY <1>1, <1>2 DEF JobTypes, Reports
  <1> QED BY <1>4, <1>5 DEF PlaneInv, PlaneTypes, Agreement

LEMMA FinishInv ==
    ASSUME PlaneInv, NEW j \in Jobs, NEW result \in setup.results, Finish(j, result)
    PROVE  PlaneInv'
  <1>1. PlaneTypes /\ JobTypes /\ SchedulerTypes
    BY DEF PlaneInv, PlaneTypes
  <1> DEFINE report == [job |-> j, result |-> result]
  <1>2. /\ proc' = [proc EXCEPT ![j] = "over"] /\ reports' = Append(reports, report)
        /\ UNCHANGED <<setup, entry, tasks, queue, reserved, pump, stalled, damaged>>
        /\ UNCHANGED <<during, disk, admitted, charged, draining>>
    BY DEF Finish, ledger
  <1>3. proc' \in [Jobs -> PlaneRuns]
    BY <1>1, <1>2 DEF SchedulerTypes, PlaneRuns
  <1>4. SchedulerTypes' /\ Agreement'
    BY <1>2, <1>3, StillKeeps
  <1>5. report \in Reports(setup) /\ reports \in Seq(Reports(setup))
    BY <1>1 DEF Reports, JobTypes
  <1> HIDE DEF report
  <1>6. reports' \in Seq(Reports(setup)) /\ Reports(setup)' = Reports(setup)
    BY <1>2, <1>5 DEF Reports
  <1>7. JobTypes'
    BY <1>1, <1>2, <1>6 DEF JobTypes
  <1> QED BY <1>4, <1>7 DEF PlaneInv, PlaneTypes, Agreement

LEMMA ShutdownInv ==
    ASSUME PlaneInv, Shutdown
    PROVE  PlaneInv'
  <1>1. PlaneTypes /\ JobTypes /\ SchedulerTypes
    BY DEF PlaneInv, PlaneTypes
  <1>2. /\ draining' = [serving |-> FALSE, left |-> {j \in Jobs : ~Over(j)}]
        /\ UNCHANGED <<setup, entry, tasks, queue, reserved, pump, stalled, damaged, proc>>
        /\ UNCHANGED <<during, disk, admitted, charged, reports>>
    BY DEF Shutdown, scheduler, ledger
  <1>3. proc' \in [Jobs -> PlaneRuns]
    BY <1>1, <1>2 DEF SchedulerTypes
  <1>4. SchedulerTypes' /\ Agreement'
    BY <1>2, <1>3, StillKeeps
  <1>5. draining' \in [serving : BOOLEAN, left : SUBSET Jobs]
    BY <1>2
  <1>6. JobTypes'
    BY <1>1, <1>2, <1>5 DEF JobTypes, Reports
  <1> QED BY <1>4, <1>6 DEF PlaneInv, PlaneTypes, Agreement

\* A process in which nothing has been submitted yet.
Fresh ==
    /\ \A j \in Jobs : Status(j) \notin {"queued", "dispatched"}
    /\ tasks = {} /\ queue = <<>> /\ reserved = {} /\ pump = NoPump /\ stalled = FALSE
    /\ proc = [j \in Jobs |-> "none"]

LEMMA FreshInv == JobTypes /\ Fresh => PlaneInv
  <1> SUFFICES ASSUME JobTypes, Fresh  PROVE PlaneInv
    OBVIOUS
  <1>1. setup.ceiling \in Nat /\ NoJob \notin Jobs
    BY ControlPlaneConstants DEF JobTypes, SetupOK
  <1>2. IsFiniteSet(reserved) /\ Cardinality(reserved) <= setup.ceiling
    BY <1>1, FS_EmptySet DEF Fresh
  <1>3. queue \in Seq(Jobs) /\ Distinct(queue)
    BY DEF Distinct, Fresh
  <1>4. pump \in Pumps /\ pump.at = "idle" /\ pump.job = NoJob /\ proc \in [Jobs -> PlaneRuns]
    BY DEF Fresh, NoPump, Pumps, PlaneRuns
  <1>5. SchedulerTypes
    BY <1>2, <1>3, <1>4 DEF SchedulerTypes, Fresh
  <1>6. Absences /\ Endings /\ PumpAwaits
    BY <1>1, <1>4 DEF Absences, Endings, PumpAwaits, Fresh
  <1>7. AdmissionMatchesJobs
    BY DEF AdmissionMatchesJobs, Fresh
  <1> QED BY <1>5, <1>6, <1>7 DEF PlaneInv, PlaneTypes

LEMMA StartInv ==
    ASSUME ControlPlaneConstants, PlaneInv, Start
    PROVE  PlaneInv'
  <1>1. PlaneTypes /\ JobTypes
    BY DEF PlaneInv, PlaneTypes
  <1>2. /\ entry' = [j \in Jobs |-> Recovered(disk[j])] /\ disk' = entry' /\ setup' = setup
        /\ tasks' = {} /\ during' = {} /\ queue' = <<>> /\ reserved' = {} /\ pump' = NoPump
        /\ stalled' = FALSE /\ admitted' = {} /\ charged' = [j \in Jobs |-> "no"]
        /\ proc' = [j \in Jobs |-> "none"] /\ reports' = <<>> /\ draining' = Serving
    BY DEF Start
  <1>3. \A j \in Jobs : /\ Recovered(disk[j]) \in Lifecycles
                        /\ Recovered(disk[j]).status \notin {"queued", "dispatched"}
    <2>1. ASSUME NEW l \in Lifecycles
          PROVE  Recovered(l) \in Lifecycles /\ Recovered(l).status \notin {"queued", "dispatched"}
      BY DEF Recovered, Lifecycles
    <2> QED BY <1>1, <2>1 DEF JobTypes
  <1>4. JobTypes'
    <2>1. entry' \in [Jobs -> Lifecycles] /\ charged' \in [Jobs -> Debits]
      BY <1>2, <1>3 DEF Debits
    <2>2. draining' \in [serving : BOOLEAN, left : SUBSET Jobs]
      BY <1>2 DEF Serving
    <2> QED BY <1>1, <1>2, <2>1, <2>2 DEF JobTypes
  <1>5. \A j \in Jobs : Status(j)' \notin {"queued", "dispatched"}
    BY <1>2, <1>3 DEF Status
  <1>6. Fresh'
    BY <1>2, <1>5 DEF Fresh, NoPump
  <1>7. (JobTypes /\ Fresh => PlaneInv)'
    BY FreshInv, PTL
  <1> QED BY <1>4, <1>6, <1>7

LEMMA PlaneInitInv == ASSUME ControlPlaneConstants, Init  PROVE PlaneInv
  <1>1. entry = [j \in Jobs |-> Absent] /\ Absent \in Lifecycles
    BY DEF Init, Absent, Lifecycles
  <1>2. JobTypes
    <2>1. entry \in [Jobs -> Lifecycles] /\ disk \in [Jobs -> Lifecycles]
      BY <1>1 DEF Init
    <2>2. charged \in [Jobs -> Debits] /\ draining \in [serving : BOOLEAN, left : SUBSET Jobs]
      BY DEF Init, Debits, Serving
    <2> QED BY <2>1, <2>2 DEF Init, JobTypes
  <1>3. \A j \in Jobs : Status(j) \notin {"queued", "dispatched"}
    BY <1>1 DEF Absent, Status
  <1> QED BY <1>2, <1>3, FreshInv DEF Init, Fresh

LEMMA PlaneStepInv ==
    ASSUME ControlPlaneConstants, PlaneInv, [Next]_vars
    PROVE  PlaneInv'
  <1>1. CASE \E j \in Jobs : Create(j) \/ Cancel(j) \/ AcknowledgeReport(j) \/ Launched(j) \/ Drain(j)
    BY <1>1, CreateInv, PlaneCancelInv, AcknowledgeReportInv, LaunchedInv, DrainInv
  <1>2. CASE \E j \in Jobs, result \in setup.results : IngestCall(j, result) \/ Finish(j, result)
    BY <1>2, IngestCallInv, FinishInv
  <1>3. CASE \E t \in tasks : WriteLands(t) \/ WriteFails(t) \/ Resume(t)
    BY <1>3, WriteLandsInv, WriteFailsInv, ResumeInv
  <1>4. CASE IngestNext \/ DispatchAccepted \/ DispatchRejected \/ Shutdown
    BY <1>4, IngestNextInv, DispatchAcceptedInv, DispatchRejectedInv, ShutdownInv
  <1>5. CASE Exit \/ Crash
    <2>1. Start
      BY <1>5 DEF Exit, Crash
    <2> QED BY <2>1, StartInv
  <1>6. CASE UNCHANGED vars
    <2>1. PlaneTypes /\ JobTypes /\ SchedulerTypes
      BY DEF PlaneInv, PlaneTypes
    <2>2. /\ UNCHANGED <<setup, entry, tasks, queue, reserved, pump, stalled, damaged, proc>>
          /\ UNCHANGED <<during, disk, admitted, charged, reports, draining>>
      BY <1>6 DEF vars, scheduler, ledger
    <2>3. SchedulerTypes' /\ Agreement'
      <3>1. proc' \in [Jobs -> PlaneRuns]
        BY <2>1, <2>2 DEF SchedulerTypes
      <3> QED BY <2>2, <3>1, StillKeeps
    <2>4. JobTypes'
      BY <2>1, <2>2 DEF JobTypes, Reports
    <2> QED BY <2>3, <2>4 DEF PlaneInv, PlaneTypes, Agreement
  <1> QED BY <1>1, <1>2, <1>3, <1>4, <1>5, <1>6 DEF Next

\* A queue without repetitions is as long as it has jobs.
LEMMA QueueLength ==
    ASSUME NEW q \in Seq(Jobs), Distinct(q)
    PROVE  Cardinality(Queued(q)) = Len(q)
  <1> DEFINE f == [i \in 1..Len(q) |-> q[i]]
  <1>1. Len(q) \in Nat /\ DOMAIN q = 1..Len(q)
    OBVIOUS
  <1>2. f \in Bijection(1..Len(q), Queued(q))
    <2>1. f \in [1..Len(q) -> Queued(q)]
      BY <1>1 DEF Queued
    <2>2. \A a, b \in 1..Len(q) : f[a] = f[b] => a = b
      BY <1>1 DEF Distinct
    <2>3. \A t \in Queued(q) : \E s \in 1..Len(q) : f[s] = t
      BY <1>1 DEF Queued
    <2>4. f \in Injection(1..Len(q), Queued(q))
      BY <2>1, <2>2 DEF Injection, IsInjective
    <2>5. f \in Surjection(1..Len(q), Queued(q))
      BY <2>1, <2>3 DEF Surjection
    <2> QED BY <2>4, <2>5 DEF Bijection
  <1>3. ExistsBijection(1..Len(q), Queued(q))
    BY <1>2 DEF ExistsBijection
  <1> QED BY <1>1, <1>3, FS_CountingElements

\* Every reachable state has the shape the code gives it; in particular enqueue
\* never puts a job into scheduler.queue twice, and admitNext never reserves
\* more slots than maxConcurrentJobs.
THEOREM PlaneTypeCorrect == Spec => []TypeOK
  <1>1. Init => PlaneInv
    BY PlaneInitInv, ControlPlaneConstants
  <1>2. PlaneInv /\ [Next]_vars => PlaneInv'
    BY PlaneStepInv, ControlPlaneConstants
  <1>3. PlaneInv => TypeOK
    <2> SUFFICES ASSUME PlaneInv  PROVE TypeOK
      OBVIOUS
    <2>1. JobTypes /\ SchedulerTypes
      BY DEF PlaneInv, PlaneTypes
    <2>2. Cardinality(Queued(queue)) = Len(queue)
      BY <2>1, QueueLength DEF SchedulerTypes
    <2> QED BY <2>1, <2>2 DEF JobTypes, SchedulerTypes, TypeOK, Pumps, Debits, PlaneRuns
  <1> QED BY <1>1, <1>2, <1>3, PTL DEF Spec

\* Whatever is submitted, cancelled, reported, refused or drained while pump is
\* suspended, a queued job waits in the queue, in the hands of the loop or in
\* its own submission, a dispatched job holds its slot, and no slot is held for
\* a job that is over, but for the jobs a failed write cut short.
THEOREM PlaneAdmissionMatchesJobs == Spec => []AdmissionMatchesJobs
  <1>1. Init => PlaneInv
    BY PlaneInitInv, ControlPlaneConstants
  <1>2. PlaneInv /\ [Next]_vars => PlaneInv'
    BY PlaneStepInv, ControlPlaneConstants
  <1>3. PlaneInv => AdmissionMatchesJobs
    BY DEF PlaneInv
  <1> QED BY <1>1, <1>2, <1>3, PTL DEF Spec

-----------------------------------------------------------------------------
(***************************************************************************)
(* The container executions, for any sessions, any number of slots and any *)
(* outages, crashes, cancels and renewals: guests run in slots that are    *)
(* accounted to them (GuestsFitTheSlots).                                  *)
(*                                                                         *)
(* It is not inductive.  A guest is started from a record in the slot of   *)
(* its session: what prepares a start (Preparing) keeps the container      *)
(* still and admission open, and a runtime that gives a slot back during   *)
(* it is one of an earlier try, which is what `robbed` remembers.  After a *)
(* crash admission opens again only when no guest runs: each has a record  *)
(* that is not destroyed (Recorded), and until the pass of the             *)
(* reconciliation meets one that it cannot reach, every guest that runs is *)
(* still to be visited (Visited).                                          *)
(***************************************************************************)

Operations == {"idle", "check", "reserve", "queued", "ready", "started", "failing", "expiring",
               "retiring", "collecting", "retained", "removed"}
Boxes == {"absent", "created", "running", "exited"}
Runtimes == [s : Sessions, generation : Nat, try : Nat, mode : {"attached", "finishing"}]
Observers == [s : Sessions, generation : Nat]
Commands == [s : Sessions, try : Nat, late : BOOLEAN]
MaybeRecords == ExecutionRecords \cup {Nothing}
Walks == [todo : SUBSET (DOMAIN SessionOrder), snapshot : [Sessions -> MaybeRecords]]
Passes == [todo : SUBSET (DOMAIN SessionOrder), snapshot : [Sessions -> MaybeRecords],
           blocked : BOOLEAN]
Preparing == {"reserve", "queued", "ready"}

\* The slots never hold more than fits, and every place of a list that is
\* walked over has a record.
SlotsFit ==
    held \subseteq Sessions /\ IsFiniteSet(held) /\ Cardinality(held) <= Slots /\ pending \in Seq(Sessions)
WalkTyped == expiring \in Walks /\ \A i \in expiring.todo : expiring.snapshot[SessionOrder[i]] \in ExecutionRecords
PassTyped == recovery \in Passes /\ \A i \in recovery.todo : recovery.snapshot[SessionOrder[i]] \in ExecutionRecords

ContainersTyped ==
    /\ executions \in [Sessions -> MaybeRecords] /\ intent \in [Sessions -> MaybeRecords]
    /\ box \in [Sessions -> Boxes] /\ operation \in [Sessions -> Operations]
    /\ tries \in [Sessions -> Nat] /\ generation \in [Sessions -> Nat]
    /\ session \in [Sessions -> {"new", "starting", "live", "ended", "unregistered"}]
    /\ daemon \in BOOLEAN /\ admission \in BOOLEAN
    /\ runtimes \subseteq Runtimes /\ observers \subseteq Observers /\ starts \subseteq Commands

\* Whatever is done for a session has a record, and so has a container, whose record
\* is not destroyed.
Recorded(s) ==
    /\ session[s] = "live" \/ operation[s] \notin {"idle", "check"} => executions[s] \in ExecutionRecords
    /\ operation[s] \notin {"idle", "check", "expiring"} => intent[s] \in ExecutionRecords
    /\ operation[s] \in Preparing => executions[s].phase # "destroyed"
    /\ box[s] # "absent" => executions[s] \in ExecutionRecords /\ executions[s].phase # "destroyed"
    /\ \A r \in runtimes : r.s = s => executions[s] \in ExecutionRecords
    /\ \A o \in observers : o.s = s => executions[s] \in ExecutionRecords

\* A guest runs in the slot of its session, unless an earlier runtime gave that back or
\* a late command started it.  So may a start command that was not overtaken, and a
\* start that is ready to send one; a session that waits for a slot has neither such
\* a guest nor such a command.
Slotted(s) ==
    /\ operation[s] = "removed" => box[s] = "absent"
    /\ operation[s] \in Preparing => admission
    /\ operation[s] = "ready" => s \in held \cup robbed
    /\ admission /\ box[s] = "running" => s \in held \cup robbed \cup late
    /\ operation[s] = "queued" /\ box[s] = "running" => s \in robbed \cup late
    /\ \A e \in starts : e.s = s /\ ~e.late =>
         /\ admission /\ s \in held \cup robbed
         /\ operation[s] = "queued" => s \in robbed
    /\ \A r \in runtimes : r.s = s =>
         /\ r.try <= tries[s]
         /\ operation[s] \in Preparing \cup {"check"} => r.try < tries[s]

\* While admission is closed and no guest was out of reach, those that run are
\* still to be visited, or were started late.
Visited ==
    ~admission /\ ~recovery.blocked /\ recovery.todo # {} =>
      \A s \in Sessions : box[s] = "running" /\ s \notin late => \E i \in recovery.todo : SessionOrder[i] = s

ContainersInv ==
    /\ ContainersTyped /\ SlotsFit /\ WalkTyped /\ PassTyped /\ Visited
    /\ \A s \in Sessions : Recorded(s) /\ Slotted(s)

(* The scheduler hands out what is free and no more, and takes nothing back. *)
LEMMA DrainFits ==
    ASSUME NEW holders \in SUBSET Sessions, IsFiniteSet(holders), Cardinality(holders) <= Slots,
           NEW waiters \in Seq(Sessions)
    PROVE  LET next == DrainSlots(holders, waiters) IN
           /\ next.held \subseteq Sessions /\ IsFiniteSet(next.held) /\ Cardinality(next.held) <= Slots
           /\ holders \subseteq next.held /\ next.pending \in Seq(Sessions)
  <1> DEFINE free == Slots - Cardinality(holders)
             n == IF free < Len(waiters) THEN free ELSE Len(waiters)
             given == {waiters[i] : i \in 1 .. n}
  <1>1. Slots \in Nat /\ Cardinality(holders) \in Nat /\ Len(waiters) \in Nat
    BY ContainersAssumption, FS_CardinalityType
  <1>2. free \in Nat /\ n \in Nat /\ n <= free /\ n <= Len(waiters)
    BY <1>1
  <1>3. IsFiniteSet(1 .. n) /\ Cardinality(1 .. n) = n
    <2> HIDE DEF n
    <2> QED
      BY <1>2, FS_Interval
  <1>4. IsFiniteSet(given) /\ Cardinality(given) <= n
    <2> HIDE DEF n
    <2> DEFINE pick == [i \in 1 .. n |-> waiters[i]]
    <2>1. pick \in Surjection(1 .. n, given)
      BY DEF Surjection
    <2> QED
      BY <1>3, <2>1, FS_Surjection
  <1>5. IsFiniteSet(holders \cup given) /\ Cardinality(holders \cup given) <= Cardinality(holders) + Cardinality(given)
    <2> HIDE DEF given
    <2>1. /\ IsFiniteSet(holders \cup given)
          /\ Cardinality(holders \cup given) = Cardinality(holders) + Cardinality(given) - Cardinality(holders \cap given)
      BY <1>4, FS_Union
    <2>2. Cardinality(holders \cap given) \in Nat /\ Cardinality(given) \in Nat
      BY <1>4, FS_Intersection, FS_CardinalityType
    <2> QED
      BY <1>1, <2>1, <2>2
  <1>6. Cardinality(given) \in Nat /\ Cardinality(holders \cup given) \in Nat
    BY <1>4, <1>5, FS_CardinalityType
  <1>7. Cardinality(holders \cup given) <= Slots
    <2> HIDE DEF given, n
    <2> QED
      BY <1>1, <1>2, <1>4, <1>5, <1>6
  <1>8. SubSeq(waiters, n + 1, Len(waiters)) \in Seq(Sessions)
    <2> HIDE DEF n
    <2>1. n + 1 \in 1 .. Len(waiters) + 1
      BY <1>1, <1>2
    <2> QED
      BY <1>1, <2>1, SubSeqProperties
  <1>9. DrainSlots(holders, waiters) = [held |-> holders \cup given, pending |-> SubSeq(waiters, n + 1, Len(waiters))]
    BY DEF DrainSlots
  <1>10. given \subseteq Sessions
    BY <1>1, <1>2
  <1> HIDE DEF given, n
  <1> QED
    BY <1>5, <1>7, <1>8, <1>9, <1>10

(* A release keeps the bound and every other holder.                       *)
LEMMA ReleaseFits ==
    ASSUME SlotsFit, NEW s
    PROVE  /\ SlotsReleased(s).held \subseteq Sessions
           /\ IsFiniteSet(SlotsReleased(s).held) /\ Cardinality(SlotsReleased(s).held) <= Slots
           /\ held \ {s} \subseteq SlotsReleased(s).held /\ SlotsReleased(s).pending \in Seq(Sessions)
  <1>1. /\ held \ {s} \in SUBSET Sessions /\ IsFiniteSet(held \ {s}) /\ Cardinality(held \ {s}) <= Slots
    <2>1. IsFiniteSet(held \ {s}) /\ Cardinality(held \ {s}) <= Cardinality(held)
      BY FS_RemoveElement, FS_Subset DEF SlotsFit
    <2>2. Cardinality(held \ {s}) \in Nat /\ Cardinality(held) \in Nat /\ Slots \in Nat
      BY <2>1, FS_CardinalityType, ContainersAssumption DEF SlotsFit
    <2> QED
      BY <2>1, <2>2 DEF SlotsFit
  <1> QED
    BY <1>1, DrainFits DEF SlotsReleased, SlotsFit

-----------------------------------------------------------------------------
(* Most steps are about one session.                                       *)

\* What such a step leaves alone.
OthersKept(s) ==
    /\ \A t \in Sessions : t # s =>
         /\ executions'[t] = executions[t] /\ intent'[t] = intent[t] /\ box'[t] = box[t]
         /\ operation'[t] = operation[t] /\ tries'[t] = tries[t] /\ session'[t] = session[t]
         /\ t \in held => t \in held'
         /\ t \in late => t \in late'
    /\ \A e \in starts' : e.s # s => e \in starts
    /\ robbed \subseteq robbed'
    /\ \A r \in runtimes' : r.s # s => \E q \in runtimes : q.s = r.s /\ q.try = r.try
    /\ \A o \in observers' : o.s # s => o \in observers
    /\ admission' = admission /\ recovery' = recovery

\* A guest is started while admission is open, or late.
StartsAdmitted(s) ==
    box'[s] = "running" => (box[s] = "running" /\ s \notin late) \/ admission \/ s \in late'

(* The invariant of a step about one session is that of the session.       *)
LEMMA OneSession ==
    ASSUME ContainersInv, NEW s \in Sessions, OthersKept(s), StartsAdmitted(s),
           ContainersTyped', SlotsFit', WalkTyped', Recorded(s)', Slotted(s)'
    PROVE  ContainersInv'
  <1>1. PassTyped'
    BY DEF PassTyped, ContainersInv, OthersKept
  <1>2. Visited'
    <2> SUFFICES ASSUME ~admission', ~recovery'.blocked, recovery'.todo # {},
                        NEW t \in Sessions, box'[t] = "running", t \notin late'
                 PROVE  \E i \in recovery'.todo : SessionOrder[i] = t
      BY DEF Visited
    <2>1. ~admission /\ ~recovery.blocked /\ recovery.todo # {}
      BY DEF OthersKept
    <2>2. box[t] = "running" /\ t \notin late
      BY <2>1 DEF OthersKept, StartsAdmitted
    <2> QED
      BY <2>1, <2>2 DEF Visited, ContainersInv, OthersKept
  <1>3. ASSUME NEW t \in Sessions, t # s PROVE Recorded(t)'
    <2>1. Recorded(t)
      BY DEF ContainersInv
    <2>2. /\ executions'[t] = executions[t] /\ intent'[t] = intent[t] /\ box'[t] = box[t]
          /\ operation'[t] = operation[t] /\ session'[t] = session[t]
      BY <1>3 DEF OthersKept
    <2>3. \A r \in runtimes' : r.s = t => executions'[t] \in ExecutionRecords
      BY <1>3, <2>1, <2>2 DEF OthersKept, Recorded
    <2>4. \A o \in observers' : o.s = t => executions'[t] \in ExecutionRecords
      BY <1>3, <2>1, <2>2 DEF OthersKept, Recorded
    <2> QED
      BY <2>1, <2>2, <2>3, <2>4 DEF Recorded
  <1>4. ASSUME NEW t \in Sessions, t # s PROVE Slotted(t)'
    <2>1. Slotted(t)
      BY DEF ContainersInv
    <2>2. /\ box'[t] = box[t] /\ operation'[t] = operation[t] /\ tries'[t] = tries[t]
          /\ t \in held => t \in held'
          /\ t \in late => t \in late'
          /\ \A e \in starts' : e.s = t => e \in starts
          /\ robbed \subseteq robbed' /\ admission' = admission
      BY <1>4 DEF OthersKept
    <2>3. \A r \in runtimes' : r.s = t =>
            /\ r.try <= tries'[t]
            /\ operation'[t] \in Preparing \cup {"check"} => r.try < tries'[t]
      BY <1>4, <2>1, <2>2 DEF OthersKept, Slotted
    <2> QED
      BY <2>1, <2>2, <2>3 DEF Slotted
  <1> QED
    BY <1>1, <1>2, <1>3, <1>4 DEF ContainersInv

(* A put and a change of what is done for a session are about it alone.    *)
LEMMA PutKept ==
    ASSUME ContainersTyped, NEW s \in Sessions, NEW record \in ExecutionRecords, Put(s, record)
    PROVE  /\ executions' \in [Sessions -> MaybeRecords] /\ executions'[s] = record
           /\ \A t \in Sessions : t # s => executions'[t] = executions[t]
  BY DEF Put, ContainersTyped, MaybeRecords

(* A change of what is done for a session keeps the rest of its facts.      *)
LEMMA GoesKept ==
    ASSUME ContainersTyped, NEW s \in Sessions, NEW where \in Operations, Goes(s, where)
    PROVE  /\ operation' \in [Sessions -> Operations] /\ operation'[s] = where
           /\ \A t \in Sessions : t # s => operation'[t] = operation[t]
  BY DEF Goes, ContainersTyped

(* stop leaves one container, and leaves it still.                         *)
LEMMA QuietedKept ==
    ASSUME ContainersTyped, NEW s \in Sessions, box' = Quieted(s)
    PROVE  /\ box' \in [Sessions -> Boxes] /\ box'[s] # "running"
           /\ box'[s] = "absent" <=> box[s] = "absent"
           /\ \A t \in Sessions : t # s => box'[t] = box[t]
  BY DEF Quieted, ContainersTyped, Boxes

(* A release of a session's slot takes nothing from another, and marks the *)
(* commands of that session.                                               *)
LEMMA ReleaseKept ==
    ASSUME ContainersInv, NEW s \in Sessions, GiveBack(s, SlotsReleased(s))
    PROVE  /\ SlotsFit' /\ \A t \in Sessions : t # s /\ t \in held => t \in held'
           /\ starts' \subseteq Commands
           /\ \A e \in starts' : (e.s = s => e.late) /\ (e.s # s => e \in starts)
  <1>1. SlotsFit' /\ \A t \in Sessions : t # s /\ t \in held => t \in held'
    BY ReleaseFits DEF GiveBack, SetSlots, SlotsFit, ContainersInv
  <1>2. starts \subseteq Commands
    BY DEF ContainersInv, ContainersTyped
  <1>3. ASSUME NEW e \in starts'
        PROVE  e \in Commands /\ (e.s = s => e.late) /\ (e.s # s => e \in starts)
    <2>1. PICK c \in starts : e = IF c.s = s THEN [c EXCEPT !.late = TRUE] ELSE c
      BY DEF GiveBack, Overtaken
    <2>2. c \in Commands
      BY <1>2
    <2>3. CASE c.s = s
      <3>1. [c EXCEPT !.late = TRUE] \in Commands /\ [c EXCEPT !.late = TRUE].s = s /\ [c EXCEPT !.late = TRUE].late
        BY <2>2, <2>3 DEF Commands
      <3> QED
        BY <2>1, <2>3, <3>1
    <2> QED
      BY <2>1, <2>2, <2>3
  <1> QED
    BY <1>1, <1>3

(* A start claims a session nothing else is being done for.                 *)
LEMMA StartKept ==
    ASSUME ContainersInv, NEW s \in Sessions, StartExecution(s)
    PROVE  ContainersInv'
  <1>1. ContainersTyped /\ SlotsFit /\ WalkTyped /\ Recorded(s) /\ Slotted(s)
    BY DEF ContainersInv
  <1>2. /\ operation' \in [Sessions -> Operations] /\ operation'[s] = "check"
        /\ \A t \in Sessions : t # s => operation'[t] = operation[t]
    BY <1>1, GoesKept DEF StartExecution, Operations
  <1>3. /\ tries' \in [Sessions -> Nat] /\ tries'[s] = tries[s] + 1
        /\ \A t \in Sessions : t # s => tries'[t] = tries[t]
    BY <1>1 DEF StartExecution, ContainersTyped
  <1>4. /\ session' \in [Sessions -> {"new", "starting", "live", "ended", "unregistered"}]
        /\ session'[s] = "starting" /\ \A t \in Sessions : t # s => session'[t] = session[t]
    BY <1>1 DEF StartExecution, ContainersTyped
  <1>5. UNCHANGED <<executions, box, daemon, generation, intent, held, pending, starts, runtimes,
                    observers, expiring, robbed, late, admission, recovery>>
    BY DEF StartExecution, durables, slots, memory, startup
  <1>6. ContainersTyped' /\ SlotsFit' /\ WalkTyped'
    BY <1>1, <1>2, <1>3, <1>4, <1>5 DEF ContainersTyped, SlotsFit, WalkTyped
  <1>7. OthersKept(s) /\ StartsAdmitted(s)
    BY <1>2, <1>3, <1>4, <1>5 DEF OthersKept, StartsAdmitted
  <1>8. Recorded(s)'
    BY <1>1, <1>2, <1>4, <1>5 DEF Recorded, Preparing
  <1>9. Slotted(s)'
    <2>1. \A r \in runtimes : r.s = s => r.try \in Nat /\ r.try < tries'[s]
      BY <1>1, <1>3 DEF Slotted, ContainersTyped, Runtimes
    <2> QED
      BY <1>1, <1>2, <1>3, <1>5, <2>1 DEF Slotted, Preparing, ContainersTyped
  <1> QED
    BY <1>6, <1>7, <1>8, <1>9, OneSession

(* A start that is refused at the check changes no record.                  *)
LEMMA CheckRefusedKept ==
    ASSUME ContainersInv, NEW s \in Sessions, CheckRefused(s)
    PROVE  ContainersInv'
  <1>1. ContainersTyped /\ SlotsFit /\ WalkTyped /\ Recorded(s) /\ Slotted(s)
    BY DEF ContainersInv
  <1>2. /\ operation' \in [Sessions -> Operations] /\ operation'[s] = "idle"
        /\ \A t \in Sessions : t # s => operation'[t] = operation[t]
    BY <1>1, GoesKept DEF CheckRefused, Operations
  <1>3. /\ session' \in [Sessions -> {"new", "starting", "live", "ended", "unregistered"}]
        /\ session'[s] # "live" /\ \A t \in Sessions : t # s => session'[t] = session[t]
    BY <1>1 DEF CheckRefused, Restored, ContainersTyped
  <1>4. UNCHANGED <<executions, box, daemon, generation, tries, intent, held, pending, starts,
                    runtimes, observers, expiring, robbed, late, admission, recovery>>
    BY DEF CheckRefused, durables, slots, memory, startup
  <1>5. ContainersTyped' /\ SlotsFit' /\ WalkTyped'
    BY <1>1, <1>2, <1>3, <1>4 DEF ContainersTyped, SlotsFit, WalkTyped
  <1>6. OthersKept(s) /\ StartsAdmitted(s)
    BY <1>2, <1>3, <1>4 DEF OthersKept, StartsAdmitted
  <1>7. Recorded(s)' /\ Slotted(s)'
    BY <1>1, <1>2, <1>3, <1>4 DEF Recorded, Slotted, Preparing
  <1> QED
    BY <1>5, <1>6, <1>7, OneSession

(* A start is prepared when the previous container is known not to run.    *)
LEMMA PutIntentKept ==
    ASSUME ContainersInv, NEW s \in Sessions, PutIntent(s)
    PROVE  ContainersInv'
  <1> DEFINE record == [phase |-> "preparing", generation |-> generation[s] + 1, deadline |-> "none",
                        timedOut |-> FALSE, cleanupFailed |-> FALSE, manifest |-> FALSE]
             next == IF admission /\ s \notin aborted THEN "reserve" ELSE "failing"
  <1>1. ContainersTyped /\ SlotsFit /\ WalkTyped /\ Recorded(s) /\ Slotted(s)
    BY DEF ContainersInv
  <1>2. record \in ExecutionRecords /\ record.phase = "preparing"
    BY <1>1 DEF ExecutionRecords, ContainersTyped
  <1>3. /\ executions' \in [Sessions -> MaybeRecords] /\ executions'[s] = record
        /\ \A t \in Sessions : t # s => executions'[t] = executions[t]
    <2>1. Put(s, record)
      BY DEF PutIntent
    <2> HIDE DEF record
    <2> QED
      BY <1>1, <1>2, <2>1, PutKept
  <1>4. /\ operation' \in [Sessions -> Operations] /\ operation'[s] = next
        /\ \A t \in Sessions : t # s => operation'[t] = operation[t]
    <2>1. Goes(s, next) /\ next \in Operations
      BY DEF PutIntent, Operations
    <2> QED
      BY <1>1, <2>1, GoesKept
  <1>5. /\ intent' \in [Sessions -> MaybeRecords] /\ intent'[s] = record
        /\ \A t \in Sessions : t # s => intent'[t] = intent[t]
    <2>1. intent' = [intent EXCEPT ![s] = record]
      BY DEF PutIntent
    <2> HIDE DEF record
    <2> QED
      BY <1>1, <1>2, <2>1 DEF ContainersTyped, MaybeRecords
  <1>6. UNCHANGED <<box, daemon, session, generation, tries, held, pending, starts, runtimes,
                    observers, expiring, robbed, late, admission, recovery>>
    BY DEF PutIntent, slots, memory, startup
  <1>7. operation[s] = "check" /\ (admission => box[s] # "running")
    <2>1. operation[s] = "check" /\ ~(executions[s] # Nothing /\ admission /\ Refuses(s))
      BY DEF PutIntent, At
    <2> QED
      BY <1>1, <2>1, ContainersAssumption DEF Refuses, Recorded
  <1> HIDE DEF record
  <1>8. ContainersTyped' /\ SlotsFit' /\ WalkTyped'
    BY <1>1, <1>3, <1>4, <1>5, <1>6 DEF ContainersTyped, SlotsFit, WalkTyped
  <1>9. OthersKept(s) /\ StartsAdmitted(s)
    BY <1>3, <1>4, <1>5, <1>6 DEF OthersKept, StartsAdmitted
  <1>10. Recorded(s)'
    BY <1>1, <1>2, <1>3, <1>5, <1>6 DEF Recorded
  <1>11. Slotted(s)'
    BY <1>1, <1>4, <1>6, <1>7 DEF Slotted, Preparing
  <1> QED
    BY <1>8, <1>9, <1>10, <1>11, OneSession

(* A slot is taken while one is free; else the session waits.               *)
LEMMA ReserveSlotKept ==
    ASSUME ContainersInv, NEW s \in Sessions, ReserveSlot(s)
    PROVE  ContainersInv'
  <1> DEFINE next == DrainSlots(held, Append(pending, s))
  <1>1. ContainersTyped /\ SlotsFit /\ WalkTyped /\ Recorded(s) /\ Slotted(s)
    BY DEF ContainersInv
  <1>2. /\ operation' \in [Sessions -> Operations] /\ operation'[s] \in {"queued", "failing"}
        /\ operation'[s] = "queued" => s \notin held
        /\ \A t \in Sessions : t # s => operation'[t] = operation[t]
    <2>1. (s \notin held /\ Goes(s, "queued")) \/ Goes(s, "failing")
      BY DEF ReserveSlot
    <2> QED
      BY <1>1, <2>1, GoesKept DEF Operations
  <1>3. SlotsFit' /\ held \subseteq held'
    <2>1. Append(pending, s) \in Seq(Sessions)
      BY <1>1 DEF SlotsFit
    <2>2. /\ next.held \subseteq Sessions /\ IsFiniteSet(next.held) /\ Cardinality(next.held) <= Slots
          /\ held \subseteq next.held /\ next.pending \in Seq(Sessions)
      BY <1>1, <2>1, DrainFits DEF SlotsFit
    <2>3. (held' = next.held /\ pending' = next.pending) \/ UNCHANGED <<held, pending>>
      BY DEF ReserveSlot, SetSlots, slots
    <2> HIDE DEF next
    <2> QED
      BY <1>1, <2>2, <2>3 DEF SlotsFit
  <1>4. UNCHANGED <<executions, box, daemon, session, generation, tries, intent, runtimes,
                    observers, expiring, robbed, late, starts, admission, recovery>>
    BY DEF ReserveSlot, durables, slots, memory, startup
  <1>5. operation[s] = "reserve"
    BY DEF ReserveSlot, At
  <1> HIDE DEF next
  <1>6. ContainersTyped' /\ WalkTyped'
    BY <1>1, <1>2, <1>4 DEF ContainersTyped, WalkTyped
  <1>7. OthersKept(s) /\ StartsAdmitted(s)
    BY <1>2, <1>3, <1>4 DEF OthersKept, StartsAdmitted
  <1>8. Recorded(s)'
    BY <1>1, <1>2, <1>4, <1>5 DEF Recorded, Preparing
  <1>9. Slotted(s)'
    BY <1>1, <1>2, <1>3, <1>4, <1>5 DEF Slotted, Preparing
  <1> QED
    BY <1>3, <1>6, <1>7, <1>8, <1>9, OneSession

(* The slot is in hand when the container is created.                      *)
LEMMA CreateContainerKept ==
    ASSUME ContainersInv, NEW s \in Sessions, CreateContainer(s)
    PROVE  ContainersInv'
  <1>1. ContainersTyped /\ SlotsFit /\ WalkTyped /\ Recorded(s) /\ Slotted(s)
    BY DEF ContainersInv
  <1>2. operation[s] = "queued" /\ s \in held
    BY DEF CreateContainer, At
  <1>3. UNCHANGED <<daemon, session, generation, tries, runtimes, observers, expiring, robbed,
                    late, admission, recovery>>
    BY DEF CreateContainer, memory, startup
  <1>4. /\ box' \in [Sessions -> Boxes] /\ (box'[s] = "running" <=> box[s] = "running")
        /\ \A t \in Sessions : t # s => box'[t] = box[t]
    BY <1>1 DEF CreateContainer, ContainersTyped, Boxes
  <1>5. CASE Goes(s, "ready")
    <2>1. /\ intent' = [intent EXCEPT ![s].phase = "ready"] /\ UNCHANGED <<held, pending, starts>>
          /\ Put(s, [intent[s] EXCEPT !.phase = "ready"])
      BY <1>1, <1>2, <1>5 DEF CreateContainer, Goes, slots, ContainersTyped
    <2>2. PICK r \in ExecutionRecords : r = intent[s]
      BY <1>1, <1>2 DEF Recorded
    <2>3. PICK q \in ExecutionRecords : q = [r EXCEPT !.phase = "ready"] /\ q.phase = "ready"
      <3>1. [r EXCEPT !.phase = "ready"] \in ExecutionRecords /\ [r EXCEPT !.phase = "ready"].phase = "ready"
        BY DEF ExecutionRecords
      <3> QED
        BY <3>1
    <2>4. /\ intent' \in [Sessions -> MaybeRecords] /\ intent'[s] = q
          /\ \A t \in Sessions : t # s => intent'[t] = intent[t]
      BY <1>1, <2>1, <2>2, <2>3 DEF ContainersTyped, MaybeRecords
    <2>5. /\ executions' \in [Sessions -> MaybeRecords] /\ executions'[s] = q
          /\ \A t \in Sessions : t # s => executions'[t] = executions[t]
      BY <1>1, <2>1, <2>2, <2>3, PutKept
    <2>6. /\ operation' \in [Sessions -> Operations] /\ operation'[s] = "ready"
          /\ \A t \in Sessions : t # s => operation'[t] = operation[t]
      BY <1>1, <1>5, GoesKept DEF Operations
    <2>7. ContainersTyped' /\ SlotsFit' /\ WalkTyped'
      BY <1>1, <1>3, <1>4, <2>1, <2>4, <2>5, <2>6 DEF ContainersTyped, SlotsFit, WalkTyped
    <2>8. OthersKept(s) /\ StartsAdmitted(s)
      BY <1>3, <1>4, <2>1, <2>4, <2>5, <2>6 DEF OthersKept, StartsAdmitted
    <2>9. Recorded(s)'
      BY <1>1, <1>3, <1>4, <2>3, <2>4, <2>5 DEF Recorded
    <2>10. Slotted(s)'
      BY <1>1, <1>2, <1>3, <1>4, <2>1, <2>6 DEF Slotted, Preparing
    <2> QED
      BY <2>7, <2>8, <2>9, <2>10, OneSession
  <1>6. CASE Goes(s, "failing")
    <2>1. GiveBack(s, SlotsReleased(s)) /\ UNCHANGED <<executions, intent>>
      BY <1>1, <1>2, <1>6 DEF CreateContainer, Goes, ContainersTyped
    <2>2. /\ SlotsFit' /\ \A t \in Sessions : t # s /\ t \in held => t \in held'
          /\ starts' \subseteq Commands
          /\ \A e \in starts' : (e.s = s => e.late) /\ (e.s # s => e \in starts)
      BY <2>1, ReleaseKept
    <2>3. /\ operation' \in [Sessions -> Operations] /\ operation'[s] = "failing"
          /\ \A t \in Sessions : t # s => operation'[t] = operation[t]
      BY <1>1, <1>6, GoesKept DEF Operations
    <2>4. ContainersTyped' /\ WalkTyped'
      BY <1>1, <1>3, <1>4, <2>1, <2>2, <2>3 DEF ContainersTyped, WalkTyped
    <2>5. OthersKept(s) /\ StartsAdmitted(s)
      BY <1>3, <1>4, <2>1, <2>2, <2>3 DEF OthersKept, StartsAdmitted
    <2>6. Recorded(s)'
      BY <1>1, <1>2, <1>3, <1>4, <2>1, <2>3 DEF Recorded, Preparing
    <2>7. Slotted(s)'
      BY <1>1, <1>2, <1>3, <1>4, <2>2, <2>3 DEF Slotted, Preparing
    <2> QED
      BY <2>2, <2>4, <2>5, <2>6, <2>7, OneSession
  <1> QED
    BY <1>5, <1>6 DEF CreateContainer

(* A start sends its command from a slot that is its session's, or was     *)
(* given back.                                                             *)
LEMMA RunGuestKept ==
    ASSUME ContainersInv, NEW s \in Sessions, RunGuest(s)
    PROVE  ContainersInv'
  <1>1. ContainersTyped /\ SlotsFit /\ WalkTyped /\ Recorded(s) /\ Slotted(s)
    BY DEF ContainersInv
  <1>2. operation[s] = "ready" /\ s \in held \cup robbed /\ admission /\ executions[s] \in ExecutionRecords
        /\ intent[s] \in ExecutionRecords
    BY <1>1 DEF RunGuest, At, Slotted, Recorded, Preparing
  <1>3. UNCHANGED <<executions, box, daemon, session, generation, tries, intent, held, pending,
                    observers, expiring, robbed, late, admission, recovery>>
    BY DEF RunGuest, durables, startup
  <1>4. PICK c \in Commands : starts' = starts \cup {c} /\ c.s = s
    <2> DEFINE c == [s |-> s, try |-> tries[s], late |-> FALSE]
    <2>1. c \in Commands /\ c.s = s
      BY <1>1 DEF Commands, ContainersTyped
    <2> QED
      BY <2>1 DEF RunGuest
  <1>5. /\ operation' \in [Sessions -> Operations] /\ operation'[s] \in {"started", "failing"}
        /\ \A t \in Sessions : t # s => operation'[t] = operation[t]
    <2>1. Goes(s, "started") \/ Goes(s, "failing")
      BY DEF RunGuest
    <2> QED
      BY <1>1, <2>1, GoesKept DEF Operations
  <1>6. runtimes' \subseteq runtimes \cup {Runtime(s, "attached")}
    BY DEF RunGuest
  <1>7. /\ Runtime(s, "attached") \in Runtimes
        /\ Runtime(s, "attached").s = s /\ Runtime(s, "attached").try = tries[s]
    BY <1>1, <1>2 DEF Runtime, Runtimes, ContainersTyped, ExecutionRecords
  <1>8. ContainersTyped' /\ SlotsFit' /\ WalkTyped'
    BY <1>1, <1>3, <1>4, <1>5, <1>6, <1>7 DEF ContainersTyped, SlotsFit, WalkTyped
  <1>9. OthersKept(s) /\ StartsAdmitted(s)
    BY <1>2, <1>3, <1>4, <1>5, <1>6, <1>7 DEF OthersKept, StartsAdmitted
  <1>10. Recorded(s)'
    BY <1>1, <1>2, <1>3 DEF Recorded, Preparing
  <1>11. Slotted(s)'
    <2>1. \A r \in runtimes' : r.s = s => r.try <= tries[s]
      <3>1. tries[s] <= tries[s]
        BY <1>1 DEF ContainersTyped
      <3> QED
        BY <1>1, <1>6, <1>7, <3>1 DEF Slotted
    <2>2. \A e \in starts' : e.s = s /\ ~e.late => admission /\ s \in held \cup robbed
      BY <1>1, <1>2, <1>4 DEF Slotted
    <2> QED
      BY <1>1, <1>2, <1>3, <1>5, <2>1, <2>2 DEF Slotted, Preparing
  <1> QED
    BY <1>8, <1>9, <1>10, <1>11, OneSession

(* A guest that a command starts runs in the slot of its session, or late.  *)
LEMMA GuestStartsKept ==
    ASSUME ContainersInv, NEW e \in starts, GuestStarts(e)
    PROVE  ContainersInv'
  <1>1. ContainersTyped /\ SlotsFit /\ WalkTyped
    BY DEF ContainersInv
  <1>2. PICK s \in Sessions : s = e.s
    BY <1>1 DEF ContainersTyped, Commands
  <1>3. Recorded(s) /\ Slotted(s)
    BY DEF ContainersInv
  <1>4. box[s] \in {"created", "exited"}
    BY <1>2 DEF GuestStarts
  <1>5. /\ box' \in [Sessions -> Boxes] /\ \A t \in Sessions : t # s => box'[t] = box[t]
    BY <1>1, <1>2 DEF GuestStarts, ContainersTyped, Boxes
  <1>6. /\ starts' \subseteq starts
        /\ \A t \in Sessions : t # s => (t \in late => t \in late')
        /\ e.late => s \in late'
    BY <1>2 DEF GuestStarts
  <1>7. UNCHANGED <<executions, daemon, session, generation, tries, operation, intent, held, pending,
                    runtimes, observers, expiring, robbed, admission, recovery>>
    BY DEF GuestStarts, durables, startup
  <1>8. ~e.late => admission /\ s \in held \cup robbed /\ (operation[s] = "queued" => s \in robbed)
    BY <1>2, <1>3 DEF Slotted
  <1>9. ContainersTyped' /\ SlotsFit' /\ WalkTyped'
    BY <1>1, <1>5, <1>6, <1>7 DEF ContainersTyped, SlotsFit, WalkTyped
  <1>10. OthersKept(s)
    BY <1>5, <1>6, <1>7 DEF OthersKept
  <1>11. StartsAdmitted(s)
    BY <1>6, <1>8 DEF StartsAdmitted
  <1>12. Recorded(s)'
    BY <1>3, <1>4, <1>7 DEF Recorded
  <1>13. Slotted(s)'
    BY <1>3, <1>4, <1>6, <1>7, <1>8 DEF Slotted
  <1> QED
    BY <1>9, <1>10, <1>11, <1>12, <1>13, OneSession

(* A command that is lost starts no guest.                                 *)
LEMMA StartLostKept ==
    ASSUME ContainersInv, NEW e \in starts, StartLost(e)
    PROVE  ContainersInv'
  <1>1. /\ starts' \subseteq starts
        /\ UNCHANGED <<executions, box, daemon, session, generation, tries, operation, intent, held,
                       pending, runtimes, observers, expiring, robbed, late, admission, recovery>>
    BY DEF StartLost, durables, memory, startup
  <1>2. ContainersTyped' /\ SlotsFit' /\ WalkTyped' /\ PassTyped' /\ Visited'
    BY <1>1 DEF ContainersInv, ContainersTyped, SlotsFit, WalkTyped, PassTyped, Visited
  <1>3. ASSUME NEW s \in Sessions PROVE Recorded(s)' /\ Slotted(s)'
    BY <1>1 DEF ContainersInv, Recorded, Slotted
  <1> QED
    BY <1>2, <1>3 DEF ContainersInv

(* The record says running only of a guest that was started.                *)
LEMMA PutRunningKept ==
    ASSUME ContainersInv, NEW s \in Sessions, PutRunning(s)
    PROVE  ContainersInv'
  <1>1. ContainersTyped /\ SlotsFit /\ WalkTyped /\ Recorded(s) /\ Slotted(s)
    BY DEF ContainersInv
  <1>2. operation[s] = "started" /\ executions[s] \in ExecutionRecords
    BY <1>1 DEF PutRunning, At, Recorded
  <1>3. UNCHANGED <<box, daemon, tries, intent, held, pending, starts, runtimes, observers,
                    expiring, robbed, late, admission, recovery>>
    BY DEF PutRunning, slots, memory, startup
  <1>4. /\ operation' \in [Sessions -> Operations] /\ operation'[s] \in {"failing", "idle"}
        /\ \A t \in Sessions : t # s => operation'[t] = operation[t]
    <2>1. Goes(s, "failing") \/ Goes(s, "idle")
      BY DEF PutRunning
    <2> QED
      BY <1>1, <2>1, GoesKept DEF Operations
  <1>5. PICK r \in ExecutionRecords : r = intent[s]
    BY <1>1, <1>2 DEF Recorded
  <1>6. PICK q \in ExecutionRecords : q = [r EXCEPT !.phase = "running", !.deadline = "ahead"] /\ q.phase = "running"
    <2>1. /\ [r EXCEPT !.phase = "running", !.deadline = "ahead"] \in ExecutionRecords
          /\ [r EXCEPT !.phase = "running", !.deadline = "ahead"].phase = "running"
      BY DEF ExecutionRecords
    <2> QED
      BY <2>1
  <1>7. /\ executions' \in [Sessions -> MaybeRecords] /\ executions'[s] \in ExecutionRecords
        /\ executions'[s].phase = "running" \/ executions'[s] = executions[s]
        /\ \A t \in Sessions : t # s => executions'[t] = executions[t]
    <2>1. Put(s, q) \/ executions' = executions
      BY <1>5, <1>6 DEF PutRunning
    <2> QED
      BY <1>1, <1>2, <1>6, <2>1, PutKept DEF ContainersTyped
  <1>8. /\ session' \in [Sessions -> {"new", "starting", "live", "ended", "unregistered"}]
        /\ \A t \in Sessions : t # s => session'[t] = session[t]
    BY <1>1 DEF PutRunning, ContainersTyped
  <1>9. generation' \in [Sessions -> Nat]
    <2>1. r.generation \in Nat
      BY DEF ExecutionRecords
    <2> QED
      BY <1>1, <1>5, <2>1 DEF PutRunning, ContainersTyped
  <1>10. ContainersTyped' /\ SlotsFit' /\ WalkTyped'
    BY <1>1, <1>3, <1>4, <1>7, <1>8, <1>9 DEF ContainersTyped, SlotsFit, WalkTyped
  <1>11. OthersKept(s) /\ StartsAdmitted(s)
    BY <1>3, <1>4, <1>7, <1>8 DEF OthersKept, StartsAdmitted
  <1>12. Recorded(s)'
    BY <1>1, <1>3, <1>4, <1>5, <1>7 DEF Recorded, Preparing
  <1>13. Slotted(s)'
    BY <1>1, <1>3, <1>4 DEF Slotted, Preparing
  <1> QED
    BY <1>10, <1>11, <1>12, <1>13, OneSession

(* Most operations end, or go on, with a put, after the guest was stopped  *)
(* and its slot given back or with neither done.                           *)
StopsOrNot(s) ==
    \/ box' = Quieted(s) /\ GiveBack(s, SlotsReleased(s))
    \/ UNCHANGED <<box, held, pending, starts>>

(* A put of a session in hand, followed by what is done for it next.        *)
LEMMA PutAndGo ==
    ASSUME ContainersInv, NEW s \in Sessions,
           NEW q \in ExecutionRecords, q.phase # "destroyed", Put(s, q),
           NEW where \in Operations \ (Preparing \cup {"check", "removed"}), Goes(s, where),
           intent' \in [Sessions -> MaybeRecords], \A t \in Sessions : t # s => intent'[t] = intent[t],
           where \in {"idle", "expiring"} \/ intent'[s] \in ExecutionRecords,
           session' \in [Sessions -> {"new", "starting", "live", "ended", "unregistered"}],
           \A t \in Sessions : t # s => session'[t] = session[t],
           StopsOrNot(s), WalkTyped',
           UNCHANGED <<daemon, generation, tries, runtimes, observers, robbed, late, admission,
                       recovery>>
    PROVE  ContainersInv'
  <1>1. ContainersTyped /\ SlotsFit /\ Recorded(s) /\ Slotted(s)
    BY DEF ContainersInv
  <1>2. /\ operation' \in [Sessions -> Operations] /\ operation'[s] = where
        /\ \A t \in Sessions : t # s => operation'[t] = operation[t]
    BY <1>1, GoesKept
  <1>3. /\ executions' \in [Sessions -> MaybeRecords] /\ executions'[s] = q
        /\ \A t \in Sessions : t # s => executions'[t] = executions[t]
    BY <1>1, PutKept
  <1>4. /\ box' \in [Sessions -> Boxes]
        /\ box'[s] = "running" => box[s] = "running" /\ UNCHANGED <<held, pending>>
        /\ box'[s] = "absent" <=> box[s] = "absent"
        /\ \A t \in Sessions : t # s => box'[t] = box[t]
    BY <1>1, QuietedKept DEF StopsOrNot, ContainersTyped
  <1>5. /\ SlotsFit' /\ \A t \in Sessions : t # s /\ t \in held => t \in held'
        /\ starts' \subseteq Commands /\ \A e \in starts' : e.s # s => e \in starts
        /\ \A e \in starts' : e.s = s => e.late \/ (e \in starts /\ UNCHANGED held)
    <2>1. CASE GiveBack(s, SlotsReleased(s))
      BY <2>1, ReleaseKept
    <2>2. CASE UNCHANGED <<held, pending, starts>>
      BY <1>1, <2>2 DEF SlotsFit, ContainersTyped
    <2> QED
      BY <2>1, <2>2 DEF StopsOrNot
  <1>6. ContainersTyped'
    BY <1>1, <1>2, <1>3, <1>4, <1>5 DEF ContainersTyped
  <1>7. OthersKept(s) /\ StartsAdmitted(s)
    BY <1>2, <1>3, <1>4, <1>5 DEF OthersKept, StartsAdmitted
  <1>8. Recorded(s)'
    BY <1>2, <1>3 DEF Recorded
  <1>9. Slotted(s)'
    BY <1>1, <1>2, <1>4, <1>5 DEF Slotted, Preparing
  <1> QED
    BY <1>5, <1>6, <1>7, <1>8, <1>9, OneSession

(* A start that fails stops its guest and gives the slot back.             *)
LEMMA StartFailsKept ==
    ASSUME ContainersInv, NEW s \in Sessions, StartFails(s)
    PROVE  ContainersInv'
  <1>1. ContainersTyped /\ WalkTyped /\ Recorded(s)
    BY DEF ContainersInv
  <1>2. PICK r \in ExecutionRecords : r = intent[s]
    BY <1>1 DEF StartFails, At, Recorded
  <1>3. PICK q \in ExecutionRecords :
          q = [r EXCEPT !.phase = "failed", !.cleanupFailed = admission /\ ~daemon] /\ q.phase = "failed"
    <2>1. PICK b \in BOOLEAN : b = (admission /\ ~daemon)
      OBVIOUS
    <2>2. /\ [r EXCEPT !.phase = "failed", !.cleanupFailed = b] \in ExecutionRecords
          /\ [r EXCEPT !.phase = "failed", !.cleanupFailed = b].phase = "failed"
      BY DEF ExecutionRecords
    <2> QED
      BY <2>1, <2>2
  <1>4. /\ session' \in [Sessions -> {"new", "starting", "live", "ended", "unregistered"}]
        /\ \A t \in Sessions : t # s => session'[t] = session[t]
    BY <1>1 DEF StartFails, Restored, ContainersTyped
  <1>5. /\ UNCHANGED <<daemon, generation, tries, intent, runtimes, observers, robbed, late,
                       admission, recovery>>
        /\ WalkTyped' /\ StopsOrNot(s) /\ Goes(s, "idle") /\ Put(s, q)
    BY <1>1, <1>2, <1>3 DEF StartFails, memory, startup, WalkTyped, StopsOrNot, StopGuest, slots
  <1>6. "idle" \in Operations \ (Preparing \cup {"check", "removed"})
    BY DEF Operations, Preparing
  <1> QED
    BY <1>1, <1>3, <1>4, <1>5, <1>6, PutAndGo DEF ContainersTyped

(* A start that is cancelled in the queue leaves it and runs no guest.      *)
LEMMA CancelStartKept ==
    ASSUME ContainersInv, NEW s \in Sessions, CancelStart(s)
    PROVE  ContainersInv'
  <1>1. ContainersTyped /\ SlotsFit /\ WalkTyped /\ Recorded(s) /\ Slotted(s)
    BY DEF ContainersInv
  <1>2. UNCHANGED <<executions, box, daemon, session, generation, tries, intent, held, runtimes,
                    starts, observers, expiring, robbed, late, admission, recovery>>
    BY DEF CancelStart, durables, memory, startup
  <1>3. session[s] = "starting" /\ operation[s] \in {"check", "reserve", "queued", "ready", "started"}
    BY DEF CancelStart
  <1>4. CASE UNCHANGED <<pending, operation>>
    <2>1. ContainersTyped' /\ SlotsFit' /\ WalkTyped' /\ Recorded(s)' /\ Slotted(s)'
      BY <1>1, <1>2, <1>4 DEF ContainersTyped, SlotsFit, WalkTyped, Recorded, Slotted
    <2>2. OthersKept(s) /\ StartsAdmitted(s)
      BY <1>2, <1>4 DEF OthersKept, StartsAdmitted
    <2> QED
      BY <2>1, <2>2, OneSession
  <1>5. CASE /\ operation[s] = "queued" /\ Goes(s, "failing")
             /\ \E i \in DOMAIN pending : pending[i] = s /\ pending' = RemoveAt(pending, i)
    <2>1. PICK i \in DOMAIN pending : pending[i] = s /\ pending' = RemoveAt(pending, i)
      BY <1>5
    <2>2. pending' \in Seq(Sessions)
      <3>1. pending \in Seq(Sessions) /\ i \in 1 .. Len(pending)
        BY <1>1 DEF SlotsFit
      <3>2. SubSeq(pending, 1, i - 1) \in Seq(Sessions) /\ SubSeq(pending, i + 1, Len(pending)) \in Seq(Sessions)
        BY <3>1
      <3> QED
        BY <2>1, <3>2 DEF RemoveAt
    <2>3. /\ operation' \in [Sessions -> Operations] /\ operation'[s] = "failing"
          /\ \A t \in Sessions : t # s => operation'[t] = operation[t]
      BY <1>1, <1>5, GoesKept DEF Operations
    <2>4. ContainersTyped' /\ SlotsFit' /\ WalkTyped'
      BY <1>1, <1>2, <2>2, <2>3 DEF ContainersTyped, SlotsFit, WalkTyped
    <2>5. OthersKept(s) /\ StartsAdmitted(s)
      BY <1>2, <2>3 DEF OthersKept, StartsAdmitted
    <2>6. Recorded(s)'
      BY <1>1, <1>2, <1>3, <1>5, <2>3 DEF Recorded, Preparing
    <2>7. Slotted(s)'
      BY <1>1, <1>2, <2>3 DEF Slotted, Preparing
    <2> QED
      BY <2>4, <2>5, <2>6, <2>7, OneSession
  <1> QED
    BY <1>4, <1>5 DEF CancelStart, At

(* A guest that ends by itself moves no slot.                               *)
LEMMA GuestExitsKept ==
    ASSUME ContainersInv, NEW s \in Sessions, GuestExits(s)
    PROVE  ContainersInv'
  <1>1. ContainersTyped /\ SlotsFit /\ WalkTyped /\ Recorded(s) /\ Slotted(s)
    BY DEF ContainersInv
  <1>2. /\ box' \in [Sessions -> Boxes] /\ box'[s] = "exited" /\ box[s] = "running"
        /\ \A t \in Sessions : t # s => box'[t] = box[t]
    BY <1>1 DEF GuestExits, ContainersTyped, Boxes
  <1>3. UNCHANGED <<executions, daemon, session, generation, tries, operation, intent, held,
                    pending, starts, runtimes, observers, expiring, robbed, late, admission,
                    recovery>>
    BY DEF GuestExits, durables, slots, memory, startup
  <1>4. ContainersTyped' /\ SlotsFit' /\ WalkTyped'
    BY <1>1, <1>2, <1>3 DEF ContainersTyped, SlotsFit, WalkTyped
  <1>5. OthersKept(s) /\ StartsAdmitted(s)
    BY <1>2, <1>3 DEF OthersKept, StartsAdmitted
  <1>6. Recorded(s)'
    BY <1>1, <1>2, <1>3 DEF Recorded
  <1>7. Slotted(s)'
    BY <1>1, <1>2, <1>3 DEF Slotted
  <1> QED
    BY <1>4, <1>5, <1>6, <1>7, OneSession

(* Or nothing but the record changes, and perhaps an observer is done.     *)
LEMMA PutOnly ==
    ASSUME ContainersInv, NEW s \in Sessions,
           NEW q \in ExecutionRecords, q.phase # "destroyed", Put(s, q), observers' \subseteq observers,
           UNCHANGED <<box, daemon, session, generation, tries, operation, intent, held, pending,
                       starts, runtimes, expiring, robbed, late, admission, recovery>>
    PROVE  ContainersInv'
  <1>1. ContainersTyped /\ SlotsFit /\ WalkTyped /\ Recorded(s) /\ Slotted(s)
    BY DEF ContainersInv
  <1>2. /\ executions' \in [Sessions -> MaybeRecords] /\ executions'[s] = q
        /\ \A t \in Sessions : t # s => executions'[t] = executions[t]
    BY <1>1, PutKept
  <1>3. ContainersTyped' /\ SlotsFit' /\ WalkTyped'
    BY <1>1, <1>2 DEF ContainersTyped, SlotsFit, WalkTyped
  <1>4. OthersKept(s) /\ StartsAdmitted(s)
    BY <1>2 DEF OthersKept, StartsAdmitted
  <1>5. Recorded(s)'
    BY <1>1, <1>2 DEF Recorded
  <1>6. Slotted(s)'
    BY <1>1 DEF Slotted
  <1> QED
    BY <1>3, <1>4, <1>5, <1>6, OneSession

(* A deadline is about the record of its own session.                       *)
LEMMA DeadlineKept ==
    ASSUME ContainersInv, NEW s \in Sessions, DeadlinePasses(s) \/ RenewAttempt(s)
    PROVE  ContainersInv'
  <1>1. ContainersTyped /\ Recorded(s)
    BY DEF ContainersInv
  <1>2. PICK r \in ExecutionRecords : r = executions[s] /\ r.phase = "running"
    BY <1>1 DEF DeadlinePasses, RenewAttempt, Recorded, ContainersTyped, MaybeRecords
  <1>3. PICK d \in {"passed", "ahead"} : Put(s, [r EXCEPT !.deadline = d])
    BY <1>2 DEF DeadlinePasses, RenewAttempt
  <1>4. [r EXCEPT !.deadline = d] \in ExecutionRecords /\ [r EXCEPT !.deadline = d].phase # "destroyed"
    BY <1>2 DEF ExecutionRecords
  <1>5. UNCHANGED <<box, daemon, session, generation, tries, operation, intent, held, pending,
                    starts, runtimes, observers, expiring, robbed, late, admission, recovery>>
    BY DEF DeadlinePasses, RenewAttempt, slots, memory, startup
  <1> QED
    BY <1>3, <1>4, <1>5, PutOnly

(* An observer records a stop only in a record of its own generation.       *)
LEMMA ObserveKept ==
    ASSUME ContainersInv, NEW o \in observers, Observe(o)
    PROVE  ContainersInv'
  <1>1. ContainersTyped /\ SlotsFit /\ WalkTyped
    BY DEF ContainersInv
  <1>2. PICK s \in Sessions : s = o.s
    BY <1>1 DEF ContainersTyped, Observers
  <1>3. PICK r \in ExecutionRecords : r = executions[s]
    BY <1>2 DEF ContainersInv, Recorded
  <1>4. /\ observers' \subseteq observers
        /\ UNCHANGED <<box, daemon, session, generation, tries, operation, intent, held, pending,
                       starts, runtimes, expiring, robbed, late, admission, recovery>>
    BY DEF Observe, slots, startup
  <1>5. CASE UNCHANGED executions
    <2>1. Recorded(s) /\ Slotted(s)
      BY DEF ContainersInv
    <2>2. ContainersTyped' /\ SlotsFit' /\ WalkTyped'
      BY <1>1, <1>4, <1>5 DEF ContainersTyped, SlotsFit, WalkTyped
    <2>3. OthersKept(s) /\ StartsAdmitted(s) /\ Recorded(s)' /\ Slotted(s)'
      BY <1>4, <1>5, <2>1 DEF OthersKept, StartsAdmitted, Recorded, Slotted
    <2> QED
      BY <2>2, <2>3, OneSession
  <1>6. CASE Put(s, [r EXCEPT !.phase = "stopped"])
    <2>1. /\ [r EXCEPT !.phase = "stopped"] \in ExecutionRecords
          /\ [r EXCEPT !.phase = "stopped"].phase # "destroyed"
      BY DEF ExecutionRecords
    <2> QED
      BY <1>4, <1>6, <2>1, PutOnly
  <1> QED
    BY <1>2, <1>3, <1>5, <1>6 DEF Observe

(* A retirement keeps a copy of the record it goes on with.                 *)
LEMMA RetireKept ==
    ASSUME ContainersInv, NEW s \in Sessions, Retire(s)
    PROVE  ContainersInv'
  <1>1. ContainersTyped /\ WalkTyped /\ Recorded(s)
    BY DEF ContainersInv
  <1>2. PICK r \in ExecutionRecords : r = executions[s]
    BY <1>1 DEF Retire, ContainersTyped, MaybeRecords
  <1>3. PICK q \in ExecutionRecords :
          /\ q = [r EXCEPT !.phase = IF admission THEN "stopping" ELSE "failed",
                           !.cleanupFailed = @ \/ ~admission]
          /\ q.phase # "destroyed"
    <2>1. PICK p \in {"stopping", "failed"} : p = IF admission THEN "stopping" ELSE "failed"
      OBVIOUS
    <2>2. PICK b \in BOOLEAN : b = (r.cleanupFailed \/ ~admission)
      OBVIOUS
    <2>3. /\ [r EXCEPT !.phase = p, !.cleanupFailed = b] \in ExecutionRecords
          /\ [r EXCEPT !.phase = p, !.cleanupFailed = b].phase # "destroyed"
      BY DEF ExecutionRecords
    <2>4. [r EXCEPT !.phase = IF admission THEN "stopping" ELSE "failed", !.cleanupFailed = @ \/ ~admission]
            = [r EXCEPT !.phase = p, !.cleanupFailed = b]
      BY <2>1, <2>2
    <2> QED
      BY <2>3, <2>4
  <1>4. PICK where \in {"retiring", "idle"} : Goes(s, where)
    BY DEF Retire
  <1>5. intent' = [intent EXCEPT ![s] = q] /\ Put(s, q)
    BY <1>2, <1>3 DEF Retire
  <1>6. /\ intent' \in [Sessions -> MaybeRecords] /\ intent'[s] \in ExecutionRecords
        /\ \A t \in Sessions : t # s => intent'[t] = intent[t]
    BY <1>1, <1>5 DEF ContainersTyped, MaybeRecords
  <1>7. /\ UNCHANGED <<daemon, session, generation, tries, runtimes, observers, robbed, late,
                       admission, recovery>>
        /\ WalkTyped' /\ StopsOrNot(s)
    BY <1>1 DEF Retire, memory, startup, WalkTyped, StopsOrNot, slots
  <1>8. where \in Operations \ (Preparing \cup {"check", "removed"})
    BY DEF Operations, Preparing
  <1> QED
    BY <1>1, <1>3, <1>4, <1>5, <1>6, <1>7, <1>8, PutAndGo DEF ContainersTyped

(* A retirement that fails says so, of the copy it has.                     *)
LEMMA RetireFailsKept ==
    ASSUME ContainersInv, NEW s \in Sessions, RetireFails(s)
    PROVE  ContainersInv'
  <1>1. ContainersTyped /\ WalkTyped /\ Recorded(s)
    BY DEF ContainersInv
  <1>2. PICK r \in ExecutionRecords : r = intent[s]
    BY <1>1 DEF RetireFails, Recorded
  <1>3. PICK q \in ExecutionRecords :
          q = [r EXCEPT !.phase = "failed", !.cleanupFailed = TRUE] /\ q.phase = "failed"
    <2>1. /\ [r EXCEPT !.phase = "failed", !.cleanupFailed = TRUE] \in ExecutionRecords
          /\ [r EXCEPT !.phase = "failed", !.cleanupFailed = TRUE].phase = "failed"
      BY DEF ExecutionRecords
    <2> QED
      BY <2>1
  <1>4. /\ UNCHANGED <<daemon, session, generation, tries, intent, runtimes, observers, robbed,
                       late, admission, recovery>>
        /\ WalkTyped' /\ StopsOrNot(s) /\ Goes(s, "idle") /\ Put(s, q)
    BY <1>1, <1>2, <1>3 DEF RetireFails, memory, startup, WalkTyped, StopsOrNot, slots
  <1>5. "idle" \in Operations \ (Preparing \cup {"check", "removed"})
    BY DEF Operations, Preparing
  <1> QED
    BY <1>1, <1>3, <1>4, <1>5, PutAndGo DEF ContainersTyped

(* The stop of a retirement leaves its guest stopped.                       *)
LEMMA RetireStopsKept ==
    ASSUME ContainersInv, NEW s \in Sessions, RetireStops(s)
    PROVE  ContainersInv'
  <1>1. ContainersTyped /\ WalkTyped /\ Recorded(s)
    BY DEF ContainersInv
  <1>2. PICK r \in ExecutionRecords : r = intent[s]
    BY <1>1 DEF RetireStops, At, Recorded
  <1>3. PICK next \in {"retained", "collecting"} :
          /\ intent' = [intent EXCEPT ![s] = [r EXCEPT !.phase = next]]
          /\ Put(s, [r EXCEPT !.phase = next]) /\ Goes(s, next)
    BY <1>2 DEF RetireStops
  <1>4. PICK q \in ExecutionRecords : q = [r EXCEPT !.phase = next] /\ q.phase # "destroyed"
    <2>1. [r EXCEPT !.phase = next] \in ExecutionRecords /\ [r EXCEPT !.phase = next].phase # "destroyed"
      BY DEF ExecutionRecords
    <2> QED
      BY <2>1
  <1>5. /\ intent' \in [Sessions -> MaybeRecords] /\ intent'[s] \in ExecutionRecords
        /\ \A t \in Sessions : t # s => intent'[t] = intent[t]
    BY <1>1, <1>3, <1>4 DEF ContainersTyped, MaybeRecords
  <1>6. /\ UNCHANGED <<daemon, session, generation, tries, runtimes, observers, robbed, late,
                       admission, recovery>>
        /\ WalkTyped' /\ StopsOrNot(s)
    BY <1>1 DEF RetireStops, memory, startup, WalkTyped, StopsOrNot, StopGuest
  <1>7. next \in Operations \ (Preparing \cup {"check", "removed"})
    BY DEF Operations, Preparing
  <1> QED
    BY <1>1, <1>3, <1>4, <1>5, <1>6, <1>7, PutAndGo DEF ContainersTyped

(* The collection of a stopped container gives nothing out.                 *)
LEMMA CollectKept ==
    ASSUME ContainersInv, NEW s \in Sessions, Collect(s)
    PROVE  ContainersInv'
  <1>1. ContainersTyped /\ WalkTyped /\ Recorded(s)
    BY DEF ContainersInv
  <1>2. PICK r \in ExecutionRecords : r = intent[s]
    BY <1>1 DEF Collect, At, Recorded
  <1>3. PICK q \in ExecutionRecords :
          q = [r EXCEPT !.phase = "retained", !.manifest = TRUE] /\ q.phase = "retained"
    <2>1. /\ [r EXCEPT !.phase = "retained", !.manifest = TRUE] \in ExecutionRecords
          /\ [r EXCEPT !.phase = "retained", !.manifest = TRUE].phase = "retained"
      BY DEF ExecutionRecords
    <2> QED
      BY <2>1
  <1>4. intent' = [intent EXCEPT ![s] = q] /\ Put(s, q) /\ Goes(s, "retained")
    BY <1>2, <1>3 DEF Collect
  <1>5. /\ intent' \in [Sessions -> MaybeRecords] /\ intent'[s] \in ExecutionRecords
        /\ \A t \in Sessions : t # s => intent'[t] = intent[t]
    BY <1>1, <1>4 DEF ContainersTyped, MaybeRecords
  <1>6. /\ UNCHANGED <<daemon, session, generation, tries, runtimes, observers, robbed, late,
                       admission, recovery>>
        /\ WalkTyped' /\ StopsOrNot(s)
    BY <1>1 DEF Collect, memory, startup, WalkTyped, StopsOrNot, slots
  <1>7. "retained" \in Operations \ (Preparing \cup {"check", "removed"})
    BY DEF Operations, Preparing
  <1> QED
    BY <1>1, <1>3, <1>4, <1>5, <1>6, <1>7, PutAndGo DEF ContainersTyped

(* A container is destroyed only when its guest runs no more.               *)
LEMMA DestroyKept ==
    ASSUME ContainersInv, NEW s \in Sessions, Destroy(s)
    PROVE  ContainersInv'
  <1>1. ContainersTyped /\ SlotsFit /\ WalkTyped /\ Recorded(s) /\ Slotted(s)
    BY DEF ContainersInv
  <1>2. operation[s] = "retained"
    BY DEF Destroy, At
  <1>3. /\ box' \in [Sessions -> Boxes] /\ box'[s] = "absent"
        /\ \A t \in Sessions : t # s => box'[t] = box[t]
    BY <1>1 DEF Destroy, ContainersTyped, Boxes
  <1>4. /\ operation' \in [Sessions -> Operations] /\ operation'[s] = "removed"
        /\ \A t \in Sessions : t # s => operation'[t] = operation[t]
    BY <1>1, GoesKept DEF Destroy, Operations
  <1>5. UNCHANGED <<executions, daemon, session, generation, tries, intent, held, pending, starts,
                    runtimes, observers, expiring, robbed, late, admission, recovery>>
    BY DEF Destroy, durables, slots, memory, startup
  <1>6. ContainersTyped' /\ SlotsFit' /\ WalkTyped'
    BY <1>1, <1>3, <1>4, <1>5 DEF ContainersTyped, SlotsFit, WalkTyped
  <1>7. OthersKept(s) /\ StartsAdmitted(s)
    BY <1>3, <1>4, <1>5 DEF OthersKept, StartsAdmitted
  <1>8. Recorded(s)'
    BY <1>1, <1>2, <1>3, <1>4, <1>5 DEF Recorded, Preparing
  <1>9. Slotted(s)'
    BY <1>1, <1>3, <1>4, <1>5 DEF Slotted, Preparing
  <1> QED
    BY <1>6, <1>7, <1>8, <1>9, OneSession

(* What is recorded as destroyed runs no more.                             *)
LEMMA PutDestroyedKept ==
    ASSUME ContainersInv, NEW s \in Sessions, PutDestroyed(s)
    PROVE  ContainersInv'
  <1>1. ContainersTyped /\ SlotsFit /\ WalkTyped /\ Recorded(s) /\ Slotted(s)
    BY DEF ContainersInv
  <1>2. operation[s] = "removed" /\ box[s] = "absent"
    BY <1>1 DEF PutDestroyed, At, Slotted
  <1>3. PICK r \in ExecutionRecords : r = intent[s]
    BY <1>1, <1>2 DEF Recorded
  <1>4. PICK q \in ExecutionRecords : q = [r EXCEPT !.phase = "destroyed", !.cleanupFailed = FALSE]
    <2>1. [r EXCEPT !.phase = "destroyed", !.cleanupFailed = FALSE] \in ExecutionRecords
      BY DEF ExecutionRecords
    <2> QED
      BY <2>1
  <1>5. /\ executions' \in [Sessions -> MaybeRecords] /\ executions'[s] = q
        /\ \A t \in Sessions : t # s => executions'[t] = executions[t]
    <2>1. Put(s, q)
      BY <1>3, <1>4 DEF PutDestroyed
    <2> QED
      BY <1>1, <2>1, PutKept
  <1>6. /\ operation' \in [Sessions -> Operations] /\ operation'[s] = "idle"
        /\ \A t \in Sessions : t # s => operation'[t] = operation[t]
    BY <1>1, GoesKept DEF PutDestroyed, Operations
  <1>7. /\ session' \in [Sessions -> {"new", "starting", "live", "ended", "unregistered"}]
        /\ \A t \in Sessions : t # s => session'[t] = session[t]
    BY <1>1 DEF PutDestroyed, ContainersTyped
  <1>8. UNCHANGED <<box, daemon, generation, tries, intent, held, pending, starts, runtimes,
                    observers, expiring, robbed, late, admission, recovery>>
    BY DEF PutDestroyed, slots, memory, startup
  <1>9. ContainersTyped' /\ SlotsFit' /\ WalkTyped'
    BY <1>1, <1>5, <1>6, <1>7, <1>8 DEF ContainersTyped, SlotsFit, WalkTyped
  <1>10. OthersKept(s) /\ StartsAdmitted(s)
    BY <1>5, <1>6, <1>7, <1>8 DEF OthersKept, StartsAdmitted
  <1>11. Recorded(s)'
    BY <1>2, <1>5, <1>6, <1>8 DEF Recorded, Preparing
  <1>12. Slotted(s)'
    BY <1>1, <1>6, <1>8 DEF Slotted, Preparing
  <1> QED
    BY <1>9, <1>10, <1>11, <1>12, OneSession

(* The end of a runtime is about its own session alone.                     *)
LEMMA FinishRuntimeKept ==
    ASSUME ContainersInv, NEW r \in runtimes, FinishRuntime(r)
    PROVE  ContainersInv'
  <1>1. ContainersTyped /\ SlotsFit /\ WalkTyped
    BY DEF ContainersInv
  <1>2. r \in Runtimes
    BY <1>1 DEF ContainersTyped
  <1>3. PICK q \in Runtimes : q = [r EXCEPT !.mode = "finishing"] /\ q.s = r.s /\ q.try = r.try
    <2>1. /\ [r EXCEPT !.mode = "finishing"] \in Runtimes /\ [r EXCEPT !.mode = "finishing"].s = r.s
          /\ [r EXCEPT !.mode = "finishing"].try = r.try
      BY <1>2 DEF Runtimes
    <2> QED
      BY <2>1
  <1>4. PICK s \in Sessions : s = r.s
    BY <1>2 DEF Runtimes
  <1>5. Recorded(s) /\ Slotted(s)
    BY DEF ContainersInv
  <1>6. runtimes' = (runtimes \ {r}) \cup {q}
    BY <1>3 DEF FinishRuntime
  <1>7. UNCHANGED <<executions, box, daemon, session, generation, tries, operation, intent, held,
                    pending, starts, observers, expiring, robbed, late, admission, recovery>>
    BY DEF FinishRuntime, durables, slots, startup
  <1>8. ContainersTyped' /\ SlotsFit' /\ WalkTyped'
    BY <1>1, <1>6, <1>7 DEF ContainersTyped, SlotsFit, WalkTyped
  <1>9. OthersKept(s) /\ StartsAdmitted(s)
    BY <1>3, <1>4, <1>6, <1>7 DEF OthersKept, StartsAdmitted
  <1>10. Recorded(s)'
    BY <1>3, <1>4, <1>5, <1>6, <1>7 DEF Recorded
  <1>11. Slotted(s)'
    <2>1. \A p \in runtimes' : p.s = s => \E o \in runtimes : o.s = s /\ o.try = p.try
      BY <1>3, <1>4, <1>6
    <2> QED
      BY <1>5, <1>7, <2>1 DEF Slotted
  <1> QED
    BY <1>8, <1>9, <1>10, <1>11, OneSession

(* The slot that a runtime gives back is its own, or that of a later start *)
(* of its session: then it is missed.                                      *)
LEMMA CompleteStopKept ==
    ASSUME ContainersInv, NEW r \in runtimes, CompleteStop(r)
    PROVE  ContainersInv'
  <1>1. ContainersTyped /\ SlotsFit /\ WalkTyped
    BY DEF ContainersInv
  <1>2. r \in Runtimes
    BY <1>1 DEF ContainersTyped
  <1>3. PICK s \in Sessions : s = r.s
    BY <1>2 DEF Runtimes
  <1>4. Recorded(s) /\ Slotted(s)
    BY DEF ContainersInv
  <1>5. /\ box' \in [Sessions -> Boxes] /\ box'[s] # "running"
        /\ box'[s] = "absent" <=> box[s] = "absent"
        /\ \A t \in Sessions : t # s => box'[t] = box[t]
    BY <1>1, <1>3, QuietedKept DEF CompleteStop
  <1>6. /\ SlotsFit' /\ \A t \in Sessions : t # s /\ t \in held => t \in held'
        /\ starts' \subseteq Commands
        /\ \A e \in starts' : (e.s = s => e.late) /\ (e.s # s => e \in starts)
    BY <1>3, ReleaseKept DEF CompleteStop
  <1>7. /\ session' \in [Sessions -> {"new", "starting", "live", "ended", "unregistered"}]
        /\ session'[s] = "live" => session[s] = "live"
        /\ \A t \in Sessions : t # s => session'[t] = session[t]
    BY <1>1, <1>3 DEF CompleteStop, ContainersTyped
  <1>8. observers' \subseteq Observers /\ \A o \in observers' : o.s # s => o \in observers
    <2>1. [s |-> r.s, generation |-> r.generation] \in Observers
      BY <1>2 DEF Runtimes, Observers
    <2> QED
      BY <1>1, <1>3, <2>1 DEF CompleteStop, ContainersTyped
  <1>9. /\ robbed \subseteq robbed'
        /\ r.try # tries[s] /\ s \in held => s \in robbed'
    BY <1>3 DEF CompleteStop
  <1>10. runtimes' = runtimes \ {r}
    BY DEF CompleteStop
  <1>11. UNCHANGED <<executions, daemon, generation, tries, operation, intent, expiring, late,
                     admission, recovery>>
    BY DEF CompleteStop, durables, startup
  <1>12. ContainersTyped' /\ WalkTyped'
    BY <1>1, <1>5, <1>6, <1>7, <1>8, <1>10, <1>11 DEF ContainersTyped, WalkTyped
  <1>13. OthersKept(s) /\ StartsAdmitted(s)
    BY <1>5, <1>6, <1>7, <1>8, <1>9, <1>10, <1>11 DEF OthersKept, StartsAdmitted
  <1>14. executions[s] \in ExecutionRecords
    BY <1>3, <1>4 DEF Recorded
  <1>15. Recorded(s)'
    BY <1>4, <1>5, <1>11, <1>14 DEF Recorded
  <1>16. operation[s] = "ready" => s \in robbed'
    <2>1. operation[s] = "ready" => r.try < tries[s]
      BY <1>3, <1>4 DEF Slotted, Preparing
    <2>2. r.try \in Nat /\ tries[s] \in Nat
      BY <1>1, <1>2 DEF Runtimes, ContainersTyped
    <2> QED
      BY <1>4, <1>9, <2>1, <2>2 DEF Slotted
  <1>17. Slotted(s)'
    BY <1>4, <1>5, <1>6, <1>10, <1>11, <1>16 DEF Slotted
  <1> QED
    BY <1>6, <1>12, <1>13, <1>15, <1>17, OneSession

-----------------------------------------------------------------------------
(* The walk over expired attempts and the reconciliation.                  *)

(* The order of the records is one of sessions.                             *)
LEMMA OrderNames ==
    \A i \in DOMAIN SessionOrder : SessionOrder[i] \in Sessions
  BY ContainersAssumption

(* A walk puts the first record it may take, and changes no guest.          *)
LEMMA WalkKept ==
    ASSUME ContainersInv, NEW list \in Walks,
           \A i \in list.todo : list.snapshot[SessionOrder[i]] \in ExecutionRecords, Walk(list)
    PROVE  ContainersInv'
  <1>1. ContainersTyped /\ SlotsFit
    BY DEF ContainersInv
  <1>2. UNCHANGED <<box, daemon, session, generation, tries, intent, held, pending, starts,
                    runtimes, observers, robbed, late, admission, recovery>>
    BY DEF Walk, slots, startup
  <1>3. ASSUME NEW i \in list.todo, Candidate(list, i),
               Put(SessionOrder[i], [list.snapshot[SessionOrder[i]] EXCEPT !.phase = "stopping", !.timedOut = TRUE]),
               Goes(SessionOrder[i], "expiring"),
               expiring' = [list EXCEPT !.todo = {j \in list.todo : j >= i}]
        PROVE  ContainersInv'
    <2>1. PICK s \in Sessions : s = SessionOrder[i]
      BY OrderNames DEF Walks
    <2>2. PICK r \in ExecutionRecords : r = list.snapshot[s]
      BY <2>1
    <2>3. PICK q \in ExecutionRecords :
            q = [r EXCEPT !.phase = "stopping", !.timedOut = TRUE] /\ q.phase # "destroyed"
      <3>1. /\ [r EXCEPT !.phase = "stopping", !.timedOut = TRUE] \in ExecutionRecords
            /\ [r EXCEPT !.phase = "stopping", !.timedOut = TRUE].phase # "destroyed"
        BY DEF ExecutionRecords
      <3> QED
        BY <3>1
    <2>4. Put(s, q) /\ Goes(s, "expiring")
      BY <1>3, <2>1, <2>2, <2>3
    <2>5. WalkTyped'
      <3>1. PICK rest \in SUBSET list.todo : expiring' = [list EXCEPT !.todo = rest]
        BY <1>3
      <3>2. /\ expiring' \in Walks /\ expiring'.todo = rest /\ expiring'.snapshot = list.snapshot
        BY <3>1 DEF Walks
      <3> QED
        BY <3>2 DEF WalkTyped
    <2>6. StopsOrNot(s)
      BY <1>2 DEF StopsOrNot
    <2>7. "expiring" \in Operations \ (Preparing \cup {"check", "removed"})
      BY DEF Operations, Preparing
    <2> QED
      BY <1>1, <1>2, <2>3, <2>4, <2>5, <2>6, <2>7, PutAndGo DEF ContainersTyped
  <1>4. CASE expiring' = Idle /\ UNCHANGED <<executions, operation>>
    <2>1. WalkTyped'
      BY <1>4 DEF WalkTyped, Walks, Idle, MaybeRecords
    <2>2. ContainersTyped' /\ SlotsFit' /\ PassTyped' /\ Visited'
      BY <1>1, <1>2, <1>4 DEF ContainersInv, ContainersTyped, SlotsFit, PassTyped, Visited
    <2>3. ASSUME NEW s \in Sessions PROVE Recorded(s)' /\ Slotted(s)'
      BY <1>2, <1>4 DEF ContainersInv, Recorded, Slotted
    <2> QED
      BY <2>1, <2>2, <2>3 DEF ContainersInv
  <1> QED
    BY <1>3, <1>4 DEF Walk

(* A walk over expired attempts begins, or goes on to the next one.         *)
LEMMA ExpireKept ==
    ASSUME ContainersInv, Expire \/ ExpireNext
    PROVE  ContainersInv'
  <1>1. ContainersTyped /\ WalkTyped
    BY DEF ContainersInv
  <1>2. CASE Expire
    <2> DEFINE due == {i \in DOMAIN SessionOrder : Overdue(executions[SessionOrder[i]])}
               list == [todo |-> due, snapshot |-> executions]
    <2>1. due \subseteq DOMAIN SessionOrder /\ \A i \in due : executions[SessionOrder[i]] \in ExecutionRecords
      BY <1>1, OrderNames DEF Overdue, ContainersTyped, MaybeRecords
    <2>2. Walk(list)
      BY <1>2 DEF Expire
    <2> HIDE DEF due
    <2>3. list \in Walks /\ \A i \in list.todo : list.snapshot[SessionOrder[i]] \in ExecutionRecords
      BY <1>1, <2>1 DEF Walks, ContainersTyped
    <2> HIDE DEF list
    <2> QED
      BY <2>2, <2>3, WalkKept
  <1>3. CASE ExpireNext
    BY <1>1, <1>3, WalkKept DEF ExpireNext, WalkTyped
  <1> QED
    BY <1>2, <1>3

(* The stop of an expired session leaves its guest stopped.                 *)
LEMMA ExpireStopKept ==
    ASSUME ContainersInv, ExpireStop
    PROVE  ContainersInv'
  <1>1. ContainersTyped /\ WalkTyped
    BY DEF ContainersInv
  <1>2. PICK i \in expiring.todo :
          LET s == SessionOrder[i]
              record == [expiring.snapshot[s] EXCEPT !.timedOut = TRUE]
              stops == admission /\ daemon
              rest == expiring.todo \ {i}
          IN /\ IF stops THEN box' = Quieted(s) /\ GiveBack(s, StopGuest(s)) ELSE UNCHANGED <<box, slots>>
             /\ Put(s, IF stops /\ box[s] # "absent"
                         THEN [record EXCEPT !.phase = "stopped", !.cleanupFailed = FALSE]
                         ELSE [record EXCEPT !.phase = "failed", !.cleanupFailed = TRUE])
             /\ Goes(s, "idle")
             /\ expiring' = IF rest = {} THEN Idle ELSE [expiring EXCEPT !.todo = rest]
    BY DEF ExpireStop
  <1>3. PICK s \in Sessions : s = SessionOrder[i]
    BY <1>1, OrderNames DEF WalkTyped, Walks
  <1>4. PICK r \in ExecutionRecords : r = expiring.snapshot[s]
    BY <1>1, <1>3 DEF WalkTyped
  <1>5. PICK p \in ExecutionRecords : p = [r EXCEPT !.timedOut = TRUE]
    <2>1. [r EXCEPT !.timedOut = TRUE] \in ExecutionRecords
      BY DEF ExecutionRecords
    <2> QED
      BY <2>1
  <1>6. PICK phase \in {"stopped", "failed"}, b \in BOOLEAN : Put(s, [p EXCEPT !.phase = phase, !.cleanupFailed = b])
    BY <1>2, <1>3, <1>4, <1>5
  <1>7. /\ [p EXCEPT !.phase = phase, !.cleanupFailed = b] \in ExecutionRecords
        /\ [p EXCEPT !.phase = phase, !.cleanupFailed = b].phase # "destroyed"
    BY DEF ExecutionRecords
  <1>8. WalkTyped'
    <2>1. CASE expiring' = Idle
      BY <2>1 DEF WalkTyped, Walks, Idle, MaybeRecords
    <2>2. CASE expiring' = [expiring EXCEPT !.todo = expiring.todo \ {i}]
      <3>1. PICK rest \in SUBSET expiring.todo : expiring' = [expiring EXCEPT !.todo = rest]
        BY <2>2
      <3>2. expiring' \in Walks /\ expiring'.todo = rest /\ expiring'.snapshot = expiring.snapshot
        BY <1>1, <3>1 DEF WalkTyped, Walks
      <3> QED
        BY <1>1, <3>2 DEF WalkTyped
    <2> QED
      BY <1>2, <2>1, <2>2
  <1>9. Goes(s, "idle") /\ StopsOrNot(s)
    BY <1>2, <1>3 DEF StopsOrNot, StopGuest, slots
  <1>10. UNCHANGED <<daemon, session, generation, tries, intent, runtimes, observers, robbed,
                     late, admission, recovery>>
    BY DEF ExpireStop, startup
  <1>11. "idle" \in Operations \ (Preparing \cup {"check", "removed"})
    BY DEF Operations, Preparing
  <1> QED
    BY <1>1, <1>6, <1>7, <1>8, <1>9, <1>10, <1>11, PutAndGo DEF ContainersTyped

(* Every guest that runs is one the pass is going to visit.                *)
LEMMA RecoverBeginKept ==
    ASSUME ContainersInv, RecoverBegin
    PROVE  ContainersInv'
  <1> DEFINE known == {i \in DOMAIN SessionOrder : Known(SessionOrder[i])}
  <1>1. ContainersTyped /\ SlotsFit /\ WalkTyped
    BY DEF ContainersInv
  <1>2. UNCHANGED <<executions, box, daemon, session, generation, tries, operation, intent, held,
                    pending, starts, runtimes, observers, expiring, robbed, late, admission>>
    BY DEF RecoverBegin, durables, slots, memory
  <1>3. recovery' = [todo |-> known, snapshot |-> executions, blocked |-> FALSE]
    BY DEF RecoverBegin
  <1>4. known \subseteq DOMAIN SessionOrder /\ \A i \in known : executions[SessionOrder[i]] \in ExecutionRecords
    BY <1>1, OrderNames DEF Known, ContainersTyped, MaybeRecords
  <1>5. \A s \in Sessions : box[s] = "running" => \E i \in known : SessionOrder[i] = s
    BY ContainersAssumption DEF ContainersInv, Recorded, Known
  <1> HIDE DEF known
  <1>6. recovery'.todo = known /\ recovery'.snapshot = executions
    BY <1>3
  <1>7. PassTyped'
    BY <1>1, <1>2, <1>3, <1>4, <1>6 DEF PassTyped, Passes, ContainersTyped
  <1>8. Visited'
    BY <1>2, <1>5, <1>6 DEF Visited
  <1>9. ContainersTyped' /\ SlotsFit' /\ WalkTyped'
    BY <1>1, <1>2 DEF ContainersTyped, SlotsFit, WalkTyped
  <1>10. ASSUME NEW s \in Sessions PROVE Recorded(s)' /\ Slotted(s)'
    BY <1>2 DEF ContainersInv, Recorded, Slotted
  <1> QED
    BY <1>7, <1>8, <1>9, <1>10 DEF ContainersInv

(* Admission opens only when no guest runs any more.                       *)
LEMMA RecoverOneKept ==
    ASSUME ContainersInv, RecoverOne
    PROVE  ContainersInv'
  <1>1. ContainersTyped /\ SlotsFit /\ WalkTyped /\ PassTyped /\ Visited /\ ~admission
    BY DEF ContainersInv, RecoverOne
  <1>2. PICK i \in recovery.todo :
          LET s == SessionOrder[i]
              rest == recovery.todo \ {i}
              record == recovery.snapshot[s]
              refused == daemon /\ executions[s].generation > record.generation
          IN /\ box' = IF daemon THEN Quieted(s) ELSE box
             /\ IF daemon /\ ~refused
                  THEN Put(s, [record EXCEPT !.phase = IF box[s] = "absent" THEN "failed" ELSE "stopped"])
                  ELSE UNCHANGED executions
             /\ recovery' = IF refused THEN NoPass
                            ELSE [recovery EXCEPT !.todo = rest, !.blocked = Unreachable(s)]
             /\ admission' = (~refused /\ rest = {} /\ ~Unreachable(s))
    BY DEF RecoverOne
  <1>3. PICK s \in Sessions : s = SessionOrder[i]
    BY <1>1, OrderNames DEF PassTyped, Passes
  <1>4. UNCHANGED <<daemon, session, generation, tries, operation, intent, held, pending, starts,
                    runtimes, observers, expiring, robbed, late>>
    BY DEF RecoverOne, slots, memory
  <1>5. PICK refused \in BOOLEAN : refused = (daemon /\ executions[s].generation > recovery.snapshot[s].generation)
    OBVIOUS
  <1>6. PICK rest \in SUBSET recovery.todo : rest = recovery.todo \ {i}
    OBVIOUS
  <1>7. PICK r \in ExecutionRecords : r = recovery.snapshot[s]
    BY <1>1, <1>3 DEF PassTyped
  <1>8. /\ executions' \in [Sessions -> MaybeRecords]
        /\ \A t \in Sessions : t # s => executions'[t] = executions[t]
        /\ UNCHANGED executions \/ (executions'[s] \in ExecutionRecords /\ executions'[s].phase # "destroyed")
    <2>1. CASE UNCHANGED executions
      BY <1>1, <2>1 DEF ContainersTyped
    <2>2. ASSUME NEW phase \in {"failed", "stopped"}, Put(s, [r EXCEPT !.phase = phase])
          PROVE  /\ executions' \in [Sessions -> MaybeRecords]
                 /\ \A t \in Sessions : t # s => executions'[t] = executions[t]
                 /\ executions'[s] \in ExecutionRecords /\ executions'[s].phase # "destroyed"
      <3>1. [r EXCEPT !.phase = phase] \in ExecutionRecords /\ [r EXCEPT !.phase = phase].phase # "destroyed"
        BY DEF ExecutionRecords
      <3> QED
        BY <1>1, <2>2, <3>1, PutKept
    <2>3. UNCHANGED executions \/ \E phase \in {"failed", "stopped"} : Put(s, [r EXCEPT !.phase = phase])
      BY <1>2, <1>3, <1>7
    <2> QED
      BY <2>1, <2>2, <2>3
  <1>9. /\ box' \in [Sessions -> Boxes]
        /\ \A t \in Sessions :
             /\ box'[t] = "running" => box[t] = "running" /\ (daemon => t # s)
             /\ box'[t] = "absent" <=> box[t] = "absent"
    <2>1. box' = IF daemon THEN Quieted(s) ELSE box
      BY <1>2, <1>3
    <2> QED
      BY <1>1, <2>1, QuietedKept DEF ContainersTyped
  <1>10. /\ admission' = (~refused /\ rest = {} /\ ~Unreachable(s))
         /\ recovery' = IF refused THEN NoPass ELSE [recovery EXCEPT !.todo = rest, !.blocked = Unreachable(s)]
    BY <1>2, <1>3, <1>5, <1>6
  <1>11. admission' \in BOOLEAN /\ (admission' => rest = {} /\ daemon /\ ~recovery.blocked)
    BY <1>10 DEF Unreachable
  <1>12. PassTyped'
    <2>1. CASE recovery' = NoPass
      BY <2>1 DEF PassTyped, Passes, NoPass, MaybeRecords
    <2>2. CASE recovery' = [recovery EXCEPT !.todo = rest, !.blocked = Unreachable(s)]
      <3>1. PICK b \in BOOLEAN : b = Unreachable(s)
        BY DEF Unreachable
      <3>2. recovery' \in Passes /\ recovery'.todo = rest /\ recovery'.snapshot = recovery.snapshot
        BY <1>1, <2>2, <3>1 DEF PassTyped, Passes
      <3> QED
        BY <1>1, <3>2 DEF PassTyped
    <2> QED
      BY <1>10, <2>1, <2>2
  <1>13. ASSUME NEW t \in Sessions, box'[t] = "running", t \notin late, daemon, ~recovery.blocked
         PROVE  \E j \in rest : SessionOrder[j] = t
    <2>1. box[t] = "running" /\ t # s
      BY <1>9, <1>13
    <2>2. PICK j \in recovery.todo : SessionOrder[j] = t
      BY <1>1, <1>13, <2>1 DEF Visited
    <2> QED
      BY <1>3, <1>6, <2>1, <2>2
  <1>14. admission' => \A t \in Sessions : box'[t] = "running" => t \in late
    BY <1>11, <1>13
  <1>15. Visited'
    <2> SUFFICES ASSUME ~admission', ~recovery'.blocked, recovery'.todo # {},
                        NEW t \in Sessions, box'[t] = "running", t \notin late'
                 PROVE  \E j \in recovery'.todo : SessionOrder[j] = t
      BY DEF Visited
    <2>1. recovery' = [recovery EXCEPT !.todo = rest, !.blocked = Unreachable(s)]
      BY <1>10 DEF NoPass
    <2>2. recovery'.todo = rest /\ recovery'.blocked = Unreachable(s)
      BY <1>1, <2>1 DEF PassTyped, Passes
    <2>3. daemon /\ ~recovery.blocked
      BY <2>2 DEF Unreachable
    <2> QED
      BY <1>4, <1>13, <2>2, <2>3
  <1>16. ContainersTyped' /\ SlotsFit' /\ WalkTyped'
    BY <1>1, <1>4, <1>8, <1>9, <1>11 DEF ContainersTyped, SlotsFit, WalkTyped
  <1>17. ASSUME NEW t \in Sessions PROVE Recorded(t)' /\ Slotted(t)'
    <2>1. Recorded(t) /\ Slotted(t)
      BY DEF ContainersInv
    <2>2. executions'[t] = executions[t] \/ (executions'[t] \in ExecutionRecords /\ executions'[t].phase # "destroyed")
      BY <1>8
    <2>3. Recorded(t)'
      BY <1>4, <1>9, <2>1, <2>2 DEF Recorded
    <2>4. operation[t] \notin Preparing /\ \A e \in starts : e.s = t => e.late
      BY <1>1, <2>1 DEF Slotted
    <2>5. Slotted(t)'
      BY <1>4, <1>9, <1>14, <2>1, <2>4 DEF Slotted, Preparing
    <2> QED
      BY <2>3, <2>5
  <1> QED
    BY <1>12, <1>15, <1>16, <1>17 DEF ContainersInv

(* Admission opens when there is no record to look at.                      *)
LEMMA RecoverNothingKept ==
    ASSUME ContainersInv, RecoverNothing
    PROVE  ContainersInv'
  <1>1. ContainersTyped /\ SlotsFit /\ WalkTyped /\ PassTyped
    BY DEF ContainersInv
  <1>2. UNCHANGED <<executions, box, daemon, session, generation, tries, operation, intent, held,
                    pending, starts, runtimes, observers, expiring, robbed, late, recovery>> /\ ~admission /\ admission' = TRUE
    BY DEF RecoverNothing, durables, slots, memory
  <1>3. \A s \in Sessions : box[s] # "running"
    BY ContainersAssumption DEF RecoverNothing, Known, ContainersInv, Recorded
  <1>4. ContainersTyped' /\ SlotsFit' /\ WalkTyped' /\ PassTyped' /\ Visited'
    BY <1>1, <1>2 DEF ContainersTyped, SlotsFit, WalkTyped, PassTyped, Visited
  <1>5. ASSUME NEW s \in Sessions PROVE Recorded(s)' /\ Slotted(s)'
    BY <1>2, <1>3 DEF ContainersInv, Recorded, Slotted
  <1> QED
    BY <1>4, <1>5 DEF ContainersInv

(* The broker that comes back admits nobody before it has looked.          *)
LEMMA CrashContainersKept ==
    ASSUME ContainersInv, CrashContainers
    PROVE  ContainersInv'
  <1>1. ContainersTyped
    BY DEF ContainersInv
  <1>2. /\ UNCHANGED <<executions, box, daemon, generation, tries>>
        /\ operation' = [s \in Sessions |-> "idle"] /\ intent' = [s \in Sessions |-> Nothing]
        /\ held' = {} /\ pending' = <<>> /\ runtimes' = {} /\ observers' = {} /\ expiring' = Idle
        /\ robbed' = {} /\ late' = {} /\ admission' = FALSE /\ recovery' = NoPass
    BY DEF CrashContainers, durables
  <1>3. /\ session' \in [Sessions -> {"new", "starting", "live", "ended", "unregistered"}]
        /\ \A s \in Sessions : session'[s] # "live"
    <2> DEFINE after(s) == CASE session[s] = "live" -> "ended"
                             [] session[s] = "starting" /\ generation[s] > 0 -> "ended"
                             [] session[s] = "starting" /\ generation[s] = 0 -> "unregistered"
                             [] OTHER -> session[s]
    <2>1. session' = [s \in Sessions |-> after(s)]
      BY DEF CrashContainers
    <2>2. ASSUME NEW s \in Sessions
          PROVE  after(s) \in {"new", "starting", "ended", "unregistered"}
      <3>1. session[s] \in {"new", "starting", "live", "ended", "unregistered"} /\ generation[s] \in Nat
        BY <1>1 DEF ContainersTyped
      <3> QED
        BY <3>1
    <2> HIDE DEF after
    <2> QED
      BY <2>1, <2>2
  <1>8. starts' \subseteq Commands /\ \A e \in starts' : e.late
    <2> SUFFICES ASSUME NEW e \in starts' PROVE e \in Commands /\ e.late
      OBVIOUS
    <2>1. PICK c \in starts : e = [c EXCEPT !.late = TRUE]
      BY DEF CrashContainers
    <2>2. c \in Commands
      BY <1>1 DEF ContainersTyped
    <2>3. [c EXCEPT !.late = TRUE] \in Commands /\ [c EXCEPT !.late = TRUE].late
      BY <2>2 DEF Commands
    <2> QED
      BY <2>1, <2>3
  <1>4. ContainersTyped'
    BY <1>1, <1>2, <1>3, <1>8 DEF ContainersTyped, Operations, MaybeRecords
  <1>5. SlotsFit'
    BY <1>2, FS_EmptySet, ContainersAssumption DEF SlotsFit
  <1>6. WalkTyped' /\ PassTyped' /\ Visited'
    BY <1>2 DEF WalkTyped, PassTyped, Visited, Walks, Passes, Idle, NoPass, MaybeRecords
  <1>7. ASSUME NEW s \in Sessions PROVE Recorded(s)' /\ Slotted(s)'
    BY <1>2, <1>3, <1>8 DEF ContainersInv, Recorded, Slotted, Preparing
  <1> QED
    BY <1>4, <1>5, <1>6, <1>7 DEF ContainersInv

(* The daemon that comes or goes changes no guest and no slot.              *)
LEMMA DaemonKept ==
    ASSUME ContainersInv, Outage \/ DaemonBack
    PROVE  ContainersInv'
  <1>1. UNCHANGED <<executions, box, session, generation, tries, operation, intent, held, pending,
                    starts, runtimes, observers, expiring, robbed, late, admission, recovery>> /\ daemon' \in BOOLEAN
    BY DEF Outage, DaemonBack, durables, slots, memory, startup
  <1>2. ContainersTyped' /\ SlotsFit' /\ WalkTyped' /\ PassTyped' /\ Visited'
    BY <1>1 DEF ContainersInv, ContainersTyped, SlotsFit, WalkTyped, PassTyped, Visited
  <1>3. ASSUME NEW s \in Sessions PROVE Recorded(s)' /\ Slotted(s)'
    BY <1>1 DEF ContainersInv, Recorded, Slotted
  <1> QED
    BY <1>2, <1>3 DEF ContainersInv

(* The invariant holds before the first start.                              *)
LEMMA ContainersStart == ContainersInit => ContainersInv
  <1> SUFFICES ASSUME ContainersInit PROVE ContainersInv
    OBVIOUS
  <1>1. ContainersTyped
    BY DEF ContainersInit, ContainersTyped, MaybeRecords, Boxes, Operations
  <1>2. SlotsFit
    BY FS_EmptySet, ContainersAssumption DEF ContainersInit, SlotsFit
  <1>3. WalkTyped /\ PassTyped /\ Visited
    BY DEF ContainersInit, WalkTyped, PassTyped, Visited, Walks, Passes, Idle, NoPass, MaybeRecords
  <1>4. ASSUME NEW s \in Sessions PROVE Recorded(s) /\ Slotted(s)
    BY DEF ContainersInit, Recorded, Slotted, Preparing
  <1> QED
    BY <1>1, <1>2, <1>3, <1>4 DEF ContainersInv

(* Every step of the container executions keeps the invariant.              *)
LEMMA ContainersStep == ContainersInv /\ [ContainersNext]_containersVars => ContainersInv'
  <1> SUFFICES ASSUME ContainersInv, [ContainersNext]_containersVars PROVE ContainersInv'
    OBVIOUS
  <1>1. ASSUME NEW s \in Sessions,
               \/ StartExecution(s) \/ CheckRefused(s) \/ PutIntent(s) \/ ReserveSlot(s) \/ CreateContainer(s)
               \/ RunGuest(s) \/ PutRunning(s) \/ StartFails(s) \/ CancelStart(s)
        PROVE  ContainersInv'
    BY <1>1, StartKept, CheckRefusedKept, PutIntentKept, ReserveSlotKept, CreateContainerKept, RunGuestKept,
       PutRunningKept, StartFailsKept, CancelStartKept
  <1>2. ASSUME NEW s \in Sessions,
               \/ GuestExits(s) \/ DeadlinePasses(s) \/ RenewAttempt(s)
               \/ Retire(s) \/ RetireFails(s) \/ RetireStops(s) \/ Collect(s) \/ Destroy(s) \/ PutDestroyed(s)
        PROVE  ContainersInv'
    BY <1>2, GuestExitsKept, DeadlineKept, RetireKept, RetireFailsKept, RetireStopsKept, CollectKept,
       DestroyKept, PutDestroyedKept
  <1>3. ASSUME NEW r \in runtimes, FinishRuntime(r) \/ CompleteStop(r)
        PROVE  ContainersInv'
    BY <1>3, FinishRuntimeKept, CompleteStopKept
  <1>4. ASSUME NEW o \in observers, Observe(o) PROVE ContainersInv'
    BY <1>4, ObserveKept
  <1>8. ASSUME NEW e \in starts, GuestStarts(e) \/ StartLost(e) PROVE ContainersInv'
    BY <1>8, GuestStartsKept, StartLostKept
  <1>5. CASE Expire \/ ExpireNext \/ ExpireStop
    BY <1>5, ExpireKept, ExpireStopKept
  <1>6. CASE RecoverBegin \/ RecoverOne \/ RecoverNothing \/ CrashContainers \/ Outage \/ DaemonBack
    BY <1>6, RecoverBeginKept, RecoverOneKept, RecoverNothingKept, CrashContainersKept, DaemonKept
  <1>7. CASE UNCHANGED containersVars
    <2>1. UNCHANGED <<executions, box, daemon, session, generation, tries, operation, intent,
                      held, pending, starts, runtimes, observers, expiring, robbed, late,
                      admission, recovery>>
      BY <1>7 DEF containersVars
    <2>2. ContainersTyped' /\ SlotsFit' /\ WalkTyped' /\ PassTyped' /\ Visited'
      BY <2>1 DEF ContainersInv, ContainersTyped, SlotsFit, WalkTyped, PassTyped, Visited
    <2>3. ASSUME NEW s \in Sessions PROVE Recorded(s)' /\ Slotted(s)'
      BY <2>1 DEF ContainersInv, Recorded, Slotted
    <2> QED
      BY <2>2, <2>3 DEF ContainersInv
  <1> QED
    BY <1>1, <1>2, <1>3, <1>4, <1>5, <1>6, <1>7, <1>8 DEF ContainersNext

(* For any number of workers and slots, whatever the daemon, the guests and *)
(* the crashes of the broker do.                                           *)
THEOREM ContainersGuestsFitTheSlots == ContainersSpec => []GuestsFitTheSlots
  <1>1. ContainersInv => GuestsFitTheSlots
    BY DEF ContainersInv, SlotsFit, Slotted, GuestsFitTheSlots
  <1> QED
    BY <1>1, ContainersStart, ContainersStep, PTL DEF ContainersSpec

-----------------------------------------------------------------------------
(***************************************************************************)
(* Slots come back (SlotsComeBack).  What is added to the invariant: who   *)
(* waits for a slot waits once and has none, a retiring session has none,  *)
(* and the end of a start or of a stop leaves behind whoever gives the     *)
(* slot back, or a record that says that nobody does.                      *)
(***************************************************************************)

\* Who waits for a slot waits once and holds none, and while admission is closed
\* there are neither holders nor waiters.
WaitsOnce ==
    /\ \A i \in DOMAIN pending : operation[pending[i]] = "queued" /\ pending[i] \notin held
    /\ \A i, j \in DOMAIN pending : pending[i] = pending[j] => i = j
    /\ ~admission => held = {} /\ pending = <<>>

\* A session that retires holds no slot; one with nothing in progress, or that has just
\* started, has a runtime to give its slot back, or its record says that it did not.
Accounted(s) ==
    s \in held =>
      /\ operation[s] \notin {"collecting", "retained", "removed"}
      /\ operation[s] \in {"idle", "check", "started"} =>
           \/ \E r \in runtimes : r.s = s
           \/ operation[s] # "started" /\ executions[s].cleanupFailed

ReturnInv == ContainersInv /\ WaitsOnce /\ \A s \in Sessions : Accounted(s)

\* Waiters that become holders, and those that go on waiting in their order.
SlotsMove(s) ==
    /\ \A t \in held' : t = s \/ t \in held \/ \E i \in DOMAIN pending : pending[i] = t
    /\ \A i \in DOMAIN pending' :
         /\ pending'[i] \notin held'
         /\ pending'[i] = s \/ \E j \in DOMAIN pending : pending'[i] = pending[j]
    /\ \A i, j \in DOMAIN pending' : pending'[i] = pending'[j] => i = j
    /\ held = {} /\ pending = <<>> => (held' = {} /\ pending' = <<>>) \/ admission

(* Nobody is served twice, and nobody who was not waiting is served.       *)
LEMMA DrainServes ==
    ASSUME NEW holders, IsFiniteSet(holders), Cardinality(holders) <= Slots,
           NEW waiters \in Seq(Sessions),
           \A i, j \in DOMAIN waiters : waiters[i] = waiters[j] => i = j,
           \A i \in DOMAIN waiters : waiters[i] \notin holders
    PROVE  LET next == DrainSlots(holders, waiters) IN
           /\ \A t \in next.held : t \in holders \/ \E i \in DOMAIN waiters : waiters[i] = t
           /\ \A i \in DOMAIN next.pending :
                next.pending[i] \notin next.held /\ \E j \in DOMAIN waiters : next.pending[i] = waiters[j]
           /\ \A i, j \in DOMAIN next.pending : next.pending[i] = next.pending[j] => i = j
           /\ waiters = <<>> => next.held = holders /\ next.pending = <<>>
  <1> DEFINE free == Slots - Cardinality(holders)
             n == IF free < Len(waiters) THEN free ELSE Len(waiters)
             given == {waiters[i] : i \in 1 .. n}
             rest == SubSeq(waiters, n + 1, Len(waiters))
  <1>1. n \in Nat /\ n <= Len(waiters) /\ Len(waiters) \in Nat
    BY ContainersAssumption, FS_CardinalityType
  <1>2. DrainSlots(holders, waiters) = [held |-> holders \cup given, pending |-> rest]
    BY DEF DrainSlots
  <1> HIDE DEF n
  <1>3. /\ rest \in Seq(Sessions) /\ Len(rest) = Len(waiters) - n
        /\ \A i \in 1 .. Len(waiters) - n : rest[i] = waiters[n + i]
    <2>1. n + 1 \in 1 .. Len(waiters) + 1
      BY <1>1
    <2>2. Len(waiters) \in (n + 1) - 1 .. Len(waiters)
      BY <1>1
    <2>3. Len(rest) = IF n + 1 <= Len(waiters) THEN Len(waiters) - (n + 1) + 1 ELSE 0
      BY <1>1
    <2> QED
      BY <1>1, <2>3
  <1>4. \A i \in DOMAIN rest : n + i \in DOMAIN waiters /\ n + i > n /\ rest[i] = waiters[n + i]
    BY <1>1, <1>3
  <1>5. \A j \in DOMAIN waiters : j > n => waiters[j] \notin holders \cup given
    BY <1>1
  <1>6. \A i \in DOMAIN rest : rest[i] \notin holders \cup given /\ \E j \in DOMAIN waiters : rest[i] = waiters[j]
    <2> HIDE DEF rest, given
    <2> QED
      BY <1>4, <1>5
  <1>7. \A i, j \in DOMAIN rest : rest[i] = rest[j] => i = j
    <2>1. \A i \in DOMAIN rest : i \in Int
      BY <1>3
    <2> HIDE DEF rest
    <2>2. ASSUME NEW i \in DOMAIN rest, NEW j \in DOMAIN rest, rest[i] = rest[j] PROVE i = j
      <3>1. n + i = n + j
        BY <1>4, <2>2
      <3> QED
        BY <1>1, <2>1, <3>1
    <2> QED
      BY <2>2
  <1>8. \A t \in given : \E i \in DOMAIN waiters : waiters[i] = t
    BY <1>1
  <1>9. waiters = <<>> => given = {} /\ rest = <<>>
    BY <1>1, <1>3
  <1> HIDE DEF given, rest
  <1> QED
    BY <1>2, <1>6, <1>7, <1>8, <1>9

(* What is removed from a queue leaves the places of the others.            *)
LEMMA RemovedPlace ==
    ASSUME NEW waiters \in Seq(Sessions), NEW k \in DOMAIN waiters,
           \A i, j \in DOMAIN waiters : waiters[i] = waiters[j] => i = j
    PROVE  LET rest == RemoveAt(waiters, k) IN
           /\ \A i \in DOMAIN rest : \E j \in DOMAIN waiters : j # k /\ rest[i] = waiters[j]
           /\ \A i, j \in DOMAIN rest : rest[i] = rest[j] => i = j
  <1> DEFINE before == SubSeq(waiters, 1, k - 1)
             after == SubSeq(waiters, k + 1, Len(waiters))
             rest == before \o after
             from(i) == IF i < k THEN i ELSE i + 1
  <1>1. k \in 1 .. Len(waiters) /\ DOMAIN waiters = 1 .. Len(waiters) /\ Len(waiters) \in Nat
    OBVIOUS
  <1>2. RemoveAt(waiters, k) = rest
    BY DEF RemoveAt
  <1>3. before \in Seq(Sessions) /\ Len(before) = k - 1 /\ \A i \in 1 .. k - 1 : before[i] = waiters[i]
    <2>1. 1 \in Int /\ k - 1 \in Int /\ k - 1 <= Len(waiters) /\ k - 1 \in Nat
      BY <1>1
    <2> QED
      BY <1>1, <2>1
  <1>4. /\ after \in Seq(Sessions) /\ Len(after) = Len(waiters) - k
        /\ \A i \in 1 .. Len(waiters) - k : after[i] = waiters[k + i]
    <2>1. after \in Seq(Sessions)
      BY <1>1
    <2>2. Len(after) = Len(waiters) - k
      BY <1>1
    <2>3. ASSUME NEW i \in 1 .. Len(waiters) - k PROVE after[i] = waiters[k + i]
      BY <1>1, <2>3
    <2> HIDE DEF after
    <2> QED
      BY <2>1, <2>2, <2>3
  <1> HIDE DEF before, after
  <1>5. /\ DOMAIN rest = 1 .. Len(waiters) - 1
        /\ \A i \in 1 .. Len(waiters) - 1 : rest[i] = IF i < k THEN before[i] ELSE after[i - (k - 1)]
    <2>1. /\ rest \in Seq(Sessions) /\ Len(rest) = Len(before) + Len(after)
          /\ \A i \in 1 .. Len(before) + Len(after) :
               rest[i] = IF i <= Len(before) THEN before[i] ELSE after[i - Len(before)]
      BY <1>3, <1>4
    <2> HIDE DEF rest
    <2>2. Len(before) + Len(after) = Len(waiters) - 1
      BY <1>1, <1>3, <1>4
    <2>3. DOMAIN rest = 1 .. Len(waiters) - 1
      BY <2>1, <2>2
    <2>4. ASSUME NEW i \in 1 .. Len(waiters) - 1
          PROVE  rest[i] = IF i < k THEN before[i] ELSE after[i - (k - 1)]
      <3>1. i <= k - 1 <=> i < k
        BY <1>1
      <3> QED
        BY <1>3, <2>1, <2>2, <3>1
    <2> QED
      BY <2>3, <2>4
  <1> HIDE DEF rest
  <1>6. ASSUME NEW i \in 1 .. Len(waiters) - 1
        PROVE  from(i) \in DOMAIN waiters /\ from(i) # k /\ rest[i] = waiters[from(i)]
    <2>1. CASE i < k
      <3>1. i \in 1 .. k - 1 /\ i \in 1 .. Len(waiters)
        BY <1>1, <2>1
      <3> QED
        BY <1>1, <1>3, <1>5, <2>1, <3>1
    <2>2. CASE ~(i < k)
      <3>1. /\ i - (k - 1) \in 1 .. Len(waiters) - k /\ k + (i - (k - 1)) = i + 1
            /\ i + 1 \in 1 .. Len(waiters) /\ i + 1 # k
        BY <1>1, <2>2
      <3>2. rest[i] = after[i - (k - 1)]
        BY <1>5, <2>2
      <3> QED
        BY <1>1, <1>4, <2>2, <3>1, <3>2
    <2> QED
      BY <2>1, <2>2
  <1>7. \A i, j \in 1 .. Len(waiters) - 1 : from(i) = from(j) => i = j
    BY <1>1
  <1> HIDE DEF from
  <1>8. ASSUME NEW i \in 1 .. Len(waiters) - 1, NEW j \in 1 .. Len(waiters) - 1, rest[i] = rest[j] PROVE i = j
    BY <1>6, <1>7, <1>8
  <1> QED
    BY <1>2, <1>5, <1>6, <1>8

(* A release serves only sessions that were waiting.                        *)
LEMMA ReleaseServes ==
    ASSUME ReturnInv, NEW s, SetSlots(SlotsReleased(s))
    PROVE  /\ \A t : SlotsMove(t)
           /\ (\A i \in DOMAIN pending : pending[i] # s) =>
                s \notin held' /\ \A i \in DOMAIN pending' : pending'[i] # s
  <1>1. /\ IsFiniteSet(held \ {s}) /\ Cardinality(held \ {s}) <= Slots /\ pending \in Seq(Sessions)
    <2>1. IsFiniteSet(held \ {s}) /\ Cardinality(held \ {s}) <= Cardinality(held)
      BY FS_RemoveElement, FS_Subset DEF ReturnInv, ContainersInv, SlotsFit
    <2>2. Cardinality(held \ {s}) \in Nat /\ Cardinality(held) \in Nat /\ Slots \in Nat
      BY <2>1, FS_CardinalityType, ContainersAssumption DEF ReturnInv, ContainersInv, SlotsFit
    <2> QED
      BY <2>1, <2>2 DEF ReturnInv, ContainersInv, SlotsFit
  <1>2. /\ \A i, j \in DOMAIN pending : pending[i] = pending[j] => i = j
        /\ \A i \in DOMAIN pending : pending[i] \notin held \ {s}
    BY DEF ReturnInv, WaitsOnce
  <1> DEFINE next == DrainSlots(held \ {s}, pending)
  <1>3. held' = next.held /\ pending' = next.pending
    BY DEF SetSlots, SlotsReleased
  <1>4. /\ \A t \in next.held : t \in held \ {s} \/ \E i \in DOMAIN pending : pending[i] = t
        /\ \A i \in DOMAIN next.pending :
             next.pending[i] \notin next.held /\ \E j \in DOMAIN pending : next.pending[i] = pending[j]
        /\ \A i, j \in DOMAIN next.pending : next.pending[i] = next.pending[j] => i = j
        /\ pending = <<>> => next.held = held \ {s} /\ next.pending = <<>>
    BY <1>1, <1>2, DrainServes
  <1> HIDE DEF next
  <1>6. /\ \A i \in DOMAIN pending' :
             pending'[i] \notin held' /\ \E j \in DOMAIN pending : pending'[i] = pending[j]
        /\ \A i, j \in DOMAIN pending' : pending'[i] = pending'[j] => i = j
    <2>1. DOMAIN pending' = DOMAIN next.pending /\ \A i : pending'[i] = next.pending[i]
      BY <1>3
    <2> QED
      BY <1>3, <1>4, <2>1
  <1>7. \A t \in held' : t \in held \ {s} \/ \E i \in DOMAIN pending : pending[i] = t
    BY <1>3, <1>4
  <1>8. held = {} /\ pending = <<>> => held' = {} /\ pending' = <<>>
    BY <1>3, <1>4
  <1> QED
    BY <1>6, <1>7, <1>8 DEF SlotsMove

\* What a step about one session leaves alone of what is said of the others.
Elsewhere(s) ==
    /\ \A t \in Sessions : t # s => operation'[t] = operation[t] /\ executions'[t] = executions[t]
    /\ \A r \in runtimes : r.s # s => \E q \in runtimes' : q.s = r.s
    /\ admission' = admission

(* A return of one slot is to be looked at for its session alone.           *)
LEMMA ReturnOne ==
    ASSUME ReturnInv, ContainersInv', NEW s \in Sessions, Elsewhere(s), SlotsMove(s), Accounted(s)',
           \A i \in DOMAIN pending' : pending'[i] = s => operation'[s] = "queued"
    PROVE  ReturnInv'
  <1>1. WaitsOnce'
    <2>1. \A i \in DOMAIN pending' : pending'[i] \in Sessions
      BY DEF ContainersInv, SlotsFit
    <2>2. ASSUME NEW i \in DOMAIN pending' PROVE operation'[pending'[i]] = "queued"
      <3>1. CASE pending'[i] = s
        BY <3>1
      <3>2. CASE pending'[i] # s
        <4>1. PICK j \in DOMAIN pending : pending'[i] = pending[j]
          BY <3>2 DEF SlotsMove
        <4> QED
          BY <2>1, <3>2, <4>1 DEF Elsewhere, ReturnInv, WaitsOnce
      <3> QED
        BY <3>1, <3>2
    <2>3. ~admission' => held' = {} /\ pending' = <<>>
      BY DEF Elsewhere, SlotsMove, ReturnInv, WaitsOnce
    <2>4. \A i \in DOMAIN pending' : pending'[i] \notin held'
      BY DEF SlotsMove
    <2>5. \A i, j \in DOMAIN pending' : pending'[i] = pending'[j] => i = j
      BY DEF SlotsMove
    <2> QED
      BY <2>2, <2>3, <2>4, <2>5 DEF WaitsOnce
  <1>2. ASSUME NEW t \in Sessions, t # s PROVE Accounted(t)'
    <2>1. CASE t \in held
      BY <1>2, <2>1 DEF ReturnInv, Accounted, Elsewhere
    <2>2. CASE t \notin held
      <3> SUFFICES ASSUME t \in held' PROVE Accounted(t)'
        BY DEF Accounted
      <3>1. PICK i \in DOMAIN pending : pending[i] = t
        BY <1>2, <2>2 DEF SlotsMove
      <3>2. operation'[t] = "queued"
        BY <1>2, <3>1 DEF ReturnInv, WaitsOnce, Elsewhere
      <3> QED
        BY <3>2 DEF Accounted
    <2> QED
      BY <2>1, <2>2
  <1> QED
    BY <1>1, <1>2 DEF ReturnInv

(* Where no slot moves, only the session itself is to be looked at.        *)
LEMMA ReturnSame ==
    ASSUME ReturnInv, ContainersInv', NEW s \in Sessions, Elsewhere(s), UNCHANGED <<held,
                                                                                    pending>>,
           operation[s] = "queued" => operation'[s] = "queued", Accounted(s)'
    PROVE  ReturnInv'
  <1>1. SlotsMove(s)
    BY DEF SlotsMove, ReturnInv, WaitsOnce
  <1>2. \A i \in DOMAIN pending' : pending'[i] = s => operation'[s] = "queued"
    BY DEF ReturnInv, WaitsOnce
  <1> QED
    BY <1>1, <1>2, ReturnOne

(* Where one is given back, or perhaps not, it is that of no waiter.       *)
LEMMA ReturnStops ==
    ASSUME ReturnInv, ContainersInv', NEW s \in Sessions, Elsewhere(s), operation[s] # "queued",
           SetSlots(SlotsReleased(s)) \/ (UNCHANGED <<held, pending>> /\ Accounted(s)')
    PROVE  ReturnInv'
  <1>1. \A i \in DOMAIN pending : pending[i] # s
    BY DEF ReturnInv, WaitsOnce
  <1>2. CASE SetSlots(SlotsReleased(s))
    BY <1>1, <1>2, ReleaseServes, ReturnOne DEF Accounted
  <1>3. CASE UNCHANGED <<held, pending>> /\ Accounted(s)'
    BY <1>3, ReturnSame
  <1> QED
    BY <1>2, <1>3

(* The steps of a launch keep every slot accounted for.                     *)
LEMMA LaunchReturns ==
    ASSUME ReturnInv, ContainersInv', NEW s \in Sessions,
           StartExecution(s) \/ CheckRefused(s) \/ PutIntent(s) \/ RunGuest(s) \/ PutRunning(s)
    PROVE  ReturnInv'
  <1>1. ContainersTyped /\ Accounted(s)
    BY DEF ReturnInv, ContainersInv
  <1>2. CASE StartExecution(s) \/ CheckRefused(s)
    <2>1. /\ UNCHANGED <<executions, held, pending, runtimes, admission>>
          /\ operation[s] \in {"idle", "check"} /\ operation'[s] \in {"idle", "check"}
          /\ \A t \in Sessions : t # s => operation'[t] = operation[t]
      BY <1>1, <1>2 DEF StartExecution, CheckRefused, Goes, At, ContainersTyped, durables, slots, memory, startup
    <2>2. Elsewhere(s) /\ Accounted(s)'
      BY <1>1, <2>1 DEF Elsewhere, Accounted
    <2> QED
      BY <2>1, <2>2, ReturnSame
  <1>3. CASE PutIntent(s)
    <2>1. /\ UNCHANGED <<held, pending, runtimes, admission>>
          /\ operation[s] = "check" /\ operation'[s] \in {"reserve", "failing"}
          /\ \A t \in Sessions : t # s => operation'[t] = operation[t] /\ executions'[t] = executions[t]
      BY <1>1, <1>3 DEF PutIntent, Goes, At, Put, ContainersTyped, slots, memory, startup
    <2>2. Elsewhere(s) /\ Accounted(s)'
      BY <2>1 DEF Elsewhere, Accounted
    <2> QED
      BY <2>1, <2>2, ReturnSame
  <1>4. CASE RunGuest(s)
    <2>1. /\ UNCHANGED <<executions, held, pending, admission>> /\ runtimes \subseteq runtimes'
          /\ operation[s] = "ready" /\ operation'[s] \in {"started", "failing"}
          /\ operation'[s] = "started" => Runtime(s, "attached") \in runtimes'
          /\ \A t \in Sessions : t # s => operation'[t] = operation[t]
      BY <1>1, <1>4 DEF RunGuest, Goes, At, ContainersTyped, durables, slots, startup
    <2>2. operation'[s] = "started" => \E r \in runtimes' : r.s = s
      BY <2>1 DEF Runtime
    <2>3. Elsewhere(s) /\ Accounted(s)'
      BY <2>1, <2>2 DEF Elsewhere, Accounted
    <2> QED
      BY <2>1, <2>3, ReturnSame
  <1>5. CASE PutRunning(s)
    <2>1. /\ UNCHANGED <<held, pending, runtimes, admission>>
          /\ operation[s] = "started" /\ operation'[s] \in {"failing", "idle"}
          /\ \A t \in Sessions : t # s => operation'[t] = operation[t] /\ executions'[t] = executions[t]
      BY <1>1, <1>5 DEF PutRunning, Goes, At, Put, ContainersTyped, slots, memory, startup
    <2>2. Elsewhere(s) /\ Accounted(s)'
      BY <1>1, <2>1 DEF Elsewhere, Accounted
    <2> QED
      BY <2>1, <2>2, ReturnSame
  <1> QED
    BY <1>2, <1>3, <1>4, <1>5

(* The steps of the queue keep every slot accounted for.                    *)
LEMMA QueueReturns ==
    ASSUME ReturnInv, ContainersInv', NEW s \in Sessions,
           ReserveSlot(s) \/ CreateContainer(s) \/ StartFails(s) \/ CancelStart(s)
    PROVE  ReturnInv'
  <1>1. ContainersTyped /\ SlotsFit /\ Slotted(s) /\ Accounted(s) /\ WaitsOnce
    BY DEF ReturnInv, ContainersInv
  <1>2. CASE ReserveSlot(s)
    <2>1. /\ UNCHANGED <<executions, runtimes, admission>>
          /\ operation[s] = "reserve" /\ operation'[s] \in {"queued", "failing"}
          /\ \A t \in Sessions : t # s => operation'[t] = operation[t]
      BY <1>1, <1>2 DEF ReserveSlot, Goes, At, ContainersTyped, durables, memory, startup
    <2>2. Elsewhere(s) /\ Accounted(s)'
      BY <2>1 DEF Elsewhere, Accounted
    <2>3. CASE UNCHANGED <<held, pending>>
      BY <2>1, <2>2, <2>3, ReturnSame
    <2>4. CASE s \notin held /\ Goes(s, "queued") /\ SetSlots(DrainSlots(held, Append(pending, s)))
      <3> DEFINE waiters == Append(pending, s)
                 next == DrainSlots(held, waiters)
      <3>1. \A i \in DOMAIN pending : pending[i] # s
        BY <1>1, <2>1 DEF WaitsOnce
      <3>2. /\ waiters \in Seq(Sessions) /\ DOMAIN waiters = 1 .. Len(pending) + 1
            /\ \A i \in 1 .. Len(pending) + 1 : waiters[i] = IF i = Len(pending) + 1 THEN s ELSE pending[i]
            /\ DOMAIN pending = 1 .. Len(pending) /\ Len(pending) \in Nat
        BY <1>1 DEF SlotsFit
      <3>3. held' = next.held /\ pending' = next.pending /\ operation'[s] = "queued" /\ admission
        BY <1>1, <2>1, <2>4 DEF SetSlots, Goes, ContainersTyped, Slotted, Preparing
      <3> HIDE DEF waiters
      <3>4. /\ \A i, j \in DOMAIN waiters : waiters[i] = waiters[j] => i = j
            /\ \A i \in DOMAIN waiters : waiters[i] \notin held
        BY <1>1, <2>4, <3>1, <3>2 DEF WaitsOnce
      <3>5. /\ \A t \in next.held : t \in held \/ \E i \in DOMAIN waiters : waiters[i] = t
            /\ \A i \in DOMAIN next.pending :
                 next.pending[i] \notin next.held /\ \E j \in DOMAIN waiters : next.pending[i] = waiters[j]
            /\ \A i, j \in DOMAIN next.pending : next.pending[i] = next.pending[j] => i = j
        BY <1>1, <3>2, <3>4, DrainServes DEF SlotsFit
      <3>6. \A j \in DOMAIN waiters : waiters[j] = s \/ \E k \in DOMAIN pending : waiters[j] = pending[k]
        BY <3>2
      <3> HIDE DEF next
      <3>7. \A i : pending'[i] = next.pending[i]
        BY <3>3
      <3>8. SlotsMove(s)
        <4>1. \A t \in held' : t = s \/ t \in held \/ \E i \in DOMAIN pending : pending[i] = t
          BY <3>3, <3>5, <3>6
        <4>2. \A i \in DOMAIN pending' : pending'[i] = s \/ \E j \in DOMAIN pending : pending'[i] = pending[j]
          BY <3>3, <3>5, <3>6, <3>7
        <4>3. \A i \in DOMAIN pending' : pending'[i] \notin held'
          BY <3>3, <3>5, <3>7
        <4>4. \A i, j \in DOMAIN pending' : pending'[i] = pending'[j] => i = j
          BY <3>3, <3>5, <3>7
        <4> QED
          BY <3>3, <4>1, <4>2, <4>3, <4>4 DEF SlotsMove
      <3> QED
        BY <2>2, <3>3, <3>8, ReturnOne
    <2> QED
      BY <1>2, <2>3, <2>4 DEF ReserveSlot, slots
  <1>3. CASE CreateContainer(s)
    <2>1. /\ UNCHANGED <<runtimes, admission>>
          /\ operation[s] = "queued" /\ s \in held /\ operation'[s] \in {"ready", "failing"}
          /\ \A t \in Sessions : t # s => operation'[t] = operation[t] /\ executions'[t] = executions[t]
      BY <1>1, <1>3 DEF CreateContainer, Goes, At, Put, ContainersTyped, memory, startup
    <2>2. Elsewhere(s) /\ Accounted(s)'
      BY <2>1 DEF Elsewhere, Accounted
    <2>3. SlotsMove(s)
      <3>1. CASE SetSlots(SlotsReleased(s))
        BY <3>1, ReleaseServes
      <3>2. CASE UNCHANGED <<held, pending>>
        BY <1>1, <3>2 DEF SlotsMove, WaitsOnce
      <3> QED
        BY <1>3, <3>1, <3>2 DEF CreateContainer, GiveBack, slots
    <2>4. \A i \in DOMAIN pending' : pending'[i] # s
      <3>1. \A i \in DOMAIN pending : pending[i] # s
        BY <1>1, <2>1 DEF WaitsOnce
      <3> QED
        BY <1>3, <3>1, ReleaseServes DEF CreateContainer, GiveBack, slots
    <2> QED
      BY <2>2, <2>3, <2>4, ReturnOne
  <1>4. CASE StartFails(s)
    <2>1. /\ UNCHANGED <<runtimes, admission>> /\ operation[s] = "failing" /\ operation'[s] = "idle"
          /\ \A t \in Sessions : t # s => operation'[t] = operation[t] /\ executions'[t] = executions[t]
      BY <1>1, <1>4 DEF StartFails, Goes, At, Put, ContainersTyped, memory, startup
    <2>2. Elsewhere(s)
      BY <2>1 DEF Elsewhere
    <2>3. CASE admission /\ daemon
      BY <1>4, <2>1, <2>2, <2>3, ReturnStops DEF StartFails, StopGuest, GiveBack
    <2>4. CASE admission /\ ~daemon
      <3>1. PICK r \in ExecutionRecords : r = intent[s]
        BY <2>1 DEF ReturnInv, ContainersInv, Recorded
      <3>2. executions'[s].cleanupFailed
        <4>1. [r EXCEPT !.phase = "failed", !.cleanupFailed = TRUE].cleanupFailed
          BY DEF ExecutionRecords
        <4>2. executions' = [executions EXCEPT ![s] = [r EXCEPT !.phase = "failed", !.cleanupFailed = TRUE]]
          BY <1>4, <2>4, <3>1 DEF StartFails, Put
        <4> QED
          BY <1>1, <4>1, <4>2 DEF ContainersTyped
      <3>3. Accounted(s)' /\ UNCHANGED <<held, pending>>
        BY <1>4, <2>1, <2>4, <3>2 DEF Accounted, StartFails, slots
      <3> QED
        BY <2>1, <2>2, <3>3, ReturnStops
    <2>5. CASE ~admission
      <3>1. Accounted(s)' /\ UNCHANGED <<held, pending>>
        BY <1>1, <1>4, <2>5 DEF Accounted, WaitsOnce, StartFails, slots
      <3> QED
        BY <2>1, <2>2, <3>1, ReturnStops
    <2> QED
      BY <2>3, <2>4, <2>5
  <1>5. CASE CancelStart(s)
    <2>1. UNCHANGED <<executions, runtimes, admission, held>>
      BY <1>5 DEF CancelStart, durables, memory, startup
    <2>2. CASE UNCHANGED <<pending, operation>>
      <3>1. Elsewhere(s) /\ Accounted(s)'
        BY <1>1, <2>1, <2>2 DEF Elsewhere, Accounted
      <3> QED
        BY <2>1, <2>2, <3>1, ReturnSame
    <2>3. CASE /\ operation[s] = "queued" /\ Goes(s, "failing")
               /\ \E i \in DOMAIN pending : pending[i] = s /\ pending' = RemoveAt(pending, i)
      <3>1. PICK k \in DOMAIN pending : pending[k] = s /\ pending' = RemoveAt(pending, k)
        BY <2>3
      <3>2. operation'[s] = "failing" /\ \A t \in Sessions : t # s => operation'[t] = operation[t]
        BY <1>1, <2>3 DEF Goes, ContainersTyped
      <3>3. /\ \A i \in DOMAIN pending' : \E j \in DOMAIN pending : j # k /\ pending'[i] = pending[j]
            /\ \A i, j \in DOMAIN pending' : pending'[i] = pending'[j] => i = j
        BY <1>1, <3>1, RemovedPlace DEF SlotsFit, WaitsOnce
      <3>4. \A i \in DOMAIN pending' : pending'[i] # s /\ pending'[i] \notin held'
        BY <1>1, <2>1, <3>1, <3>3 DEF WaitsOnce
      <3>5. held = {} /\ pending = <<>> => admission
        BY <3>1
      <3>6. SlotsMove(s)
        BY <2>1, <3>3, <3>4, <3>5 DEF SlotsMove
      <3>7. Elsewhere(s) /\ Accounted(s)'
        BY <2>1, <3>2 DEF Elsewhere, Accounted
      <3> QED
        BY <3>4, <3>6, <3>7, ReturnOne
    <2> QED
      BY <1>5, <2>2, <2>3 DEF CancelStart, At
  <1> QED
    BY <1>2, <1>3, <1>4, <1>5

(* The steps of a retirement keep every slot accounted for.                 *)
LEMMA RetireReturns ==
    ASSUME ReturnInv, ContainersInv', NEW s \in Sessions,
           Retire(s) \/ RetireFails(s) \/ RetireStops(s) \/ Collect(s) \/ Destroy(s) \/ PutDestroyed(s)
    PROVE  ReturnInv'
  <1>1. ContainersTyped /\ Recorded(s) /\ Accounted(s) /\ WaitsOnce
    BY DEF ReturnInv, ContainersInv
  <1>2. CASE Retire(s)
    <2>1. /\ UNCHANGED <<runtimes, admission, held, pending>> /\ operation[s] = "idle"
          /\ operation'[s] = IF admission THEN "retiring" ELSE "idle"
          /\ \A t \in Sessions : t # s => operation'[t] = operation[t] /\ executions'[t] = executions[t]
      BY <1>1, <1>2 DEF Retire, Goes, At, Put, ContainersTyped, slots, memory, startup
    <2>2. Elsewhere(s) /\ Accounted(s)'
      BY <1>1, <2>1 DEF Elsewhere, Accounted, WaitsOnce
    <2> QED
      BY <2>1, <2>2, ReturnSame
  <1>3. CASE RetireFails(s)
    <2>1. /\ UNCHANGED <<runtimes, admission, held, pending>>
          /\ operation[s] \in {"retiring", "collecting", "retained"} /\ operation'[s] = "idle"
          /\ \A t \in Sessions : t # s => operation'[t] = operation[t] /\ executions'[t] = executions[t]
      BY <1>1, <1>3 DEF RetireFails, Goes, Put, ContainersTyped, slots, memory, startup
    <2>2. PICK r \in ExecutionRecords : r = intent[s]
      BY <1>1, <2>1 DEF Recorded
    <2>3. executions'[s].cleanupFailed
      <3>1. [r EXCEPT !.phase = "failed", !.cleanupFailed = TRUE].cleanupFailed
        BY DEF ExecutionRecords
      <3>2. executions' = [executions EXCEPT ![s] = [r EXCEPT !.phase = "failed", !.cleanupFailed = TRUE]]
        BY <1>3, <2>2 DEF RetireFails, Put
      <3> QED
        BY <1>1, <3>1, <3>2 DEF ContainersTyped
    <2>4. Elsewhere(s) /\ Accounted(s)'
      BY <2>1, <2>3 DEF Elsewhere, Accounted
    <2> QED
      BY <2>1, <2>4, ReturnSame
  <1>4. CASE RetireStops(s)
    <2>1. /\ UNCHANGED <<runtimes, admission>> /\ operation[s] = "retiring"
          /\ \A t \in Sessions : t # s => operation'[t] = operation[t] /\ executions'[t] = executions[t]
      BY <1>1, <1>4 DEF RetireStops, Goes, At, Put, ContainersTyped, memory, startup
    <2>2. Elsewhere(s) /\ SetSlots(SlotsReleased(s))
      BY <1>4, <2>1 DEF Elsewhere, RetireStops, StopGuest, GiveBack
    <2> QED
      BY <2>1, <2>2, ReturnStops
  <1>5. CASE Collect(s) \/ Destroy(s) \/ PutDestroyed(s)
    <2>1. /\ UNCHANGED <<runtimes, admission, held, pending>>
          /\ operation[s] \in {"collecting", "retained", "removed"}
          /\ \A t \in Sessions : t # s => operation'[t] = operation[t] /\ executions'[t] = executions[t]
      BY <1>1, <1>5 DEF Collect, Destroy, PutDestroyed, Goes, At, Put, ContainersTyped, durables, slots, memory, startup
    <2>2. Elsewhere(s) /\ Accounted(s)'
      BY <1>1, <2>1 DEF Elsewhere, Accounted
    <2> QED
      BY <2>1, <2>2, ReturnSame
  <1> QED
    BY <1>2, <1>3, <1>4, <1>5

(* A put that keeps what the record says of its cleanup.                   *)
LEMMA RecordReturns ==
    ASSUME ReturnInv, ContainersInv', NEW s \in Sessions, UNCHANGED <<held, pending, runtimes,
                                                                      operation, admission>>,
           \A t \in Sessions : t # s => executions'[t] = executions[t],
           executions'[s].cleanupFailed = executions[s].cleanupFailed
    PROVE  ReturnInv'
  <1>1. Elsewhere(s)
    BY DEF Elsewhere
  <1>2. Accounted(s)'
    BY DEF ReturnInv, Accounted
  <1> QED
    BY <1>1, <1>2, ReturnSame

(* What a guest does by itself keeps every slot accounted for.              *)
LEMMA GuestReturns ==
    ASSUME ReturnInv, ContainersInv', NEW s \in Sessions, GuestExits(s) \/ DeadlinePasses(s) \/ RenewAttempt(s)
    PROVE  ReturnInv'
  <1>1. ContainersTyped /\ Recorded(s)
    BY DEF ReturnInv, ContainersInv
  <1>2. UNCHANGED <<held, pending, runtimes, operation, admission>>
    BY DEF GuestExits, DeadlinePasses, RenewAttempt, slots, memory, startup
  <1>3. CASE GuestExits(s)
    BY <1>2, <1>3, RecordReturns DEF GuestExits, durables
  <1>4. CASE DeadlinePasses(s) \/ RenewAttempt(s)
    <2>1. PICK r \in ExecutionRecords : r = executions[s]
      BY <1>1, <1>4 DEF DeadlinePasses, RenewAttempt, Recorded, ContainersTyped, MaybeRecords
    <2>2. PICK d \in {"passed", "ahead"} : executions' = [executions EXCEPT ![s] = [r EXCEPT !.deadline = d]]
      BY <1>4, <2>1 DEF DeadlinePasses, RenewAttempt, Put
    <2>3. [r EXCEPT !.deadline = d].cleanupFailed = r.cleanupFailed
      BY DEF ExecutionRecords
    <2>4. executions'[s] = [r EXCEPT !.deadline = d] /\ \A t \in Sessions : t # s => executions'[t] = executions[t]
      BY <1>1, <2>2 DEF ContainersTyped
    <2> QED
      BY <1>2, <2>1, <2>3, <2>4, RecordReturns
  <1> QED
    BY <1>3, <1>4

(* What the observer does keeps every slot accounted for.                   *)
LEMMA ObserveReturns ==
    ASSUME ReturnInv, ContainersInv', NEW o \in observers, Observe(o)
    PROVE  ReturnInv'
  <1>1. ContainersTyped
    BY DEF ReturnInv, ContainersInv
  <1>2. PICK s \in Sessions : s = o.s
    BY <1>1 DEF ContainersTyped, Observers
  <1>3. PICK r \in ExecutionRecords : r = executions[s]
    BY <1>2 DEF ReturnInv, ContainersInv, Recorded
  <1>4. UNCHANGED <<held, pending, runtimes, operation, admission>>
    BY DEF Observe, slots, startup
  <1>5. CASE UNCHANGED executions
    BY <1>4, <1>5, RecordReturns
  <1>6. CASE executions' = [executions EXCEPT ![s] = [r EXCEPT !.phase = "stopped"]]
    <2>1. [r EXCEPT !.phase = "stopped"].cleanupFailed = r.cleanupFailed
      BY DEF ExecutionRecords
    <2>2. executions'[s] = [r EXCEPT !.phase = "stopped"] /\ \A t \in Sessions : t # s => executions'[t] = executions[t]
      BY <1>1, <1>6 DEF ContainersTyped
    <2> QED
      BY <1>3, <1>4, <2>1, <2>2, RecordReturns
  <1> QED
    BY <1>2, <1>3, <1>5, <1>6 DEF Observe, Put

\* A command that is carried out, or lost, moves no slot.
LEMMA CommandReturns ==
    ASSUME ReturnInv, ContainersInv', NEW e \in starts, GuestStarts(e) \/ StartLost(e)
    PROVE  ReturnInv'
  <1>1. UNCHANGED <<executions, operation, held, pending, runtimes, admission>>
    BY DEF GuestStarts, StartLost, durables, memory, startup
  <1>2. WaitsOnce' /\ \A s \in Sessions : Accounted(s)'
    BY <1>1 DEF ReturnInv, WaitsOnce, Accounted
  <1> QED
    BY <1>2 DEF ReturnInv

\* A runtime that ends gives back the slot it held, or the slot is nobody's.
LEMMA RuntimeReturns ==
    ASSUME ReturnInv, ContainersInv', NEW r \in runtimes, FinishRuntime(r) \/ CompleteStop(r)
    PROVE  ReturnInv'
  <1>1. ContainersTyped /\ r \in Runtimes
    BY DEF ReturnInv, ContainersInv, ContainersTyped
  <1>2. PICK s \in Sessions : s = r.s
    BY <1>1 DEF Runtimes
  <1>3. Accounted(s)
    BY DEF ReturnInv
  <1>4. CASE FinishRuntime(r)
    <2>1. PICK q \in Runtimes : q = [r EXCEPT !.mode = "finishing"] /\ q.s = s
      <3>1. [r EXCEPT !.mode = "finishing"] \in Runtimes /\ [r EXCEPT !.mode = "finishing"].s = r.s
        BY <1>1 DEF Runtimes
      <3> QED
        BY <1>2, <3>1
    <2>2. runtimes' = (runtimes \ {r}) \cup {q} /\ UNCHANGED <<executions, operation, held,
                                                               pending, admission>>
      BY <1>4, <2>1 DEF FinishRuntime, durables, slots, startup
    <2>3. Elsewhere(s) /\ Accounted(s)'
      BY <1>2, <1>3, <2>1, <2>2 DEF Elsewhere, Accounted
    <2> QED
      BY <2>2, <2>3, ReturnSame
  <1>5. CASE CompleteStop(r)
    <2>1. /\ runtimes' = runtimes \ {r} /\ UNCHANGED <<executions, operation, admission>>
          /\ SetSlots(SlotsReleased(s))
      BY <1>2, <1>5 DEF CompleteStop, GiveBack, durables, startup
    <2>2. Elsewhere(s)
      BY <1>2, <2>1 DEF Elsewhere
    <2>3. CASE operation[s] # "queued"
      BY <2>1, <2>2, <2>3, ReturnStops
    <2>4. CASE operation[s] = "queued"
      <3>1. Accounted(s)' /\ operation'[s] = "queued"
        BY <2>1, <2>4 DEF Accounted
      <3> QED
        BY <2>1, <2>2, <3>1, ReleaseServes, ReturnOne
    <2> QED
      BY <2>3, <2>4
  <1> QED
    BY <1>4, <1>5

\* Moving on in the expiry's pass over the records moves no slot and ends no runtime.
LEMMA WalkReturns ==
    ASSUME ReturnInv, ContainersInv', NEW list \in Walks, Walk(list)
    PROVE  ReturnInv'
  <1>1. ContainersTyped
    BY DEF ReturnInv, ContainersInv
  <1>2. UNCHANGED <<held, pending, runtimes, admission>>
    BY DEF Walk, slots, startup
  <1>3. ASSUME NEW i \in list.todo, Candidate(list, i), Goes(SessionOrder[i], "expiring"),
               NEW record, Put(SessionOrder[i], record)
        PROVE  ReturnInv'
    <2>1. PICK s \in Sessions : s = SessionOrder[i]
      BY OrderNames DEF Walks
    <2>2. /\ operation[s] = "idle" /\ operation'[s] = "expiring"
          /\ \A t \in Sessions : t # s => operation'[t] = operation[t] /\ executions'[t] = executions[t]
      BY <1>1, <1>3, <2>1 DEF Candidate, Leads, At, Goes, Put, ContainersTyped
    <2>3. Elsewhere(s) /\ Accounted(s)'
      BY <1>2, <2>2 DEF Elsewhere, Accounted
    <2> QED
      BY <1>2, <2>2, <2>3, ReturnSame
  <1>4. CASE UNCHANGED <<executions, operation>>
    <2>1. WaitsOnce' /\ \A s \in Sessions : Accounted(s)'
      BY <1>2, <1>4 DEF ReturnInv, WaitsOnce, Accounted
    <2> QED
      BY <2>1 DEF ReturnInv
  <1> QED
    BY <1>3, <1>4 DEF Walk

\* The expiry stops an overdue guest and gives its slot back, or records that it failed.
LEMMA ExpiryReturns ==
    ASSUME ReturnInv, ContainersInv', Expire \/ ExpireNext \/ ExpireStop
    PROVE  ReturnInv'
  <1>1. ContainersTyped /\ WalkTyped /\ WaitsOnce
    BY DEF ReturnInv, ContainersInv
  <1>2. CASE Expire
    <2> DEFINE list == [todo |-> {i \in DOMAIN SessionOrder : Overdue(executions[SessionOrder[i]])},
                        snapshot |-> executions]
    <2>1. Walk(list) /\ list \in Walks
      BY <1>1, <1>2 DEF Expire, Walks, ContainersTyped
    <2> HIDE DEF list
    <2> QED
      BY <2>1, WalkReturns
  <1>3. CASE ExpireNext
    BY <1>1, <1>3, WalkReturns DEF ExpireNext, WalkTyped
  <1>4. CASE ExpireStop
    <2>1. PICK i \in expiring.todo :
            LET s == SessionOrder[i]
                record == [expiring.snapshot[s] EXCEPT !.timedOut = TRUE]
                stops == admission /\ daemon
            IN /\ At(s, "expiring")
               /\ IF stops THEN box' = Quieted(s) /\ GiveBack(s, StopGuest(s)) ELSE UNCHANGED <<box, slots>>
               /\ Put(s, IF stops /\ box[s] # "absent"
                           THEN [record EXCEPT !.phase = "stopped", !.cleanupFailed = FALSE]
                           ELSE [record EXCEPT !.phase = "failed", !.cleanupFailed = TRUE])
               /\ Goes(s, "idle")
      BY <1>4 DEF ExpireStop
    <2>2. PICK s \in Sessions : s = SessionOrder[i]
      BY <1>1, OrderNames DEF WalkTyped, Walks
    <2>3. PICK r \in ExecutionRecords : r = expiring.snapshot[s]
      BY <1>1, <2>2 DEF WalkTyped
    <2>4. /\ UNCHANGED <<runtimes, admission>> /\ operation[s] = "expiring"
          /\ operation'[s] = "idle"
          /\ \A t \in Sessions : t # s => operation'[t] = operation[t] /\ executions'[t] = executions[t]
      BY <1>1, <1>4, <2>1, <2>2 DEF ExpireStop, At, Goes, Put, ContainersTyped, startup
    <2>5. Elsewhere(s)
      BY <2>4 DEF Elsewhere
    <2>6. CASE admission /\ daemon
      BY <2>1, <2>2, <2>4, <2>5, <2>6, ReturnStops DEF StopGuest, GiveBack
    <2>7. CASE ~(admission /\ daemon)
      <3>1. PICK p \in ExecutionRecords : p = [r EXCEPT !.timedOut = TRUE]
        <4>1. [r EXCEPT !.timedOut = TRUE] \in ExecutionRecords
          BY DEF ExecutionRecords
        <4> QED
          BY <4>1
      <3>2. executions' = [executions EXCEPT ![s] = [p EXCEPT !.phase = "failed", !.cleanupFailed = TRUE]]
        BY <2>1, <2>2, <2>3, <2>7, <3>1 DEF Put
      <3>3. [p EXCEPT !.phase = "failed", !.cleanupFailed = TRUE].cleanupFailed
        BY DEF ExecutionRecords
      <3>4. executions'[s].cleanupFailed
        BY <1>1, <3>2, <3>3 DEF ContainersTyped
      <3>5. UNCHANGED <<held, pending>> /\ Accounted(s)'
        BY <2>1, <2>2, <2>4, <2>7, <3>4 DEF Accounted, slots
      <3> QED
        BY <2>4, <2>5, <3>5, ReturnStops
    <2> QED
      BY <2>6, <2>7
  <1> QED
    BY <1>2, <1>3, <1>4

\* While nothing is held and nobody waits there is nothing to give back.
LEMMA NothingHeld ==
    ASSUME ContainersInv', held' = {}, pending' = <<>>
    PROVE  ReturnInv'
  BY DEF ReturnInv, WaitsOnce, Accounted

\* Recovery starts before any slot is held; a crash gives every slot back.
LEMMA BrokerReturns ==
    ASSUME ReturnInv, ContainersInv',
           RecoverBegin \/ RecoverOne \/ RecoverNothing \/ CrashContainers \/ Outage \/ DaemonBack
    PROVE  ReturnInv'
  <1>1. CASE RecoverBegin \/ RecoverOne \/ RecoverNothing
    <2>1. ~admission /\ UNCHANGED <<held, pending>>
      BY <1>1 DEF RecoverBegin, RecoverOne, RecoverNothing, slots
    <2> QED
      BY <2>1, NothingHeld DEF ReturnInv, WaitsOnce
  <1>2. CASE CrashContainers
    BY <1>2, NothingHeld DEF CrashContainers
  <1>3. CASE Outage \/ DaemonBack
    <2>1. UNCHANGED <<executions, operation, held, pending, runtimes, admission>>
      BY <1>3 DEF Outage, DaemonBack, durables, slots, memory, startup
    <2>2. WaitsOnce' /\ \A s \in Sessions : Accounted(s)'
      BY <2>1 DEF ReturnInv, WaitsOnce, Accounted
    <2> QED
      BY <2>2 DEF ReturnInv
  <1> QED
    BY <1>1, <1>2, <1>3

\* Every step keeps account of the slots.
LEMMA ReturnStep == ReturnInv /\ [ContainersNext]_containersVars => ReturnInv'
  <1> SUFFICES ASSUME ReturnInv, [ContainersNext]_containersVars PROVE ReturnInv'
    OBVIOUS
  <1>1. ContainersInv'
    BY ContainersStep DEF ReturnInv
  <1>2. ASSUME NEW s \in Sessions,
               \/ StartExecution(s) \/ CheckRefused(s) \/ PutIntent(s) \/ ReserveSlot(s) \/ CreateContainer(s)
               \/ RunGuest(s) \/ PutRunning(s) \/ StartFails(s) \/ CancelStart(s)
        PROVE  ReturnInv'
    BY <1>1, <1>2, LaunchReturns, QueueReturns
  <1>3. ASSUME NEW s \in Sessions,
               \/ GuestExits(s) \/ DeadlinePasses(s) \/ RenewAttempt(s)
               \/ Retire(s) \/ RetireFails(s) \/ RetireStops(s) \/ Collect(s) \/ Destroy(s) \/ PutDestroyed(s)
        PROVE  ReturnInv'
    BY <1>1, <1>3, GuestReturns, RetireReturns
  <1>4. ASSUME NEW r \in runtimes, FinishRuntime(r) \/ CompleteStop(r) PROVE ReturnInv'
    BY <1>1, <1>4, RuntimeReturns
  <1>9. ASSUME NEW e \in starts, GuestStarts(e) \/ StartLost(e) PROVE ReturnInv'
    BY <1>1, <1>9, CommandReturns
  <1>5. ASSUME NEW o \in observers, Observe(o) PROVE ReturnInv'
    BY <1>1, <1>5, ObserveReturns
  <1>6. CASE Expire \/ ExpireNext \/ ExpireStop
    BY <1>1, <1>6, ExpiryReturns
  <1>7. CASE RecoverBegin \/ RecoverOne \/ RecoverNothing \/ CrashContainers \/ Outage \/ DaemonBack
    BY <1>1, <1>7, BrokerReturns
  <1>8. CASE UNCHANGED containersVars
    <2>1. UNCHANGED <<executions, operation, held, pending, runtimes, admission>>
      BY <1>8 DEF containersVars
    <2>2. WaitsOnce' /\ \A s \in Sessions : Accounted(s)'
      BY <2>1 DEF ReturnInv, WaitsOnce, Accounted
    <2> QED
      BY <1>1, <2>2 DEF ReturnInv
  <1> QED
    BY <1>2, <1>3, <1>4, <1>5, <1>6, <1>7, <1>8, <1>9 DEF ContainersNext

(* No slot is lost, however starts, cancels, exits, sweeps, retirements and *)
(* crashes interleave: who holds one is being worked on, has a runtime that *)
(* will give it back, or is reported.                                       *)
THEOREM ContainersSlotsComeBack == ContainersSpec => []SlotsComeBack
  <1>1. ContainersInit => ReturnInv
    BY ContainersStart DEF ContainersInit, ReturnInv, WaitsOnce, Accounted
  <1>2. ReturnInv => SlotsComeBack
    <2> SUFFICES ASSUME ReturnInv, NEW s \in held, operation[s] = "idle"
                 PROVE  (\E r \in runtimes : r.s = s) \/ executions[s].cleanupFailed
      BY DEF SlotsComeBack
    <2>1. s \in Sessions
      BY DEF ReturnInv, ContainersInv, SlotsFit
    <2> QED
      BY <2>1 DEF ReturnInv, Accounted
  <1> QED
    BY <1>1, <1>2, ReturnStep, PTL DEF ContainersSpec
=============================================================================
