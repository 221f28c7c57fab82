-------------------------- MODULE ContainersProofs --------------------------
(***************************************************************************)
(* Proofs about the containers of a run, for any number of attempts, with  *)
(* executions that overlap or not.                                         *)
(***************************************************************************)
EXTENDS ContainersProperties, FiniteSetTheorems, TLAPS

USE MaxAttemptsAssumption, OverlapAssumption
USE DEF Tries

-----------------------------------------------------------------------------
(* Every step is one of the queue, or leaves it alone. *)

LEMMA RunContainerGoesOn ==
    ASSUME NEW t \in Tries, RunContainer(t)
    PROVE  pc[t] \in Calls /\ \E call \in Calls \cup Results : Goto(t, call)
<1> USE DEF Calls, Results, Return, Abandon
<1>1. CASE Create(t) BY <1>1 DEF Create
<1>2. CASE Start(t) BY <1>2 DEF Start
<1>3. CASE Remove(t) BY <1>3 DEF Remove
<1>4. CASE Wait(t) BY <1>4 DEF Wait
<1>5. CASE ReceiveExit(t) BY <1>5 DEF ReceiveExit
<1>6. CASE ReceiveError(t) BY <1>6 DEF ReceiveError
<1>7. CASE Deadline(t) BY <1>7 DEF Deadline
<1>8. CASE Stop(t) BY <1>8 DEF Stop
<1> QED BY <1>1, <1>2, <1>3, <1>4, <1>5, <1>6, <1>7, <1>8 DEF RunContainer

LEMMA QueueStep == [Next]_vars => [Queue!Next]_(Queue!vars)
<1> SUFFICES ASSUME [Next]_vars PROVE Queue!Next \/ UNCHANGED queueVars
  BY DEF Queue!vars, queueVars
<1>1. CASE Begin \/ ClaimUnacknowledged \/ ReleaseLease \/ CleanupOldJobs
  BY <1>1 DEF Begin, ClaimUnacknowledged, ReleaseLease, CleanupOldJobs, Queue!Next
<1>2. ASSUME NEW t \in Tries, Settle(t) PROVE Queue!Next
  <2>1. Queue!Complete(t) \/ Queue!Retry(t) \/ Queue!GiveUp(t) BY <1>2 DEF Settle
  <2>2. t \in running
    BY <2>1 DEF Queue!Complete, Queue!Retry, Queue!GiveUp, Queue!Answer
  <2> QED BY <2>1, <2>2 DEF Queue!Next
<1>3. ASSUME NEW t \in Tries, LoseSettlement(t) PROVE Queue!Next
  <2>1. Queue!Lose({t}) BY <1>3 DEF LoseSettlement
  <2>2. {t} \in SUBSET running BY <2>1 DEF Queue!Lose
  <2> QED BY <2>1, <2>2 DEF Queue!Next
<1>4. ASSUME NEW dead \in SUBSET Tries, Die(dead) PROVE Queue!Next
  <2>1. Queue!Lose(dead) BY <1>4 DEF Die
  <2>2. dead \in SUBSET running BY <2>1 DEF Queue!Lose
  <2> QED BY <2>1, <2>2 DEF Queue!Next
<1>5. ASSUME NEW t \in Tries, RunContainer(t) PROVE UNCHANGED queueVars
  BY <1>5, RunContainerGoesOn DEF Goto
<1>6. ASSUME NEW t \in Tries, ContainerExits(t) \/ AutoRemove(t) PROVE UNCHANGED queueVars
  BY <1>6 DEF ContainerExits, AutoRemove
<1>7. CASE UNCHANGED vars BY <1>7 DEF vars
<1> QED BY <1>1, <1>2, <1>3, <1>4, <1>5, <1>6, <1>7 DEF Next

\* RunContainer and the daemon take nothing from the queue and add nothing to it:
\* what JobQueue guarantees to each run's executions is what containers meet.
THEOREM ContainersFollowQueue == Spec => Queue!Spec
BY QueueStep, PTL DEF Spec, Init, Queue!Spec

-----------------------------------------------------------------------------
(* How many executions there can be. *)

QueueTypes ==
    /\ job \in {"queued", "taken", "done", "failed", "forgotten"}
    /\ tries \in 0..(2 * MaxAttempts)
    /\ running \in SUBSET (1..tries)

\* The executions that may still ask for a retry.
Retriers == running \cap (1..MaxAttempts)

LEMMA RetriersCount ==
    /\ IsFiniteSet(Retriers) /\ Cardinality(Retriers) \in 0..MaxAttempts
    /\ \A S \in SUBSET Retriers : IsFiniteSet(S) /\ Cardinality(S) \in 0..Cardinality(Retriers)
    /\ \A t \in Retriers : Cardinality(Retriers \ {t}) = Cardinality(Retriers) - 1
<1>1. IsFiniteSet(1..MaxAttempts) /\ Cardinality(1..MaxAttempts) = MaxAttempts
  BY FS_Interval
<1>2. IsFiniteSet(Retriers) /\ Cardinality(Retriers) <= MaxAttempts
  BY <1>1, FS_Subset DEF Retriers
<1>3. Cardinality(Retriers) \in Nat BY <1>2, FS_CardinalityType
<1>4. ASSUME NEW S \in SUBSET Retriers
      PROVE  IsFiniteSet(S) /\ Cardinality(S) \in 0..Cardinality(Retriers)
  <2>1. IsFiniteSet(S) /\ Cardinality(S) <= Cardinality(Retriers) BY <1>2, FS_Subset
  <2>2. Cardinality(S) \in Nat BY <2>1, FS_CardinalityType
  <2> QED BY <1>3, <2>1, <2>2
<1>5. ASSUME NEW t \in Retriers PROVE Cardinality(Retriers \ {t}) = Cardinality(Retriers) - 1
  BY <1>2, FS_RemoveElement
<1> QED BY <1>2, <1>3, <1>4, <1>5

LEMMA TriesStep ==
    ASSUME QueueTypes, TriesBudget, [Queue!Next]_(Queue!vars)
    PROVE  QueueTypes' /\ TriesBudget'
<1> DEFINE n == Cardinality(Retriers)
<1> USE DEF QueueTypes
<1>1. TriesBudget <=> (tries >= MaxAttempts
                       => tries + n + (IF job = "queued" THEN 1 ELSE 0) <= 2 * MaxAttempts)
  BY DEF TriesBudget, Retriers
<1>2. TriesBudget' <=> (tries' >= MaxAttempts
                        => tries' + Cardinality(Retriers') + (IF job' = "queued" THEN 1 ELSE 0)
                           <= 2 * MaxAttempts)
  BY DEF TriesBudget, Retriers
<1>3. n \in 0..MaxAttempts BY RetriersCount
<1> HIDE DEF n
<1>4. CASE Queue!Begin \/ Queue!Forfeit
  <2>1. job = "queued" /\ job' = "taken" /\ tries' = tries + 1
    BY <1>4 DEF Queue!Begin, Queue!Forfeit, Queue!Take
  <2>2. running' = running \cup {tries + 1} \/ running' = running
    BY <1>4 DEF Queue!Begin, Queue!Forfeit
  <2>3. tries' \in 0..(2 * MaxAttempts) BY <1>1, <1>3, <2>1
  <2>4. QueueTypes'
    <3>1. \A t \in running : t \in 1..(tries + 1) OBVIOUS
    <3>2. tries + 1 \in 1..(tries + 1) OBVIOUS
    <3>3. running' \in SUBSET (1..(tries + 1)) BY <2>2, <3>1, <3>2
    <3> QED BY <2>1, <2>3, <3>3
  <2>5. CASE tries >= MaxAttempts
    <3>1. tries + 1 \notin 1..MaxAttempts BY <2>5
    <3>2. Retriers' = Retriers BY <2>2, <3>1 DEF Retriers
    <3> QED BY <1>1, <1>2, <1>3, <2>1, <2>4, <2>5, <3>2 DEF n
  <2>6. CASE tries < MaxAttempts
    <3>1. Cardinality(Retriers') \in 0..MaxAttempts
      <4>1. Retriers' \in SUBSET (1..MaxAttempts) BY DEF Retriers
      <4>2. IsFiniteSet(1..MaxAttempts) /\ Cardinality(1..MaxAttempts) = MaxAttempts
        BY FS_Interval
      <4>3. IsFiniteSet(Retriers') /\ Cardinality(Retriers') <= MaxAttempts
        BY <4>1, <4>2, FS_Subset
      <4> QED BY <4>3, FS_CardinalityType
    <3> QED BY <1>2, <2>1, <2>4, <2>6, <3>1
  <2> QED BY <2>5, <2>6
<1>5. ASSUME NEW t \in running, Queue!Complete(t) \/ Queue!Retry(t) \/ Queue!GiveUp(t)
      PROVE  QueueTypes' /\ TriesBudget'
  <2>1. running' = running \ {t} /\ tries' = tries
    BY <1>5 DEF Queue!Complete, Queue!Retry, Queue!GiveUp, Queue!Answer
  <2>2. Retriers' = Retriers \ {t} BY <2>1 DEF Retriers
  <2>3. QueueTypes'
    BY <1>5, <2>1 DEF Queue!Complete, Queue!Retry, Queue!GiveUp, Queue!Answer
  <2>4. CASE Queue!Retry(t)
    <3>1. t \in Retriers /\ job' = "queued"
      BY <2>4 DEF Queue!Retry, Queue!Answer, Retriers
    <3>2. Cardinality(Retriers') = n - 1 BY <2>2, <3>1, RetriersCount DEF n
    <3> QED BY <1>1, <1>2, <1>3, <2>1, <2>3, <3>1, <3>2
  <2>5. CASE Queue!Complete(t) \/ Queue!GiveUp(t)
    <3>1. job' # "queued" BY <2>5 DEF Queue!Complete, Queue!GiveUp, Queue!Answer
    <3>2. Cardinality(Retriers') \in 0..n BY <2>2, RetriersCount DEF n
    <3> QED BY <1>1, <1>2, <1>3, <2>1, <2>3, <3>1, <3>2
  <2> QED BY <1>5, <2>4, <2>5
<1>6. ASSUME NEW lost \in SUBSET running, Queue!Lose(lost) PROVE QueueTypes' /\ TriesBudget'
  <2>1. running' = running \ lost /\ tries' = tries /\ job' = job BY <1>6 DEF Queue!Lose
  <2>2. Retriers' \in SUBSET Retriers BY <2>1 DEF Retriers
  <2>3. Cardinality(Retriers') \in 0..n BY <2>2, RetriersCount DEF n
  <2> QED BY <1>1, <1>2, <1>3, <2>1, <2>3
<1>7. CASE Queue!Release BY <1>7, <1>2 DEF Queue!Release
<1>8. CASE Queue!Forget \/ UNCHANGED Queue!vars
  <2>1. tries' = tries /\ running' = running /\ (job' = job \/ job' = "forgotten")
    BY <1>8 DEF Queue!Forget, Queue!vars
  <2>2. Retriers' = Retriers BY <2>1 DEF Retriers
  <2> QED BY <1>1, <1>2, <1>3, <2>1, <2>2 DEF n
<1> QED BY <1>4, <1>5, <1>6, <1>7, <1>8 DEF Queue!Next

-----------------------------------------------------------------------------
(* Types *)

LEMMA TypeInit == Init => TypeOK /\ TriesBudget
<1> SUFFICES ASSUME Init PROVE TypeOK /\ TriesBudget OBVIOUS
<1>1. job = "queued" /\ tries = 0 /\ running = {} BY DEF Init, Queue!Init
<1>2. tries \in 0..(2 * MaxAttempts) /\ \A t \in Tries : t > tries BY <1>1
<1>3. TypeOK BY <1>1, <1>2 DEF Init, TypeOK, Calls, Results
<1>4. TriesBudget BY <1>1 DEF TriesBudget
<1> QED BY <1>3, <1>4

\* What is left to show of a step that the queue allows.
LocalTypes ==
    /\ pc \in [Tries -> Calls \cup Results \cup {"none", "ended", "unsettled", "dead"}]
    /\ container \in [Tries -> {"none", "created", "running", "exited", "gone"}]
    /\ abandoned \in SUBSET Tries /\ overlapped \in BOOLEAN
    /\ \A t \in Tries :
          /\ t \in running <=> pc[t] \in Calls \cup Results
          /\ t > tries => pc[t] = "none"
          /\ pc[t] \in {"none", "begun"} => container[t] = "none"
          /\ pc[t] = "created" => container[t] = "created"
          /\ pc[t] \in {"started", "waiting", "stopping"} =>
                container[t] \in {"running", "exited", "gone"}

LEMMA Types == TypeOK => QueueTypes /\ LocalTypes
BY DEF TypeOK, QueueTypes, LocalTypes

\* A call that goes on leaves types alone, if what it goes to fits the container.
LEMMA GotoTypes ==
    ASSUME LocalTypes, NEW t \in Tries, NEW call \in (Calls \ {"begun"}) \cup Results, t \in running,
           Goto(t, call), abandoned' \in SUBSET Tries,
           NEW state \in {"none", "created", "running", "exited", "gone"}, Becomes(t, state),
           call = "created" => state = "created",
           call \in {"started", "waiting", "stopping"} => state \in {"running", "exited", "gone"}
    PROVE  LocalTypes'
BY DEF LocalTypes, Goto, Becomes, queueVars, Calls, Results

LEMMA RunContainerTypes ==
    ASSUME LocalTypes, NEW t \in Tries, RunContainer(t)
    PROVE  LocalTypes'
<1>1. t \in running /\ abandoned' \in SUBSET Tries
  <2>1. t \in running BY RunContainerGoesOn DEF LocalTypes
  <2>2. abandoned' = abandoned \/ abandoned' = abandoned \cup {t}
    BY DEF RunContainer, Create, Start, Remove, Wait, ReceiveExit, ReceiveError, Deadline, Stop, Abandon
  <2> QED BY <2>1, <2>2 DEF LocalTypes
<1>2. /\ container[t] \in {"none", "created", "running", "exited", "gone"}
      /\ UNCHANGED container => Becomes(t, container[t])
      /\ pc[t] \in {"started", "waiting", "stopping"} => container[t] \in {"running", "exited", "gone"}
  BY DEF LocalTypes, Becomes
<1> USE <1>1, <1>2, GotoTypes DEF Calls, Results, Return
<1>3. CASE Create(t) BY <1>3 DEF Create, Abandon
<1>4. CASE Start(t) BY <1>4 DEF Start
<1>5. CASE Remove(t) BY <1>5 DEF Remove, Abandon
<1>6. CASE Wait(t) BY <1>6 DEF Wait
<1>7. CASE ReceiveExit(t) BY <1>7 DEF ReceiveExit
<1>8. CASE ReceiveError(t) BY <1>8 DEF ReceiveError, Abandon
<1>9. CASE Deadline(t) BY <1>9 DEF Deadline
<1>10. CASE Stop(t) BY <1>10 DEF Stop, Abandon
<1> QED BY <1>3, <1>4, <1>5, <1>6, <1>7, <1>8, <1>9, <1>10 DEF RunContainer

\* Executions that die: calls that a container may come of.
LEMMA DieTypes ==
    ASSUME LocalTypes, NEW dead \in SUBSET Tries, Die(dead)
    PROVE  LocalTypes'
<1> USE DEF LocalTypes, Calls, Results
<1>1. /\ dead \subseteq running /\ running' = running \ dead /\ tries' = tries
      /\ pc' = [t \in Tries |-> IF t \in dead THEN "dead" ELSE pc[t]]
      /\ UNCHANGED <<abandoned, overlapped>>
  BY DEF Die, Queue!Lose
<1>2. PICK done \in SUBSET dead :
        container' = [t \in Tries |-> IF t \in done THEN AfterCall(t) ELSE container[t]]
  BY DEF Die
<1>3. \A t \in Tries : AfterCall(t) \in {"none", "created", "running", "exited", "gone"}
  BY DEF AfterCall
<1>4. container' \in [Tries -> {"none", "created", "running", "exited", "gone"}]
  BY <1>2, <1>3
<1>5. \A t \in Tries : t \notin dead => container'[t] = container[t] BY <1>2
<1> QED BY <1>1, <1>4, <1>5

LEMMA TypeStep == TypeOK /\ TriesBudget /\ [Next]_vars => TypeOK' /\ TriesBudget'
<1> SUFFICES ASSUME TypeOK, TriesBudget, [Next]_vars PROVE TypeOK' /\ TriesBudget' OBVIOUS
<1>1. QueueTypes /\ LocalTypes BY Types
<1>2. QueueTypes' /\ TriesBudget' BY <1>1, QueueStep, TriesStep
<1>3. LocalTypes'
  <2> USE DEF LocalTypes, Calls, Results
  <2>1. CASE Begin
    <3>1. /\ tries' = tries + 1 /\ running' = running \cup {tries + 1}
          /\ pc' = [pc EXCEPT ![tries + 1] = "begun"]
          /\ UNCHANGED <<container, abandoned, overlapped>>
      BY <2>1 DEF Begin, Queue!Begin, Queue!Take
    <3>2. tries \in Nat /\ tries' \in 0..(2 * MaxAttempts) BY <1>1, <1>2 DEF QueueTypes
    <3>3. tries + 1 \in Tries BY <3>1, <3>2
    <3>4. pc[tries + 1] = "none" BY <1>1, <3>2, <3>3
    <3>5. \A t \in Tries : t > tries + 1 => t > tries BY <3>2
    <3> QED BY <1>1, <3>1, <3>3, <3>4, <3>5
  <2>2. CASE ClaimUnacknowledged
    <3>1. /\ tries' = tries + 1 /\ running' = running
          /\ UNCHANGED <<pc, container, abandoned, overlapped>>
      BY <2>2 DEF ClaimUnacknowledged, Queue!Forfeit, Queue!Take
    <3>2. tries \in Nat BY <1>1 DEF QueueTypes
    <3>3. \A t \in Tries : t > tries + 1 => t > tries BY <3>2
    <3> QED BY <1>1, <3>1, <3>3
  <2>3. CASE ReleaseLease \/ CleanupOldJobs
    BY <1>1, <2>3 DEF ReleaseLease, CleanupOldJobs, Queue!Release, Queue!Forget
  <2>4. ASSUME NEW t \in Tries, Settle(t) \/ LoseSettlement(t) PROVE LocalTypes'
    <3>1. /\ t \in running /\ running' = running \ {t} /\ tries' = tries
          /\ \E end \in {"ended", "unsettled"} : pc' = [pc EXCEPT ![t] = end]
          /\ UNCHANGED <<container, abandoned, overlapped>>
      BY <1>1, <2>4 DEF Settle, LoseSettlement, Queue!Complete, Queue!Retry, Queue!GiveUp,
                        Queue!Answer, Queue!Lose
    <3> QED BY <1>1, <3>1
  <2>5. ASSUME NEW t \in Tries, RunContainer(t) PROVE LocalTypes'
    BY <1>1, <2>5, RunContainerTypes
  <2>6. ASSUME NEW t \in Tries, ContainerExits(t) \/ AutoRemove(t) PROVE LocalTypes'
    BY <1>1, <2>6 DEF ContainerExits, AutoRemove, Becomes, queueVars
  <2>7. ASSUME NEW dead \in SUBSET Tries, Die(dead) PROVE LocalTypes'
    BY <1>1, <2>7, DieTypes
  <2>8. CASE UNCHANGED vars BY <1>1, <2>8 DEF vars, queueVars
  <2> QED BY <2>1, <2>2, <2>3, <2>4, <2>5, <2>6, <2>7, <2>8 DEF Next
<1> QED BY <1>2, <1>3 DEF TypeOK, QueueTypes, LocalTypes

\* The types of the variables, what container a call finds, and that there are no
\* more than twice max_attempts executions, however leases and claims go.
THEOREM ContainersTypeCorrect == Spec => []TypeOK
<1>1. Spec => [](TypeOK /\ TriesBudget) BY TypeInit, TypeStep, PTL DEF Spec
<1> QED BY <1>1, PTL

-----------------------------------------------------------------------------
(* Effects on containers: only an execution that has just begun, and finds *)
(* the name free, adds one to those that exist.                            *)

Adds(t) == ~NameTaken /\ \A u \in Tries \ {t} : ~Exists(u)'

Keeps == \A t \in Tries : Exists(t)' => Exists(t)

LEMMA Effects ==
    ASSUME TypeOK, [Next]_vars
    PROVE  (\E t \in Tries : Adds(t)) \/ Keeps
<1> USE DEF TypeOK, Exists, Keeps
<1>1. CASE Begin \/ ClaimUnacknowledged \/ ReleaseLease \/ CleanupOldJobs
  BY <1>1 DEF Begin, ClaimUnacknowledged, ReleaseLease, CleanupOldJobs
<1>2. ASSUME NEW t \in Tries, Create(t) PROVE Adds(t) \/ Keeps
  BY <1>2 DEF Create, Adds, Becomes, NameTaken
<1>3. ASSUME NEW t \in Tries, RunContainer(t), ~Create(t) PROVE Keeps
  BY <1>3 DEF RunContainer, Start, Remove, Wait, ReceiveExit, ReceiveError, Deadline, Stop, Becomes
<1>4. ASSUME NEW dead \in SUBSET Tries, Die(dead) PROVE (\E t \in Tries : Adds(t)) \/ Keeps
  <2>1. PICK done \in SUBSET dead :
          /\ \A t, u \in done : pc[t] = "begun" /\ pc[u] = "begun" => t = u
          /\ container' = [t \in Tries |-> IF t \in done THEN AfterCall(t) ELSE container[t]]
    BY <1>4 DEF Die
  <2>2. ASSUME NEW u \in Tries, ~(u \in done /\ pc[u] = "begun" /\ ~NameTaken), Exists(u)'
        PROVE  Exists(u)
    BY <2>1, <2>2 DEF AfterCall
  <2>3. ASSUME NEW t \in done, pc[t] = "begun", ~NameTaken PROVE Adds(t)
    <3>1. \A u \in Tries \ {t} : ~(u \in done /\ pc[u] = "begun") BY <2>1, <2>3
    <3> QED BY <2>2, <2>3, <3>1 DEF Adds, NameTaken
  <2> QED BY <2>2, <2>3
<1>5. ASSUME NEW t \in Tries, ContainerExits(t) \/ AutoRemove(t) PROVE Keeps
  BY <1>5 DEF ContainerExits, AutoRemove, Becomes
<1>6. ASSUME NEW t \in Tries, Settle(t) \/ LoseSettlement(t) PROVE Keeps
  BY <1>6 DEF Settle, LoseSettlement
<1>7. CASE UNCHANGED vars BY <1>7 DEF vars
<1> QED BY <1>1, <1>2, <1>3, <1>4, <1>5, <1>6, <1>7 DEF Next

\* Two executions of a run, whatever becomes of their leases, never have a
\* container each.
THEOREM ContainerIsSingle == Spec => []OneContainer
<1>1. Init => OneContainer BY DEF Init, OneContainer, Exists
<1>2. TypeOK /\ OneContainer /\ [Next]_vars => OneContainer'
  <2> SUFFICES ASSUME TypeOK, OneContainer, [Next]_vars PROVE OneContainer' OBVIOUS
  <2>1. ASSUME NEW t \in Tries, Adds(t) PROVE OneContainer'
    BY <2>1 DEF Adds, OneContainer
  <2>2. CASE Keeps BY <2>2 DEF Keeps, OneContainer
  <2> QED BY <2>1, <2>2, Effects
<1> QED BY <1>1, <1>2, ContainersTypeCorrect, PTL DEF Spec

-----------------------------------------------------------------------------
(* What is left of containers when an execution returns. *)

LEMMA StillInit == Init => StillInv
BY DEF Init, Queue!Init, StillInv, Sequential, HolderAlone, VerdictIsStill, HeldOrJudged,
       EndedRunIsStill, Calls, Holds, Exists

\* A call that returns: a verdict leaves nothing running, and an error nothing at all.
LEMMA ReturnStep ==
    ASSUME TypeOK, StillInv, NEW t \in running, NEW result \in Results, Return(t, result),
           \A u \in Tries \ {t} : container'[u] = container[u],
           result # "error" => Holds(t) /\ container'[t] \notin {"created", "running"},
           result = "error" =>
             t \in abandoned' \/ container'[t] \notin {"created", "running", "exited"},
           abandoned \subseteq abandoned'
    PROVE  StillInv'
<1> USE DEF TypeOK, Calls, Results, Goto, Return, queueVars, StillInv
<1>0. t \in Tries OBVIOUS
<1>1. Sequential' BY DEF Sequential
<1>2. ~overlapped => job = "taken" /\ \A u \in running : u = t BY DEF Sequential
<1>3. ~overlapped => \A u \in Tries \ {t} : pc'[u] \notin Calls \cup Results
  BY <1>0, <1>2
<1>4. HolderAlone' BY <1>0, <1>3 DEF HolderAlone, Holds
<1>5. VerdictIsStill' BY <1>0, <1>3 DEF VerdictIsStill, HolderAlone, Exists
<1>6. HeldOrJudged' BY <1>0, <1>2, <1>3 DEF HeldOrJudged, Holds, Exists, ExitUnsettled
<1>7. EndedRunIsStill' BY <1>2 DEF EndedRunIsStill
<1> QED BY <1>1, <1>4, <1>5, <1>6, <1>7

\* One that goes on keeps what it holds, and comes by a container only if none exists.
LEMMA GotoStep ==
    ASSUME TypeOK, StillInv, NEW t \in running, NEW call \in Calls \ {"begun"}, Goto(t, call),
           \A u \in Tries \ {t} : container'[u] = container[u],
           Holds(t) \/ ~NameTaken,
           abandoned \subseteq abandoned'
    PROVE  StillInv'
<1> USE DEF TypeOK, Calls, Results, Goto, queueVars, StillInv
<1>0. t \in Tries OBVIOUS
<1>1. Sequential' BY DEF Sequential
<1>2. ~overlapped => job = "taken" /\ \A u \in running : u = t BY DEF Sequential
<1>3. ~overlapped => \A u \in Tries \ {t} : pc'[u] \notin Calls \cup Results
  BY <1>0, <1>2
<1>4. HolderAlone' BY <1>0, <1>3 DEF HolderAlone, Holds, Exists, NameTaken
<1>5. VerdictIsStill' BY <1>0, <1>3 DEF VerdictIsStill
<1>6. HeldOrJudged' BY <1>0, <1>2, <1>3 DEF HeldOrJudged, Holds, Exists, ExitUnsettled
<1>7. EndedRunIsStill' BY <1>2 DEF EndedRunIsStill
<1> QED BY <1>1, <1>4, <1>5, <1>6, <1>7

LEMMA RunContainerStill ==
    ASSUME TypeOK, StillInv, NEW t \in Tries, RunContainer(t)
    PROVE  StillInv'
<1> USE DEF Exists, Holds
<1>0. t \in running BY RunContainerGoesOn DEF TypeOK
<1>1. CASE Create(t)
  BY <1>0, <1>1, ReturnStep, GotoStep DEF Create, Abandon, Becomes, Calls, Results, TypeOK
<1>2. CASE Start(t) BY <1>0, <1>2, GotoStep DEF Start, Becomes, Calls, TypeOK
<1>3. CASE Remove(t) BY <1>0, <1>3, ReturnStep DEF Remove, Abandon, Becomes, Results, TypeOK
<1>4. CASE Wait(t) BY <1>0, <1>4, ReturnStep, GotoStep DEF Wait, Calls, Results, TypeOK
<1>5. CASE ReceiveExit(t) BY <1>0, <1>5, ReturnStep DEF ReceiveExit, Calls, Results, TypeOK
<1>6. CASE ReceiveError(t) BY <1>0, <1>6, ReturnStep DEF ReceiveError, Abandon, Results, TypeOK
<1>7. CASE Deadline(t) BY <1>0, <1>7, GotoStep DEF Deadline, Calls, TypeOK
<1>8. CASE Stop(t) BY <1>0, <1>8, ReturnStep DEF Stop, Abandon, Becomes, Calls, Results, TypeOK
<1> QED BY <1>1, <1>2, <1>3, <1>4, <1>5, <1>6, <1>7, <1>8 DEF RunContainer

\* The agent of some executions dies: without overlaps it is that of the only one.
LEMMA DieStill ==
    ASSUME TypeOK, StillInv, NEW dead \in SUBSET Tries, Die(dead)
    PROVE  StillInv'
<1> USE DEF TypeOK, StillInv
<1>1. /\ dead \subseteq running /\ running' = running \ dead /\ job' = job /\ tries' = tries
      /\ \A t \in Tries : /\ t \in dead => pc'[t] = "dead"
                          /\ t \notin dead => pc'[t] = pc[t] /\ container'[t] = container[t]
      /\ UNCHANGED <<abandoned, overlapped>>
  BY DEF Die, Queue!Lose
<1>2. Sequential' BY <1>1 DEF Sequential
<1>3. ASSUME ~overlapped, NEW t \in Tries, pc'[t] \in Calls \cup Results PROVE dead = {}
  <2>1. t \notin dead /\ pc'[t] = pc[t] BY <1>1, <1>3 DEF Calls, Results
  <2>2. t \in running BY <1>3, <2>1
  <2> QED BY <1>1, <1>3, <2>1, <2>2 DEF Sequential
<1>4. HolderAlone' BY <1>1, <1>3 DEF HolderAlone, Holds, Exists, Calls
<1>5. VerdictIsStill' BY <1>1, <1>3 DEF VerdictIsStill, Results
<1>6. HeldOrJudged' BY <1>1 DEF HeldOrJudged, Holds, Exists, ExitUnsettled, Calls, Results
<1>7. EndedRunIsStill' BY <1>1 DEF EndedRunIsStill, Sequential
<1> QED BY <1>2, <1>4, <1>5, <1>6, <1>7

\* What the worker makes of an answer: a verdict ends the run, which is still.
LEMMA SettleStill ==
    ASSUME TypeOK, StillInv, NEW t \in Tries, Settle(t) \/ LoseSettlement(t)
    PROVE  StillInv'
<1> USE DEF TypeOK, StillInv
<1>1. /\ t \in running /\ running' = running \ {t} /\ tries' = tries
      /\ \E end \in {"ended", "unsettled"} : pc' = [pc EXCEPT ![t] = end]
      /\ UNCHANGED <<container, abandoned, overlapped>>
  BY DEF Settle, LoseSettlement, Queue!Complete, Queue!Retry, Queue!GiveUp, Queue!Answer, Queue!Lose
<1>2. \/ pc[t] \in {"exit", "timeout"} /\ job' = "done"
      \/ pc[t] = "error" /\ job' \in {"queued", "failed"}
      \/ pc[t] \in Results /\ pc'[t] = "unsettled" /\ job' = job
  BY DEF Results, Settle, LoseSettlement, Queue!Complete, Queue!Retry, Queue!GiveUp, Queue!Answer, Queue!Lose
<1>3. ~overlapped => job = "taken" /\ \A u \in running : u = t BY <1>1 DEF Sequential
<1>4. ~overlapped => \A u \in Tries : pc'[u] \notin Calls \cup Results
  BY <1>1, <1>3 DEF Calls, Results
<1>5. Sequential' BY <1>1, <1>3 DEF Sequential
<1>6. HolderAlone' BY <1>1, <1>4 DEF HolderAlone, Holds
<1>7. VerdictIsStill' BY <1>1, <1>4 DEF VerdictIsStill, Results
<1>8. HeldOrJudged'
  <2> SUFFICES ASSUME ~overlapped', NEW u \in Tries, Exists(u)',
                      u \notin abandoned, pc'[u] # "dead", ~ExitUnsettled(u)'
               PROVE  job' \in {"done", "forgotten"}
    BY <1>1 DEF HeldOrJudged
  <2>1. /\ Exists(u) /\ ~overlapped /\ pc[t] \in Results
        /\ u # t => pc[u] \notin Calls \cup Results /\ pc'[u] = pc[u] /\ container'[u] = container[u]
    BY <1>1, <1>2, <1>3 DEF Exists, Results
  <2>2. CASE u # t
    <3>1. pc[u] # "dead" /\ ~ExitUnsettled(u) BY <2>1, <2>2 DEF ExitUnsettled
    <3>2. job \in {"done", "forgotten"}
      BY <2>1, <2>2, <3>1 DEF HeldOrJudged, Holds, Calls, Results
    <3> QED BY <1>1, <1>3, <2>1, <3>2
  <2>3. CASE u = t
    <3>1. pc[t] # "error"
      BY <1>3, <2>1, <2>3 DEF HeldOrJudged, Holds, Calls, Results, ExitUnsettled
    <3>2. container'[t] = "exited"
      BY <1>1, <2>1, <2>3, <3>1 DEF VerdictIsStill, Exists, Results
    <3> QED BY <1>2, <2>1, <2>3, <3>1, <3>2 DEF ExitUnsettled, Results
  <2> QED BY <2>2, <2>3
<1>9. EndedRunIsStill' BY <1>1, <1>2, <1>3 DEF EndedRunIsStill, VerdictIsStill
<1> QED BY <1>5, <1>6, <1>7, <1>8, <1>9

LEMMA StillStep == TypeOK /\ TriesBudget /\ StillInv /\ [Next]_vars => StillInv'
<1> SUFFICES ASSUME TypeOK, TriesBudget, StillInv, [Next]_vars PROVE StillInv' OBVIOUS
<1> USE DEF TypeOK
<1>0. TypeOK' BY TypeStep
<1>1. CASE Begin
  <2>1. /\ job = "queued" /\ job' = "taken" /\ tries' = tries + 1
        /\ running' = running \cup {tries + 1} /\ pc' = [pc EXCEPT ![tries + 1] = "begun"]
        /\ UNCHANGED <<container, abandoned, overlapped>>
    BY <1>1 DEF Begin, Queue!Begin, Queue!Take
  <2>2. ~overlapped => running = {} BY <2>1 DEF StillInv, Sequential
  <2>3. ~overlapped => \A u \in Tries : pc'[u] \notin (Calls \ {"begun"}) \cup Results
    BY <2>1, <2>2 DEF Calls, Results
  <2>4. Sequential' BY <2>1, <2>2 DEF Sequential
  <2>5. HolderAlone' BY <2>1, <2>3 DEF HolderAlone, Holds
  <2>6. VerdictIsStill' BY <2>1, <2>3 DEF VerdictIsStill, Results
  <2>7. HeldOrJudged'
    BY <2>1, <2>2 DEF StillInv, HeldOrJudged, Holds, Exists, ExitUnsettled, Calls, Results
  <2>8. EndedRunIsStill' BY <2>1 DEF EndedRunIsStill
  <2> QED BY <2>4, <2>5, <2>6, <2>7, <2>8 DEF StillInv
<1>2. CASE ClaimUnacknowledged
  <2>1. /\ job = "queued" /\ job' = "taken" /\ tries' = tries + 1
        /\ UNCHANGED <<running, pc, container, abandoned, overlapped>>
    BY <1>2 DEF ClaimUnacknowledged, Queue!Forfeit, Queue!Take
  <2> QED BY <2>1 DEF StillInv, Sequential, HolderAlone, VerdictIsStill, HeldOrJudged,
                      EndedRunIsStill, Holds, Exists, ExitUnsettled
<1>3. CASE ReleaseLease
  <2>1. /\ job = "taken" /\ job' = "queued" /\ overlapped' = (overlapped \/ running # {})
        /\ UNCHANGED <<tries, running, pc, container, abandoned>>
    BY <1>3 DEF ReleaseLease, Queue!Release
  <2>2. ~overlapped' => \A t \in Tries : pc[t] \notin Calls \cup Results BY <2>1
  <2> QED BY <2>1, <2>2 DEF StillInv, Sequential, HolderAlone, VerdictIsStill, HeldOrJudged,
                            EndedRunIsStill, Holds, Exists, ExitUnsettled, Results
<1>4. CASE CleanupOldJobs
  <2>1. /\ job \in {"done", "failed"} /\ job' = "forgotten" /\ running = {}
        /\ UNCHANGED <<tries, running, pc, container, abandoned, overlapped>>
    BY <1>4 DEF CleanupOldJobs, Queue!Forget
  <2> QED BY <2>1 DEF StillInv, Sequential, HolderAlone, VerdictIsStill, HeldOrJudged,
                      EndedRunIsStill, Holds, Exists, ExitUnsettled
<1>5. ASSUME NEW t \in Tries, ContainerExits(t) \/ AutoRemove(t) PROVE StillInv'
  <2>1. /\ UNCHANGED <<job, tries, running, pc, abandoned, overlapped>>
        /\ \A u \in Tries : /\ Exists(u)' => Exists(u)
                            /\ Exists(u)' /\ container[u] = "exited" => container'[u] = "exited"
                            /\ container'[u] \in {"created", "running"}
                               => container[u] \in {"created", "running"}
    BY <1>5 DEF ContainerExits, AutoRemove, Becomes, queueVars, Exists
  <2> QED BY <2>1 DEF StillInv, Sequential, HolderAlone, VerdictIsStill, HeldOrJudged,
                      EndedRunIsStill, Holds, ExitUnsettled
<1>6. CASE UNCHANGED vars
  BY <1>6 DEF vars, queueVars, StillInv, Sequential, HolderAlone, VerdictIsStill, HeldOrJudged,
              EndedRunIsStill, Holds, Exists, ExitUnsettled
<1> QED BY <1>1, <1>2, <1>3, <1>4, <1>5, <1>6, RunContainerStill, SettleStill, DieStill DEF Next

THEOREM StillInvariant == Spec => []StillInv
<1>1. Init => TypeOK /\ TriesBudget /\ StillInv BY TypeInit, StillInit
<1>2. TypeOK /\ TriesBudget /\ StillInv /\ [Next]_vars => (TypeOK /\ TriesBudget /\ StillInv)'
  BY TypeStep, StillStep
<1> QED BY <1>1, <1>2, PTL DEF Spec

\* However many attempts fail, where no lease expires under an execution the next one
\* finds the name free, but for the container of an earlier execution that could not
\* remove, stop or wait for it (or know of it), whose agent died, or whose exit was
\* never settled.
THEOREM RetriesFindTheName == Spec => []RetryFindsName
<1>1. TypeOK /\ StillInv => RetryFindsName
  BY DEF TypeOK, StillInv, RetryFindsName, Sequential, HeldOrJudged, Holds, Calls, Results
<1> QED BY <1>1, ContainersTypeCorrect, StillInvariant, PTL

\* With whatever answers and statements lost and agents dead, a run that has
\* passed, failed or timed out has no container that runs, or could still be started.
THEOREM EndedRunsAreStill == Spec => []EndedRunIsStill
<1>1. StillInv => EndedRunIsStill BY DEF StillInv
<1> QED BY <1>1, StillInvariant, PTL

\* When no execution outlives its lease none overlaps another, and what the last
\* two theorems say of executions that do not holds of all.
THEOREM NothingOverlaps ==
    ASSUME ~Overlap PROVE Spec => []~overlapped
<1>1. Init => ~overlapped BY DEF Init
<1>2. ~overlapped /\ [Next]_vars => ~overlapped'
  <2> SUFFICES ASSUME ~overlapped, [Next]_vars PROVE ~overlapped' OBVIOUS
  <2>1. CASE ReleaseLease BY <2>1 DEF ReleaseLease, Queue!Release
  <2>2. ASSUME NEW t \in Tries, RunContainer(t) PROVE ~overlapped'
    BY <2>2, RunContainerGoesOn DEF Goto
  <2>3. CASE ~ReleaseLease /\ ~ \E t \in Tries : RunContainer(t)
    BY <2>3 DEF Next, Begin, ClaimUnacknowledged, CleanupOldJobs, Settle, LoseSettlement, Die,
                ContainerExits, AutoRemove, vars
  <2> QED BY <2>1, <2>2, <2>3
<1> QED BY <1>1, <1>2, PTL DEF Spec
=============================================================================
