--------------------------- MODULE PodStackProofs ---------------------------
(***************************************************************************)
(* Theorems about PodStack, for any stack and any dependency graph, with   *)
(* cycles and unknown names: what ApplyStack decides and in which order,   *)
(* and what DeleteStack leaves.                                            *)
(***************************************************************************)
EXTENDS PodStack, SequenceLemmas

(* Types, as far as "up" is concerned.                                     *)
UpTyped ==
  /\ deps \in [Pods -> SUBSET (Pods \cup Others)]
  /\ cmd = "up" => answer = "none"
  /\ cmd = "up" => remaining \in Seq(Pods) /\ next \in Seq(Pods) /\ applied \subseteq Pods

(* No pod of the stack gets lost between the passes.                       *)
Covered == cmd = "up" => Pods \subseteq applied \cup Range(remaining) \cup Range(next)

(* A pod has been applied only after all its dependencies.                 *)
Supported == cmd = "up" => \A p \in applied : deps[p] \subseteq applied

(* Whatever has been applied is in every closed set: no order could have   *)
(* done with less.                                                         *)
Least == cmd = "up" => applied \subseteq Resolvable

(* A pass without progress has found every pod it put off not ready.       *)
Stuck == cmd = "up" /\ ~progress => \A p \in Range(next) : ~Ready(p)

UpInv == UpTyped /\ Covered /\ Supported /\ Least /\ Stuck

-----------------------------------------------------------------------------
(* A ready pod is resolvable once everything applied is.                   *)
LEMMA ReadyIsResolvable ==
  ASSUME NEW p \in Pods, deps[p] \subseteq Resolvable
  PROVE  p \in Resolvable
  <1>1. ASSUME NEW S \in SUBSET Pods, Closed(S)
        PROVE  p \in S
    <2>1. Resolvable \subseteq S
      BY <1>1 DEF Resolvable
    <2> QED BY <1>1, <2>1 DEF Closed
  <1> QED BY <1>1 DEF Resolvable

(* Every step preserves the invariant of ApplyStack's loop.                *)
LEMMA UpInvStep ==
  ASSUME UpInv, [Next]_vars
  PROVE  UpInv'
  <1> USE DEF UpInv
  <1>1. deps' = deps /\ Resolvable' = Resolvable
    <2>1. deps' = deps
      BY DEF Next, vars, Begin, Step, ApplyPod, PutOff, EndOfPass, DeletePod, EndOfDown, Drift, Return
    <2> QED BY <2>1 DEF Resolvable, Closed
  <1>2. CASE cmd' # "up"
    BY <1>1, <1>2 DEF UpTyped, Covered, Supported, Least, Stuck
  <1>3. ASSUME Begin("up")
        PROVE  UpInv'
    <2>1. PICK o \in Orders : remaining' = o
      BY <1>3 DEF Begin
    <2>2. o \in Seq(Pods) /\ Range(o) = Pods
      <3>1. Cardinality(Pods) \in Nat
        BY StackAssumption, FS_CardinalityType
      <3> QED BY <3>1 DEF Orders
    <2>3. next' = <<>> /\ applied' = {} /\ answer' = "none"
      BY <1>3 DEF Begin
    <2>4. next' \in Seq(Pods)
      BY <2>3
    <2> QED BY <1>1, <2>1, <2>2, <2>3, <2>4, RangeEmpty DEF UpTyped, Covered, Supported, Least, Stuck
  <1>4. ASSUME ApplyPod, cmd' = "up"
        PROVE  UpInv'
    <2>1. PICK p : /\ p = Head(remaining) /\ Ready(p)
                   /\ applied' = applied \cup {p} /\ progress' = TRUE
                   /\ remaining' = Tail(remaining) /\ next' = next /\ answer' = answer
      BY <1>4 DEF ApplyPod, Return
    <2>2. /\ p \in Pods /\ Tail(remaining) \in Seq(Pods)
          /\ Range(remaining) = {p} \cup Range(Tail(remaining))
      BY <1>4, <2>1, RangeHeadTail DEF ApplyPod, UpTyped
    <2>3. cmd = "up" /\ p \in Resolvable
      BY <1>4, <2>1, <2>2, ReadyIsResolvable DEF ApplyPod, Ready, Least
    <2> QED
      BY <1>1, <2>1, <2>2, <2>3 DEF UpTyped, Covered, Supported, Least, Stuck, Ready
  <1>5. ASSUME PutOff
        PROVE  UpInv'
    <2>1. /\ Head(remaining) \in Pods /\ Tail(remaining) \in Seq(Pods)
          /\ Range(remaining) = {Head(remaining)} \cup Range(Tail(remaining))
      BY <1>5, RangeHeadTail DEF PutOff, UpTyped
    <2>2. /\ next' \in Seq(Pods)
          /\ Range(next') = Range(next) \cup {Head(remaining)}
      BY <1>5, <2>1, RangeAppend DEF PutOff, UpTyped
    <2> QED BY <1>1, <1>5, <2>1, <2>2 DEF PutOff, UpTyped, Covered, Supported, Least, Stuck, Ready
  <1>6. ASSUME EndOfPass, cmd' = "up"
        PROVE  UpInv'
    <2>1. /\ cmd = "up" /\ remaining = <<>> /\ remaining' = next /\ next' = <<>>
          /\ applied' = applied /\ answer' = answer
      BY <1>6 DEF EndOfPass, Return
    <2>2. next' \in Seq(Pods)
      BY <2>1
    <2> QED BY <1>1, <2>1, <2>2, RangeEmpty DEF UpTyped, Covered, Supported, Least, Stuck
  <1>7. CASE UNCHANGED <<cmd, remaining, next, applied, progress, answer>>
    BY <1>1, <1>7 DEF UpTyped, Covered, Supported, Least, Stuck, Ready
  <1>8. ASSUME NEW c \in Commands, Begin(c), cmd' = "up"
        PROVE  UpInv'
    BY <1>3, <1>8 DEF Begin
  <1>9. DeletePod \/ EndOfDown => cmd' # "up"
    BY DEF DeletePod, EndOfDown, Return
  <1>10. (\E p \in Pods : Drift(p)) \/ UNCHANGED vars => UNCHANGED <<cmd, remaining, next, applied, progress, answer>>
    BY DEF Drift, loop, vars
  <1> QED BY <1>2, <1>4, <1>5, <1>6, <1>7, <1>8, <1>9, <1>10 DEF Next, Step

(* Where the loop of ApplyStack ends without an error of a call, it has    *)
(* applied the resolvable pods and no others, and it knows whether these   *)
(* are all.                                                                *)
LEMMA UpDecides ==
  ASSUME UpInv, EndOfPass, cmd' = "none"
  PROVE  applied' = Resolvable' /\ (answer' = "ok" <=> Resolvable' = Pods)
  <1> USE DEF UpInv
  <1>1. cmd = "up" /\ applied' = applied /\ deps' = deps /\ Range(remaining) = {}
    BY RangeEmpty DEF EndOfPass, Return
  <1>2. Resolvable' = Resolvable /\ Resolvable \subseteq Pods
    BY <1>1 DEF Resolvable, Closed
  <1>3. CASE next = <<>> /\ answer' = "ok"
    BY <1>1, <1>2, <1>3, RangeEmpty DEF Covered, Least, UpTyped
  <1>4. CASE next # <<>> /\ ~progress /\ answer' = "circular"
    <2>1. Closed(applied)
      BY <1>1, <1>4 DEF Closed, Covered, Stuck, Ready
    <2>2. applied = Resolvable
      BY <1>1, <2>1 DEF Least, Resolvable, UpTyped
    <2>3. PICK q : q \in Range(next)
      BY <1>1, RangeHeadTail, <1>4 DEF UpTyped
    <2>4. q \notin applied
      BY <1>1, <1>4, <2>3 DEF Stuck, Ready, Supported
    <2>5. q \in Pods
      BY <1>1, <2>3 DEF UpTyped, Range
    <2> QED BY <1>1, <1>2, <1>4, <2>2, <2>4, <2>5
  <1> QED BY <1>1, <1>3, <1>4 DEF EndOfPass, Return

(* For every stack and every dependency graph: unless a call fails,        *)
(* ApplyStack applies exactly the resolvable pods, and it reports a        *)
(* circular or unresolvable dependency just when these are not all.        *)
THEOREM DependenciesDecided == Spec => AppliesResolvable
<1>1. Init => UpInv
  BY StackAssumption DEF Init, UpInv, UpTyped, Covered, Supported, Least, Stuck
<1>2. UpInv /\ [Next]_vars => UpInv'
  BY UpInvStep
<1>3. UpInv /\ [Next]_vars =>
        [cmd = "up" /\ answer' \in {"ok", "circular"}
           => applied' = Resolvable /\ (answer' = "ok" <=> Resolvable = Pods)]_vars
  <2> SUFFICES ASSUME UpInv, Next, cmd = "up", answer' \in {"ok", "circular"}, ~UNCHANGED vars
               PROVE  applied' = Resolvable /\ (answer' = "ok" <=> Resolvable = Pods)
    OBVIOUS
  <2>1. EndOfPass
    BY DEF UpInv, UpTyped, Next, Begin, Step, ApplyPod, PutOff, DeletePod, EndOfDown, Drift, Return
  <2>2. cmd' = "none" /\ deps' = deps
    BY <2>1 DEF UpInv, UpTyped, EndOfPass, Return
  <2>3. Resolvable' = Resolvable
    BY <2>2 DEF Resolvable, Closed
  <2> QED BY <2>1, <2>2, <2>3, UpDecides
<1> QED BY <1>1, <1>2, <1>3, PTL DEF Spec, AppliesResolvable

-----------------------------------------------------------------------------
(* In which order "up" applies, and what "down" leaves.                    *)

(* In the middle of "up" every pod is in one place: applied, in this pass  *)
(* or in the next one, and there once.                                     *)
OnePlace ==
  cmd = "up" =>
    /\ Range(done) = applied
    /\ IsInjective(remaining) /\ IsInjective(next)
    /\ Range(remaining) \cap Range(next) = {}
    /\ (Range(remaining) \cup Range(next)) \cap applied = {}

(* What "down" has passed is gone, and stays gone.                         *)
Passed ==
  cmd = "down" => answer = "none" /\ \A p \in Pods \ Range(remaining) : phase[p] = "absent"

StackInv == TypeOK /\ OnePlace /\ DependencyOrder /\ Passed

-----------------------------------------------------------------------------
(* Every pod is once in the order in which a command begins.               *)
LEMMA OrderOnce ==
  ASSUME NEW o \in Orders
  PROVE  o \in Seq(Pods) /\ Range(o) = Pods /\ IsInjective(o)
  BY StackAssumption, ListedOnce DEF Orders

(* Every step keeps the variables in their types.                          *)
LEMMA TypeStep ==
  ASSUME TypeOK, [Next]_vars
  PROVE  TypeOK'
  <1>1. ASSUME NEW c \in Commands, Begin(c)
        PROVE  TypeOK'
    <2>1. PICK o \in Orders : remaining' = IF c = "up" THEN o ELSE Reverse(o)
      BY <1>1 DEF Begin
    <2>2. remaining' \in Seq(Pods)
      BY <2>1, OrderOnce, RangeReverse
    <2>3. next' \in Seq(Pods) /\ done' \in Seq(Pods)
      BY <1>1 DEF Begin
    <2> QED BY <1>1, <2>2, <2>3 DEF Begin, TypeOK, Answers
  <1>2. ASSUME ApplyPod
        PROVE  TypeOK'
    <2>1. Head(remaining) \in Pods /\ Tail(remaining) \in Seq(Pods)
      BY <1>2, RangeHeadTail DEF ApplyPod, TypeOK
    <2>2. CASE remaining' = Tail(remaining) /\ UNCHANGED <<deps, cmd, next, answer>>
      <3>1. applied' \subseteq Pods /\ progress' \in BOOLEAN /\ phase' \in [Pods -> Phases]
        BY <1>2, <2>1 DEF ApplyPod, TypeOK, Phases, Return
      <3>2. done' \in {done, Append(done, Head(remaining))}
        BY <1>2 DEF ApplyPod, Return
      <3>3. done' \in Seq(Pods)
        BY <2>1, <3>2, RangeAppend DEF TypeOK
      <3> QED BY <2>1, <2>2, <3>1, <3>3 DEF TypeOK
    <2>3. CASE Return("failed")
      BY <1>2, <2>1, <2>3 DEF ApplyPod, TypeOK, Phases, Answers, Return
    <2> QED BY <1>2, <2>2, <2>3 DEF ApplyPod
  <1>3. ASSUME PutOff
        PROVE  TypeOK'
    <2>1. Head(remaining) \in Pods /\ Tail(remaining) \in Seq(Pods)
      BY <1>3, RangeHeadTail DEF PutOff, TypeOK
    <2>2. next' \in Seq(Pods)
      BY <1>3, <2>1, RangeAppend DEF PutOff, TypeOK
    <2> QED BY <1>3, <2>1, <2>2 DEF PutOff, TypeOK
  <1>4. ASSUME EndOfPass \/ EndOfDown
        PROVE  TypeOK'
    <2>1. remaining' \in Seq(Pods) /\ next' \in Seq(Pods)
      BY <1>4 DEF EndOfPass, EndOfDown, Return, TypeOK
    <2> QED BY <1>4, <2>1 DEF EndOfPass, EndOfDown, Return, TypeOK, Answers
  <1>5. ASSUME DeletePod
        PROVE  TypeOK'
    <2>1. Head(remaining) \in Pods /\ Tail(remaining) \in Seq(Pods)
      BY <1>5, RangeHeadTail DEF DeletePod, TypeOK
    <2>2. phase' \in [Pods -> Phases]
      BY <1>5, <2>1 DEF DeletePod, TypeOK, Phases
    <2>3. remaining' \in Seq(Pods) /\ next' \in Seq(Pods)
      <3>1. <<>> \in Seq(Pods)
        OBVIOUS
      <3>2. remaining' \in {<<>>, Tail(remaining)} /\ next' \in {<<>>, next}
        BY <1>5 DEF DeletePod, Return
      <3> QED BY <2>1, <3>1, <3>2 DEF TypeOK
    <2> QED BY <1>5, <2>2, <2>3 DEF DeletePod, Return, TypeOK, Answers
  <1>6. ASSUME NEW p \in Pods, Drift(p)
        PROVE  TypeOK'
    BY <1>6 DEF Drift, loop, TypeOK, Phases
  <1>7. CASE UNCHANGED vars
    BY <1>7 DEF vars, TypeOK
  <1> QED BY <1>1, <1>2, <1>3, <1>4, <1>5, <1>6, <1>7 DEF Next, Step

-----------------------------------------------------------------------------
(* Every step keeps every pod of "up" in one place, and the order in which *)
(* pods have been applied one in which dependencies come first.            *)
LEMMA OrderStep ==
  ASSUME TypeOK, OnePlace, DependencyOrder, [Next]_vars
  PROVE  OnePlace' /\ DependencyOrder'
  <1>1. ASSUME NEW c \in Commands, Begin(c)
        PROVE  OnePlace' /\ DependencyOrder'
    <2>1. done' = <<>> /\ next' = <<>> /\ applied' = {} /\ cmd' = c
      BY <1>1 DEF Begin
    <2>2. ASSUME c = "up"
          PROVE  IsInjective(remaining')
      BY <1>1, <2>2, OrderOnce DEF Begin
    <2>3. DependencyOrder'
      BY <2>1 DEF DependencyOrder
    <2> QED BY <2>1, <2>2, <2>3, RangeEmpty, InjectiveEmpty DEF OnePlace
  <1>2. ASSUME ApplyPod, cmd' = "up"
        PROVE  OnePlace' /\ DependencyOrder'
    <2> DEFINE p == Head(remaining)
    <2>1. /\ cmd = "up" /\ remaining # <<>> /\ deps[p] \subseteq applied /\ deps' = deps
          /\ applied' = applied \cup {p} /\ done' = Append(done, p)
          /\ remaining' = Tail(remaining) /\ next' = next
      BY <1>2 DEF ApplyPod, Return, Ready
    <2>2. p \in Pods /\ Range(remaining) = {p} \cup Range(Tail(remaining))
      BY <2>1, RangeHeadTail DEF TypeOK
    <2>3. IsInjective(Tail(remaining)) /\ p \notin Range(Tail(remaining))
      BY <2>1, InjectiveTail DEF TypeOK, OnePlace
    <2>4. Range(done') = Range(done) \cup {p}
      BY <2>1, <2>2, RangeAppend DEF TypeOK
    <2>5. OnePlace'
      BY <2>1, <2>2, <2>3, <2>4 DEF OnePlace
    <2>6. p \notin Range(done) /\ deps[p] \subseteq Range(done)
      BY <2>1, <2>2 DEF OnePlace
    <2>7. DependencyOrder'
      <3>1. /\ Len(done') = Len(done) + 1 /\ Len(done) \in Nat
            /\ \A i \in 1..Len(done) : done'[i] = done[i]
            /\ done'[Len(done) + 1] = p
        BY <2>1, <2>2 DEF TypeOK
      <3>2. Range(done) = {done[j] : j \in 1..Len(done)}
        BY DEF TypeOK, Range
      <3>3. ASSUME NEW i \in 1..Len(done)
            PROVE  /\ deps[done'[i]] \subseteq {done'[j] : j \in 1..(i - 1)}
                   /\ \A j \in 1..(i - 1) : done'[j] # done'[i]
        <4>1. /\ deps[done[i]] \subseteq {done[j] : j \in 1..(i - 1)}
              /\ \A j \in 1..(i - 1) : done[j] # done[i]
          BY DEF DependencyOrder
        <4>2. done'[i] = done[i] /\ \A j \in 1..(i - 1) : done'[j] = done[j]
          BY <3>1
        <4> QED BY <4>1, <4>2
      <3>4. /\ deps[p] \subseteq {done'[j] : j \in 1..Len(done)}
            /\ \A j \in 1..Len(done) : done'[j] # p
        BY <2>6, <3>1, <3>2
      <3>5. ASSUME NEW i \in 1..Len(done')
            PROVE  /\ deps'[done'[i]] \subseteq {done'[j] : j \in 1..(i - 1)}
                   /\ \A j \in 1..(i - 1) : done'[j] # done'[i]
        <4>1. CASE i \in 1..Len(done)
          BY <2>1, <3>3, <4>1
        <4>2. CASE i = Len(done) + 1
          <5>1. i - 1 = Len(done)
            BY <3>1, <4>2
          <5> QED BY <2>1, <3>1, <3>4, <4>2, <5>1
        <4> QED BY <3>1, <4>1, <4>2
      <3> QED BY <3>5 DEF DependencyOrder
    <2> QED BY <2>5, <2>7
  <1>3. ASSUME PutOff
        PROVE  OnePlace' /\ DependencyOrder'
    <2> DEFINE p == Head(remaining)
    <2>1. /\ cmd = "up" /\ remaining # <<>> /\ UNCHANGED <<deps, applied, done>>
          /\ next' = Append(next, p) /\ remaining' = Tail(remaining)
      BY <1>3 DEF PutOff
    <2>2. p \in Pods /\ Range(remaining) = {p} \cup Range(Tail(remaining))
      BY <2>1, RangeHeadTail DEF TypeOK
    <2>3. IsInjective(Tail(remaining)) /\ p \notin Range(Tail(remaining))
      BY <2>1, InjectiveTail DEF TypeOK, OnePlace
    <2>4. Range(next') = Range(next) \cup {p}
      BY <2>1, <2>2, RangeAppend DEF TypeOK
    <2>5. IsInjective(next')
      BY <2>1, <2>2, InjectiveAppend DEF TypeOK, OnePlace
    <2>6. OnePlace'
      BY <2>1, <2>2, <2>3, <2>4, <2>5 DEF OnePlace
    <2> QED BY <2>1, <2>6 DEF DependencyOrder
  <1>4. ASSUME EndOfPass, cmd' = "up"
        PROVE  OnePlace' /\ DependencyOrder'
    <2>1. /\ cmd = "up" /\ UNCHANGED <<deps, applied, done>>
          /\ remaining' = next /\ next' = <<>>
      BY <1>4 DEF EndOfPass, Return
    <2> QED BY <2>1, RangeEmpty, InjectiveEmpty DEF OnePlace, DependencyOrder
  <1>5. ASSUME cmd' # "up", UNCHANGED <<deps, done>>
        PROVE  OnePlace' /\ DependencyOrder'
    <2>1. OnePlace'
      BY <1>5 DEF OnePlace
    <2>2. DependencyOrder'
      <3>1. deps' = deps /\ done' = done
        BY <1>5
      <3> QED BY <3>1 DEF DependencyOrder
    <2> QED BY <2>1, <2>2
  <1>6. CASE UNCHANGED <<deps, cmd, loop>>
    BY <1>6 DEF loop, OnePlace, DependencyOrder
  <1>7. (ApplyPod \/ EndOfPass \/ DeletePod \/ EndOfDown) /\ cmd' # "up" => UNCHANGED <<deps, done>>
    BY DEF ApplyPod, EndOfPass, DeletePod, EndOfDown, Return
  <1>8. DeletePod \/ EndOfDown => cmd' # "up"
    BY DEF DeletePod, EndOfDown, Return
  <1>9. (\E p \in Pods : Drift(p)) \/ UNCHANGED vars => UNCHANGED <<deps, cmd, loop>>
    BY DEF Drift, vars, loop
  <1> QED BY <1>1, <1>2, <1>3, <1>4, <1>5, <1>6, <1>7, <1>8, <1>9 DEF Next, Step

(* Every step leaves what "down" has passed without a container.           *)
LEMMA PassedStep ==
  ASSUME TypeOK, Passed, [Next]_vars
  PROVE  Passed'
  <1>1. ASSUME Begin("down")
        PROVE  Passed'
    <2>1. PICK o \in Orders : remaining' = Reverse(o)
      BY <1>1 DEF Begin
    <2>2. Range(remaining') = Pods
      BY <2>1, OrderOnce, RangeReverse
    <2> QED BY <1>1, <2>2 DEF Begin, Passed
  <1>2. ASSUME DeletePod, cmd' = "down"
        PROVE  Passed'
    <2>1. /\ cmd = "down" /\ remaining # <<>> /\ answer' = answer
          /\ phase' = [phase EXCEPT ![Head(remaining)] = "absent"] /\ remaining' = Tail(remaining)
      BY <1>2 DEF DeletePod, Return
    <2>2. Head(remaining) \in Pods /\ Range(remaining) = {Head(remaining)} \cup Range(Tail(remaining))
      BY <2>1, RangeHeadTail DEF TypeOK
    <2> QED BY <2>1, <2>2 DEF Passed, TypeOK
  <1>3. ASSUME NEW p \in Pods, Drift(p)
        PROVE  Passed'
    BY <1>3 DEF Drift, loop, Passed, TypeOK
  <1>4. CASE cmd' # "down"
    BY <1>4 DEF Passed
  <1>5. CASE UNCHANGED vars
    BY <1>5 DEF vars, Passed
  <1>6. ApplyPod \/ PutOff \/ EndOfPass \/ EndOfDown => cmd' # "down"
    BY DEF ApplyPod, PutOff, EndOfPass, EndOfDown, Return
  <1>7. \A c \in Commands : Begin(c) => cmd' = c
    BY DEF Begin
  <1> QED BY <1>1, <1>2, <1>3, <1>4, <1>5, <1>6, <1>7 DEF Next, Step

(* The invariant of the two loops holds along every behaviour.             *)
LEMMA StackInvariance == Spec => []StackInv
  <1>1. Init => StackInv
    <2> SUFFICES ASSUME Init PROVE StackInv
      OBVIOUS
    <2>1. <<>> \in Seq(Pods)
      OBVIOUS
    <2>2. TypeOK
      BY <2>1 DEF Init, TypeOK, Answers, Phases
    <2>3. DependencyOrder
      BY DEF Init, DependencyOrder
    <2>4. OnePlace /\ Passed
      BY DEF Init, OnePlace, Passed
    <2> QED BY <2>2, <2>3, <2>4 DEF StackInv
  <1>2. StackInv /\ [Next]_vars => StackInv'
    BY TypeStep, OrderStep, PassedStep DEF StackInv
  <1> QED BY <1>1, <1>2, PTL DEF Spec

(* The variables of ApplyStack and DeleteStack keep their types, for every *)
(* stack and every graph.                                                  *)
THEOREM StackTypeCorrect == Spec => []TypeOK
  <1>1. StackInv => TypeOK
    BY DEF StackInv
  <1> QED BY <1>1, StackInvariance, PTL

(* For every stack and every graph, result.Pods names each pod once, after *)
(* everything it depends on, at any time and however the command ended.    *)
THEOREM DependenciesFirst == Spec => []DependencyOrder
  <1>1. StackInv => DependencyOrder
    BY DEF StackInv
  <1> QED BY <1>1, StackInvariance, PTL

(* For every stack: when DeleteStack returns without an error, none of its *)
(* pods has a container.                                                   *)
THEOREM DownRemovesAll == Spec => DownMeansGone
  <1>1. StackInv /\ [Next]_vars =>
          [cmd = "down" /\ answer' = "ok" => \A p \in Pods : phase'[p] = "absent"]_vars
    <2> SUFFICES ASSUME StackInv, Next, cmd = "down", answer' = "ok"
                 PROVE  \A p \in Pods : phase'[p] = "absent"
      OBVIOUS
    <2>1. EndOfDown
      BY DEF StackInv, Passed, Next, Step, Begin, ApplyPod, PutOff, EndOfPass, DeletePod, Drift, Return
    <2>2. phase' = phase /\ Range(remaining) = {}
      BY <2>1, RangeEmpty DEF EndOfDown
    <2> QED BY <2>2 DEF StackInv, Passed
  <1> QED BY <1>1, StackInvariance, PTL DEF Spec, DownMeansGone

(* For every stack and every graph: each turn of the two loops brings them *)
(* nearer to their end, in an order in which nothing descends for ever.    *)
THEOREM EveryTurnCounts == Spec => LoopDescends
  <1>1. StackInv /\ [Next]_vars => [cmd # "none" /\ cmd' = cmd /\ loop' # loop => Descends]_vars
    <2> SUFFICES ASSUME TypeOK, Next, cmd # "none", cmd' = cmd, loop' # loop
                 PROVE  Descends
      BY DEF StackInv
    <2>1. /\ Len(remaining) \in Nat /\ Len(next) \in Nat
          /\ remaining # <<>> => Len(Tail(remaining)) = Len(remaining) - 1 /\ Len(remaining) > 0
      BY DEF TypeOK
    <2>2. CASE ApplyPod \/ DeletePod
      <3>1. remaining # <<>> /\ remaining' = Tail(remaining) /\ next' = next
        BY <2>2 DEF ApplyPod, DeletePod, Return
      <3>2. Len(remaining') + Len(next') < Len(remaining) + Len(next)
        BY <2>1, <3>1
      <3> QED BY <3>2 DEF Descends, Left
    <2>3. CASE PutOff
      <3>1. /\ remaining # <<>> /\ remaining' = Tail(remaining) /\ progress' = progress
            /\ next' = Append(next, Head(remaining))
        BY <2>3 DEF PutOff
      <3>2. Len(next') = Len(next) + 1
        BY <3>1, RangeHeadTail DEF TypeOK
      <3>3. Len(remaining') + Len(next') = Len(remaining) + Len(next) /\ Len(remaining') < Len(remaining)
        BY <2>1, <3>1, <3>2
      <3> QED BY <3>1, <3>3 DEF Descends, Left
    <2>4. CASE EndOfPass
      <3>1. remaining = <<>> /\ remaining' = next /\ next' = <<>> /\ progress /\ ~progress'
        BY <2>4 DEF EndOfPass, Return
      <3>2. Len(remaining') + Len(next') = Len(remaining) + Len(next)
        BY <2>1, <3>1
      <3> QED BY <3>1, <3>2 DEF Descends, Left
    <2> QED BY <2>2, <2>3, <2>4 DEF Next, Step, Begin, EndOfDown, Return, Drift
  <1> QED BY <1>1, StackInvariance, PTL DEF Spec, LoopDescends
=============================================================================
