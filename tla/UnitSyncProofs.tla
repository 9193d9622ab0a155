---------------------------- MODULE UnitSyncProofs ----------------------------
(***************************************************************************)
(* Proofs about UnitSync, for any units, bounds and number of faults.      *)
(*                                                                         *)
(* The rows: the types, that an add reported as rolled back has left no    *)
(* row, and that a deletion takes no row away from a container that names  *)
(* it.                                                                     *)
(*                                                                         *)
(* What the unit files and systemd hold: an operation that reports success *)
(* has written what it says, and a resync restores what it covers,         *)
(* whatever failed before; as long as nothing fails, files and rows agree. *)
(* SyncInv follows the script of the operation in progress.  A script      *)
(* either writes units as their rows are now (Writing), or builds one      *)
(* (Building, where rows are written in the middle of the script), or      *)
(* removes one (Removing), or is the delete that undoes an add.            *)
(***************************************************************************)
EXTENDS UnitSync, FiniteSetTheorems, SequenceTheorems, TLAPS

Verbs == {"write", "remove", "reload", "compose", "insert", "store", "erase", "other", "not found"}
AnyStep == [do : Verbs, unit : Units \cup {NoUnit}, content : Contents, soft : BOOLEAN]
Steps ==
    {s \in AnyStep : /\ s.do \notin {"reload", "other", "not found"} => s.unit \in Units
                     /\ s.do = "compose" => Kind[s.unit] = "build"}

\* The steps of any unit, a build or not, and those that a deletion of u is made of.
Tame == {s \in Steps : s.do \notin {"insert", "compose"}}
Deleting(u) == {s \in Tame : /\ s.do \in {"remove", "reload", "erase", "other"}
                             /\ s.do = "erase" => s.unit = u}
Allowed(o, u) == IF o = "delete" THEN Deleting(u) ELSE IF u \in Of("build") THEN Steps ELSE Tame

Guarded == {"pod", "image", "build", "network"}

Typed ==
    /\ row \in [Units -> Contents]
    /\ file \in [Units -> Contents]
    /\ loaded \in [Units -> Contents]
    /\ context \in [Units -> Data \cup {"none"}]
    /\ clobbered \subseteq Of("build")
    /\ user \in BOOLEAN
    /\ op \in {"none", "add", "update", "delete", "start", "resync"}
    /\ subject \in Units \cup {NoUnit}
    /\ onError \in {"none", "rollback", "undoing", "report", "raise"}
    /\ outcome \in {"none", "ok", "rolled back", "out of sync", "error"}
    /\ faults \in 0 .. MaxFaults

\* What the steps left of an operation can be, and what they rely on.
Going ==
    /\ todo \in Seq(Allowed(op, subject))
    /\ todo # <<>> => outcome = "none"
    /\ onError \in {"rollback", "undoing"} => subject \in Units
    /\ onError = "undoing" /\ todo # <<>> => todo = <<Erase(subject)>>
    /\ outcome = "rolled back" => subject \in Units /\ row[subject] = None
    /\ op = "delete" /\ todo # <<>> =>
          subject \in Units /\ (Kind[subject] \in Guarded => ~Referenced(subject))

UInv == Typed /\ Going

-----------------------------------------------------------------------------
(* Contents *)

LEMMA ContentsFacts ==
    /\ None \in Contents
    /\ \A u \in Units : Values[u] \subseteq Contents
    /\ \A x \in Contents : /\ x = [data |-> x.data, refs |-> x.refs]
                           /\ x.data \in Data \cup {"none"}
                           /\ x.data = "none" <=> x = None
                           /\ x.refs \subseteq Units
<1>1. \A u \in Units : Values[u] \subseteq Contents
  BY DEF Contents
<1>2. None \in Contents /\ None.data = "none" /\ None = [data |-> None.data, refs |-> None.refs] /\ None.refs = {}
  BY DEF Contents, None
<1>3. ASSUME NEW u \in Units, NEW x \in Values[u]
      PROVE  /\ x = [data |-> x.data, refs |-> x.refs]
             /\ x.data \in Data /\ x.refs \subseteq Units
  BY DEF Values, Data
<1>4. ASSUME NEW x \in Contents, x # None
      PROVE  \E u \in Units : x \in Values[u]
  BY <1>4 DEF Contents
<1> QED  BY <1>1, <1>2, <1>3, <1>4 DEF Data

\* A row that loses one of the units it names is a row still.
LEMMA FewerRefs ==
    ASSUME UnitConstants, NEW x \in Contents, NEW u
    PROVE  [x EXCEPT !.refs = @ \ {u}] \in Contents
<1> DEFINE y == [x EXCEPT !.refs = @ \ {u}]
<1>1. CASE x = None
  <2>1. y = None
    BY <1>1 DEF None
  <2> QED  BY <2>1, ContentsFacts
<1>2. CASE x # None
  <2>1. PICK v \in Units : x \in Values[v]
    BY <1>2 DEF Contents
  <2>2. x = [data |-> x.data, refs |-> x.refs] /\ x.refs \subseteq Units
    BY ContentsFacts
  <2>3. y = [data |-> x.data, refs |-> x.refs \ {u}]
    BY <2>2
  <2>4. IsFiniteSet(x.refs)
    BY <2>2, FS_Subset DEF UnitConstants
  <2>5. /\ Cardinality(x.refs \ {u}) <= Cardinality(x.refs)
        /\ Cardinality(x.refs \ {u}) \in Nat /\ Cardinality(x.refs) \in Nat
    BY <2>4, FS_Subset, FS_CardinalityType
  <2>6. y \in Values[v]
    BY <2>1, <2>3, <2>5 DEF Values, UnitConstants
  <2> QED  BY <2>6, ContentsFacts
<1> QED  BY <1>1, <1>2

-----------------------------------------------------------------------------
(* Steps and scripts *)

LEMMA TameSteps ==
    /\ \A u \in Units, x \in Contents : Write(u, x) \in Tame /\ Store(u, x) \in Tame
    /\ \A u \in Units : Unlink(u) \in Deleting(u) /\ Soft(Unlink(u)) \in Deleting(u)
                       /\ Erase(u) \in Deleting(u)
    /\ \A u : /\ Reload \in Deleting(u) /\ Soft(Reload) \in Deleting(u)
             /\ Other \in Deleting(u) /\ Soft(Other) \in Deleting(u)
             /\ Deleting(u) \subseteq Tame
    /\ NotFound \in Tame
    /\ Tame \subseteq Steps
  BY ContentsFacts DEF Tame, Deleting, Steps, AnyStep, Verbs, Step, Write, Store, Unlink, Soft, Erase,
     Reload, Other, NotFound

LEMMA BuildSteps ==
    \A u \in Units, x \in Contents :
       /\ Insert(u, x) \in Steps
       /\ Kind[u] = "build" => Compose(u, x) \in Steps
  BY DEF Steps, AnyStep, Verbs, Step, Insert, Compose

LEMMA WriteAllTyped ==
    ASSUME UnitConstants, Typed, NEW us \in SUBSET Units
    PROVE  WriteAll(us) \in Seq(Tame)
<1> DEFINE n == Cardinality(us)
           s == SetToSeq(us)
<1>1. IsFiniteSet(us) /\ n \in Nat /\ ExistsBijection(1 .. n, us)
  BY FS_Subset, FS_CardinalityType DEF UnitConstants
<1>2. \E f \in [1 .. n -> us] : IsInjective(f)
  BY <1>1 DEF ExistsBijection, Bijection, Injection
<1>3. s \in [1 .. n -> us]
  BY <1>2 DEF SetToSeq
<1>4. s \in Seq(us) /\ Len(s) = n
  <2> HIDE DEF n, s
  <2> QED  BY <1>1, <1>3
<1>5. \A i \in 1 .. Len(s) : Write(s[i], row[s[i]]) \in Tame
  <2> HIDE DEF n, s
  <2>0. \A i \in 1 .. Len(s) : s[i] \in us
    BY <1>1, <1>3, <1>4
  <2>1. \A i \in 1 .. Len(s) : s[i] \in Units /\ row[s[i]] \in Contents
    BY <2>0 DEF Typed
  <2> QED  BY <2>1, TameSteps
<1>6. WriteAll(us) = [i \in 1 .. Len(s) |-> Write(s[i], row[s[i]])]
  BY DEF WriteAll
<1> QED
  <2> HIDE DEF n, s
  <2> QED  BY <1>1, <1>4, <1>5, <1>6

\* What a tail keeps.
LEMMA Rest ==
    ASSUME NEW S, NEW s \in Seq(S), s # <<>>
    PROVE  /\ Head(s) \in S /\ Tail(s) \in Seq(S)
           /\ Len(s) \in Nat \ {0} /\ (Len(s) > 1 <=> Tail(s) # <<>>)
<1>1. Head(s) \in S /\ Tail(s) \in Seq(S) /\ Len(s) \in Nat \ {0} /\ Len(Tail(s)) = Len(s) - 1
  OBVIOUS
<1>2. \A t \in Seq(S) : t = <<>> <=> Len(t) = 0
  OBVIOUS
<1>3. PICK n, t : n = Len(s) /\ t = Tail(s)
  OBVIOUS
<1>4. t = <<>> <=> Len(t) = 0
  BY <1>1, <1>2, <1>3
<1>5. n \in Nat \ {0} /\ Len(t) = n - 1
  BY <1>1, <1>3
<1>6. n > 1 <=> t # <<>>
  BY <1>4, <1>5
<1> QED  BY <1>1, <1>3, <1>6

LEMMA SeqSubset ==
    ASSUME NEW S, NEW T, S \subseteq T, NEW s \in Seq(S)
    PROVE  s \in Seq(T)
  OBVIOUS

-----------------------------------------------------------------------------
(* Effects of a step *)

LEMMA GeneratedTyped ==
    ASSUME Typed, NEW u \in Units
    PROVE  Generated(u) \in Contents
  BY ContentsFacts DEF Generated, Typed

LEMMA WithoutTyped ==
    ASSUME UnitConstants, Typed, NEW u \in Units
    PROVE  /\ Without(u) \in [Units -> Contents]
           /\ Without(u)[u] = None
           /\ \A v \in Units : Without(u)[v].refs \subseteq row[v].refs
           /\ \A v \in Units : row[v] # None /\ Without(u)[v] = None => v = u \/ Kind[v] = "timer"
<1>1. ASSUME NEW v \in Units
      PROVE  [row[v] EXCEPT !.refs = @ \ {u}] \in Contents
  BY FewerRefs DEF Typed
<1>2. None \in Contents /\ None.refs = {}
  BY ContentsFacts DEF None
<1>3. ASSUME NEW v \in Units
      PROVE  /\ [row[v] EXCEPT !.refs = @ \ {u}].refs \subseteq row[v].refs
             /\ [row[v] EXCEPT !.refs = @ \ {u}].data = row[v].data
             /\ row[v].data = "none" <=> row[v] = None
  <2>1. row[v] = [data |-> row[v].data, refs |-> row[v].refs] /\ (row[v].data = "none" <=> row[v] = None)
    BY ContentsFacts DEF Typed
  <2> QED  BY <2>1
<1>4. ASSUME NEW v \in Units
      PROVE  Without(u)[v] = IF v = u \/ (Kind[v] = "timer" /\ u \in row[v].refs) THEN None
                             ELSE IF Kind[u] = "volume" THEN [row[v] EXCEPT !.refs = @ \ {u}]
                             ELSE row[v]
  BY DEF Without
<1>5. Without(u) \in [Units -> Contents]
  BY <1>1, <1>2 DEF Without, Typed
<1>6. Without(u)[u] = None
  BY <1>4
<1>7. ASSUME NEW v \in Units
      PROVE  Without(u)[v].refs \subseteq row[v].refs
  BY <1>2, <1>3, <1>4
<1>8. ASSUME NEW v \in Units, row[v] # None, Without(u)[v] = None
      PROVE  v = u \/ Kind[v] = "timer"
  <2>1. None.data = "none"
    BY DEF None
  <2> QED  BY <1>3, <1>4, <1>8, <2>1, ZenonT(30)
<1> QED  BY <1>5, <1>6, <1>7, <1>8

LEMMA EffectTyped ==
    ASSUME UnitConstants, Typed, NEW s \in Steps, Effect(s),
           s.do = "compose" => subject \in Of("build")
    PROVE  /\ row' \in [Units -> Contents] /\ file' \in [Units -> Contents]
           /\ loaded' \in [Units -> Contents]
           /\ context' \in [Units -> Data \cup {"none"}] /\ clobbered' \subseteq Of("build")
           /\ s.do \in {"insert", "store"} => row' = [row EXCEPT ![s.unit] = s.content]
           /\ s.do = "erase" => row' = Without(s.unit)
           /\ s.do \notin {"insert", "store", "erase"} => row' = row
<1>1. /\ s.do \in {"insert", "store"} => row' = [row EXCEPT ![s.unit] = s.content]
      /\ s.do = "erase" => row' = Without(s.unit)
      /\ s.do \notin {"insert", "store", "erase"} => row' = row
  BY DEF Effect
<1>2. s.content \in Contents /\ (s.do \notin {"reload", "other", "not found"} => s.unit \in Units)
      /\ (s.do = "compose" => s.unit \in Of("build"))
  BY DEF Steps, AnyStep, Of
<1>3. row' \in [Units -> Contents]
  BY <1>1, <1>2, WithoutTyped DEF Typed
<1>4. file' \in [Units -> Contents]
  BY <1>2 DEF Effect, Typed
<1>5. loaded' \in [Units -> Contents]
  BY GeneratedTyped DEF Effect, Typed
<1>6. context' \in [Units -> Data \cup {"none"}]
  BY <1>2, ContentsFacts DEF Effect, Typed
<1>7. clobbered' \subseteq Of("build")
  BY <1>2 DEF Effect, Typed
<1> QED  BY <1>1, <1>3, <1>4, <1>5, <1>6, <1>7

LEMMA PartialEffectTyped ==
    ASSUME UnitConstants, Typed, NEW s \in Steps, PartialEffect(s),
           s.do = "compose" => subject \in Of("build")
    PROVE  /\ row' = row /\ file' \in [Units -> Contents] /\ loaded' \in [Units -> Contents]
           /\ context' \in [Units -> Data \cup {"none"}] /\ clobbered' \subseteq Of("build")
<1>1. row' = row
  BY DEF PartialEffect
<1>2. CASE UNCHANGED <<file, loaded, context, clobbered>>
  BY <1>1, <1>2 DEF Typed
<1>3. CASE Effect(s)
  BY <1>1, <1>3, EffectTyped
<1>4. CASE file' = [file EXCEPT ![s.unit] = None] /\ UNCHANGED <<loaded, context, clobbered>>
  BY <1>1, <1>4, ContentsFacts DEF Typed
<1> QED  BY <1>1, <1>2, <1>3, <1>4 DEF PartialEffect

\* A unit that no container names stays so while rows only lose what they name.
LEMMA StaysUnreferenced ==
    ASSUME Typed, NEW u \in Units, ~Referenced(u), \A v \in Units : row'[v].refs \subseteq row[v].refs
    PROVE  ~Referenced(u)'
<1> SUFFICES ASSUME NEW c \in Units, Kind[c] = "container", u \in row'[c].refs
             PROVE  FALSE
  BY DEF Referenced, Rows, Of
<1>1. u \in row[c].refs
  OBVIOUS
<1>2. row[c] # None
  BY <1>1 DEF None
<1> QED  BY <1>1, <1>2 DEF Referenced, Rows, Of, Exists

-----------------------------------------------------------------------------
(* The actions *)

LEMMA AllowedSteps ==
    ASSUME NEW o, NEW u, NEW s \in Allowed(o, u)
    PROVE  /\ s \in Steps
           /\ s.do \in {"insert", "compose"} => u \in Of("build")
           /\ o = "delete" => s \in Deleting(u)
  BY DEF Allowed, Deleting, Tame

LEMMA InitInv ==
    ASSUME UnitConstants, Init
    PROVE  UInv
  BY ContentsFacts DEF Init, UInv, Typed, Going, UnitConstants

LEMMA RunStepStep ==
    ASSUME UnitConstants, UInv, RunStep
    PROVE  UInv'
<1> DEFINE s == Head(todo)
<1>1. /\ s \in Allowed(op, subject) /\ Tail(todo) \in Seq(Allowed(op, subject))
      /\ (Len(todo) > 1 <=> Tail(todo) # <<>>)
  BY Rest DEF UInv, Going, RunStep
<1>2. /\ s \in Steps /\ (op = "delete" => s \in Deleting(subject))
      /\ s.do \in {"insert", "compose"} => subject \in Of("build")
  BY <1>1, AllowedSteps
<1>3. Effect(s) /\ UNCHANGED <<user, op, subject, faults>>
  BY DEF RunStep
<1>4. /\ row' \in [Units -> Contents] /\ file' \in [Units -> Contents]
      /\ loaded' \in [Units -> Contents]
      /\ context' \in [Units -> Data \cup {"none"}] /\ clobbered' \subseteq Of("build")
      /\ s.do = "erase" => row' = Without(s.unit)
      /\ s.do \notin {"insert", "store", "erase"} => row' = row
  BY <1>2, <1>3, EffectTyped DEF UInv
<1>5. /\ todo' = Tail(todo)
      /\ outcome' = IF Len(todo) > 1 THEN "none"
                    ELSE IF onError = "undoing" THEN "rolled back" ELSE "ok"
      /\ onError' = IF s.do = "insert" THEN "rollback" ELSE onError
  BY DEF RunStep, GoOn
<1>6. Typed'
  BY <1>3, <1>4, <1>5 DEF UInv, Typed
<1>7. onError = "undoing" => Tail(todo) = <<>> /\ s = Erase(subject)
  <2>1. onError = "undoing" => todo = <<Erase(subject)>>
    BY DEF UInv, Going, RunStep
  <2>2. PICK x : x = Erase(subject)
    OBVIOUS
  <2>3. Tail(<<x>>) = <<>> /\ Head(<<x>>) = x
    OBVIOUS
  <2> QED  BY <2>1, <2>2, <2>3
<1>8. /\ todo' \in Seq(Allowed(op', subject'))
      /\ todo' # <<>> => outcome' = "none"
  BY <1>1, <1>3, <1>5
<1>9. onError' \in {"rollback", "undoing"} => subject' \in Units
  BY <1>2, <1>3, <1>5 DEF UInv, Going, Of
<1>10. onError' = "undoing" => todo' = <<>>
  BY <1>5, <1>7
<1>11. ASSUME outcome' = "rolled back"
       PROVE  subject' \in Units /\ row'[subject'] = None
  <2>1. onError = "undoing" /\ subject \in Units
    BY <1>5, <1>11 DEF UInv, Going
  <2>2. s.do = "erase" /\ s.unit = subject
    BY <1>7, <2>1 DEF Erase, Step
  <2>3. row' = Without(subject)
    BY <1>4, <2>2
  <2> QED  BY <1>3, <2>1, <2>3, WithoutTyped DEF UInv
<1>12. ASSUME op' = "delete", todo' # <<>>
       PROVE  subject' \in Units /\ (Kind[subject'] \in Guarded => ~Referenced(subject)')
  <2>1. subject \in Units /\ (Kind[subject] \in Guarded => ~Referenced(subject))
    BY <1>3, <1>12 DEF UInv, Going, RunStep
  <2>2. row' = row \/ row' = Without(subject)
    BY <1>2, <1>3, <1>4, <1>12 DEF Deleting
  <2>3. \A v \in Units : row'[v].refs \subseteq row[v].refs
    BY <2>1, <2>2, WithoutTyped DEF UInv
  <2>4. \A u \in Units : ~Referenced(u) => ~Referenced(u)'
    BY <2>3, StaysUnreferenced DEF UInv
  <2>5. PICK u \in Units : u = subject /\ u = subject'
    BY <1>3, <2>1
  <2>6. Referenced(subject)' <=> Referenced(u)'
    BY <2>5 DEF Referenced
  <2> QED  BY <2>1, <2>4, <2>5, <2>6
<1> QED  BY <1>6, <1>8, <1>9, <1>10, <1>11, <1>12 DEF UInv, Going

LEMMA StepFailsStep ==
    ASSUME UnitConstants, UInv, StepFails
    PROVE  UInv'
<1> DEFINE s == Head(todo)
<1>1. /\ s \in Allowed(op, subject) /\ Tail(todo) \in Seq(Allowed(op, subject))
      /\ (Len(todo) > 1 <=> Tail(todo) # <<>>)
  BY Rest DEF UInv, Going, StepFails
<1>2. s \in Steps /\ (s.do = "compose" => subject \in Of("build"))
  BY <1>1, AllowedSteps
<1>3. todo # <<>> /\ UNCHANGED <<user, op, subject>>
  BY DEF StepFails
<1>4. /\ row' = row /\ file' \in [Units -> Contents] /\ loaded' \in [Units -> Contents]
      /\ context' \in [Units -> Data \cup {"none"}] /\ clobbered' \subseteq Of("build")
      /\ faults' \in 0 .. MaxFaults
  <2>1. CASE UNCHANGED <<row, file, loaded, context, clobbered, faults>>
    BY <2>1 DEF UInv, Typed
  <2>2. CASE PartialEffect(s) /\ faults < MaxFaults /\ faults' = faults + 1
    <3>1. faults \in 0 .. MaxFaults /\ MaxFaults \in Nat
      BY DEF UInv, Typed, UnitConstants
    <3>2. faults' \in 0 .. MaxFaults
      BY <2>2, <3>1
    <3> QED  BY <1>2, <2>2, <3>2, PartialEffectTyped DEF UInv
  <2> QED  BY <2>1, <2>2 DEF StepFails
<1>5. onError = "undoing" => Tail(todo) = <<>> /\ s = Erase(subject)
  <2>1. onError = "undoing" => todo = <<Erase(subject)>>
    BY <1>3 DEF UInv, Going
  <2>2. PICK x : x = Erase(subject)
    OBVIOUS
  <2>3. Tail(<<x>>) = <<>> /\ Head(<<x>>) = x
    OBVIOUS
  <2> QED  BY <2>1, <2>2, <2>3
<1>6. \/ /\ onError # "undoing"
         /\ todo' = Tail(todo) /\ onError' = onError
         /\ outcome' = IF Len(todo) > 1 THEN "none" ELSE "ok"
      \/ /\ onError = "rollback"
         /\ todo' = <<Erase(subject)>> /\ onError' = "undoing" /\ outcome' = "none"
      \/ /\ onError # "rollback"
         /\ todo' = <<>> /\ onError' = onError /\ outcome' \in {"out of sync", "error"}
  <2>1. s.soft => onError # "undoing"
    BY <1>5 DEF Erase, Step
  <2> QED  BY <2>1 DEF StepFails, GoOn
<1>7. Typed'
  BY <1>3, <1>4, <1>6 DEF UInv, Typed
<1>8. \A u : Referenced(u)' <=> Referenced(u)
  BY <1>4 DEF Referenced, Rows, Exists
<1>9. Referenced(subject)' <=> Referenced(subject)
  BY <1>3, <1>4 DEF Referenced, Rows, Exists
<1>10. onError = "rollback" => <<Erase(subject)>> \in Seq(Allowed(op, subject))
  <2> SUFFICES ASSUME onError = "rollback" PROVE Erase(subject) \in Allowed(op, subject)
    OBVIOUS
  <2>1. subject \in Units
    BY DEF UInv, Going
  <2>2. /\ Erase(subject) \in Deleting(subject) /\ Erase(subject) \in Steps
        /\ Erase(subject) \in Tame
    BY <2>1, TameSteps
  <2> QED  BY <2>2 DEF Allowed
<1>11. subject' = subject /\ op' = op /\ Erase(subject)' = Erase(subject)
  BY <1>3 DEF Erase
<1>12. onError \in {"rollback", "undoing"} => subject \in Units
  BY DEF UInv, Going
<1>13. outcome' # "rolled back"
  BY <1>6
<1>14. op = "delete" => subject \in Units /\ (Kind[subject] \in Guarded => ~Referenced(subject))
  BY <1>3 DEF UInv, Going
<1>15. todo' \in Seq(Allowed(op, subject))
  <2>1. <<>> \in Seq(Allowed(op, subject))
    OBVIOUS
  <2> QED  BY <1>1, <1>6, <1>10, <2>1
<1>16. (todo' # <<>> => outcome' = "none") /\ (onError' = "undoing" /\ todo' # <<>> => todo' = <<Erase(subject)>>)
  BY <1>1, <1>6
<1>17. onError' \in {"rollback", "undoing"} => subject' \in Units
  BY <1>6, <1>11, <1>12
<1> HIDE DEF s
<1> QED  BY <1>7, <1>9, <1>11, <1>13, <1>14, <1>15, <1>16, <1>17 DEF UInv, Going

LEMMA ReplyCrashLostStep ==
    ASSUME UnitConstants, UInv, Reply \/ Crash \/ AccountLost
    PROVE  UInv'
<1>1. \A S : <<>> \in Seq(S)
  OBVIOUS
<1>2. faults < MaxFaults => faults + 1 \in 0 .. MaxFaults
  <2>1. faults \in 0 .. MaxFaults /\ MaxFaults \in Nat
    BY DEF UInv, Typed, UnitConstants
  <2> QED  BY <2>1
<1>3. CASE Reply
  <2>1. Typed'
    BY <1>3 DEF Reply, UInv, Typed
  <2>2. Going'
    BY <1>1, <1>3 DEF Reply, Going
  <2> QED  BY <2>1, <2>2 DEF UInv
<1>4. CASE Crash
  <2>1. Typed'
    BY <1>2, <1>4 DEF Crash, UInv, Typed
  <2>2. outcome' = "none"
    BY <1>4 DEF Crash, UInv, Going
  <2>3. Going'
    BY <1>1, <1>4, <2>2 DEF Crash, Going
  <2> QED  BY <2>1, <2>3 DEF UInv
<1>5. CASE AccountLost
  <2>1. Typed'
    BY <1>2, <1>5, ContentsFacts DEF AccountLost, UInv, Typed
  <2>2. Erase(subject)' = Erase(subject) /\ Allowed(op, subject)' = Allowed(op, subject)
    BY <1>5 DEF AccountLost, Erase, Allowed
  <2>3. op' # "delete"
    BY <1>5 DEF AccountLost
  <2>4. Going'
    BY <1>5, <2>2, <2>3 DEF AccountLost, UInv, Going
  <2> QED  BY <2>1, <2>4 DEF UInv
<1> QED  BY <1>3, <1>4, <1>5

-----------------------------------------------------------------------------
(* The operations *)

\* What an operation must fulfil to begin.
LEMMA Begun ==
    ASSUME UnitConstants, UInv, NEW name, NEW u, NEW script, NEW handler,
           Begin(name, u, script, handler),
           name \in {"add", "update", "delete", "start", "resync"},
           u \in Units \cup {NoUnit},
           handler \in {"rollback", "report", "raise"},
           handler = "rollback" => u \in Units,
           row' \in [Units -> Contents],
           script \in Seq(Allowed(name, u)),
           name = "delete" => /\ u \in Units /\ UNCHANGED row
                              /\ Kind[u] \in Guarded => ~Referenced(u)
    PROVE  UInv'
<1>1. /\ todo' = script /\ op' = name /\ subject' = u /\ onError' = handler
      /\ outcome' \in {"ok", "none"} /\ (script # <<>> => outcome' = "none")
      /\ UNCHANGED <<file, loaded, context, clobbered, user, faults>>
  BY DEF Begin
<1>2. Typed'
  BY <1>1 DEF UInv, Typed
<1>3. name = "delete" => (Referenced(u)' <=> Referenced(u))
  BY DEF Referenced, Rows, Exists
<1>4. Referenced(subject)' <=> Referenced(u)'
  BY <1>1 DEF Referenced
<1>5. Going'
  BY <1>1, <1>3, <1>4 DEF Going
<1> QED  BY <1>2, <1>5 DEF UInv

LEMMA ScriptFacts ==
    /\ \A S : <<>> \in Seq(S)
    /\ \A S : \A a, b \in Seq(S) : a \o b \in Seq(S)
    /\ \A S : \A a, b \in S : <<a>> \in Seq(S) /\ <<a, b>> \in Seq(S)
    /\ \A S : \A a, b, c \in S : <<a, b, c>> \in Seq(S)
    /\ \A S : \A a, b, c, d \in S : <<a, b, c, d>> \in Seq(S)
    /\ \A S : \A a \in Seq(S) : IfUser(a) \in Seq(S)
<1>1. \A S : \A a \in Seq(S) : IfUser(a) \in Seq(S)
  BY DEF IfUser
<1>2. \A S : \A a, b \in Seq(S) : a \o b \in Seq(S)
  OBVIOUS
<1> QED  BY <1>1, <1>2

\* Scripts without an insert suit every operation but a deletion.
LEMMA TameScripts ==
    ASSUME NEW name, name # "delete", NEW u, NEW script \in Seq(Tame)
    PROVE  script \in Seq(Allowed(name, u))
<1>1. Tame \subseteq Allowed(name, u)
  BY DEF Allowed, Tame
<1> QED  BY <1>1, SeqSubset

LEMMA WriteReload ==
    ASSUME NEW u \in Units, NEW x \in Contents
    PROVE  <<Write(u, x), Reload>> \in Seq(Tame) /\ IfUser(<<Write(u, x), Reload>>) \in Seq(Tame)
<1>1. Write(u, x) \in Tame /\ Reload \in Tame
  BY TameSteps
<1> QED  BY <1>1, ScriptFacts

LEMMA WriteAndReloadTyped ==
    ASSUME UnitConstants, Typed, NEW u \in Units, NEW x \in Contents
    PROVE  WriteAndReload(u, x) \in Seq(Tame)
<1>1. /\ <<Other>> \in Seq(Tame)
      /\ <<Write(u, x), Reload, Other>> \in Seq(Tame)
  BY TameSteps, ScriptFacts
<1>2. PICK a, b : /\ a = WriteAll(x.refs \cap Rows("network"))
                  /\ b = WriteAll(x.refs \cap Rows("image"))
  OBVIOUS
<1>3. a \in Seq(Tame) /\ b \in Seq(Tame)
  BY <1>2, WriteAllTyped DEF Rows, Of
<1>4. WriteAndReload(u, x) = <<Other>> \o a \o b \o <<Write(u, x), Reload, Other>>
  BY <1>2 DEF WriteAndReload
<1> QED  BY <1>1, <1>3, <1>4, ScriptFacts

\* An operation that begins: its parts, as Begun wants them.
Begins ==
    \E name, u, script, handler :
       /\ Begin(name, u, script, handler)
       /\ name \in {"add", "update", "delete", "start", "resync"}
       /\ u \in Units \cup {NoUnit}
       /\ handler \in {"rollback", "report", "raise"}
       /\ handler = "rollback" => u \in Units
       /\ row' \in [Units -> Contents]
       /\ script \in Seq(Allowed(name, u))
       /\ name = "delete" => /\ u \in Units /\ UNCHANGED row
                             /\ Kind[u] \in Guarded => ~Referenced(u)

LEMMA AddBegins ==
    ASSUME UnitConstants, Typed, NEW u \in Units, NEW r \in Values[u],
           NEW script \in Seq(Tame), AddWith("add", u, r, script)
    PROVE  Begins
<1>1. row' \in [Units -> Contents]
  BY ContentsFacts DEF AddWith, Typed
<1>2. Begin("add", u, script, "rollback")
  BY DEF AddWith
<1>3. script \in Seq(Allowed("add", u))
  BY TameScripts
<1> QED  BY <1>1, <1>2, <1>3 DEF Begins

LEMMA UpdateBegins ==
    ASSUME UnitConstants, Typed, NEW u \in Units, NEW r \in Values[u],
           NEW script \in Seq(Tame), UpdateWith(u, r, script)
    PROVE  Begins
<1>1. row' \in [Units -> Contents]
  BY ContentsFacts DEF UpdateWith, Typed
<1>2. Begin("update", u, script, "report")
  BY DEF UpdateWith
<1>3. script \in Seq(Allowed("update", u))
  BY TameScripts
<1> QED  BY <1>1, <1>2, <1>3 DEF Begins

LEMMA DeleteBegins ==
    ASSUME UnitConstants, Typed, NEW u \in Units, Kind[u] \in Guarded => ~Referenced(u),
           NEW script \in Seq(Deleting(u)), DeleteWith(u, script)
    PROVE  Begins
<1>1. UNCHANGED row /\ Begin("delete", u, script, "raise")
  BY DEF DeleteWith
<1>2. row' \in [Units -> Contents]
  BY <1>1 DEF Typed
<1>3. script \in Seq(Allowed("delete", u))
  BY DEF Allowed
<1> QED  BY <1>1, <1>2, <1>3 DEF Begins

LEMMA AddStep ==
    ASSUME UnitConstants, UInv, NEW u \in Units, NEW r \in Values[u], Add(u, r)
    PROVE  Begins
<1> USE DEF UInv
<1>1. r \in Contents
  BY ContentsFacts
<1>2. CASE AddPlain(u, r) \/ CreateTimer(u, r)
  <2>1. PICK script : script = IfUser(<<Write(u, r), Reload>>)
    OBVIOUS
  <2> QED  BY <1>1, <1>2, <2>1, WriteReload, AddBegins DEF AddPlain, CreateTimer
<1>3. CASE AddNetwork(u, r)
  <2>1. PICK x : x = [r EXCEPT !.data = "bare"]
    OBVIOUS
  <2>2. x \in Contents
    <3>1. x \in Values[u]
      BY <1>3, <2>1 DEF AddNetwork, Values, Data
    <3> QED  BY <3>1, ContentsFacts
  <2>3. PICK script : script = IfUser(<<Write(u, x), Reload>>)
    OBVIOUS
  <2> QED  BY <1>3, <2>1, <2>2, <2>3, WriteReload, AddBegins DEF AddNetwork
<1>4. CASE AddPod(u, r)
  <2>1. PICK a, b : a = WriteAll(NetworksUsed) /\ b = <<Write(u, r), Reload>>
    OBVIOUS
  <2>2. a \in Seq(Tame) /\ b \in Seq(Tame)
    BY <1>1, <2>1, WriteAllTyped, WriteReload DEF NetworksUsed, Rows, Of
  <2>3. PICK script : script = IfUser(a \o b)
    OBVIOUS
  <2>4. script \in Seq(Tame)
    BY <2>2, <2>3, ScriptFacts
  <2>5. AddWith("add", u, r, script)
    BY <1>4, <2>1, <2>3 DEF AddPod
  <2> QED  BY <2>4, <2>5, AddBegins
<1>5. CASE AddContainer(u, r)
  <2>1. PICK script : script = WriteAndReload(u, r)
    OBVIOUS
  <2> QED  BY <1>1, <1>5, <2>1, WriteAndReloadTyped, AddBegins DEF AddContainer
<1>6. CASE AddBuild(u, r)
  <2>1. PICK a, b : a = <<Compose(u, r), Insert(u, r)>> /\ b = IfUser(<<Write(u, r), Reload>>)
    OBVIOUS
  <2>2. a \in Seq(Steps)
    <3>1. Compose(u, r) \in Steps /\ Insert(u, r) \in Steps
      BY <1>1, <1>6, BuildSteps, TameSteps DEF AddBuild
    <3> QED  BY <2>1, <3>1, ScriptFacts
  <2>3. b \in Seq(Steps)
    BY <1>1, <2>1, WriteReload, TameSteps, SeqSubset
  <2>4. PICK script : script = a \o b
    OBVIOUS
  <2>5. script \in Seq(Allowed("add", u))
    BY <1>6, <2>2, <2>3, <2>4, ScriptFacts DEF Allowed, Of, AddBuild
  <2>6. Begin("add", u, script, "raise") /\ UNCHANGED row
    BY <1>6, <2>1, <2>4 DEF AddBuild
  <2>7. row' \in [Units -> Contents]
    BY <2>6 DEF Typed
  <2> QED  BY <2>5, <2>6, <2>7 DEF Begins
<1> QED  BY <1>2, <1>3, <1>4, <1>5, <1>6 DEF Add

LEMMA UpdateStep ==
    ASSUME UnitConstants, UInv, NEW u \in Units, NEW r \in Values[u], Update(u, r)
    PROVE  Begins
<1> USE DEF UInv
<1>1. r \in Contents
  BY ContentsFacts
<1>2. CASE UpdatePlain(u, r)
  <2>1. PICK script : script = IfUser(<<Write(u, r), Reload>>)
    OBVIOUS
  <2> QED  BY <1>1, <1>2, <2>1, WriteReload, UpdateBegins DEF UpdatePlain
<1>3. CASE UpdateContainer(u, r)
  <2>1. PICK script : script = WriteAndReload(u, r)
    OBVIOUS
  <2> QED  BY <1>1, <1>3, <2>1, WriteAndReloadTyped, UpdateBegins DEF UpdateContainer
<1>4. ASSUME NEW w \in Of("build"), UpdateBuild(u, w, r)
      PROVE  Begins
  <2>1. PICK a, b, c, d : /\ a = <<Compose(w, r)>> /\ b = <<Store(u, r)>>
                          /\ c = IfUser(<<Write(u, r), Reload>>) /\ d = <<NotFound>>
    OBVIOUS
  <2>2. a \in Seq(Steps) /\ b \in Seq(Steps) /\ c \in Seq(Steps) /\ d \in Seq(Steps)
    <3>1. Compose(w, r) \in Steps /\ Store(u, r) \in Steps /\ NotFound \in Steps
      BY <1>1, BuildSteps, TameSteps DEF Of
    <3>2. IfUser(<<Write(u, r), Reload>>) \in Seq(Steps)
      BY <1>1, WriteReload, TameSteps, SeqSubset
    <3> QED  BY <2>1, <3>1, <3>2, ScriptFacts
  <2>3. PICK script : script = a \o (IF Exists(u) THEN b \o c ELSE d)
    OBVIOUS
  <2>4. script \in Seq(Steps)
    BY <2>2, <2>3, ScriptFacts
  <2>5. script \in Seq(Allowed("update", u))
    BY <1>4, <2>4 DEF Allowed, Of, UpdateBuild
  <2>6. Begin("update", u, script, "raise") /\ UNCHANGED row
    BY <1>4, <2>1, <2>3 DEF UpdateBuild
  <2>7. row' \in [Units -> Contents]
    BY <2>6 DEF Typed
  <2> QED  BY <2>5, <2>6, <2>7 DEF Begins
<1> QED  BY <1>2, <1>3, <1>4 DEF Update

LEMMA UpdateNetworkStep ==
    ASSUME UnitConstants, UInv, NEW u \in Units, NEW v \in Of("network"), NEW r \in Values[v],
           UpdateNetwork(u, v, r)
    PROVE  Begins
<1>1. r \in Contents /\ None \in Contents /\ v \in Units
  BY ContentsFacts DEF Of
<1>2. PICK script : script = IfUser(<<Write(v, r), Reload>>)
  OBVIOUS
<1>3. script \in Seq(Allowed("update", v))
  BY <1>1, <1>2, WriteReload, TameScripts
<1>4. Begin("update", v, script, "report")
  BY <1>2 DEF UpdateNetwork
<1>5. row' \in [Units -> Contents]
  BY <1>1 DEF UpdateNetwork, UInv, Typed
<1> QED  BY <1>1, <1>3, <1>4, <1>5 DEF Begins

LEMMA DeleteStep ==
    ASSUME UnitConstants, UInv, NEW u \in Units, Delete(u)
    PROVE  Begins
<1> USE DEF UInv
<1> DEFINE D == Deleting(u)
<1>1. /\ Unlink(u) \in D /\ Reload \in D /\ Erase(u) \in D
      /\ Soft(Unlink(u)) \in D /\ Soft(Reload) \in D /\ Soft(Other) \in D
  BY TameSteps
<1> HIDE DEF D
<1>2. CASE DeleteGuarded(u) \/ DeleteArtifact(u)
  <2>1. PICK script : script = <<Unlink(u), Reload, Erase(u)>>
    OBVIOUS
  <2>2. script \in Seq(D)
    BY <1>1, <2>1, ScriptFacts
  <2>3. DeleteWith(u, script) /\ (Kind[u] \in Guarded => ~Referenced(u))
    BY <1>2, <2>1 DEF DeleteGuarded, DeleteArtifact, Guarded
  <2> QED  BY <2>2, <2>3, DeleteBegins DEF D
<1>3. CASE DeleteVolume(u)
  <2>1. PICK a, b : a = IfUser(<<Unlink(u), Reload>>) /\ b = <<Erase(u)>>
    OBVIOUS
  <2>2. a \in Seq(D) /\ b \in Seq(D)
    BY <1>1, <2>1, ScriptFacts
  <2>3. PICK script : script = a \o b
    OBVIOUS
  <2>4. script \in Seq(D)
    BY <2>2, <2>3, ScriptFacts
  <2>5. DeleteWith(u, script) /\ Kind[u] \notin Guarded
    BY <1>3, <2>1, <2>3 DEF DeleteVolume, Guarded
  <2> QED  BY <2>4, <2>5, DeleteBegins DEF D
<1>4. CASE DeleteNetwork(u) \/ DeleteTimer(u)
  <2>1. PICK a, b : a = IfUser(<<Soft(Unlink(u)), Soft(Reload)>>) /\ b = <<Erase(u)>>
    OBVIOUS
  <2>2. a \in Seq(D) /\ b \in Seq(D)
    BY <1>1, <2>1, ScriptFacts
  <2>3. PICK script : script = a \o b
    OBVIOUS
  <2>4. script \in Seq(D)
    BY <2>2, <2>3, ScriptFacts
  <2>5. DeleteWith(u, script) /\ (Kind[u] \in Guarded => ~Referenced(u))
    BY <1>4, <2>1, <2>3 DEF DeleteNetwork, DeleteTimer, Guarded
  <2> QED  BY <2>4, <2>5, DeleteBegins DEF D
<1>5. CASE DeleteContainer(u)
  <2>1. PICK script : script = <<Soft(Other), Unlink(u), Soft(Reload), Erase(u)>>
    OBVIOUS
  <2>2. script \in Seq(D)
    BY <1>1, <2>1, ScriptFacts
  <2>3. DeleteWith(u, script) /\ Kind[u] \notin Guarded
    BY <1>5, <2>1 DEF DeleteContainer, Guarded
  <2> QED  BY <2>2, <2>3, DeleteBegins DEF D
<1> QED  BY <1>2, <1>3, <1>4, <1>5 DEF Delete

LEMMA RewrittenTyped ==
    ASSUME UnitConstants, Typed
    PROVE  Rewritten \in Seq(Tame) /\ WriteAll(Rows("timer")) \in Seq(Tame)
<1>1. \A k : WriteAll(Rows(k)) \in Seq(Tame)
  BY WriteAllTyped DEF Rows, Of
<1>2. WriteAll(NetworksUsed) \in Seq(Tame)
  BY WriteAllTyped DEF NetworksUsed, Rows, Of
<1>3. PICK a, b, c, d, e : /\ a = WriteAll(Rows("pod")) /\ b = WriteAll(Rows("volume"))
                           /\ c = WriteAll(Rows("image")) /\ d = WriteAll(NetworksUsed)
                           /\ e = WriteAll(Rows("container"))
  OBVIOUS
<1>4. a \in Seq(Tame) /\ b \in Seq(Tame) /\ c \in Seq(Tame) /\ d \in Seq(Tame) /\ e \in Seq(Tame)
  BY <1>1, <1>2, <1>3
<1>5. a \o b \o c \o d \o e \in Seq(Tame)
  BY <1>4, ScriptFacts
<1> QED  BY <1>1, <1>3, <1>5 DEF Rewritten

LEMMA StartResyncStep ==
    ASSUME UnitConstants, UInv, StartCompartment \/ Resync
    PROVE  Begins
<1>1. PICK a, b : a = Rewritten /\ b = WriteAll(Rows("timer"))
  OBVIOUS
<1>2. /\ a \in Seq(Tame) /\ b \in Seq(Tame)
      /\ <<Other>> \in Seq(Tame) /\ <<Reload>> \in Seq(Tame) /\ <<Reload, Other>> \in Seq(Tame)
  BY <1>1, RewrittenTyped, TameSteps, ScriptFacts DEF UInv
<1>3. CASE StartCompartment
  <2>1. PICK script : script = <<Other>> \o a \o <<Reload>>
    OBVIOUS
  <2>2. script \in Seq(Allowed("start", NoUnit))
    BY <1>2, <2>1, ScriptFacts, TameScripts
  <2>3. Begin("start", NoUnit, script, "raise") /\ UNCHANGED row
    BY <1>1, <1>3, <2>1 DEF StartCompartment
  <2>4. row' \in [Units -> Contents]
    BY <2>3 DEF UInv, Typed
  <2> QED  BY <2>2, <2>3, <2>4 DEF Begins
<1>4. CASE Resync
  <2>1. PICK script : script = a \o b \o <<Reload, Other>>
    OBVIOUS
  <2>2. script \in Seq(Allowed("resync", NoUnit))
    BY <1>2, <2>1, ScriptFacts, TameScripts
  <2>3. Begin("resync", NoUnit, script, "raise") /\ UNCHANGED row
    BY <1>1, <1>4, <2>1 DEF Resync
  <2>4. row' \in [Units -> Contents]
    BY <2>3 DEF UInv, Typed
  <2> QED  BY <2>2, <2>3, <2>4 DEF Begins
<1> QED  BY <1>3, <1>4

LEMMA OperationBegins ==
    ASSUME UnitConstants, UInv, Operation
    PROVE  Begins
<1>1. CASE \E u \in Units : Room(u) /\ \E r \in Values[u] : Add(u, r) \/ Update(u, r)
  BY <1>1, AddStep, UpdateStep
<1>2. CASE \E u \in Rows("network"), v \in Of("network") : \E r \in Values[v] : UpdateNetwork(u, v, r)
  BY <1>2, UpdateNetworkStep DEF Rows, Of
<1>3. CASE \E u \in Units : Delete(u)
  BY <1>3, DeleteStep
<1>4. CASE StartCompartment \/ Resync
  BY <1>4, StartResyncStep
<1> QED  BY <1>1, <1>2, <1>3, <1>4 DEF Operation

-----------------------------------------------------------------------------
(* Theorems *)

\* The invariant: no operation, failure, crash or loss of the account leaves it.
THEOREM UnitInvariance == Spec => []UInv
<1>1. UInv /\ [Next]_vars => UInv'
  <2> SUFFICES ASSUME UInv, [Next]_vars
               PROVE  UInv'
    OBVIOUS
  <2> USE UnitConstants
  <2>1. CASE UNCHANGED vars
    <3>1. Erase(subject)' = Erase(subject) /\ Allowed(op, subject)' = Allowed(op, subject)
          /\ (Referenced(subject)' <=> Referenced(subject))
      BY <2>1 DEF vars, Erase, Allowed, Referenced, Rows, Exists
    <3> QED  BY <2>1, <3>1, ZenonT(30) DEF vars, UInv, Typed, Going
  <2>2. CASE Operation
    BY <2>2, OperationBegins, Begun DEF Begins
  <2>3. CASE RunStep \/ StepFails \/ Reply \/ Crash \/ AccountLost
    BY <2>3, RunStepStep, StepFailsStep, ReplyCrashLostStep
  <2> QED  BY <2>1, <2>2, <2>3 DEF Next
<1> QED  BY UnitConstants, InitInv, <1>1, PTL DEF Spec

\* Rows, files, what systemd loaded, Containerfiles and the script of the
\* operation in progress have the types the add_*, update_* and delete_*
\* operations give them.
THEOREM UnitTypeCorrect == Spec => []TypeOK
<1>1. UInv => TypeOK
  <2> SUFFICES ASSUME UInv PROVE TypeOK
    OBVIOUS
  <2>1. \A i \in 1 .. Len(todo) : todo[i] \in AnyStep
    <3>1. Allowed(op, subject) \subseteq AnyStep
      BY DEF Allowed, Deleting, Tame, Steps
    <3>2. todo \in Seq(Allowed(op, subject))
      BY DEF UInv, Going
    <3>3. \A S : \A s \in Seq(S) : \A i \in 1 .. Len(s) : s[i] \in S
      OBVIOUS
    <3> QED  BY <3>1, <3>2, <3>3
  <2> QED  BY <2>1 DEF UInv, Typed, TypeOK, AnyStep, Verbs
<1> QED  BY UnitInvariance, <1>1, PTL

\* "The DB insert has been rolled back (for add operations)": add_* that ended
\* in FileWriteFailed(rolled_back=True) left no row, whichever step failed.
THEOREM RollbackComplete == Spec => []RolledBackLeavesNoRow
<1>1. UInv => RolledBackLeavesNoRow
  BY DEF UInv, Going, RolledBackLeavesNoRow, Exists
<1> QED  BY UnitInvariance, <1>1, PTL

\* delete_pod, delete_image, delete_build and delete_network take no row away
\* from a container that names it, although they look long before they delete.
THEOREM NoDangling == Spec => DeletionLeavesNoReference
<1>1. ASSUME UInv, [Next]_vars, ~Idle, op = "delete", NEW u \in Units,
             Exists(u), row'[u] = None, Kind[u] \in {"pod", "image", "build", "network"}
      PROVE  ~Referenced(u)
  <2>1. todo # <<>> /\ op # "none"
    BY <1>1 DEF Idle
  <2>2. row[u] # None
    BY <1>1 DEF Exists
  <2>3. RunStep
    BY <1>1, <2>1, <2>2 DEF Next, vars, StepFails, PartialEffect, Reply, Crash, AccountLost
  <2>4. PICK s : s = Head(todo)
    OBVIOUS
  <2>5. s \in Deleting(subject) /\ s \in Steps
    <3>1. s \in Allowed(op, subject)
      BY <1>1, <2>1, <2>4, Rest DEF UInv, Going
    <3> QED  BY <1>1, <3>1, AllowedSteps
  <2>6. Effect(s)
    BY <2>3, <2>4 DEF RunStep
  <2>7. s.do = "erase" /\ s.unit = subject /\ row' = Without(subject)
    BY <1>1, <2>2, <2>5, <2>6, UnitConstants, EffectTyped DEF UInv, Deleting
  <2>8. subject \in Units /\ (Kind[subject] \in Guarded => ~Referenced(subject))
    BY <1>1, <2>1 DEF UInv, Going
  <2>9. u = subject
    BY <1>1, <2>2, <2>7, <2>8, UnitConstants, WithoutTyped DEF UInv
  <2> QED  BY <1>1, <2>8, <2>9 DEF Guarded
<1>2. UInv /\ [Next]_vars =>
        [\A u \in Units :
            /\ ~Idle /\ op = "delete"
            /\ Exists(u) /\ row'[u] = None
            /\ Kind[u] \in {"pod", "image", "build", "network"}
            => ~Referenced(u)]_vars
  BY <1>1
<1> QED  BY UnitInvariance, <1>2, PTL DEF Spec, DeletionLeavesNoReference

-----------------------------------------------------------------------------
(* The files and systemd. *)

Left(q)      == {q[i] : i \in 1 .. Len(q)}
Reloads(q)   == \E s \in Left(q) : s.do = "reload"
Writes(q, u) == \E s \in Left(q) : s.do = "write" /\ s.unit = u
Unlinks(q)   == \E s \in Left(q) : s.do = "remove" /\ ~s.soft

ReloadFollows(q) ==
    \A i \in 1 .. Len(q) : q[i].do \in {"write", "remove"} =>
        \E j \in 1 .. Len(q) : j > i /\ q[j].do = "reload"

\* What a row renders to: but for add_network, which drops the NetworkName, itself.
Fits(u, x) ==
    /\ Exists(u)
    /\ x = row[u] \/ (Kind[u] = "network" /\ op # "resync" /\ x = [row[u] EXCEPT !.data = "bare"])

Writing(q) ==
    /\ \A s \in Left(q) : /\ s.do \in {"write", "reload", "other"} /\ ~s.soft
                          /\ s.do = "write" => s.unit \in Units /\ Fits(s.unit, s.content)
    /\ ReloadFollows(q)

Removing(q) ==
    /\ q # <<>> /\ q[Len(q)] = Erase(subject)
    /\ \A i \in 1 .. Len(q) :
          /\ q[i].do \in {"remove", "reload", "other", "erase"}
          /\ q[i].do = "erase" <=> i = Len(q)
          /\ q[i].do = "remove" => q[i].unit = subject /\ q[i].content = None
    /\ ReloadFollows(q)

\* The Containerfile is the one of contents r, unless its writer was refused.
Composed(r) == faults = 0 => subject \in clobbered \/ context[subject] = r.data

Inserting(q, r) ==
    \/ user  /\ q = <<Compose(subject, r), Insert(subject, r), Write(subject, r), Reload>>
    \/ ~user /\ q = <<Compose(subject, r), Insert(subject, r)>>
    \/ user  /\ q = <<Insert(subject, r), Write(subject, r), Reload>> /\ Composed(r)
    \/ ~user /\ q = <<Insert(subject, r)>> /\ Composed(r)

Storing(q, r) ==
    \/ user  /\ q = <<Store(subject, r), Write(subject, r), Reload>> /\ Composed(r)
    \/ ~user /\ q = <<Store(subject, r)>> /\ Composed(r)

Rebuilding(q, r) ==
    \/ \E w \in Of("build") :
         \/ /\ Exists(subject) /\ user
            /\ q = <<Compose(w, r), Store(subject, r), Write(subject, r), Reload>>
         \/ Exists(subject) /\ ~user /\ q = <<Compose(w, r), Store(subject, r)>>
         \/ ~Exists(subject) /\ q = <<Compose(w, r), NotFound>>
    \/ Exists(subject) /\ Storing(q, r)
    \/ q = <<NotFound>>

Building(q) ==
    /\ subject \in Of("build")
    /\ onError = "raise"
    /\ \E r \in Values[subject] :
          \/ op = "add" /\ Inserting(q, r)
          \/ op = "update" /\ Rebuilding(q, r)

\* The row of a unit has contents of that unit's kind.
RowsOwn == \A u \in Units : row[u] \in Values[u] \cup {None}

Scripted ==
    /\ op \in {"add", "update", "delete"} => subject \in Units
    /\ op \in {"start", "resync", "none"} => subject = NoUnit
    /\ onError \in {"rollback", "undoing"} => op = "add"
    /\ op = "none" => todo = <<>>
    /\ \/ todo = <<>>
       \/ op \in {"add", "update", "start", "resync"} /\ Writing(todo)
       \/ Building(todo)
       \/ op = "delete" /\ Removing(todo)
       \/ onError = "undoing" /\ faults # 0

AllKnown == \A u \in Units : Known(u)
Good(u)  == OnDisk(u) \/ Nameless(u) \/ StaleMounts(u)

\* The unit file of u agrees with its row, or is about to.
FileFollows(u) ==
    Exists(u) => \/ Good(u)
                 \/ Writes(todo, u) /\ ~Building(todo)
                 \/ op = "delete" /\ u = subject /\ todo # <<>>

FileHasRow(u) == ~Exists(u) /\ file[u] # None => Kind[u] \in {"network", "timer"}

ContextFollows(u) ==
    Kind[u] = "build" /\ Exists(u) /\ u \notin clobbered =>
        \/ context[u] = row[u].data
        \/ u = subject /\ todo # <<>> /\ Head(todo).do = "store"

\* As long as nothing has failed.
Unharmed ==
    faults = 0 =>
        /\ user
        /\ AllKnown \/ (Reloads(todo) /\ ~Building(todo))
        /\ \A u \in Units : FileFollows(u) /\ FileHasRow(u) /\ ContextFollows(u)

\* As long as the operation has not failed.
RewritingGoes ==
    /\ op \in {"start", "resync"} => AllKnown \/ Reloads(todo)
    /\ op = "resync" => \A u \in Units : Covered(u) => OnDisk(u) \/ Writes(todo, u)

ChangingGoes ==
    op \in {"add", "update"} /\ user /\ ~Building(todo) =>
        /\ Exists(subject)
        /\ AllKnown \/ Reloads(todo)
        /\ OnDisk(subject) \/ Nameless(subject) \/ Writes(todo, subject)

DeletingGoes ==
    op = "delete" /\ user =>
        /\ todo = <<>> => ~Exists(subject)
        /\ Kind[subject] \notin {"network", "timer"} => file[subject] = None \/ Unlinks(todo)

Succeeding ==
    outcome \in {"none", "ok"} /\ onError # "undoing" =>
        RewritingGoes /\ ChangingGoes /\ DeletingGoes

SyncInv == RowsOwn /\ Scripted /\ Unharmed /\ Succeeding

-----------------------------------------------------------------------------
(* Scripts *)

\* A script is its first step and the rest.
LEMMA Popped ==
    ASSUME NEW S, NEW q \in Seq(S), q # <<>>
    PROVE  /\ Left(q) = {Head(q)} \cup Left(Tail(q))
           /\ ReloadFollows(q) =>
                 /\ ReloadFollows(Tail(q))
                 /\ Head(q).do \in {"write", "remove"} => Reloads(Tail(q))
           /\ Removing(q) => /\ Tail(q) = <<>> \/ Removing(Tail(q))
                             /\ Head(q).do = "erase" <=> Tail(q) = <<>>
                             /\ Tail(q) = <<>> => Head(q) = Erase(subject)
<1>1. PICK t : t = Tail(q)
  OBVIOUS
<1>2. PICK n \in Nat : Len(q) = n + 1 /\ Len(t) = n /\ (n = 0 <=> t = <<>>)
  <2>1. Len(q) \in Nat \ {0} /\ t \in Seq(S) /\ Len(t) = Len(q) - 1
    BY <1>1
  <2>2. Len(t) = 0 <=> t = <<>>
    BY <2>1, EmptySeq
  <2>3. Len(q) - 1 \in Nat /\ Len(q) = (Len(q) - 1) + 1
    BY <2>1
  <2> QED  BY <2>1, <2>2, <2>3
<1>3. Head(q) = q[1] /\ \A i \in 1 .. n : t[i] = q[i + 1]
  BY <1>1, <1>2
<1>4. \A j \in 1 .. n + 1 : j = 1 \/ (j - 1 \in 1 .. n /\ t[j - 1] = q[j])
  <2> SUFFICES ASSUME NEW j \in 1 .. n + 1, j # 1
               PROVE  j - 1 \in 1 .. n /\ t[j - 1] = q[j]
    OBVIOUS
  <2>1. j - 1 \in 1 .. n /\ (j - 1) + 1 = j
    BY <1>2
  <2> QED  BY <1>3, <2>1
<1>5. Left(q) = {q[i] : i \in 1 .. n + 1} /\ Left(t) = {t[i] : i \in 1 .. n}
  BY <1>2 DEF Left
<1>6. \A i \in 1 .. n : i + 1 \in 1 .. n + 1
  BY <1>2
<1>7. 1 \in 1 .. n + 1
  BY <1>2
<1>8. Left(q) = {Head(q)} \cup Left(t)
  <2>1. Left(q) \subseteq {Head(q)} \cup Left(t)
    BY <1>3, <1>4, <1>5, SMTT(20)
  <2>2. {Head(q)} \cup Left(t) \subseteq Left(q)
    BY <1>3, <1>5, <1>6, <1>7
  <2> QED  BY <2>1, <2>2
<1>9. ASSUME ReloadFollows(q)
      PROVE  ReloadFollows(t) /\ (Head(q).do \in {"write", "remove"} => Reloads(t))
  <2>1. \A i \in 1 .. n + 1 : q[i].do \in {"write", "remove"} =>
           \E j \in 1 .. n + 1 : j > i /\ q[j].do = "reload"
    BY <1>2, <1>9 DEF ReloadFollows
  <2>2. \A i \in 1 .. n : t[i].do \in {"write", "remove"} =>
           \E j \in 1 .. n : j > i /\ t[j].do = "reload"
    <3> SUFFICES ASSUME NEW i \in 1 .. n, t[i].do \in {"write", "remove"}
                 PROVE  \E j \in 1 .. n : j > i /\ t[j].do = "reload"
      OBVIOUS
    <3>1. PICK j \in 1 .. n + 1 : j > i + 1 /\ q[j].do = "reload"
      BY <1>3, <1>6, <2>1
    <3>2. j # 1 /\ j - 1 > i
      BY <1>2, <3>1
    <3> QED  BY <1>4, <3>1, <3>2
  <2>3. Head(q).do \in {"write", "remove"} => Reloads(t)
    <3> SUFFICES ASSUME q[1].do \in {"write", "remove"}
                 PROVE  \E i \in 1 .. n : t[i].do = "reload"
      BY <1>3, <1>5 DEF Reloads
    <3>1. PICK j \in 1 .. n + 1 : j > 1 /\ q[j].do = "reload"
      BY <1>7, <2>1
    <3> QED  BY <1>4, <3>1
  <2> QED  BY <1>2, <2>2, <2>3 DEF ReloadFollows
<1>10. ASSUME Removing(q)
       PROVE  /\ t = <<>> \/ Removing(t)
              /\ Head(q).do = "erase" <=> t = <<>>
              /\ t = <<>> => Head(q) = Erase(subject)
  <2>1. /\ q[n + 1] = Erase(subject) /\ ReloadFollows(q)
        /\ \A i \in 1 .. n + 1 :
              /\ q[i].do \in {"remove", "reload", "other", "erase"}
              /\ q[i].do = "erase" <=> i = n + 1
              /\ q[i].do = "remove" => q[i].unit = subject /\ q[i].content = None
    BY <1>2, <1>10 DEF Removing
  <2>2. \A i \in 1 .. n : /\ t[i].do \in {"remove", "reload", "other", "erase"}
                          /\ t[i].do = "erase" <=> i = n
                          /\ t[i].do = "remove" => t[i].unit = subject /\ t[i].content = None
    <3> SUFFICES ASSUME NEW i \in 1 .. n
                 PROVE  /\ t[i].do \in {"remove", "reload", "other", "erase"}
                        /\ t[i].do = "erase" <=> i = n
                        /\ t[i].do = "remove" => t[i].unit = subject /\ t[i].content = None
      OBVIOUS
    <3>1. i + 1 \in 1 .. n + 1 /\ t[i] = q[i + 1] /\ (i + 1 = n + 1 <=> i = n)
      BY <1>2, <1>3, <1>6
    <3> QED  BY <2>1, <3>1
  <2>3. n # 0 => t[n] = q[n + 1]
    BY <1>2, <1>3
  <2>4. Head(q).do = "erase" <=> n = 0
    BY <1>2, <1>3, <1>7, <2>1
  <2>5. n = 0 => Head(q) = Erase(subject)
    BY <1>3, <2>1
  <2>6. n # 0 => Removing(t)
    BY <1>2, <1>9, <2>1, <2>2, <2>3 DEF Removing
  <2> QED  BY <1>2, <2>4, <2>5, <2>6
<1> QED  BY <1>1, <1>8, <1>9, <1>10

-----------------------------------------------------------------------------
(* Rows, files and what systemd knows *)

\* A row that loses one of the units it names has contents of its unit still.
LEMMA FewerRefsOwn ==
    ASSUME UnitConstants, NEW v \in Units, NEW x \in Values[v], NEW u
    PROVE  [x EXCEPT !.refs = @ \ {u}] \in Values[v]
<1>1. x = [data |-> x.data, refs |-> x.refs] /\ x.refs \subseteq Units
  BY DEF Values
<1>2. [x EXCEPT !.refs = @ \ {u}] = [data |-> x.data, refs |-> x.refs \ {u}]
  BY <1>1
<1>3. IsFiniteSet(x.refs)
  BY <1>1, FS_Subset DEF UnitConstants
<1>4. /\ Cardinality(x.refs \ {u}) <= Cardinality(x.refs)
      /\ Cardinality(x.refs \ {u}) \in Nat /\ Cardinality(x.refs) \in Nat
  BY <1>3, FS_Subset, FS_CardinalityType
<1> QED  BY <1>1, <1>2, <1>4 DEF Values, UnitConstants

\* What the rows are after a row has been deleted.
LEMMA WithoutFacts ==
    ASSUME UnitConstants, Typed, RowsOwn, NEW u \in Units, NEW v \in Units
    PROVE  /\ Without(u)[v] \in Values[v] \cup {None}
           /\ row[v] = None => Without(u)[v] = None
           /\ \/ Without(u)[v] \in {None, row[v]}
              \/ /\ Kind[v] = "container" /\ Kind[u] = "volume"
                 /\ Without(u)[v] = [row[v] EXCEPT !.refs = @ \ {u}]
<1> DEFINE y == [row[v] EXCEPT !.refs = @ \ {u}]
<1>1. Without(u)[v] = IF v = u \/ (Kind[v] = "timer" /\ u \in row[v].refs) THEN None
                      ELSE IF Kind[u] = "volume" THEN y
                      ELSE row[v]
  BY DEF Without
<1>2. row[v] = None => y = None
  BY DEF None
<1>3. row[v] # None => y \in Values[v]
  BY FewerRefsOwn DEF RowsOwn
<1>4. ASSUME row[v] # None, Kind[u] = "volume", Kind[v] # "container"
      PROVE  y = row[v]
  <2>1. row[v] \in Values[v]
    BY <1>4 DEF RowsOwn
  <2>2. Kind[v] \in Kinds
    BY DEF UnitConstants
  <2>3. "volume" \notin Referable[Kind[v]]
    BY <1>4, <2>2 DEF Kinds, Referable
  <2>4. row[v] = [data |-> row[v].data, refs |-> row[v].refs] /\ u \notin row[v].refs
    BY <1>4, <2>1, <2>3 DEF Values
  <2>5. row[v].refs \ {u} = row[v].refs
    BY <2>4
  <2>6. y = [data |-> row[v].data, refs |-> row[v].refs \ {u}]
    BY <2>4
  <2> QED  BY <2>4, <2>5, <2>6
<1> HIDE DEF y
<1>5. Without(u)[v] \in Values[v] \cup {None} /\ (row[v] = None => Without(u)[v] = None)
  BY <1>1, <1>2, <1>3 DEF RowsOwn
<1>6. \/ Without(u)[v] \in {None, row[v]}
      \/ Kind[v] = "container" /\ Kind[u] = "volume" /\ Without(u)[v] = y
  BY <1>1, <1>2, <1>4
<1> QED  BY <1>5, <1>6 DEF y

LEMMA SameKnown ==
    ASSUME file' = file, loaded' = loaded
    PROVE  AllKnown' <=> AllKnown
  BY DEF AllKnown, Known, Generated

LEMMA SameGood ==
    ASSUME NEW u \in Units, file'[u] = file[u], row'[u] = row[u]
    PROVE  /\ Good(u)' <=> Good(u)
           /\ Exists(u)' <=> Exists(u)
           /\ FileHasRow(u)' <=> FileHasRow(u)
  BY DEF Good, OnDisk, Nameless, StaleMounts, Exists, FileHasRow

LEMMA SameCovered ==
    ASSUME row' = row
    PROVE  \A u : Covered(u)' <=> Covered(u)
  BY DEF Covered, NetworksUsed, Rows, Of, Exists

\* What was deleted under a container leaves its file as good as it was.
LEMMA GoodWithout ==
    ASSUME UnitConstants, Typed, RowsOwn, NEW u \in Units, NEW v \in Units, v # u,
           row' = Without(u), file'[v] = file[v], Exists(v)', Good(v)
    PROVE  Good(v)' /\ Exists(v)
<1>1. row'[v] # None /\ row[v] # None
  BY WithoutFacts DEF Exists
<1>2. CASE row'[v] = row[v]
  BY <1>1, <1>2, SameGood DEF Exists
<1>3. CASE /\ Kind[v] = "container" /\ Kind[u] = "volume"
           /\ row'[v] = [row[v] EXCEPT !.refs = @ \ {u}]
  <2>1. row[v] = [data |-> row[v].data, refs |-> row[v].refs] /\ row[v].refs \subseteq Units
    BY ContentsFacts DEF Typed
  <2>2. row'[v].refs = row[v].refs \ {u}
    BY <1>3, <2>1
  <2>3. row[v].refs \subseteq file[v].refs /\ file[v].refs \ row[v].refs \subseteq Of("volume")
    BY <1>3 DEF Good, OnDisk, Nameless, StaleMounts
  <2>4. StaleMounts(v)'
    BY <1>3, <2>2, <2>3 DEF StaleMounts, Of
  <2> QED  BY <1>1, <2>4 DEF Good, Exists
<1> QED  BY <1>1, <1>2, <1>3, WithoutFacts

-----------------------------------------------------------------------------
(* A step of a script *)

LEMMA Running ==
    ASSUME UnitConstants, UInv, RunStep, NEW s, s = Head(todo)
    PROVE  /\ todo # <<>> /\ todo \in Seq(Steps) /\ s \in Steps /\ Typed
           /\ Effect(s) /\ CanSucceed(s) /\ ~Taken(s)
           /\ todo' = Tail(todo) /\ Left(todo) = {s} \cup Left(todo')
           /\ onError' = IF s.do = "insert" THEN "rollback" ELSE onError
           /\ outcome = "none"
           /\ UNCHANGED <<user, op, subject, faults>>
           /\ row' \in [Units -> Contents]
           /\ s.do \notin {"insert", "store", "erase"} => row' = row
           /\ s.do = "erase" => row' = Without(s.unit)
           /\ s.do \in {"insert", "store"} => row' = [row EXCEPT ![s.unit] = s.content]
<1>1. todo # <<>> /\ todo \in Seq(Allowed(op, subject)) /\ outcome = "none"
  BY DEF RunStep, UInv, Going
<1>2. Allowed(op, subject) \subseteq Steps
  BY AllowedSteps
<1>3. todo \in Seq(Steps)
  BY <1>1, <1>2, SeqSubset
<1>4. s \in Steps /\ (s.do = "compose" => subject \in Of("build"))
  BY <1>1, Rest, AllowedSteps
<1>5. /\ Effect(s) /\ CanSucceed(s) /\ ~Taken(s)
      /\ todo' = Tail(todo) /\ UNCHANGED <<user, op, subject, faults>>
      /\ onError' = IF s.do = "insert" THEN "rollback" ELSE onError
  BY DEF RunStep, GoOn
<1>6. Left(todo) = {s} \cup Left(todo')
  BY <1>1, <1>3, <1>5, Popped
<1>7. /\ row' \in [Units -> Contents]
      /\ s.do \notin {"insert", "store", "erase"} => row' = row
      /\ s.do = "erase" => row' = Without(s.unit)
      /\ s.do \in {"insert", "store"} => row' = [row EXCEPT ![s.unit] = s.content]
  BY <1>4, <1>5, EffectTyped DEF UInv
<1> QED  BY <1>1, <1>3, <1>4, <1>5, <1>6, <1>7 DEF UInv

\* The scripts that build a unit, spelt out.
LEMMA Tuples ==
    \A a, b, c, d :
       /\ <<a>> # <<>> /\ Head(<<a>>) = a /\ Tail(<<a>>) = <<>> /\ Left(<<a>>) = {a}
       /\ <<a, b>> # <<>> /\ Head(<<a, b>>) = a /\ Tail(<<a, b>>) = <<b>>
       /\ Left(<<a, b>>) = {a, b}
       /\ <<a, b, c>> # <<>> /\ Head(<<a, b, c>>) = a /\ Tail(<<a, b, c>>) = <<b, c>>
       /\ Left(<<a, b, c>>) = {a, b, c}
       /\ <<a, b, c, d>> # <<>> /\ Head(<<a, b, c, d>>) = a
       /\ Tail(<<a, b, c, d>>) = <<b, c, d>>
       /\ Left(<<a, b, c, d>>) = {a, b, c, d}
<1> TAKE a, b, c, d
<1>1. /\ <<a>> # <<>> /\ Head(<<a>>) = a /\ Tail(<<a>>) = <<>>
      /\ <<a, b>> # <<>> /\ Head(<<a, b>>) = a /\ Tail(<<a, b>>) = <<b>>
      /\ <<a, b, c>> # <<>> /\ Head(<<a, b, c>>) = a /\ Tail(<<a, b, c>>) = <<b, c>>
      /\ <<a, b, c, d>> # <<>> /\ Head(<<a, b, c, d>>) = a
      /\ Tail(<<a, b, c, d>>) = <<b, c, d>>
  OBVIOUS
<1>2. Left(<<a>>) = {a}
  BY DEF Left
<1>3. Left(<<a, b>>) = {a, b}
  <2>1. Len(<<a, b>>) = 2 /\ 1 .. 2 = {1, 2} /\ <<a, b>>[1] = a /\ <<a, b>>[2] = b
    OBVIOUS
  <2> QED  BY <2>1 DEF Left
<1>4. Left(<<a, b, c>>) = {a, b, c}
  <2>1. /\ Len(<<a, b, c>>) = 3 /\ 1 .. 3 = {1, 2, 3}
        /\ <<a, b, c>>[1] = a /\ <<a, b, c>>[2] = b /\ <<a, b, c>>[3] = c
    OBVIOUS
  <2> QED  BY <2>1 DEF Left
<1>5. Left(<<a, b, c, d>>) = {a, b, c, d}
  <2>1. /\ Len(<<a, b, c, d>>) = 4 /\ 1 .. 4 = {1, 2, 3, 4}
        /\ <<a, b, c, d>>[1] = a /\ <<a, b, c, d>>[2] = b /\ <<a, b, c, d>>[3] = c
        /\ <<a, b, c, d>>[4] = d
    OBVIOUS
  <2> QED  BY <2>1 DEF Left
<1> QED  BY <1>1, <1>2, <1>3, <1>4, <1>5

LEMMA BuildingFirst ==
    ASSUME NEW q, Building(q)
    PROVE  /\ q # <<>> /\ Head(q) \in Left(q)
           /\ Head(q).do \in {"compose", "insert", "store", "not found"} /\ ~Head(q).soft
<1>1. PICK r : (op = "add" /\ Inserting(q, r)) \/ (op = "update" /\ Rebuilding(q, r))
  BY DEF Building
<1>2. \A w, x : /\ Compose(w, x).do = "compose" /\ Insert(w, x).do = "insert"
                /\ Store(w, x).do = "store" /\ NotFound.do = "not found"
                /\ ~Compose(w, x).soft /\ ~Insert(w, x).soft
                /\ ~Store(w, x).soft /\ ~NotFound.soft
  BY DEF Compose, Insert, Store, NotFound, Step
<1>3. CASE Inserting(q, r)
  <2>1. q # <<>> /\ Head(q) \in Left(q) /\ Head(q) \in {Compose(subject, r), Insert(subject, r)}
    BY <1>3, Tuples DEF Inserting
  <2> QED  BY <1>2, <2>1
<1>4. CASE Storing(q, r)
  <2>1. q # <<>> /\ Head(q) \in Left(q) /\ Head(q) = Store(subject, r)
    BY <1>4, Tuples DEF Storing
  <2> QED  BY <1>2, <2>1
<1>5. CASE q = <<NotFound>>
  BY <1>2, <1>5, Tuples
<1>6. ASSUME NEW w,
             \/ q = <<Compose(w, r), Store(subject, r), Write(subject, r), Reload>>
             \/ q = <<Compose(w, r), Store(subject, r)>>
             \/ q = <<Compose(w, r), NotFound>>
      PROVE  /\ q # <<>> /\ Head(q) \in Left(q)
             /\ Head(q).do \in {"compose", "insert", "store", "not found"} /\ ~Head(q).soft
  <2>1. q # <<>> /\ Head(q) \in Left(q) /\ Head(q) = Compose(w, r)
    BY <1>6, Tuples
  <2> QED  BY <1>2, <2>1
<1> QED  BY <1>1, <1>3, <1>4, <1>5, <1>6 DEF Rebuilding

\* Scripts are of one sort.
LEMMA Apart ==
    /\ ~Building(<<>>)
    /\ \A q : q \in Seq(Steps) /\ Writing(q) => ~Building(q)
    /\ \A q : op \notin {"add", "update"} \/ onError # "raise" => ~Building(q)
<1>1. ASSUME NEW q \in Seq(Steps), Building(q)
      PROVE  q # <<>> /\ \E s \in Left(q) : s.do \in {"compose", "insert", "store", "not found"}
  BY <1>1, BuildingFirst
<1>2. <<>> \in Seq(Steps)
  OBVIOUS
<1>3. \A q \in Seq(Steps) : Writing(q) => ~Building(q)
  BY <1>1 DEF Writing
<1>4. \A q : op \notin {"add", "update"} \/ onError # "raise" => ~Building(q)
  BY DEF Building
<1>5. ~Building(<<>>)
  BY <1>1, <1>2
<1> QED  BY <1>3, <1>4, <1>5

LEMMA ApartNext ==
    /\ ~Building(<<>>)'
    /\ \A q : q \in Seq(Steps) /\ Writing(q)' => ~Building(q)'
    /\ \A q : op' \notin {"add", "update"} \/ onError' # "raise" => ~Building(q)'
<1>1. Apart'
  BY Apart, PTL
<1> QED  BY <1>1

\* A step of a script that writes units as their rows are.
LEMMA RunWriting ==
    ASSUME UnitConstants, UInv, SyncInv, RunStep,
           op \in {"add", "update", "start", "resync"}, Writing(todo)
    PROVE  SyncInv'
<1>1. PICK s : s = Head(todo)
  OBVIOUS
<1>2. /\ todo # <<>> /\ todo \in Seq(Steps) /\ s \in Steps /\ Typed /\ Effect(s)
      /\ todo' = Tail(todo) /\ Left(todo) = {s} \cup Left(todo')
      /\ outcome = "none" /\ UNCHANGED <<user, op, subject, faults>>
      /\ onError' = IF s.do = "insert" THEN "rollback" ELSE onError
      /\ s.do \notin {"insert", "store", "erase"} => row' = row
  BY <1>1, Running
<1>3. /\ s.do \in {"write", "reload", "other"}
      /\ s.do = "write" => s.unit \in Units /\ Fits(s.unit, s.content)
  BY <1>2 DEF Writing
<1>4. /\ UNCHANGED <<row, context, clobbered, onError>>
      /\ file' = IF s.do = "write" THEN [file EXCEPT ![s.unit] = s.content] ELSE file
      /\ loaded' = IF s.do = "reload" THEN [v \in Units |-> Generated(v)] ELSE loaded
  BY <1>2, <1>3 DEF Effect
<1>5. \A u \in Units : \/ file'[u] = file[u]
                       \/ file'[u] = s.content /\ Fits(u, s.content)
  BY <1>2, <1>3, <1>4 DEF Typed
<1>6. \A u \in Units : Writes(todo, u) =>
         Writes(todo', u) \/ (file'[u] = s.content /\ Fits(u, s.content))
  BY <1>2, <1>3, <1>4 DEF Typed, Writes
<1>7. Writing(todo)'
  <2>1. \A u, x : Fits(u, x)' <=> Fits(u, x)
    BY <1>2, <1>4 DEF Fits, Exists
  <2>2. ReloadFollows(todo')
    BY <1>2, Popped DEF Writing
  <2>3. ReloadFollows(todo)' <=> ReloadFollows(todo')
    BY DEF ReloadFollows
  <2>4. \A x \in Left(todo') : /\ x.do \in {"write", "reload", "other"} /\ ~x.soft
                               /\ x.do = "write" => x.unit \in Units /\ Fits(x.unit, x.content)
    BY <1>2 DEF Writing
  <2> QED  BY <2>1, <2>2, <2>3, <2>4 DEF Writing, Left
<1>8. ~Building(todo) /\ ~Building(todo)'
  <2>1. PICK t : t = todo'
    OBVIOUS
  <2>2. t \in Seq(Steps)
    BY <1>2, <2>1, Rest
  <2>3. (Writing(todo)' <=> Writing(t)') /\ (Building(todo)' <=> Building(t)')
    BY <2>1
  <2>4. ~Building(t)'
    BY <1>7, <2>2, <2>3, ApartNext
  <2> QED  BY <1>2, <2>3, <2>4, Apart
<1>9. AllKnown \/ Reloads(todo) => AllKnown' \/ Reloads(todo)'
  <2>1. CASE s.do = "write"
    <3>1. Reloads(todo')
      BY <1>1, <1>2, <2>1, Popped DEF Writing
    <3> QED  BY <3>1 DEF Reloads, Left
  <2>2. CASE s.do = "reload"
    BY <1>4, <2>2 DEF AllKnown, Known, Generated
  <2>3. CASE s.do = "other"
    BY <1>2, <1>4, <2>3, SameKnown DEF Reloads, Left
  <2> QED  BY <1>3, <2>1, <2>2, <2>3
<1>10. ASSUME NEW u \in Units
       PROVE  /\ Good(u) \/ Writes(todo, u) => Good(u)' \/ Writes(todo, u)'
              /\ OnDisk(u) \/ Nameless(u) \/ Writes(todo, u)
                    => OnDisk(u)' \/ Nameless(u)' \/ Writes(todo, u)'
              /\ op = "resync" /\ (OnDisk(u) \/ Writes(todo, u)) => OnDisk(u)' \/ Writes(todo, u)'
  <2>1. Writes(todo, u)' <=> Writes(todo', u)
    BY DEF Writes, Left
  <2>2. CASE file'[u] = s.content /\ Fits(u, s.content)
    <3>1. OnDisk(u)' \/ (op # "resync" /\ Nameless(u)')
      BY <1>4, <2>2 DEF Fits, OnDisk, Nameless
    <3> QED  BY <3>1 DEF Good
  <2>3. CASE file'[u] = file[u] /\ ~(file'[u] = s.content /\ Fits(u, s.content))
    <3>1. /\ OnDisk(u)' <=> OnDisk(u)
          /\ Nameless(u)' <=> Nameless(u)
          /\ StaleMounts(u)' <=> StaleMounts(u)
      BY <1>4, <2>3 DEF OnDisk, Nameless, StaleMounts
    <3>2. Writes(todo, u) => Writes(todo, u)'
      BY <1>6, <2>1, <2>3
    <3> QED  BY <3>1, <3>2 DEF Good
  <2> QED  BY <1>5, <2>2, <2>3
<1>11. Scripted'
  BY <1>2, <1>4, <1>7 DEF SyncInv, Scripted
<1>12. Unharmed'
  <2> SUFFICES ASSUME faults = 0
               PROVE  /\ user'
                      /\ AllKnown' \/ (Reloads(todo)' /\ ~Building(todo)')
                      /\ \A u \in Units : FileFollows(u)' /\ FileHasRow(u)' /\ ContextFollows(u)'
    BY <1>2 DEF Unharmed
  <2>1. /\ user
        /\ AllKnown \/ Reloads(todo)
        /\ \A u \in Units : FileFollows(u) /\ FileHasRow(u) /\ ContextFollows(u)
    BY DEF SyncInv, Unharmed
  <2>2. \A u \in Units : FileFollows(u)'
    BY <1>2, <1>4, <1>8, <1>10, <2>1 DEF FileFollows, Exists
  <2>3. \A u \in Units : FileHasRow(u)'
    BY <1>4, <1>5, <2>1 DEF FileHasRow, Exists, Fits
  <2>4. \A u \in Units : ContextFollows(u)'
    <3>1. Head(todo).do # "store"
      BY <1>1, <1>3
    <3> QED  BY <1>2, <1>4, <2>1, <3>1 DEF ContextFollows, Exists
  <2>5. AllKnown' \/ Reloads(todo)'
    BY <1>9, <2>1
  <2>6. user'
    <3>1. user' = user
      BY <1>2
    <3> QED  BY <2>1, <3>1
  <2> QED  BY <1>8, <2>2, <2>3, <2>4, <2>5, <2>6
<1>13. Succeeding'
  <2> SUFFICES ASSUME onError # "undoing"
               PROVE  RewritingGoes' /\ ChangingGoes' /\ DeletingGoes'
    BY <1>4 DEF Succeeding
  <2>1. RewritingGoes /\ ChangingGoes
    BY <1>2 DEF SyncInv, Succeeding
  <2>2. \A u : Covered(u)' <=> Covered(u)
    BY <1>4, SameCovered
  <2>3. RewritingGoes'
    BY <1>2, <1>9, <1>10, <2>1, <2>2 DEF RewritingGoes
  <2>4. ChangingGoes'
    <3>1. op \in {"add", "update"} => subject \in Units
      BY DEF SyncInv, Scripted
    <3>2. ASSUME op \in {"add", "update"}, user
          PROVE  /\ Exists(subject)'
                 /\ AllKnown' \/ Reloads(todo)'
                 /\ OnDisk(subject)' \/ Nameless(subject)' \/ Writes(todo, subject)'
      <4>1. PICK u \in Units : u = subject /\ u = subject'
        BY <1>2, <3>1, <3>2
      <4>2. /\ Exists(u) /\ (AllKnown \/ Reloads(todo))
            /\ OnDisk(u) \/ Nameless(u) \/ Writes(todo, u)
        BY <1>8, <2>1, <3>2, <4>1 DEF ChangingGoes
      <4>3. /\ Exists(u)' /\ (AllKnown' \/ Reloads(todo)')
            /\ OnDisk(u)' \/ Nameless(u)' \/ Writes(todo, u)'
        BY <1>4, <1>9, <1>10, <4>2 DEF Exists
      <4> QED  BY <4>1, <4>3 DEF Exists, OnDisk, Nameless, Writes
    <3> QED  BY <1>2, <3>2 DEF ChangingGoes
  <2>5. DeletingGoes'
    BY <1>2 DEF DeletingGoes
  <2> QED  BY <2>3, <2>4, <2>5
<1>14. RowsOwn'
  BY <1>4 DEF SyncInv, RowsOwn
<1> QED  BY <1>11, <1>12, <1>13, <1>14 DEF SyncInv

\* A step of a deletion.
LEMMA RunRemoving ==
    ASSUME UnitConstants, UInv, SyncInv, RunStep, op = "delete", Removing(todo)
    PROVE  SyncInv'
<1>1. PICK s : s = Head(todo)
  OBVIOUS
<1>2. /\ todo # <<>> /\ todo \in Seq(Steps) /\ s \in Steps /\ Typed /\ Effect(s)
      /\ todo' = Tail(todo) /\ Left(todo) = {s} \cup Left(todo')
      /\ outcome = "none" /\ UNCHANGED <<user, op, subject, faults>>
      /\ onError' = IF s.do = "insert" THEN "rollback" ELSE onError
      /\ s.do \notin {"insert", "store", "erase"} => row' = row
      /\ s.do = "erase" => row' = Without(s.unit)
  BY <1>1, Running
<1>3. PICK u0 \in Units : u0 = subject /\ u0 = subject'
  BY <1>2 DEF SyncInv, Scripted
<1>4. /\ \A x \in Left(todo) : x.do \in {"remove", "reload", "other", "erase"}
      /\ \A x \in Left(todo) : x.do = "remove" => x.unit = u0 /\ x.content = None
  BY <1>3 DEF Removing, Left
<1>5. /\ todo' = <<>> \/ Removing(todo')
      /\ s.do = "erase" <=> todo' = <<>>
      /\ s.do = "erase" => s.unit = u0
  <2>1. s.do = "erase" => s = Erase(subject)
    BY <1>1, <1>2, Popped
  <2>2. Erase(subject).unit = subject
    BY DEF Erase, Step
  <2> QED  BY <1>1, <1>2, <1>3, <2>1, <2>2, Popped
<1>6. /\ UNCHANGED <<context, clobbered, onError>>
      /\ file' = IF s.do = "remove" THEN [file EXCEPT ![u0] = None] ELSE file
      /\ loaded' = IF s.do = "reload" THEN [v \in Units |-> Generated(v)] ELSE loaded
      /\ row' = IF s.do = "erase" THEN Without(u0) ELSE row
      /\ s.do \in {"remove", "reload", "other", "erase"}
  BY <1>2, <1>4, <1>5 DEF Effect
<1>7. onError # "undoing"
  BY DEF SyncInv, Scripted
<1>8. todo' # <<>> => Removing(todo)'
  <2> SUFFICES ASSUME todo' # <<>> PROVE Removing(todo)'
    OBVIOUS
  <2>1. Erase(subject)' = Erase(subject) /\ subject' = subject
    BY <1>2 DEF Erase
  <2>2. Removing(todo') /\ (ReloadFollows(todo)' <=> ReloadFollows(todo'))
    BY <1>5 DEF ReloadFollows
  <2> QED  BY <2>1, <2>2 DEF Removing
<1>9. ~Building(todo) /\ ~Building(todo)'
  BY <1>2 DEF Building
<1>10. \A u : ~Writes(todo, u)
  BY <1>4 DEF Writes
<1>11. AllKnown \/ Reloads(todo) => AllKnown' \/ Reloads(todo)'
  <2>1. CASE s.do = "remove"
    <3>1. Reloads(todo')
      BY <1>1, <1>2, <2>1, Popped DEF Removing
    <3> QED  BY <3>1 DEF Reloads, Left
  <2>2. CASE s.do = "reload"
    BY <1>6, <2>2 DEF AllKnown, Known, Generated
  <2>3. CASE s.do \in {"other", "erase"}
    BY <1>2, <1>6, <2>3, SameKnown DEF Reloads, Left
  <2> QED  BY <1>6, <2>1, <2>2, <2>3
<1>12. file[u0] = None \/ Unlinks(todo) => file'[u0] = None \/ Unlinks(todo)'
  BY <1>2, <1>6 DEF Typed, Unlinks, Left
<1>13. Unlinks(todo) => todo' # <<>>
  <2>1. Left(<<>>) = {}
    BY DEF Left
  <2>2. todo' = <<>> => Left(todo) = {s} /\ s.do = "erase"
    BY <1>2, <1>5, <2>1
  <2> QED  BY <2>2 DEF Unlinks
<1>14. DeletingGoes
  BY <1>2, <1>7 DEF SyncInv, Succeeding
<1>15. Scripted'
  BY <1>2, <1>6, <1>8 DEF SyncInv, Scripted
<1>16. RowsOwn'
  BY <1>2, <1>6, WithoutFacts DEF SyncInv, RowsOwn
<1>17. Unharmed'
  <2> SUFFICES ASSUME faults = 0
               PROVE  /\ user'
                      /\ AllKnown' \/ (Reloads(todo)' /\ ~Building(todo)')
                      /\ \A u \in Units : FileFollows(u)' /\ FileHasRow(u)' /\ ContextFollows(u)'
    BY <1>2 DEF Unharmed
  <2>1. /\ user
        /\ AllKnown \/ Reloads(todo)
        /\ \A u \in Units : FileFollows(u) /\ FileHasRow(u) /\ ContextFollows(u)
    BY DEF SyncInv, Unharmed
  <2>2. user'
    <3>1. user' = user
      BY <1>2
    <3> QED  BY <2>1, <3>1
  <2>3. ASSUME NEW u \in Units
        PROVE  FileFollows(u)'
    <3>1. CASE u = u0
      <4>1. s.do = "erase" => ~Exists(u)'
        BY <1>2, <1>6, <3>1, WithoutTyped DEF Exists
      <4> QED  BY <1>2, <1>3, <1>5, <3>1, <4>1 DEF FileFollows
    <3>2. CASE u # u0
      <4>1. file'[u] = file[u]
        BY <1>2, <1>6, <3>2 DEF Typed
      <4>2. Exists(u) => Good(u)
        BY <1>3, <1>10, <2>1, <3>2 DEF FileFollows
      <4>3. Exists(u)' => Good(u)'
        <5>1. CASE s.do = "erase"
          <6>1. Exists(u)' => Exists(u)
            BY <1>2, <1>6, <5>1, WithoutFacts DEF SyncInv, Exists
          <6> QED  BY <1>2, <1>3, <1>6, <3>2, <4>1, <4>2, <5>1, <6>1, GoodWithout DEF SyncInv
        <5>2. CASE s.do # "erase"
          BY <1>6, <4>1, <4>2, <5>2, SameGood
        <5> QED  BY <5>1, <5>2
      <4> QED  BY <4>3 DEF FileFollows
    <3> QED  BY <3>1, <3>2
  <2>4. ASSUME NEW u \in Units
        PROVE  FileHasRow(u)'
    <3>1. CASE s.do # "erase"
      BY <1>2, <1>6, <2>1, <3>1 DEF FileHasRow, Exists, Typed
    <3>2. CASE s.do = "erase" /\ u = u0
      <4>1. Kind[u0] \notin {"network", "timer"} => file[u0] = None
        BY <1>3, <1>5, <1>13, <1>14, <2>1, <3>2 DEF DeletingGoes
      <4> QED  BY <1>6, <3>2, <4>1 DEF FileHasRow
    <3>3. CASE s.do = "erase" /\ u # u0
      <4>1. row[u] # None /\ row'[u] = None => Kind[u] = "timer"
        BY <1>2, <1>6, <3>3, WithoutTyped
      <4>2. file'[u] = file[u]
        BY <1>6, <3>3
      <4> QED  BY <2>1, <4>1, <4>2 DEF FileHasRow, Exists
    <3> QED  BY <3>1, <3>2, <3>3
  <2>5. ASSUME NEW u \in Units
        PROVE  ContextFollows(u)'
    <3>1. Kind[u] = "build" => row'[u] \in {None, row[u]}
      BY <1>2, <1>6, WithoutFacts DEF SyncInv
    <3>2. Head(todo).do # "store"
      BY <1>1, <1>6
    <3>3. row[u] = None => row'[u] = None
      BY <1>2, <1>6, WithoutFacts DEF SyncInv
    <3> QED  BY <1>6, <2>1, <3>1, <3>2, <3>3 DEF ContextFollows, Exists
  <2>6. AllKnown' \/ Reloads(todo)'
    BY <1>11, <2>1
  <2> QED  BY <1>9, <2>2, <2>3, <2>4, <2>5, <2>6
<1>18. Succeeding'
  <2>1. RewritingGoes' /\ ChangingGoes'
    BY <1>2 DEF RewritingGoes, ChangingGoes
  <2>2. DeletingGoes'
    <3>1. todo' = <<>> => ~Exists(u0)'
      BY <1>2, <1>5, <1>6, WithoutTyped DEF Exists
    <3>2. ASSUME user, Kind[u0] \notin {"network", "timer"}
          PROVE  file'[u0] = None \/ Unlinks(todo)'
      BY <1>3, <1>12, <1>14, <3>2 DEF DeletingGoes
    <3> QED  BY <1>2, <1>3, <3>1, <3>2 DEF DeletingGoes, Exists
  <2> QED  BY <2>1, <2>2 DEF Succeeding
<1> QED  BY <1>15, <1>16, <1>17, <1>18 DEF SyncInv

\* What has happened before the row of a build is written.
LEMMA BuildingFacts ==
    ASSUME SyncInv, Building(todo)
    PROVE  /\ subject \in Units /\ Kind[subject] = "build" /\ onError = "raise"
           /\ op \in {"add", "update"}
           /\ faults = 0 => /\ user /\ AllKnown
                            /\ \A u \in Units : /\ Exists(u) => Good(u)
                                                /\ FileHasRow(u) /\ ContextFollows(u)
<1>1. /\ subject \in Units /\ Kind[subject] = "build" /\ onError = "raise"
      /\ op \in {"add", "update"}
  BY DEF Building, Of
<1>2. faults = 0 => /\ user /\ AllKnown
                    /\ \A u \in Units : FileFollows(u) /\ FileHasRow(u) /\ ContextFollows(u)
  BY DEF SyncInv, Unharmed
<1>3. \A u \in Units : FileFollows(u) => (Exists(u) => Good(u))
  BY <1>1 DEF FileFollows
<1> QED  BY <1>1, <1>2, <1>3

\* The Containerfile is written, under whichever name.
LEMMA RunCompose ==
    ASSUME UnitConstants, UInv, SyncInv, RunStep, Building(todo), Building(todo)',
           NEW w \in Units, NEW r \in Contents, Head(todo) = Compose(w, r),
           op = "update" /\ Exists(subject) => Head(todo') = Store(subject, r) /\ todo' # <<>>
    PROVE  SyncInv'
<1>1. PICK s : s = Head(todo)
  OBVIOUS
<1>2. s.do = "compose" /\ s.unit = w /\ s.content = r
  BY <1>1 DEF Compose, Step
<1>3. /\ todo # <<>> /\ Typed /\ Effect(s) /\ outcome = "none"
      /\ UNCHANGED <<user, op, subject, faults, onError, row>>
  BY <1>1, <1>2, Running
<1>4. /\ UNCHANGED <<file, loaded>>
      /\ context' = [context EXCEPT ![w] = r.data]
      /\ clobbered' = IF w = subject /\ (op = "update" <=> Exists(w))
                      THEN clobbered \ {w} ELSE clobbered \cup {w, subject}
  BY <1>2, <1>3 DEF Effect
<1>5. /\ subject \in Units /\ onError = "raise" /\ op \in {"add", "update"}
      /\ faults = 0 => /\ user /\ AllKnown
                       /\ \A u \in Units : /\ Exists(u) => Good(u)
                                           /\ FileHasRow(u) /\ ContextFollows(u)
  BY BuildingFacts
<1>6. ASSUME NEW u \in Units, ContextFollows(u)
      PROVE  ContextFollows(u)'
  <2> SUFFICES ASSUME Kind[u] = "build", Exists(u), u \notin clobbered'
               PROVE  \/ context'[u] = row'[u].data
                      \/ u = subject' /\ todo' # <<>> /\ Head(todo').do = "store"
    BY <1>3 DEF ContextFollows, Exists
  <2>1. CASE u # w
    <3>1. u \notin clobbered /\ context'[u] = context[u]
      BY <1>3, <1>4, <2>1 DEF Typed
    <3>2. Head(todo).do # "store"
      BY <1>1, <1>2
    <3> QED  BY <1>3, <1>6, <3>1, <3>2 DEF ContextFollows
  <2>2. CASE u = w
    <3>1. w = subject /\ op = "update"
      BY <1>4, <2>2
    <3>2. Store(subject, r).do = "store"
      BY DEF Store, Step
    <3> QED  BY <1>3, <2>2, <3>1, <3>2
  <2> QED  BY <2>1, <2>2
<1>7. Unharmed'
  <2> SUFFICES ASSUME faults = 0
               PROVE  /\ user'
                      /\ AllKnown' \/ (Reloads(todo)' /\ ~Building(todo)')
                      /\ \A u \in Units : FileFollows(u)' /\ FileHasRow(u)' /\ ContextFollows(u)'
    BY <1>3 DEF Unharmed
  <2>1. user'
    <3>1. user /\ user' = user
      BY <1>3, <1>5
    <3> QED  BY <3>1
  <2>2. AllKnown'
    BY <1>4, <1>5, SameKnown
  <2>3. \A u \in Units : FileFollows(u)' /\ FileHasRow(u)'
    BY <1>3, <1>4, <1>5, SameGood DEF FileFollows
  <2>4. \A u \in Units : ContextFollows(u)'
    BY <1>5, <1>6
  <2> QED  BY <2>1, <2>2, <2>3, <2>4
<1>8. Succeeding'
  BY <1>3, <1>5 DEF Succeeding, RewritingGoes, ChangingGoes, DeletingGoes
<1>9. Scripted' /\ RowsOwn'
  BY <1>3 DEF SyncInv, Scripted, RowsOwn
<1> QED  BY <1>7, <1>8, <1>9 DEF SyncInv

\* The row of the build is inserted or updated; the unit file comes next.
LEMMA RunStore ==
    ASSUME UnitConstants, UInv, SyncInv, RunStep, Building(todo),
           NEW r \in Values[subject], Composed(r),
           \/ op = "add" /\ Head(todo) = Insert(subject, r)
           \/ op = "update" /\ Head(todo) = Store(subject, r),
           \/ user /\ todo' = <<Write(subject, r), Reload>>
           \/ ~user /\ todo' = <<>>
    PROVE  SyncInv'
<1>1. PICK s : s = Head(todo)
  OBVIOUS
<1>2. /\ s.do = "insert" <=> op = "add"
      /\ s.do \in {"insert", "store"} /\ s.unit = subject /\ s.content = r
  BY <1>1 DEF Insert, Store, Step
<1>3. /\ todo # <<>> /\ Typed /\ Effect(s) /\ outcome = "none"
      /\ UNCHANGED <<user, op, subject, faults>>
      /\ onError' = IF op = "add" THEN "rollback" ELSE onError
      /\ row' = [row EXCEPT ![subject] = r]
  BY <1>1, <1>2, Running
<1>4. UNCHANGED <<file, loaded, context, clobbered>>
  BY <1>2, <1>3 DEF Effect
<1>5. /\ subject \in Units /\ Kind[subject] = "build" /\ onError = "raise"
      /\ op \in {"add", "update"}
      /\ faults = 0 => /\ user /\ AllKnown
                       /\ \A u \in Units : /\ Exists(u) => Good(u)
                                           /\ FileHasRow(u) /\ ContextFollows(u)
  BY BuildingFacts
<1>6. /\ row'[subject] = r /\ r # None
      /\ \A u \in Units : u # subject => row'[u] = row[u]
  <2>1. r # None
    BY <1>5 DEF Values, Data, None
  <2> QED  BY <1>3, <1>5, <2>1 DEF Typed
<1>7. PICK a, b : a = Write(subject, r) /\ b = Reload
  OBVIOUS
<1>8. /\ a.do = "write" /\ a.unit = subject /\ a.content = r /\ ~a.soft
      /\ b.do = "reload" /\ ~b.soft
  BY <1>7 DEF Write, Reload, Step
<1>9. user => /\ todo' = <<a, b>> /\ Left(todo') = {a, b}
              /\ Writing(todo)' /\ Reloads(todo)' /\ Writes(todo, subject)'
  <2> SUFFICES ASSUME user
               PROVE  /\ todo' = <<a, b>> /\ Left(todo') = {a, b}
                      /\ Writing(todo)' /\ Reloads(todo)' /\ Writes(todo, subject)'
    OBVIOUS
  <2>1. todo' = <<a, b>>
    BY <1>7
  <2>2. Left(todo') = {a, b}
    BY <2>1, Tuples
  <2>3. Fits(subject, r)'
    BY <1>3, <1>6 DEF Fits, Exists
  <2>4. ReloadFollows(todo')
    <3>1. Len(<<a, b>>) = 2 /\ 1 .. 2 = {1, 2} /\ <<a, b>>[1] = a /\ <<a, b>>[2] = b
      OBVIOUS
    <3> QED  BY <1>8, <2>1, <3>1 DEF ReloadFollows
  <2>5. Writing(todo)'
    <3>1. \A x \in Left(todo') : x = a \/ x = b
      BY <2>2
    <3>2. Fits(a.unit, a.content)'
      BY <1>3, <1>8, <2>3 DEF Fits, Exists
    <3>3. ReloadFollows(todo)' /\ Left(todo)' = Left(todo')
      BY <2>4 DEF ReloadFollows, Left
    <3> QED  BY <1>5, <1>8, <3>1, <3>2, <3>3 DEF Writing
  <2>6. Reloads(todo)' /\ Writes(todo, subject)'
    BY <1>3, <1>8, <2>2 DEF Reloads, Writes, Left
  <2> QED  BY <2>1, <2>2, <2>5, <2>6
<1>10. ~Building(todo)'
  <2>1. PICK t : t = todo'
    OBVIOUS
  <2>2. (Writing(todo)' <=> Writing(t)') /\ (Building(todo)' <=> Building(t)')
    BY <2>1
  <2>3. todo # <<>> /\ todo \in Seq(Steps) /\ t = Tail(todo)
    BY <1>1, <2>1, Running
  <2>4. t \in Seq(Steps)
    BY <2>3, Rest
  <2>5. ~user => t = <<>>
    BY <2>1
  <2> QED  BY <1>9, <2>2, <2>4, <2>5, ApartNext
<1>11. Scripted'
  BY <1>3, <1>5, <1>9 DEF SyncInv, Scripted
<1>12. RowsOwn'
  BY <1>6 DEF SyncInv, RowsOwn
<1>13. Unharmed'
  <2> SUFFICES ASSUME faults = 0
               PROVE  /\ user'
                      /\ AllKnown' \/ (Reloads(todo)' /\ ~Building(todo)')
                      /\ \A u \in Units : FileFollows(u)' /\ FileHasRow(u)' /\ ContextFollows(u)'
    BY <1>3 DEF Unharmed
  <2>1. user /\ user'
    <3>1. user /\ user' = user
      BY <1>3, <1>5
    <3> QED  BY <3>1
  <2>2. ASSUME NEW u \in Units, u # subject
        PROVE  FileFollows(u)' /\ FileHasRow(u)' /\ ContextFollows(u)'
    <3>1. (Exists(u)' <=> Exists(u)) /\ (Good(u)' <=> Good(u)) /\ (FileHasRow(u)' <=> FileHasRow(u))
      BY <1>4, <1>6, <2>2, SameGood
    <3>2. ContextFollows(u)'
      BY <1>4, <1>5, <1>6, <2>2, <3>1 DEF ContextFollows
    <3> QED  BY <1>5, <3>1, <3>2 DEF FileFollows
  <2>3. ASSUME NEW u \in Units, u = subject
        PROVE  FileFollows(u)' /\ FileHasRow(u)' /\ ContextFollows(u)'
    <3>1. Exists(u)' /\ Writes(todo, u)'
      BY <1>3, <1>6, <1>9, <2>1, <2>3 DEF Exists, Writes
    <3>2. u \in clobbered' \/ context'[u] = row'[u].data
      BY <1>4, <1>6, <2>3 DEF Composed
    <3> QED  BY <1>10, <3>1, <3>2 DEF FileFollows, FileHasRow, ContextFollows
  <2> QED  BY <1>9, <1>10, <2>1, <2>2, <2>3
<1>14. Succeeding'
  BY <1>3, <1>5, <1>6, <1>9 DEF Succeeding, RewritingGoes, ChangingGoes, DeletingGoes, Exists
<1> QED  BY <1>11, <1>12, <1>13, <1>14 DEF SyncInv

\* Whoever writes the Containerfile, Composed holds after it.
LEMMA ComposedThen ==
    ASSUME UnitConstants, UInv, SyncInv, RunStep, Building(todo),
           NEW w \in Units, NEW r \in Contents, Head(todo) = Compose(w, r)
    PROVE  /\ Composed(r)'
           /\ UNCHANGED <<op, user, subject, onError, row>>
<1>1. PICK s : s = Head(todo)
  OBVIOUS
<1>2. s.do = "compose" /\ s.unit = w /\ s.content = r
  BY <1>1 DEF Compose, Step
<1>3. Typed /\ Effect(s) /\ UNCHANGED <<user, op, subject, onError, row>>
  BY <1>1, <1>2, Running
<1>4. /\ context' = [context EXCEPT ![w] = r.data]
      /\ clobbered' = IF w = subject /\ (op = "update" <=> Exists(w))
                      THEN clobbered \ {w} ELSE clobbered \cup {w, subject}
  BY <1>2, <1>3 DEF Effect
<1>5. w = subject => context'[subject] = r.data
  BY <1>3, <1>4 DEF Typed
<1> QED  BY <1>3, <1>4, <1>5 DEF Composed

LEMMA RunBuilding ==
    ASSUME UnitConstants, UInv, SyncInv, RunStep, Building(todo)
    PROVE  SyncInv'
<1>1. PICK r \in Values[subject] : \/ op = "add" /\ Inserting(todo, r)
                                   \/ op = "update" /\ Rebuilding(todo, r)
  BY DEF Building
<1>2. subject \in Of("build") /\ subject \in Units /\ r \in Contents /\ onError = "raise"
  BY <1>1, ContentsFacts DEF Building, Of
<1>3. /\ todo' = Tail(todo) /\ CanSucceed(Head(todo))
      /\ UNCHANGED <<user, op, subject>>
  <2>1. PICK s : s = Head(todo)
    OBVIOUS
  <2> QED  BY <2>1, Running
<1>4. Head(todo) # NotFound
  <2>1. NotFound.do = "not found"
    BY DEF NotFound, Step
  <2> QED  BY <1>3, <2>1 DEF CanSucceed
<1>5. PICK a, b, c, d : /\ a = Insert(subject, r) /\ b = Store(subject, r)
                        /\ c = Write(subject, r) /\ d = Reload
  OBVIOUS
<1>6. CASE \/ op = "add" /\ user /\ todo = <<a, c, d>> /\ Composed(r)
           \/ op = "add" /\ ~user /\ todo = <<a>> /\ Composed(r)
           \/ op = "update" /\ user /\ todo = <<b, c, d>> /\ Composed(r)
           \/ op = "update" /\ ~user /\ todo = <<b>> /\ Composed(r)
  <2>1. \A x : /\ Head(<<x, c, d>>) = x /\ Tail(<<x, c, d>>) = <<c, d>>
               /\ Head(<<x>>) = x /\ Tail(<<x>>) = <<>>
    BY Tuples
  <2>2. /\ Composed(r)
        /\ (op = "add" /\ Head(todo) = a) \/ (op = "update" /\ Head(todo) = b)
        /\ (user /\ Tail(todo) = <<c, d>>) \/ (~user /\ Tail(todo) = <<>>)
    BY <1>6, <2>1
  <2> QED  BY <1>1, <1>3, <1>5, <2>2, RunStore
<1>7. CASE op = "add" /\ \/ user /\ todo = <<Compose(subject, r), a, c, d>>
                         \/ ~user /\ todo = <<Compose(subject, r), a>>
  <2>0. \A x : /\ Head(<<x, a, c, d>>) = x /\ Tail(<<x, a, c, d>>) = <<a, c, d>>
               /\ Head(<<x, a>>) = x /\ Tail(<<x, a>>) = <<a>>
    BY Tuples
  <2>1. /\ Head(todo) = Compose(subject, r)
        /\ (user /\ Tail(todo) = <<a, c, d>>) \/ (~user /\ Tail(todo) = <<a>>)
    BY <1>7, <2>0
  <2>2. Composed(r)' /\ UNCHANGED <<op, user, subject, onError, row>>
    BY <1>2, <2>1, ComposedThen
  <2>3. Inserting(todo, r)'
    BY <1>3, <1>5, <2>1, <2>2 DEF Inserting, Insert, Write, Reload
  <2>4. Building(todo)'
    BY <1>2, <1>7, <2>2, <2>3 DEF Building
  <2> QED  BY <1>2, <1>7, <2>1, <2>4, RunCompose
<1>8. ASSUME NEW w \in Of("build"), op = "update", Exists(subject),
             \/ user /\ todo = <<Compose(w, r), b, c, d>>
             \/ ~user /\ todo = <<Compose(w, r), b>>
      PROVE  SyncInv'
  <2>0. \A x : /\ Head(<<x, b, c, d>>) = x /\ Tail(<<x, b, c, d>>) = <<b, c, d>>
               /\ Head(<<x, b>>) = x /\ Tail(<<x, b>>) = <<b>>
    BY Tuples
  <2>1. /\ Head(todo) = Compose(w, r)
        /\ (user /\ Tail(todo) = <<b, c, d>>) \/ (~user /\ Tail(todo) = <<b>>)
    BY <1>8, <2>0
  <2>2. w \in Units
    BY DEF Of
  <2>3. Composed(r)' /\ UNCHANGED <<op, user, subject, onError, row>>
    BY <1>2, <2>1, <2>2, ComposedThen
  <2>4. Storing(todo, r)'
    BY <1>3, <1>5, <2>1, <2>3 DEF Storing, Store, Write, Reload
  <2>5. Building(todo)'
    BY <1>2, <1>8, <2>3, <2>4 DEF Building, Rebuilding, Exists
  <2>6. Head(todo') = Store(subject, r) /\ todo' # <<>>
    <3>1. /\ Head(<<b, c, d>>) = b /\ <<b, c, d>> # <<>>
          /\ Head(<<b>>) = b /\ <<b>> # <<>>
      BY Tuples
    <3> QED  BY <1>3, <1>5, <2>1, <3>1
  <2> QED  BY <1>2, <2>1, <2>2, <2>5, <2>6, RunCompose
<1>9. ASSUME NEW w \in Of("build"), op = "update", ~Exists(subject),
             todo = <<Compose(w, r), NotFound>>
      PROVE  SyncInv'
  <2>1. Head(todo) = Compose(w, r) /\ Tail(todo) = <<NotFound>>
    BY <1>9, Tuples
  <2>2. w \in Units
    BY DEF Of
  <2>3. Composed(r)' /\ UNCHANGED <<op, user, subject, onError, row>>
    BY <1>2, <2>1, <2>2, ComposedThen
  <2>4. Building(todo)'
    BY <1>2, <1>3, <1>9, <2>1, <2>3 DEF Building, Rebuilding
  <2> QED  BY <1>2, <1>9, <2>1, <2>2, <2>4, RunCompose
<1>10. todo # <<NotFound>>
  BY <1>4, Tuples
<1>11. CASE op = "add" /\ Inserting(todo, r)
  BY <1>5, <1>6, <1>7, <1>11 DEF Inserting
<1>12. CASE op = "update" /\ Rebuilding(todo, r)
  BY <1>5, <1>6, <1>8, <1>9, <1>10, <1>12 DEF Rebuilding, Storing
<1> QED  BY <1>1, <1>11, <1>12

\* A row is deleted again: something has failed.
LEMMA RunUndoing ==
    ASSUME UnitConstants, UInv, SyncInv, RunStep, onError = "undoing", faults # 0
    PROVE  SyncInv'
<1>1. PICK s, t : s = Erase(subject) /\ t = todo
  OBVIOUS
<1>2. t = <<s>>
  BY <1>1 DEF UInv, Going, RunStep
<1>3. Head(todo) = s /\ Tail(todo) = <<>>
  BY <1>1, <1>2, Tuples
<1>4. s.do = "erase" /\ s.unit = subject
  BY <1>1 DEF Erase, Step
<1>5. /\ Typed /\ row' = Without(subject) /\ todo' = <<>> /\ onError' = onError
      /\ UNCHANGED <<user, op, subject, faults>>
  BY <1>3, <1>4, Running
<1>6. subject \in Units
  BY DEF UInv, Going
<1>7. RowsOwn'
  BY <1>5, <1>6, WithoutFacts DEF SyncInv, RowsOwn
<1>8. Scripted' /\ Unharmed' /\ Succeeding'
  BY <1>5 DEF SyncInv, Scripted, Unharmed, Succeeding
<1> QED  BY <1>7, <1>8 DEF SyncInv

LEMMA RunKeeps ==
    ASSUME UnitConstants, UInv, SyncInv, RunStep
    PROVE  SyncInv'
<1>1. todo # <<>>
  BY DEF RunStep
<1> QED  BY <1>1, RunWriting, RunRemoving, RunBuilding, RunUndoing DEF SyncInv, Scripted

-----------------------------------------------------------------------------
(* A step that raises *)

LEMMA Failing ==
    ASSUME UnitConstants, UInv, SyncInv, StepFails, NEW s, s = Head(todo)
    PROVE  /\ todo # <<>> /\ todo \in Seq(Steps) /\ Typed /\ outcome = "none"
           /\ Left(todo) = {s} \cup Left(Tail(todo))
           /\ UNCHANGED <<row, user, op, subject>> /\ faults \in Nat
           /\ \/ faults' # 0 /\ PartialEffect(s)
              \/ /\ UNCHANGED <<file, loaded, context, clobbered, faults>>
                 /\ ~CanSucceed(s) \/ Taken(s)
           /\ s.soft => /\ op = "delete" /\ Removing(todo) /\ onError' = onError
                        /\ todo' = Tail(todo)
           /\ ~s.soft /\ onError = "rollback" =>
                 todo' = <<Erase(subject)>> /\ onError' = "undoing" /\ outcome' = "none"
           /\ ~s.soft /\ onError # "rollback" =>
                 todo' = <<>> /\ onError' = onError /\ outcome' \in {"error", "out of sync"}
<1>1. todo # <<>> /\ todo \in Seq(Allowed(op, subject)) /\ outcome = "none" /\ Typed
  BY DEF StepFails, UInv, Going
<1>2. todo \in Seq(Steps)
  <2>1. Allowed(op, subject) \subseteq Steps
    BY AllowedSteps
  <2> QED  BY <1>1, <2>1, SeqSubset
<1>3. Left(todo) = {s} \cup Left(Tail(todo))
  BY <1>1, <1>2, Popped
<1>4. faults \in Nat
  BY <1>1 DEF Typed, UnitConstants
<1>5. /\ UNCHANGED <<row, user, op, subject>>
      /\ \/ faults' # 0 /\ PartialEffect(s)
         \/ /\ UNCHANGED <<file, loaded, context, clobbered, faults>>
            /\ ~CanSucceed(s) \/ Taken(s)
  <2>1. UNCHANGED <<user, op, subject>>
    BY DEF StepFails
  <2>2. \/ faults' = faults + 1 /\ PartialEffect(s)
        \/ /\ UNCHANGED <<row, file, loaded, context, clobbered, faults>>
           /\ ~CanSucceed(s) \/ Taken(s)
    BY DEF StepFails
  <2>3. faults + 1 # 0
    BY <1>4
  <2>4. PartialEffect(s) => row' = row
    BY DEF PartialEffect
  <2> QED  BY <2>1, <2>2, <2>3, <2>4
<1>6. /\ s.soft => onError' = onError /\ todo' = Tail(todo)
      /\ ~s.soft /\ onError = "rollback" =>
            todo' = <<Erase(subject)>> /\ onError' = "undoing" /\ outcome' = "none"
      /\ ~s.soft /\ onError # "rollback" =>
            todo' = <<>> /\ onError' = onError /\ outcome' \in {"error", "out of sync"}
  BY DEF StepFails, GoOn
<1>7. ASSUME s.soft
      PROVE  op = "delete" /\ Removing(todo)
  <2>1. ~Writing(todo)
    BY <1>3, <1>7 DEF Writing
  <2>2. ~Building(todo)
    BY <1>7, BuildingFirst
  <2>3. onError # "undoing"
    <3>1. PICK e : e = Erase(subject)
      OBVIOUS
    <3>2. ~e.soft /\ Head(<<e>>) = e
      BY <3>1 DEF Erase, Step
    <3> QED  BY <1>1, <1>7, <3>1, <3>2 DEF UInv, Going
  <2> QED  BY <1>1, <2>1, <2>2, <2>3 DEF SyncInv, Scripted
<1> QED  BY <1>1, <1>2, <1>3, <1>4, <1>5, <1>6, <1>7

\* A suppressed failure: only deletions have those.
LEMMA FailSoftly ==
    ASSUME UnitConstants, UInv, SyncInv, StepFails, Head(todo).soft
    PROVE  SyncInv'
<1>1. PICK s : s = Head(todo)
  OBVIOUS
<1>2. /\ todo # <<>> /\ todo \in Seq(Steps) /\ Typed /\ outcome = "none"
      /\ Left(todo) = {s} \cup Left(Tail(todo))
      /\ UNCHANGED <<row, user, op, subject, onError>> /\ faults \in Nat
      /\ \/ faults' # 0 /\ PartialEffect(s)
         \/ /\ UNCHANGED <<file, loaded, context, clobbered, faults>>
            /\ ~CanSucceed(s) \/ Taken(s)
      /\ op = "delete" /\ Removing(todo) /\ todo' = Tail(todo)
  BY <1>1, Failing
<1>3. PICK u0 \in Units : u0 = subject /\ u0 = subject'
  BY <1>2 DEF SyncInv, Scripted
<1>4. s.do \in {"remove", "reload", "other", "erase"}
      /\ (s.do = "remove" => s.unit = u0 /\ s.content = None)
  <2>1. \A x \in Left(todo) : /\ x.do \in {"remove", "reload", "other", "erase"}
                              /\ x.do = "remove" => x.unit = u0 /\ x.content = None
    BY <1>2, <1>3 DEF Removing, Left
  <2> QED  BY <1>2, <2>1
<1>5. s.do # "erase" /\ todo' # <<>> /\ Removing(todo')
  <2>1. ~Erase(subject).soft
    BY DEF Erase, Step
  <2> QED  BY <1>1, <1>2, <2>1, Popped
<1>6. Removing(todo)'
  <2>1. Erase(subject)' = Erase(subject) /\ subject' = subject
    BY <1>2 DEF Erase
  <2>2. ReloadFollows(todo)' <=> ReloadFollows(todo')
    BY DEF ReloadFollows
  <2> QED  BY <1>5, <2>1, <2>2 DEF Removing
<1>7. onError # "undoing"
  BY <1>2 DEF SyncInv, Scripted
<1>8. faults' # 0
  <2>1. ASSUME faults = 0
        PROVE  CanSucceed(s) /\ ~Taken(s)
    <3>1. user
      BY <2>1 DEF SyncInv, Unharmed
    <3> QED  BY <1>4, <3>1 DEF CanSucceed, Taken
  <2> QED  BY <1>2, <2>1
<1>9. file[u0] = None => file'[u0] = None
  BY <1>2, <1>4 DEF PartialEffect, Effect, Typed
<1>10. Unlinks(todo) => Unlinks(todo)'
  BY <1>1, <1>2 DEF Unlinks, Left
<1>11. DeletingGoes'
  <2>1. DeletingGoes
    BY <1>2, <1>7 DEF SyncInv, Succeeding
  <2> QED  BY <1>2, <1>3, <1>5, <1>9, <1>10, <2>1 DEF DeletingGoes
<1>12. Succeeding'
  BY <1>2, <1>11 DEF Succeeding, RewritingGoes, ChangingGoes
<1>13. Scripted' /\ Unharmed' /\ RowsOwn'
  BY <1>2, <1>6, <1>8 DEF SyncInv, Scripted, Unharmed, RowsOwn
<1> QED  BY <1>12, <1>13 DEF SyncInv

\* As long as nothing has failed, only a build's row raises: taken, or gone.
LEMMA FailUnharmed ==
    ASSUME UnitConstants, UInv, SyncInv, StepFails, faults' = 0
    PROVE  /\ Building(todo) /\ Head(todo).do \in {"insert", "not found"}
           /\ ~Head(todo).soft
           /\ UNCHANGED <<file, loaded, context, clobbered, faults>>
<1>1. PICK s : s = Head(todo)
  OBVIOUS
<1>2. /\ todo # <<>> /\ todo \in Seq(Steps)
      /\ Left(todo) = {s} \cup Left(Tail(todo))
      /\ UNCHANGED <<file, loaded, context, clobbered, faults>>
      /\ ~CanSucceed(s) \/ Taken(s)
  BY <1>1, Failing
<1>3. user
  BY <1>2 DEF SyncInv, Unharmed
<1>4. s.do \in {"insert", "not found"}
  BY <1>2, <1>3 DEF CanSucceed, Taken
<1>5. ~Writing(todo) /\ ~Removing(todo)
  BY <1>2, <1>4 DEF Writing, Removing, Left
<1>6. Building(todo)
  BY <1>2, <1>5 DEF SyncInv, Scripted
<1> QED  BY <1>1, <1>2, <1>4, <1>6, BuildingFirst

LEMMA FailHard ==
    ASSUME UnitConstants, UInv, SyncInv, StepFails, ~Head(todo).soft
    PROVE  SyncInv'
<1>1. PICK s : s = Head(todo)
  OBVIOUS
<1>2. /\ UNCHANGED <<row, user, op, subject>>
      /\ \/ /\ onError = "rollback"
            /\ todo' = <<Erase(subject)>> /\ onError' = "undoing" /\ outcome' = "none"
         \/ /\ onError # "rollback"
            /\ todo' = <<>> /\ onError' = onError /\ outcome' \in {"error", "out of sync"}
  BY <1>1, Failing
<1>3. op # "none"
  BY DEF SyncInv, Scripted, StepFails
<1>4. RowsOwn'
  BY <1>2 DEF SyncInv, RowsOwn
<1>5. Succeeding'
  BY <1>2 DEF Succeeding
<1>6. CASE faults' # 0
  <2>1. Scripted'
    BY <1>2, <1>3, <1>6 DEF SyncInv, Scripted
  <2>2. Unharmed'
    BY <1>6 DEF Unharmed
  <2> QED  BY <1>4, <1>5, <2>1, <2>2 DEF SyncInv
<1>7. CASE faults' = 0
  <2>1. /\ Building(todo) /\ Head(todo).do # "store"
        /\ UNCHANGED <<file, loaded, context, clobbered, faults>>
    BY <1>7, FailUnharmed
  <2>2. /\ subject \in Units /\ onError = "raise" /\ op \in {"add", "update"}
        /\ user /\ AllKnown
        /\ \A u \in Units : (Exists(u) => Good(u)) /\ FileHasRow(u) /\ ContextFollows(u)
    BY <1>7, <2>1, BuildingFacts
  <2>3. todo' = <<>>
    BY <1>2, <2>2
  <2>4. Scripted'
    BY <1>2, <2>2, <2>3 DEF SyncInv, Scripted
  <2>5. \A u \in Units : FileFollows(u)' /\ FileHasRow(u)'
    BY <1>2, <2>1, <2>2, SameGood DEF FileFollows
  <2>6. \A u \in Units : ContextFollows(u)'
    BY <1>2, <2>1, <2>2 DEF ContextFollows, Exists
  <2>7. AllKnown'
    BY <2>1, <2>2, SameKnown
  <2>8. user'
    <3>1. user' = user
      BY <1>2
    <3> QED  BY <2>2, <3>1
  <2>9. Unharmed'
    BY <2>5, <2>6, <2>7, <2>8 DEF Unharmed
  <2> QED  BY <1>4, <1>5, <2>4, <2>9 DEF SyncInv
<1> QED  BY <1>6, <1>7

\* Between operations, and when the server dies in the middle of one.
LEMMA RestKeeps ==
    ASSUME UnitConstants, UInv, SyncInv, Reply \/ Crash \/ AccountLost
    PROVE  SyncInv'
<1>1. faults \in Nat
  <2>1. faults \in 0 .. MaxFaults /\ MaxFaults \in Nat
    BY DEF UInv, Typed, UnitConstants
  <2> QED  BY <2>1
<1>2. /\ op' = "none" /\ todo' = <<>> /\ UNCHANGED row
      /\ subject' = NoUnit
      /\ faults' # 0 \/ (todo = <<>> /\ UNCHANGED <<file, loaded, context, clobbered, user, faults>>)
      /\ onError' \notin {"rollback", "undoing"}
  BY <1>1 DEF Reply, Crash, AccountLost, SyncInv, Scripted
<1>3. Scripted' /\ RowsOwn'
  BY <1>2 DEF SyncInv, Scripted, RowsOwn
<1>4. Succeeding'
  BY <1>2 DEF Succeeding, RewritingGoes, ChangingGoes, DeletingGoes
<1>5. Unharmed'
  <2> SUFFICES ASSUME faults' = 0
               PROVE  /\ user'
                      /\ AllKnown' \/ (Reloads(todo)' /\ ~Building(todo)')
                      /\ \A u \in Units : FileFollows(u)' /\ FileHasRow(u)' /\ ContextFollows(u)'
    BY DEF Unharmed
  <2>1. todo = <<>> /\ UNCHANGED <<file, loaded, context, clobbered, user, faults>>
    BY <1>2
  <2>2. Left(<<>>) = {}
    BY DEF Left
  <2>3. ~Reloads(todo) /\ \A u : ~Writes(todo, u)
    BY <2>1, <2>2 DEF Reloads, Writes
  <2>4. /\ user /\ AllKnown
        /\ \A u \in Units : FileFollows(u) /\ FileHasRow(u) /\ ContextFollows(u)
    BY <2>1, <2>3 DEF SyncInv, Unharmed
  <2>5. AllKnown'
    BY <2>1, <2>4, SameKnown
  <2>6. \A u \in Units : FileFollows(u)' /\ FileHasRow(u)' /\ ContextFollows(u)'
    BY <1>2, <2>1, <2>3, <2>4, SameGood DEF FileFollows, ContextFollows, Exists
  <2>7. user'
    <3>1. user' = user
      BY <2>1
    <3> QED  BY <2>4, <3>1
  <2> QED  BY <2>5, <2>6, <2>7
<1> QED  BY <1>3, <1>4, <1>5 DEF SyncInv

-----------------------------------------------------------------------------
(* The scripts operations begin with *)

\* SetToSeq leaves nothing out.
LEMMA WrittenAll ==
    ASSUME UnitConstants, Typed, NEW us \in SUBSET Units
    PROVE  /\ WriteAll(us) \in Seq(Steps)
           /\ Left(WriteAll(us)) = {Write(v, row[v]) : v \in us}
<1>1. IsFiniteSet(us) /\ Cardinality(us) \in Nat /\ ExistsBijection(1 .. Cardinality(us), us)
  BY FS_Subset, FS_CardinalityType DEF UnitConstants
<1>2. PICK n \in Nat : n = Cardinality(us)
  BY <1>1
<1>3. PICK f : f = SetToSeq(us)
  OBVIOUS
<1>4. f \in Injection(1 .. n, us)
  <2>1. \E g \in [1 .. n -> us] : IsInjective(g)
    BY <1>1, <1>2 DEF ExistsBijection, Bijection, Injection
  <2>2. f \in [1 .. n -> us] /\ IsInjective(f)
    BY <1>2, <1>3, <2>1 DEF SetToSeq
  <2> QED  BY <2>2 DEF Injection
<1>5. f \in Surjection(1 .. n, us)
  <2>1. IsFiniteSet(1 .. n) /\ Cardinality(1 .. n) = n
    BY FS_Interval
  <2> QED  BY <1>1, <1>2, <1>4, <2>1, FS_Injection
<1>6. f \in [1 .. n -> us] /\ \A v \in us : \E i \in 1 .. n : f[i] = v
  BY <1>4, <1>5 DEF Injection, Surjection
<1>7. Len(f) = n
  BY <1>6
<1>8. WriteAll(us) = [i \in 1 .. n |-> Write(f[i], row[f[i]])]
  BY <1>3, <1>7 DEF WriteAll
<1>9. PICK q : q = WriteAll(us)
  OBVIOUS
<1>10. q \in Seq(Steps)
  <2>1. WriteAll(us) \in Seq(Tame) /\ Tame \subseteq Steps
    BY WriteAllTyped, TameSteps
  <2> QED  BY <1>9, <2>1, SeqSubset
<1>11. Len(q) = n /\ \A i \in 1 .. n : q[i] = Write(f[i], row[f[i]])
  BY <1>8, <1>9
<1>12. Left(q) = {q[i] : i \in 1 .. n}
  BY <1>11 DEF Left
<1>13. Left(q) = {Write(v, row[v]) : v \in us}
  <2>1. \A s \in Left(q) : \E v \in us : s = Write(v, row[v])
    BY <1>6, <1>11, <1>12
  <2>2. \A v \in us : Write(v, row[v]) \in Left(q)
    BY <1>6, <1>11, <1>12
  <2> QED  BY <2>1, <2>2
<1> QED  BY <1>9, <1>10, <1>13

LEMMA Joined ==
    ASSUME NEW S, NEW a \in Seq(S), NEW b \in Seq(S)
    PROVE  /\ a \o b \in Seq(S)
           /\ Left(a \o b) = Left(a) \cup Left(b)
           /\ ReloadFollows(b) /\ Reloads(b) => ReloadFollows(a \o b) /\ Reloads(a \o b)
<1>1. PICK q : q = a \o b
  OBVIOUS
<1>2. PICK m \in Nat, n \in Nat : m = Len(a) /\ n = Len(b)
  OBVIOUS
<1>3. /\ q \in Seq(S) /\ Len(q) = m + n
      /\ \A i \in 1 .. m + n : q[i] = IF i <= m THEN a[i] ELSE b[i - m]
  BY <1>1, <1>2
<1>4. Left(q) = {q[i] : i \in 1 .. m + n} /\ Left(a) = {a[i] : i \in 1 .. m}
      /\ Left(b) = {b[i] : i \in 1 .. n}
  BY <1>2, <1>3 DEF Left
<1>5. \A i \in 1 .. m : i \in 1 .. m + n /\ q[i] = a[i]
  BY <1>2, <1>3
<1>6. \A i \in 1 .. n : i + m \in 1 .. m + n /\ q[i + m] = b[i]
  <2> SUFFICES ASSUME NEW i \in 1 .. n
               PROVE  i + m \in 1 .. m + n /\ q[i + m] = b[i]
    OBVIOUS
  <2>1. i + m \in 1 .. m + n /\ ~(i + m <= m) /\ (i + m) - m = i
    BY <1>2
  <2> QED  BY <1>3, <2>1
<1>7. \A i \in 1 .. m + n : (i \in 1 .. m /\ q[i] = a[i])
                            \/ (i - m \in 1 .. n /\ i > m /\ q[i] = b[i - m])
  <2> SUFFICES ASSUME NEW i \in 1 .. m + n
               PROVE  (i \in 1 .. m /\ q[i] = a[i])
                      \/ (i - m \in 1 .. n /\ i > m /\ q[i] = b[i - m])
    OBVIOUS
  <2>1. i \in 1 .. m \/ (i - m \in 1 .. n /\ i > m /\ ~(i <= m))
    BY <1>2
  <2> QED  BY <1>3, <1>5, <2>1
<1>8. Left(q) = Left(a) \cup Left(b)
  <2>1. Left(q) \subseteq Left(a) \cup Left(b)
    BY <1>4, <1>7
  <2>2. Left(a) \subseteq Left(q)
    BY <1>4, <1>5
  <2>3. Left(b) \subseteq Left(q)
    BY <1>4, <1>6
  <2> QED  BY <2>1, <2>2, <2>3
<1>9. ASSUME ReloadFollows(b), Reloads(b)
      PROVE  ReloadFollows(q)
  <2> SUFFICES ASSUME NEW i \in 1 .. m + n, q[i].do \in {"write", "remove"}
               PROVE  \E j \in 1 .. m + n : j > i /\ q[j].do = "reload"
    BY <1>3 DEF ReloadFollows
  <2>1. CASE i \in 1 .. m
    <3>1. PICK j \in 1 .. n : b[j].do = "reload"
      BY <1>4, <1>9 DEF Reloads
    <3>2. j + m > i
      BY <1>2, <2>1
    <3> QED  BY <1>6, <3>1, <3>2
  <2>2. CASE i - m \in 1 .. n /\ i > m /\ q[i] = b[i - m]
    <3>1. PICK j \in 1 .. n : j > i - m /\ b[j].do = "reload"
      BY <1>2, <1>9, <2>2 DEF ReloadFollows
    <3>2. j + m > i
      BY <1>2, <2>2, <3>1
    <3> QED  BY <1>6, <3>1, <3>2
  <2> QED  BY <1>7, <2>1, <2>2
<1> QED  BY <1>1, <1>3, <1>8, <1>9 DEF Reloads

\* Joining two tuples, spelt out.
LEMMA Glue ==
    ASSUME NEW S, NEW p \in Seq(S), NEW q \in Seq(S), NEW r \in Seq(S), Len(r) = Len(p) + Len(q),
           \A i \in 1 .. Len(p) : r[i] = p[i], \A i \in 1 .. Len(q) : r[Len(p) + i] = q[i]
    PROVE  p \o q = r
<1>1. PICK z, m, n : z = p \o q /\ m = Len(p) /\ n = Len(q)
  OBVIOUS
<1>2. /\ z \in Seq(S) /\ Len(z) = m + n /\ m \in Nat /\ n \in Nat
      /\ \A i \in 1 .. m + n : z[i] = IF i <= m THEN p[i] ELSE q[i - m]
  BY <1>1
<1>3. ASSUME NEW i \in 1 .. m + n
      PROVE  z[i] = r[i]
  <2>1. CASE i <= m
    <3>1. i \in 1 .. m
      BY <1>2, <2>1
    <3> QED  BY <1>1, <1>2, <2>1, <3>1
  <2>2. CASE ~(i <= m)
    <3>1. i - m \in 1 .. n /\ m + (i - m) = i
      BY <1>2, <2>2
    <3> QED  BY <1>1, <1>2, <2>2, <3>1
  <2> QED  BY <2>1, <2>2
<1>4. Len(z) = Len(r) /\ \A i \in 1 .. Len(z) : z[i] = r[i]
  BY <1>1, <1>2, <1>3
<1>5. z = r
  BY <1>2, <1>4
<1> QED  BY <1>1, <1>5

LEMMA Joins ==
    \A a, b, c, d : /\ <<a>> \o <<b>> = <<a, b>>
                    /\ <<a>> \o <<b, c>> = <<a, b, c>>
                    /\ <<a>> \o <<b, c, d>> = <<a, b, c, d>>
                    /\ <<a, b>> \o <<c>> = <<a, b, c>>
                    /\ <<a, b>> \o <<c, d>> = <<a, b, c, d>>
                    /\ <<a, b>> \o <<>> = <<a, b>>
                    /\ <<a>> \o <<>> = <<a>> /\ <<>> \o <<a>> = <<a>>
<1> TAKE a, b, c, d
<1>1. PICK S : S = {a, b, c, d}
  OBVIOUS
<1>2. PICK s1, s2, t2, s3, t3, s4 :
         s1 = <<a>> /\ s2 = <<a, b>> /\ t2 = <<c, d>> /\ s3 = <<a, b, c>> /\ t3 = <<b, c, d>> /\ s4 = <<a, b, c, d>>
  OBVIOUS
<1>3. /\ s1 \in Seq(S) /\ Len(s1) = 1 /\ s1[1] = a
      /\ s2 \in Seq(S) /\ Len(s2) = 2 /\ s2[1] = a /\ s2[2] = b
      /\ s3 \in Seq(S) /\ Len(s3) = 3 /\ s3[1] = a /\ s3[2] = b /\ s3[3] = c
  BY <1>1, <1>2
<1>4. /\ t2 \in Seq(S) /\ Len(t2) = 2 /\ t2[1] = c /\ t2[2] = d
      /\ t3 \in Seq(S) /\ Len(t3) = 3 /\ t3[1] = b /\ t3[2] = c /\ t3[3] = d
      /\ s4 \in Seq(S) /\ Len(s4) = 4 /\ s4[1] = a /\ s4[2] = b /\ s4[3] = c /\ s4[4] = d
  BY <1>1, <1>2
<1>5. PICK b1, c1, bc : b1 = <<b>> /\ c1 = <<c>> /\ bc = <<b, c>>
  OBVIOUS
<1>6. /\ b1 \in Seq(S) /\ Len(b1) = 1 /\ b1[1] = b
      /\ c1 \in Seq(S) /\ Len(c1) = 1 /\ c1[1] = c
      /\ bc \in Seq(S) /\ Len(bc) = 2 /\ bc[1] = b /\ bc[2] = c
  BY <1>1, <1>5
<1>7. /\ \A i \in 1 .. 1 : i = 1
      /\ \A i \in 1 .. 2 : i = 1 \/ i = 2
      /\ \A i \in 1 .. 3 : i = 1 \/ i = 2 \/ i = 3
      /\ \A i \in 1 .. 4 : i = 1 \/ i = 2 \/ i = 3 \/ i = 4
  OBVIOUS
<1>8. s1 \o b1 = s2
  <2>1. \A i \in 1 .. Len(s1) : s2[i] = s1[i]
    BY <1>3, <1>4, <1>6, <1>7
  <2>2. \A i \in 1 .. Len(b1) : s2[Len(s1) + i] = b1[i]
    BY <1>3, <1>4, <1>6, <1>7
  <2>3. Len(s2) = Len(s1) + Len(b1)
    BY <1>3, <1>4, <1>6
  <2>4. s1 \in Seq(S) /\ b1 \in Seq(S) /\ s2 \in Seq(S)
    BY <1>3, <1>4, <1>6
  <2> QED  BY <2>1, <2>2, <2>3, <2>4, Glue
<1>9. s1 \o bc = s3
  <2>1. \A i \in 1 .. Len(s1) : s3[i] = s1[i]
    BY <1>3, <1>4, <1>6, <1>7
  <2>2. \A i \in 1 .. Len(bc) : s3[Len(s1) + i] = bc[i]
    BY <1>3, <1>4, <1>6, <1>7
  <2>3. Len(s3) = Len(s1) + Len(bc)
    BY <1>3, <1>4, <1>6
  <2>4. s1 \in Seq(S) /\ bc \in Seq(S) /\ s3 \in Seq(S)
    BY <1>3, <1>4, <1>6
  <2> QED  BY <2>1, <2>2, <2>3, <2>4, Glue
<1>10. s1 \o t3 = s4
  <2>1. \A i \in 1 .. Len(s1) : s4[i] = s1[i]
    BY <1>3, <1>4, <1>6, <1>7
  <2>2. \A i \in 1 .. Len(t3) : s4[Len(s1) + i] = t3[i]
    BY <1>3, <1>4, <1>6, <1>7
  <2>3. Len(s4) = Len(s1) + Len(t3)
    BY <1>3, <1>4, <1>6
  <2>4. s1 \in Seq(S) /\ t3 \in Seq(S) /\ s4 \in Seq(S)
    BY <1>3, <1>4, <1>6
  <2> QED  BY <2>1, <2>2, <2>3, <2>4, Glue
<1>11. s2 \o c1 = s3
  <2>1. \A i \in 1 .. Len(s2) : s3[i] = s2[i]
    BY <1>3, <1>4, <1>6, <1>7
  <2>2. \A i \in 1 .. Len(c1) : s3[Len(s2) + i] = c1[i]
    BY <1>3, <1>4, <1>6, <1>7
  <2>3. Len(s3) = Len(s2) + Len(c1)
    BY <1>3, <1>4, <1>6
  <2>4. s2 \in Seq(S) /\ c1 \in Seq(S) /\ s3 \in Seq(S)
    BY <1>3, <1>4, <1>6
  <2> QED  BY <2>1, <2>2, <2>3, <2>4, Glue
<1>12. s2 \o t2 = s4
  <2>1. \A i \in 1 .. Len(s2) : s4[i] = s2[i]
    BY <1>3, <1>4, <1>6, <1>7
  <2>2. \A i \in 1 .. Len(t2) : s4[Len(s2) + i] = t2[i]
    BY <1>3, <1>4, <1>6, <1>7
  <2>3. Len(s4) = Len(s2) + Len(t2)
    BY <1>3, <1>4, <1>6
  <2>4. s2 \in Seq(S) /\ t2 \in Seq(S) /\ s4 \in Seq(S)
    BY <1>3, <1>4, <1>6
  <2> QED  BY <2>1, <2>2, <2>3, <2>4, Glue
<1>13. <<a, b>> \o <<>> = <<a, b>> /\ <<a>> \o <<>> = <<a>> /\ <<>> \o <<a>> = <<a>>
  <2>1. \A s \in Seq(S) : s \o <<>> = s /\ <<>> \o s = s
    OBVIOUS
  <2> QED  BY <1>2, <1>3, <2>1
<1> QED  BY <1>2, <1>5, <1>8, <1>9, <1>10, <1>11, <1>12, <1>13

\* How the scripts that write units end.
LEMMA Endings ==
    \A a, b, c : b.do = "reload" /\ c.do \notin {"write", "remove"} =>
       /\ ReloadFollows(<<b>>) /\ Reloads(<<b>>)
       /\ ReloadFollows(<<a, b>>) /\ Reloads(<<a, b>>)
       /\ ReloadFollows(<<b, c>>) /\ Reloads(<<b, c>>)
       /\ ReloadFollows(<<a, b, c>>) /\ Reloads(<<a, b, c>>)
<1> TAKE a, b, c
<1> SUFFICES ASSUME b.do = "reload", c.do \notin {"write", "remove"}
             PROVE  /\ ReloadFollows(<<b>>) /\ Reloads(<<b>>)
                    /\ ReloadFollows(<<a, b>>) /\ Reloads(<<a, b>>)
                    /\ ReloadFollows(<<b, c>>) /\ Reloads(<<b, c>>)
                    /\ ReloadFollows(<<a, b, c>>) /\ Reloads(<<a, b, c>>)
  OBVIOUS
<1>1. ReloadFollows(<<b>>)
  BY DEF ReloadFollows
<1>2. \A x, y : Len(<<x, y>>) = 2 /\ 1 .. 2 = {1, 2} /\ <<x, y>>[1] = x /\ <<x, y>>[2] = y
  OBVIOUS
<1>3. ReloadFollows(<<a, b>>)
  BY <1>2 DEF ReloadFollows
<1>4. ReloadFollows(<<b, c>>)
  BY <1>2 DEF ReloadFollows
<1>5. ReloadFollows(<<a, b, c>>)
  <2>1. /\ Len(<<a, b, c>>) = 3 /\ 1 .. 3 = {1, 2, 3}
        /\ <<a, b, c>>[1] = a /\ <<a, b, c>>[2] = b /\ <<a, b, c>>[3] = c
    OBVIOUS
  <2> QED  BY <2>1 DEF ReloadFollows
<1>6. Reloads(<<b>>) /\ Reloads(<<a, b>>) /\ Reloads(<<b, c>>) /\ Reloads(<<a, b, c>>)
  BY Tuples DEF Reloads
<1> QED  BY <1>1, <1>3, <1>4, <1>5, <1>6

\* The scripts of the delete_* operations.
LEMMA Removals ==
    \A a, b, c :
       (a.do = "remove" /\ a.unit = subject /\ a.content = None /\ b.do = "reload" /\ c.do = "other") =>
       /\ Removing(<<Erase(subject)>>)
       /\ Removing(<<a, b, Erase(subject)>>)
       /\ Removing(<<c, a, b, Erase(subject)>>)
<1> TAKE a, b, c
<1> SUFFICES ASSUME a.do = "remove", a.unit = subject, a.content = None, b.do = "reload", c.do = "other"
             PROVE  /\ Removing(<<Erase(subject)>>)
                    /\ Removing(<<a, b, Erase(subject)>>)
                    /\ Removing(<<c, a, b, Erase(subject)>>)
  OBVIOUS
<1>1. PICK e : e = Erase(subject)
  OBVIOUS
<1>2. e.do = "erase"
  BY <1>1 DEF Erase, Step
<1>3. Removing(<<e>>)
  <2>1. <<e>> # <<>> /\ Len(<<e>>) = 1 /\ 1 .. 1 = {1} /\ <<e>>[1] = e
    OBVIOUS
  <2> QED  BY <1>1, <1>2, <2>1 DEF Removing, ReloadFollows
<1>4. Removing(<<a, b, e>>)
  <2>1. /\ <<a, b, e>> # <<>> /\ Len(<<a, b, e>>) = 3 /\ 1 .. 3 = {1, 2, 3}
        /\ <<a, b, e>>[1] = a /\ <<a, b, e>>[2] = b /\ <<a, b, e>>[3] = e
    OBVIOUS
  <2> QED  BY <1>1, <1>2, <2>1 DEF Removing, ReloadFollows
<1>5. Removing(<<c, a, b, e>>)
  <2>1. /\ <<c, a, b, e>> # <<>> /\ Len(<<c, a, b, e>>) = 4 /\ 1 .. 4 = {1, 2, 3, 4}
        /\ <<c, a, b, e>>[1] = c /\ <<c, a, b, e>>[2] = a /\ <<c, a, b, e>>[3] = b
        /\ <<c, a, b, e>>[4] = e
    OBVIOUS
  <2> QED  BY <1>1, <1>2, <2>1 DEF Removing, ReloadFollows
<1> QED  BY <1>1, <1>3, <1>4, <1>5

-----------------------------------------------------------------------------
(* The operations *)

\* Between operations, as long as nothing has failed.
LEMMA Quiet ==
    ASSUME UInv, SyncInv, op = "none"
    PROVE  /\ todo = <<>> /\ Typed /\ RowsOwn
           /\ faults = 0 => /\ user /\ AllKnown
                            /\ \A u \in Units : /\ Exists(u) => Good(u)
                                                /\ FileHasRow(u)
                                                /\ Kind[u] = "build" /\ Exists(u) /\ u \notin clobbered
                                                      => context[u] = row[u].data
<1>1. todo = <<>> /\ Typed /\ RowsOwn
  BY DEF SyncInv, Scripted, UInv
<1>2. Left(<<>>) = {}
  BY DEF Left
<1>3. ~Reloads(todo) /\ \A u : ~Writes(todo, u)
  BY <1>1, <1>2 DEF Reloads, Writes
<1>4. faults = 0 => /\ user /\ AllKnown
                    /\ \A u \in Units : FileFollows(u) /\ FileHasRow(u) /\ ContextFollows(u)
  BY <1>3 DEF SyncInv, Unharmed
<1>5. \A u \in Units : FileFollows(u) => (Exists(u) => Good(u))
  BY <1>3 DEF FileFollows
<1>6. \A u \in Units : ContextFollows(u) =>
         (Kind[u] = "build" /\ Exists(u) /\ u \notin clobbered => context[u] = row[u].data)
  BY <1>1 DEF ContextFollows
<1> QED  BY <1>1, <1>4, <1>5, <1>6

\* add_* and update_*, but for builds, begin with the row written.
LEMMA ChangeBegins ==
    ASSUME UnitConstants, UInv, SyncInv, op = "none",
           NEW name, NEW handler, NEW u \in Units, NEW script \in Seq(Steps),
           Begin(name, u, script, handler),
           (name = "add" /\ handler = "rollback") \/ (name = "update" /\ handler = "report"),
           Kind[u] # "build", row'[u] \in Values[u], Exists(u)',
           \A v \in Units : v # u => \/ row'[v] = row[v]
                                     \/ row'[v] = None /\ Kind[v] = "network",
           user \/ script # <<>> => Writing(script)' /\ Reloads(script) /\ Writes(script, u)
    PROVE  SyncInv'
<1>1. /\ todo' = script /\ op' = name /\ subject' = u /\ onError' = handler
      /\ UNCHANGED <<file, loaded, context, clobbered, user, faults>>
  BY DEF Begin
<1>2. /\ todo = <<>> /\ RowsOwn
      /\ faults = 0 => /\ user /\ AllKnown
                       /\ \A v \in Units : /\ Exists(v) => Good(v)
                                           /\ FileHasRow(v)
                                           /\ Kind[v] = "build" /\ Exists(v) /\ v \notin clobbered
                                                 => context[v] = row[v].data
  BY Quiet
<1>3. user \/ script # <<>> =>
         Writing(todo)' /\ Reloads(todo)' /\ Writes(todo, u)' /\ Writes(todo, subject)'
  BY <1>1 DEF Reloads, Writes, Left
<1>4. ~Building(todo)'
  <2>1. script # <<>> => ~Building(script)'
    BY ApartNext
  <2>2. script = <<>> => ~Building(script)'
    BY ApartNext
  <2>3. Building(todo)' <=> Building(script)'
    BY <1>1
  <2> QED  BY <2>1, <2>2, <2>3
<1>5. Scripted'
  BY <1>1, <1>3 DEF Scripted
<1>6. RowsOwn'
  BY <1>2 DEF RowsOwn
<1>7. Unharmed'
  <2> SUFFICES ASSUME faults = 0
               PROVE  /\ user'
                      /\ AllKnown' \/ (Reloads(todo)' /\ ~Building(todo)')
                      /\ \A v \in Units : FileFollows(v)' /\ FileHasRow(v)' /\ ContextFollows(v)'
    BY <1>1 DEF Unharmed
  <2>1. user /\ user'
    <3>1. user' = user
      BY <1>1
    <3> QED  BY <1>2, <3>1
  <2>2. AllKnown'
    BY <1>1, <1>2, SameKnown
  <2>3. ASSUME NEW v \in Units, row'[v] = row[v], v # u
        PROVE  FileFollows(v)' /\ FileHasRow(v)' /\ ContextFollows(v)'
    <3>1. (Exists(v)' <=> Exists(v)) /\ (Good(v)' <=> Good(v)) /\ (FileHasRow(v)' <=> FileHasRow(v))
      BY <1>1, <2>3, SameGood
    <3>2. ContextFollows(v)'
      BY <1>1, <1>2, <2>3, <3>1 DEF ContextFollows
    <3> QED  BY <1>2, <3>1, <3>2 DEF FileFollows
  <2>4. ASSUME NEW v \in Units, row'[v] = None, Kind[v] = "network"
        PROVE  FileFollows(v)' /\ FileHasRow(v)' /\ ContextFollows(v)'
    BY <2>4 DEF FileFollows, FileHasRow, ContextFollows, Exists
  <2>5. FileFollows(u)' /\ FileHasRow(u)' /\ ContextFollows(u)'
    BY <1>3, <1>4, <2>1 DEF FileFollows, FileHasRow, ContextFollows
  <2> QED  BY <2>1, <2>2, <2>3, <2>4, <2>5
<1>8. Succeeding'
  <2>1. RewritingGoes' /\ DeletingGoes'
    BY <1>1 DEF RewritingGoes, DeletingGoes
  <2>2. Exists(subject)' <=> Exists(u)'
    BY <1>1 DEF Exists
  <2>3. user' => user
    BY <1>1
  <2>4. ChangingGoes'
    BY <1>3, <2>2, <2>3 DEF ChangingGoes
  <2> QED  BY <2>1, <2>4 DEF Succeeding
<1> QED  BY <1>5, <1>6, <1>7, <1>8 DEF SyncInv

\* What is the same when an operation begins with the rows as they are.
LEMMA StillUnharmed ==
    ASSUME UInv, SyncInv, op = "none",
           UNCHANGED <<row, file, loaded, context, clobbered, user, faults>>
    PROVE  RowsOwn' /\ Unharmed'
<1>1. RowsOwn /\ RowsOwn'
  BY DEF SyncInv, RowsOwn
<1>2. faults = 0 => /\ user /\ AllKnown
                    /\ \A u \in Units : /\ Exists(u) => Good(u)
                                        /\ FileHasRow(u)
                                        /\ Kind[u] = "build" /\ Exists(u) /\ u \notin clobbered
                                              => context[u] = row[u].data
  BY Quiet
<1>3. AllKnown' <=> AllKnown
  BY SameKnown
<1>4. \A u \in Units : /\ Exists(u) => Good(u)
                       /\ FileHasRow(u)
                       => FileFollows(u)' /\ FileHasRow(u)'
  BY SameGood DEF FileFollows
<1>5. \A u \in Units :
         (Kind[u] = "build" /\ Exists(u) /\ u \notin clobbered => context[u] = row[u].data)
            => ContextFollows(u)'
  BY DEF ContextFollows, Exists
<1>6. user => user'
  OBVIOUS
<1>7. Unharmed'
  BY <1>2, <1>3, <1>4, <1>5, <1>6 DEF Unharmed
<1> QED  BY <1>1, <1>7

\* add_build and update_build begin with the Containerfile.
LEMMA BuildBegins ==
    ASSUME UnitConstants, UInv, SyncInv, op = "none",
           NEW name, NEW u \in Units, NEW script,
           Begin(name, u, script, "raise"), name \in {"add", "update"},
           UNCHANGED row, Building(script)'
    PROVE  SyncInv'
<1>1. /\ todo' = script /\ op' = name /\ subject' = u /\ onError' = "raise"
      /\ UNCHANGED <<file, loaded, context, clobbered, user, faults>>
  BY DEF Begin
<1>2. Building(todo)'
  BY <1>1
<1>3. RowsOwn' /\ Unharmed'
  BY <1>1, StillUnharmed
<1>4. Scripted'
  BY <1>1, <1>2 DEF Scripted
<1>5. Succeeding'
  BY <1>1, <1>2 DEF Succeeding, RewritingGoes, ChangingGoes, DeletingGoes
<1> QED  BY <1>3, <1>4, <1>5 DEF SyncInv

LEMMA DeletionBegins ==
    ASSUME UnitConstants, UInv, SyncInv, op = "none",
           NEW u \in Units, NEW script, script # <<>>,
           Begin("delete", u, script, "raise"),
           UNCHANGED row, Removing(script)',
           user /\ Kind[u] \notin {"network", "timer"} => Unlinks(script)
    PROVE  SyncInv'
<1>1. /\ todo' = script /\ op' = "delete" /\ subject' = u /\ onError' = "raise"
      /\ UNCHANGED <<file, loaded, context, clobbered, user, faults>>
  BY DEF Begin
<1>2. Removing(todo)'
  BY <1>1
<1>3. RowsOwn' /\ Unharmed'
  BY <1>1, StillUnharmed
<1>4. Scripted'
  BY <1>1, <1>2 DEF Scripted
<1>5. user' => user
  BY <1>1
<1>6. DeletingGoes'
  BY <1>1, <1>5 DEF DeletingGoes, Unlinks, Left
<1>7. Succeeding'
  BY <1>1, <1>6 DEF Succeeding, RewritingGoes, ChangingGoes
<1> QED  BY <1>3, <1>4, <1>7 DEF SyncInv

LEMMA RewriteBegins ==
    ASSUME UnitConstants, UInv, SyncInv, op = "none",
           NEW name, NEW script,
           Begin(name, NoUnit, script, "raise"), name \in {"start", "resync"},
           UNCHANGED row, Writing(script)', Reloads(script),
           name = "resync" => \A u \in Units : Covered(u) => Writes(script, u)
    PROVE  SyncInv'
<1>1. /\ todo' = script /\ op' = name /\ subject' = NoUnit /\ onError' = "raise"
      /\ UNCHANGED <<file, loaded, context, clobbered, user, faults>>
  BY DEF Begin
<1>2. Writing(todo)' /\ Reloads(todo)'
  BY <1>1 DEF Reloads, Left
<1>3. RowsOwn' /\ Unharmed'
  BY <1>1, StillUnharmed
<1>4. Scripted'
  BY <1>1, <1>2 DEF Scripted
<1>5. \A u : Covered(u)' <=> Covered(u)
  BY SameCovered
<1>6. RewritingGoes'
  BY <1>1, <1>2, <1>5 DEF RewritingGoes, Writes, Left
<1>7. Succeeding'
  BY <1>1, <1>6 DEF Succeeding, ChangingGoes, DeletingGoes
<1> QED  BY <1>3, <1>4, <1>7 DEF SyncInv

\* A script that writes some units as their rows are and then the unit u.
LEMMA WriterScript ==
    ASSUME UnitConstants, NEW u \in Units, NEW x \in Contents, Fits(u, x)',
           NEW p \in Seq(Steps),
           \A s \in Left(p) : \/ s = Other
                              \/ \E v \in Units : s = Write(v, row[v]) /\ row[v] # None /\ row'[v] = row[v],
           NEW e, e = <<Write(u, x), Reload>> \/ e = <<Write(u, x), Reload, Other>>
    PROVE  /\ p \o e \in Seq(Steps) /\ Writing(p \o e)' /\ Reloads(p \o e)
           /\ Writes(p \o e, u)
<1>1. PICK a, b, c : a = Write(u, x) /\ b = Reload /\ c = Other
  OBVIOUS
<1>2. /\ a.do = "write" /\ a.unit = u /\ a.content = x /\ ~a.soft
      /\ b.do = "reload" /\ ~b.soft /\ c.do = "other" /\ ~c.soft
  BY <1>1 DEF Write, Reload, Other, Step
<1>3. a \in Steps /\ b \in Steps /\ c \in Steps
  BY <1>1, TameSteps
<1>4. e = <<a, b>> \/ e = <<a, b, c>>
  BY <1>1
<1>5. e \in Seq(Steps) /\ ReloadFollows(e) /\ Reloads(e) /\ a \in Left(e) /\ Left(e) \subseteq {a, b, c}
  <2>1. <<a, b>> \in Seq(Steps) /\ <<a, b, c>> \in Seq(Steps)
    BY <1>3, ScriptFacts
  <2>2. /\ ReloadFollows(<<a, b>>) /\ Reloads(<<a, b>>)
        /\ ReloadFollows(<<a, b, c>>) /\ Reloads(<<a, b, c>>)
    BY <1>2, Endings
  <2>3. Left(<<a, b>>) = {a, b} /\ Left(<<a, b, c>>) = {a, b, c}
    BY Tuples
  <2> QED  BY <1>4, <2>1, <2>2, <2>3
<1>6. PICK q : q = p \o e
  OBVIOUS
<1>7. q \in Seq(Steps) /\ Left(q) = Left(p) \cup Left(e) /\ ReloadFollows(q) /\ Reloads(q)
  BY <1>5, <1>6, Joined
<1>8. ASSUME NEW s \in Left(q)
      PROVE  /\ s.do \in {"write", "reload", "other"} /\ ~s.soft
             /\ s.do = "write" => s.unit \in Units /\ Fits(s.unit, s.content)'
  <2>1. CASE s \in Left(e)
    BY <1>2, <1>5, <2>1
  <2>2. CASE s = Other
    BY <1>1, <1>2, <2>2
  <2>3. ASSUME NEW v \in Units, s = Write(v, row[v]), row[v] # None, row'[v] = row[v]
        PROVE  /\ s.do = "write" /\ ~s.soft
               /\ s.unit \in Units /\ Fits(s.unit, s.content)'
    <3>1. s.do = "write" /\ s.unit = v /\ s.content = row'[v] /\ ~s.soft
      BY <2>3 DEF Write, Step
    <3>2. Fits(v, row[v])'
      BY <2>3 DEF Fits, Exists
    <3> QED  BY <2>3, <3>1 DEF Fits, Exists
  <2> QED  BY <1>7, <2>1, <2>2, <2>3
<1>9. Writing(q)'
  BY <1>7, <1>8 DEF Writing
<1>10. Writes(q, u)
  BY <1>2, <1>5, <1>7 DEF Writes
<1> QED  BY <1>6, <1>7, <1>9, <1>10

\* Nothing but the unit itself.
LEMMA PlainScript ==
    ASSUME UnitConstants, NEW u \in Units, NEW x \in Contents, Fits(u, x)',
           NEW script, script = IfUser(<<Write(u, x), Reload>>)
    PROVE  /\ script \in Seq(Steps)
           /\ user \/ script # <<>> => Writing(script)' /\ Reloads(script) /\ Writes(script, u)
<1>1. PICK e : e = <<Write(u, x), Reload>>
  OBVIOUS
<1>2. PICK p : p = <<>>
  OBVIOUS
<1>3. p \in Seq(Steps) /\ Left(p) = {}
  BY <1>2 DEF Left
<1>4. p \o e \in Seq(Steps) /\ Writing(p \o e)' /\ Reloads(p \o e) /\ Writes(p \o e, u)
  BY <1>1, <1>3, WriterScript
<1>5. p \o e = e
  <2>1. e \in Seq(Steps)
    BY <1>1, TameSteps, ScriptFacts
  <2> QED  BY <1>2, <2>1
<1>6. <<>> \in Seq(Steps)
  OBVIOUS
<1> QED  BY <1>1, <1>4, <1>5, <1>6 DEF IfUser

\* _write_and_reload: networks and images of the container, then the container.
LEMMA ContainerScript ==
    ASSUME UnitConstants, Typed, NEW u \in Units, NEW x \in Contents, Fits(u, x)',
           Kind[u] = "container", \A v \in Units : v # u => row'[v] = row[v],
           NEW script, script = WriteAndReload(u, x)
    PROVE  script \in Seq(Steps) /\ Writing(script)' /\ Reloads(script) /\ Writes(script, u)
<1>1. PICK a, b : a = x.refs \cap Rows("network") /\ b = x.refs \cap Rows("image")
  OBVIOUS
<1>2. \A v \in a \cup b : v \in Units /\ row[v] # None /\ row'[v] = row[v]
  BY <1>1 DEF Rows, Of, Exists
<1>3. PICK o, p, q, e : /\ o = <<Other>> /\ p = WriteAll(a) /\ q = WriteAll(b)
                        /\ e = <<Write(u, x), Reload, Other>>
  OBVIOUS
<1>4. /\ p \in Seq(Steps) /\ Left(p) = {Write(v, row[v]) : v \in a}
      /\ q \in Seq(Steps) /\ Left(q) = {Write(v, row[v]) : v \in b}
  BY <1>2, <1>3, WrittenAll
<1>5. o \in Seq(Steps) /\ Left(o) = {Other}
  BY <1>3, TameSteps, ScriptFacts, Tuples
<1>6. PICK m : m = o \o p
  OBVIOUS
<1>7. m \in Seq(Steps) /\ Left(m) = Left(o) \cup Left(p)
  BY <1>4, <1>5, <1>6, Joined
<1>8. PICK n : n = m \o q
  OBVIOUS
<1>9. n \in Seq(Steps) /\ Left(n) = Left(m) \cup Left(q)
  BY <1>4, <1>7, <1>8, Joined
<1>10. \A s \in Left(n) : \/ s = Other
                          \/ \E v \in Units : s = Write(v, row[v]) /\ row[v] # None /\ row'[v] = row[v]
  BY <1>2, <1>4, <1>5, <1>7, <1>9
<1>11. n \o e \in Seq(Steps) /\ Writing(n \o e)' /\ Reloads(n \o e) /\ Writes(n \o e, u)
  BY <1>3, <1>9, <1>10, WriterScript
<1>12. script = n \o e
  BY <1>1, <1>3, <1>6, <1>8 DEF WriteAndReload
<1> QED  BY <1>11, <1>12

LEMMA AddKeeps ==
    ASSUME UnitConstants, UInv, SyncInv, op = "none",
           NEW u \in Units, NEW r \in Values[u], Add(u, r)
    PROVE  SyncInv'
<1>1. r \in Contents /\ Typed /\ r # None
  BY ContentsFacts DEF UInv, Values, Data, None
<1>2. ASSUME NEW script, AddWith("add", u, r, script)
      PROVE  /\ row' = [row EXCEPT ![u] = r] /\ ~Exists(u)
             /\ op' = "add" /\ Begin("add", u, script, "rollback")
             /\ row'[u] = r /\ Exists(u)' /\ Fits(u, r)'
             /\ Kind[u] = "network" => Fits(u, [r EXCEPT !.data = "bare"])'
             /\ \A v \in Units : v # u => row'[v] = row[v]
  <2>1. row' = [row EXCEPT ![u] = r] /\ ~Exists(u) /\ op' = "add" /\ Begin("add", u, script, "rollback")
    BY <1>2 DEF AddWith, Begin, Insertable
  <2>2. row'[u] = r /\ \A v \in Units : v # u => row'[v] = row[v]
    BY <1>1, <2>1 DEF Typed
  <2>3. Exists(u)'
    BY <1>1, <2>2 DEF Exists
  <2> QED  BY <2>1, <2>2, <2>3 DEF Fits
<1>3. ASSUME NEW script \in Seq(Steps), AddWith("add", u, r, script), Kind[u] # "build",
             user \/ script # <<>> => Writing(script)' /\ Reloads(script) /\ Writes(script, u)
      PROVE  SyncInv'
  BY <1>2, <1>3, ChangeBegins
<1>4. CASE AddPlain(u, r) \/ CreateTimer(u, r)
  <2>1. PICK script : script = IfUser(<<Write(u, r), Reload>>)
    OBVIOUS
  <2>2. AddWith("add", u, r, script) /\ Kind[u] # "build"
    BY <1>4, <2>1 DEF AddPlain, CreateTimer
  <2>3. /\ script \in Seq(Steps)
        /\ user \/ script # <<>> => Writing(script)' /\ Reloads(script) /\ Writes(script, u)
    BY <1>1, <1>2, <2>1, <2>2, PlainScript
  <2> QED  BY <1>3, <2>2, <2>3
<1>5. CASE AddNetwork(u, r)
  <2>1. PICK x : x = [r EXCEPT !.data = "bare"]
    OBVIOUS
  <2>2. x \in Contents
    <3>1. x \in Values[u]
      BY <1>5, <2>1 DEF AddNetwork, Values, Data
    <3> QED  BY <3>1, ContentsFacts
  <2>3. PICK script : script = IfUser(<<Write(u, x), Reload>>)
    OBVIOUS
  <2>4. AddWith("add", u, r, script) /\ Kind[u] = "network"
    BY <1>5, <2>1, <2>3 DEF AddNetwork
  <2>5. Fits(u, x)'
    BY <1>2, <2>1, <2>4
  <2>6. /\ script \in Seq(Steps)
        /\ user \/ script # <<>> => Writing(script)' /\ Reloads(script) /\ Writes(script, u)
    BY <2>2, <2>3, <2>5, PlainScript
  <2> QED  BY <1>3, <2>4, <2>6
<1>6. CASE AddPod(u, r)
  <2>1. PICK p, e : p = WriteAll(NetworksUsed) /\ e = <<Write(u, r), Reload>>
    OBVIOUS
  <2>2. PICK script : script = IfUser(p \o e)
    OBVIOUS
  <2>3. AddWith("add", u, r, script) /\ Kind[u] = "pod"
    BY <1>6, <2>1, <2>2 DEF AddPod
  <2>4. \A v \in NetworksUsed : v \in Units /\ row[v] # None /\ row'[v] = row[v]
    BY <1>2, <2>3 DEF NetworksUsed, Rows, Of, Exists
  <2>5. p \in Seq(Steps) /\ Left(p) = {Write(v, row[v]) : v \in NetworksUsed}
    BY <1>1, <2>1, <2>4, WrittenAll
  <2>6. p \o e \in Seq(Steps) /\ Writing(p \o e)' /\ Reloads(p \o e) /\ Writes(p \o e, u)
    <3>1. \A s \in Left(p) : \/ s = Other
                             \/ \E v \in Units : s = Write(v, row[v]) /\ row[v] # None /\ row'[v] = row[v]
      BY <2>4, <2>5
    <3> QED  BY <1>1, <1>2, <2>1, <2>3, <2>5, <3>1, WriterScript
  <2>7. <<>> \in Seq(Steps)
    OBVIOUS
  <2>8. script = p \o e \/ (~user /\ script = <<>>)
    BY <2>2 DEF IfUser
  <2> QED  BY <1>3, <2>3, <2>6, <2>7, <2>8
<1>7. CASE AddContainer(u, r)
  <2>1. PICK script : script = WriteAndReload(u, r)
    OBVIOUS
  <2>2. AddWith("add", u, r, script) /\ Kind[u] = "container"
    BY <1>7, <2>1 DEF AddContainer
  <2>3. script \in Seq(Steps) /\ Writing(script)' /\ Reloads(script) /\ Writes(script, u)
    BY <1>1, <1>2, <2>1, <2>2, ContainerScript
  <2> QED  BY <1>3, <2>2, <2>3
<1>8. CASE AddBuild(u, r)
  <2>1. PICK a, b, c, d : /\ a = Compose(u, r) /\ b = Insert(u, r)
                          /\ c = Write(u, r) /\ d = Reload
    OBVIOUS
  <2>2. PICK script : script = <<a, b>> \o IfUser(<<c, d>>)
    OBVIOUS
  <2>3. (user /\ script = <<a, b, c, d>>) \/ (~user /\ script = <<a, b>>)
    <3>1. <<a, b>> \o <<c, d>> = <<a, b, c, d>> /\ <<a, b>> \o <<>> = <<a, b>>
      BY Joins
    <3> QED  BY <2>2, <3>1 DEF IfUser
  <2>4. Begin("add", u, script, "raise") /\ UNCHANGED row /\ Kind[u] = "build"
    BY <1>8, <2>1, <2>2 DEF AddBuild
  <2>5. op' = "add" /\ subject' = u /\ onError' = "raise" /\ (user' <=> user)
    BY <2>4 DEF Begin
  <2>6. Inserting(script, r)'
    <3>1. /\ Compose(subject, r)' = a /\ Insert(subject, r)' = b /\ Write(subject, r)' = c
          /\ Reload' = d
      BY <2>1, <2>5 DEF Compose, Insert, Write, Reload
    <3> QED  BY <2>3, <2>5, <3>1 DEF Inserting
  <2>7. Building(script)'
    BY <2>4, <2>5, <2>6 DEF Building, Of
  <2> QED  BY <2>4, <2>7, BuildBegins
<1> QED  BY <1>4, <1>5, <1>6, <1>7, <1>8 DEF Add

LEMMA UpdateKeeps ==
    ASSUME UnitConstants, UInv, SyncInv, op = "none",
           NEW u \in Units, NEW r \in Values[u], Update(u, r)
    PROVE  SyncInv'
<1>1. r \in Contents /\ Typed /\ r # None
  BY ContentsFacts DEF UInv, Values, Data, None
<1>2. ASSUME NEW script, UpdateWith(u, r, script)
      PROVE  /\ Begin("update", u, script, "report")
             /\ row'[u] = r /\ Exists(u)' /\ Fits(u, r)'
             /\ \A v \in Units : v # u => row'[v] = row[v]
  <2>1. row' = [row EXCEPT ![u] = r] /\ Begin("update", u, script, "report")
    BY <1>2 DEF UpdateWith
  <2>2. row'[u] = r /\ \A v \in Units : v # u => row'[v] = row[v]
    BY <1>1, <2>1 DEF Typed
  <2>3. Exists(u)'
    BY <1>1, <2>2 DEF Exists
  <2> QED  BY <2>1, <2>2, <2>3 DEF Fits
<1>3. ASSUME NEW script \in Seq(Steps), UpdateWith(u, r, script), Kind[u] # "build",
             user \/ script # <<>> => Writing(script)' /\ Reloads(script) /\ Writes(script, u)
      PROVE  SyncInv'
  BY <1>2, <1>3, ChangeBegins
<1>4. CASE UpdatePlain(u, r)
  <2>1. PICK script : script = IfUser(<<Write(u, r), Reload>>)
    OBVIOUS
  <2>2. UpdateWith(u, r, script) /\ Kind[u] # "build"
    BY <1>4, <2>1 DEF UpdatePlain
  <2>3. /\ script \in Seq(Steps)
        /\ user \/ script # <<>> => Writing(script)' /\ Reloads(script) /\ Writes(script, u)
    BY <1>1, <1>2, <2>1, <2>2, PlainScript
  <2> QED  BY <1>3, <2>2, <2>3
<1>5. CASE UpdateContainer(u, r)
  <2>1. PICK script : script = WriteAndReload(u, r)
    OBVIOUS
  <2>2. UpdateWith(u, r, script) /\ Kind[u] = "container"
    BY <1>5, <2>1 DEF UpdateContainer
  <2>3. script \in Seq(Steps) /\ Writing(script)' /\ Reloads(script) /\ Writes(script, u)
    BY <1>1, <1>2, <2>1, <2>2, ContainerScript
  <2> QED  BY <1>3, <2>2, <2>3
<1>6. ASSUME NEW w \in Of("build"), UpdateBuild(u, w, r)
      PROVE  SyncInv'
  <2>1. PICK a, b, c, d, n : /\ a = Compose(w, r) /\ b = Store(u, r) /\ c = Write(u, r)
                             /\ d = Reload /\ n = NotFound
    OBVIOUS
  <2>2. PICK script : script = <<a>> \o (IF Exists(u) THEN <<b>> \o IfUser(<<c, d>>) ELSE <<n>>)
    OBVIOUS
  <2>3. \/ Exists(u) /\ user /\ script = <<a, b, c, d>>
        \/ Exists(u) /\ ~user /\ script = <<a, b>>
        \/ ~Exists(u) /\ script = <<a, n>>
    <3>1. /\ <<b>> \o <<c, d>> = <<b, c, d>> /\ <<a>> \o <<b, c, d>> = <<a, b, c, d>>
          /\ <<b>> \o <<>> = <<b>> /\ <<a>> \o <<b>> = <<a, b>> /\ <<a>> \o <<n>> = <<a, n>>
      BY Joins
    <3> QED  BY <2>2, <3>1 DEF IfUser
  <2>4. Begin("update", u, script, "raise") /\ UNCHANGED row /\ Kind[u] = "build"
    BY <1>6, <2>1, <2>2 DEF UpdateBuild
  <2>5. /\ op' = "update" /\ subject' = u /\ onError' = "raise" /\ (user' <=> user)
        /\ Exists(subject)' <=> Exists(u)
    BY <2>4 DEF Begin, Exists
  <2>6. /\ Compose(w, r)' = a /\ Store(subject, r)' = b /\ Write(subject, r)' = c
        /\ Reload' = d /\ NotFound' = n
    BY <2>1, <2>5 DEF Compose, Store, Write, Reload, NotFound
  <2>7. Rebuilding(script, r)'
    <3>1. Of("build")' = Of("build")
      BY DEF Of
    <3> QED  BY <1>6, <2>3, <2>5, <2>6, <3>1 DEF Rebuilding
  <2>8. Building(script)'
    BY <2>4, <2>5, <2>7 DEF Building, Of
  <2> QED  BY <2>4, <2>8, BuildBegins
<1> QED  BY <1>4, <1>5, <1>6 DEF Update

LEMMA UpdateNetworkKeeps ==
    ASSUME UnitConstants, UInv, SyncInv, op = "none",
           NEW u \in Units, NEW v \in Of("network"), NEW r \in Values[v], UpdateNetwork(u, v, r)
    PROVE  SyncInv'
<1>1. r \in Contents /\ Typed /\ r # None /\ v \in Units /\ Kind[v] = "network"
  BY ContentsFacts DEF UInv, Values, Data, None, Of
<1>2. row' = [row EXCEPT ![u] = None, ![v] = r] /\ Kind[u] = "network"
  BY DEF UpdateNetwork
<1>3. /\ row'[v] = r
      /\ \A x \in Units : x # v => \/ row'[x] = row[x]
                                   \/ row'[x] = None /\ Kind[x] = "network"
  BY <1>1, <1>2 DEF Typed
<1>4. Exists(v)' /\ Fits(v, r)'
  BY <1>1, <1>3 DEF Exists, Fits
<1>5. PICK script : script = IfUser(<<Write(v, r), Reload>>)
  OBVIOUS
<1>6. Begin("update", v, script, "report")
  BY <1>5 DEF UpdateNetwork
<1>7. /\ script \in Seq(Steps)
      /\ user \/ script # <<>> => Writing(script)' /\ Reloads(script) /\ Writes(script, v)
  BY <1>1, <1>4, <1>5, PlainScript
<1> QED  BY <1>1, <1>3, <1>4, <1>6, <1>7, ChangeBegins

LEMMA DeleteKeeps ==
    ASSUME UnitConstants, UInv, SyncInv, op = "none", NEW u \in Units, Delete(u)
    PROVE  SyncInv'
<1>1. PICK a, b, sa, sb, c, e : /\ a = Unlink(u) /\ b = Reload /\ e = Erase(u)
                                /\ sa = Soft(a) /\ sb = Soft(b) /\ c = Soft(Other)
  OBVIOUS
<1>2. /\ a.do = "remove" /\ a.unit = u /\ a.content = None /\ ~a.soft
      /\ b.do = "reload" /\ sb.do = "reload" /\ c.do = "other"
      /\ sa.do = "remove" /\ sa.unit = u /\ sa.content = None
  BY <1>1 DEF Unlink, Reload, Other, Soft, Step
<1>3. ASSUME NEW script, Begin("delete", u, script, "raise")
      PROVE  subject' = u /\ Erase(subject)' = e
  BY <1>1, <1>3 DEF Begin, Erase
<1>4. Removals'
  BY Removals, PTL
<1>5. ASSUME NEW script, DeleteWith(u, script),
             \/ script = <<a, b, e>>
             \/ script = <<sa, sb, e>>
             \/ script = <<c, a, sb, e>>
             \/ script = <<e>>
      PROVE  script # <<>> /\ Removing(script)' /\ Begin("delete", u, script, "raise") /\ UNCHANGED row
  <2>1. Begin("delete", u, script, "raise") /\ UNCHANGED row
    BY <1>5 DEF DeleteWith
  <2>2. subject' = u /\ Erase(subject)' = e
    BY <1>3, <2>1
  <2>3. /\ Removing(<<e>>)' /\ Removing(<<a, b, e>>)' /\ Removing(<<sa, sb, e>>)'
        /\ Removing(<<c, a, sb, e>>)'
    BY <1>2, <1>4, <2>2
  <2>4. <<e>> # <<>> /\ <<a, b, e>> # <<>> /\ <<sa, sb, e>> # <<>> /\ <<c, a, sb, e>> # <<>>
    BY Tuples
  <2> QED  BY <1>5, <2>1, <2>3, <2>4
<1>6. Unlinks(<<a, b, e>>) /\ Unlinks(<<c, a, sb, e>>)
  BY <1>2, Tuples DEF Unlinks
<1>7. CASE DeleteGuarded(u) \/ DeleteArtifact(u)
  <2>1. PICK script : script = <<a, b, e>>
    OBVIOUS
  <2>2. DeleteWith(u, script)
    BY <1>1, <1>7, <2>1 DEF DeleteGuarded, DeleteArtifact
  <2> QED  BY <1>5, <1>6, <2>1, <2>2, DeletionBegins
<1>8. CASE DeleteVolume(u)
  <2>1. PICK script : script = IfUser(<<a, b>>) \o <<e>>
    OBVIOUS
  <2>2. DeleteWith(u, script)
    BY <1>1, <1>8, <2>1 DEF DeleteVolume
  <2>3. (user /\ script = <<a, b, e>>) \/ (~user /\ script = <<e>>)
    <3>1. <<a, b>> \o <<e>> = <<a, b, e>> /\ <<>> \o <<e>> = <<e>>
      BY Joins
    <3> QED  BY <2>1, <3>1 DEF IfUser
  <2> QED  BY <1>5, <1>6, <2>2, <2>3, DeletionBegins
<1>9. CASE DeleteNetwork(u) \/ DeleteTimer(u)
  <2>1. PICK script : script = IfUser(<<sa, sb>>) \o <<e>>
    OBVIOUS
  <2>2. DeleteWith(u, script) /\ Kind[u] \in {"network", "timer"}
    BY <1>1, <1>9, <2>1 DEF DeleteNetwork, DeleteTimer
  <2>3. script = <<sa, sb, e>> \/ script = <<e>>
    <3>1. <<sa, sb>> \o <<e>> = <<sa, sb, e>> /\ <<>> \o <<e>> = <<e>>
      BY Joins
    <3> QED  BY <2>1, <3>1 DEF IfUser
  <2> QED  BY <1>5, <2>2, <2>3, DeletionBegins
<1>10. CASE DeleteContainer(u)
  <2>1. PICK script : script = <<c, a, sb, e>>
    OBVIOUS
  <2>2. DeleteWith(u, script)
    BY <1>1, <1>10, <2>1 DEF DeleteContainer
  <2> QED  BY <1>5, <1>6, <2>1, <2>2, DeletionBegins
<1> QED  BY <1>7, <1>8, <1>9, <1>10 DEF Delete

\* The script p writes the units of X, as their rows are, and does nothing else.
WritesRows(p, X) == p \in Seq(Steps) /\ Left(p) = {Write(v, row[v]) : v \in X}

LEMMA Appended ==
    ASSUME UnitConstants, Typed, NEW X \in SUBSET Units, NEW us \in SUBSET Units,
           NEW p, WritesRows(p, X), NEW q, q = WriteAll(us)
    PROVE  WritesRows(p \o q, X \cup us)
<1>1. q \in Seq(Steps) /\ Left(q) = {Write(v, row[v]) : v \in us}
  BY WrittenAll
<1>2. p \in Seq(Steps) /\ Left(p) = {Write(v, row[v]) : v \in X}
  BY DEF WritesRows
<1>3. p \o q \in Seq(Steps) /\ Left(p \o q) = Left(p) \cup Left(q)
  BY <1>1, <1>2, Joined
<1> QED  BY <1>1, <1>2, <1>3 DEF WritesRows

\* The units start_compartment writes, and those resync_compartment adds.
Restarted == Rows("pod") \cup Rows("volume") \cup Rows("image") \cup NetworksUsed \cup Rows("container")

LEMMA RewrittenAll ==
    ASSUME UnitConstants, Typed, NEW p, p = Rewritten, NEW q, q = WriteAll(Rows("timer"))
    PROVE  WritesRows(p, Restarted) /\ WritesRows(p \o q, Restarted \cup Rows("timer"))
<1>1. PICK a, b, c, d, e : /\ a = WriteAll(Rows("pod")) /\ b = WriteAll(Rows("volume"))
                           /\ c = WriteAll(Rows("image")) /\ d = WriteAll(NetworksUsed)
                           /\ e = WriteAll(Rows("container"))
  OBVIOUS
<1>2. PICK A, B, C, D, E, T : /\ A = Rows("pod") /\ B = Rows("volume") /\ C = Rows("image")
                              /\ D = NetworksUsed /\ E = Rows("container") /\ T = Rows("timer")
  OBVIOUS
<1>3. /\ A \in SUBSET Units /\ B \in SUBSET Units /\ C \in SUBSET Units
      /\ D \in SUBSET Units /\ E \in SUBSET Units /\ T \in SUBSET Units
  BY <1>2 DEF NetworksUsed, Rows, Of
<1>4. WritesRows(a, A)
  BY <1>1, <1>2, <1>3, WrittenAll DEF WritesRows
<1>5. WritesRows(a \o b, A \cup B)
  BY <1>1, <1>2, <1>3, <1>4, Appended
<1>6. PICK X : X = A \cup B
  OBVIOUS
<1>7. X \in SUBSET Units
  BY <1>3, <1>6
<1>8. WritesRows(a \o b \o c, X \cup C)
  BY <1>1, <1>2, <1>3, <1>5, <1>6, <1>7, Appended
<1>9. PICK Y : Y = X \cup C
  OBVIOUS
<1>10. Y \in SUBSET Units
  BY <1>3, <1>7, <1>9
<1>11. WritesRows(a \o b \o c \o d, Y \cup D)
  BY <1>1, <1>2, <1>3, <1>8, <1>9, <1>10, Appended
<1>12. PICK Z : Z = Y \cup D
  OBVIOUS
<1>13. Z \in SUBSET Units
  BY <1>3, <1>10, <1>12
<1>14. WritesRows(a \o b \o c \o d \o e, Z \cup E)
  BY <1>1, <1>2, <1>3, <1>11, <1>12, <1>13, Appended
<1>15. p = a \o b \o c \o d \o e /\ Restarted = Z \cup E
  BY <1>1, <1>2, <1>6, <1>9, <1>12 DEF Rewritten, Restarted
<1>16. WritesRows(p, Restarted) /\ Restarted \in SUBSET Units
  BY <1>3, <1>13, <1>14, <1>15
<1>17. PICK R : R = Restarted
  OBVIOUS
<1>18. WritesRows(p \o q, R \cup T)
  BY <1>2, <1>3, <1>16, <1>17, Appended
<1> QED  BY <1>2, <1>16, <1>17, <1>18

\* A script that writes units as their rows are, and reloads.
LEMMA RewriteScript ==
    ASSUME UnitConstants, UNCHANGED row, NEW p \in Seq(Steps),
           \A s \in Left(p) : \/ s = Other
                              \/ \E v \in Units : s = Write(v, row[v]) /\ row[v] # None,
           NEW e, e = <<Reload>> \/ e = <<Reload, Other>>
    PROVE  Writing(p \o e)' /\ Reloads(p \o e) /\ Left(p) \subseteq Left(p \o e)
<1>1. PICK b, c : b = Reload /\ c = Other
  OBVIOUS
<1>2. b.do = "reload" /\ ~b.soft /\ c.do = "other" /\ ~c.soft
  BY <1>1 DEF Reload, Other, Step
<1>3. b \in Steps /\ c \in Steps
  BY <1>1, TameSteps
<1>4. e \in Seq(Steps) /\ ReloadFollows(e) /\ Reloads(e) /\ Left(e) \subseteq {b, c}
  <2>1. <<b>> \in Seq(Steps) /\ <<b, c>> \in Seq(Steps)
    BY <1>3, ScriptFacts
  <2>2. ReloadFollows(<<b>>) /\ Reloads(<<b>>) /\ ReloadFollows(<<b, c>>) /\ Reloads(<<b, c>>)
    BY <1>2, Endings
  <2>3. Left(<<b>>) = {b} /\ Left(<<b, c>>) = {b, c}
    BY Tuples
  <2> QED  BY <1>1, <2>1, <2>2, <2>3
<1>5. PICK q : q = p \o e
  OBVIOUS
<1>6. q \in Seq(Steps) /\ Left(q) = Left(p) \cup Left(e) /\ ReloadFollows(q) /\ Reloads(q)
  BY <1>4, <1>5, Joined
<1>7. ASSUME NEW s \in Left(q)
      PROVE  /\ s.do \in {"write", "reload", "other"} /\ ~s.soft
             /\ s.do = "write" => s.unit \in Units /\ Fits(s.unit, s.content)'
  <2>1. CASE s \in {b, c}
    BY <1>2, <2>1
  <2>2. ASSUME NEW v \in Units, s = Write(v, row[v]), row[v] # None
        PROVE  /\ s.do = "write" /\ ~s.soft
               /\ s.unit \in Units /\ Fits(s.unit, s.content)'
    BY <2>2 DEF Write, Step, Fits, Exists
  <2> QED  BY <1>1, <1>4, <1>6, <2>1, <2>2
<1>8. Writing(q)'
  BY <1>6, <1>7 DEF Writing
<1> QED  BY <1>5, <1>6, <1>8

LEMMA StartResyncKeeps ==
    ASSUME UnitConstants, UInv, SyncInv, op = "none", StartCompartment \/ Resync
    PROVE  SyncInv'
<1>1. PICK p, q, o : p = Rewritten /\ q = WriteAll(Rows("timer")) /\ o = <<Other>>
  OBVIOUS
<1>2. /\ p \in Seq(Steps) /\ Left(p) = {Write(v, row[v]) : v \in Restarted}
      /\ p \o q \in Seq(Steps)
      /\ Left(p \o q) = {Write(v, row[v]) : v \in Restarted \cup Rows("timer")}
  BY <1>1, RewrittenAll DEF UInv, WritesRows
<1>3. \A v \in Restarted \cup Rows("timer") : v \in Units /\ row[v] # None
  BY DEF Restarted, NetworksUsed, Rows, Of, Exists
<1>4. \A v \in Units : Covered(v) => v \in Restarted \cup Rows("timer")
  BY DEF Covered, Restarted, Rows, Of
<1>5. CASE StartCompartment
  <2>1. o \in Seq(Steps) /\ Left(o) = {Other}
    BY <1>1, TameSteps, ScriptFacts, Tuples
  <2>2. PICK n, e : n = o \o p /\ e = <<Reload>>
    OBVIOUS
  <2>3. n \in Seq(Steps) /\ Left(n) = Left(o) \cup Left(p)
    BY <1>2, <2>1, <2>2, Joined
  <2>4. PICK script : script = n \o e
    OBVIOUS
  <2>5. Begin("start", NoUnit, script, "raise") /\ UNCHANGED row
    BY <1>1, <1>5, <2>2, <2>4 DEF StartCompartment
  <2>6. Writing(script)' /\ Reloads(script)
    <3>1. \A s \in Left(n) : s = Other \/ \E v \in Units : s = Write(v, row[v]) /\ row[v] # None
      BY <1>2, <1>3, <2>1, <2>3
    <3> QED  BY <2>2, <2>3, <2>4, <2>5, <3>1, RewriteScript
  <2> QED  BY <2>5, <2>6, RewriteBegins
<1>6. CASE Resync
  <2>1. PICK n, e : n = p \o q /\ e = <<Reload, Other>>
    OBVIOUS
  <2>2. PICK script : script = n \o e
    OBVIOUS
  <2>3. Begin("resync", NoUnit, script, "raise") /\ UNCHANGED row
    BY <1>1, <1>6, <2>1, <2>2 DEF Resync
  <2>4. Writing(script)' /\ Reloads(script) /\ Left(n) \subseteq Left(script)
    <3>1. \A s \in Left(n) : s = Other \/ \E v \in Units : s = Write(v, row[v]) /\ row[v] # None
      BY <1>2, <1>3, <2>1
    <3> QED  BY <1>2, <2>1, <2>2, <2>3, <3>1, RewriteScript
  <2>5. ASSUME NEW v \in Units, Covered(v)
        PROVE  Writes(script, v)
    <3>1. PICK s : s = Write(v, row[v])
      OBVIOUS
    <3>2. s \in Left(script)
      BY <1>2, <1>4, <2>1, <2>4, <2>5, <3>1
    <3>3. s.do = "write" /\ s.unit = v
      BY <3>1 DEF Write, Step
    <3> QED  BY <3>2, <3>3 DEF Writes
  <2> QED  BY <2>3, <2>4, <2>5, RewriteBegins
<1> QED  BY <1>5, <1>6

LEMMA OperationKeeps ==
    ASSUME UnitConstants, UInv, SyncInv, op = "none", Operation
    PROVE  SyncInv'
<1>1. CASE \E u \in Units : Room(u) /\ \E r \in Values[u] : Add(u, r) \/ Update(u, r)
  BY <1>1, AddKeeps, UpdateKeeps
<1>2. CASE \E u \in Rows("network"), v \in Of("network") : \E r \in Values[v] : UpdateNetwork(u, v, r)
  BY <1>2, UpdateNetworkKeeps DEF Rows, Of
<1>3. CASE \E u \in Units : Delete(u)
  BY <1>3, DeleteKeeps
<1>4. CASE StartCompartment \/ Resync
  BY <1>4, StartResyncKeeps
<1> QED  BY <1>1, <1>2, <1>3, <1>4 DEF Operation

LEMMA SyncInit ==
    ASSUME UnitConstants, Init
    PROVE  SyncInv
<1>1. RowsOwn /\ Scripted
  BY DEF Init, RowsOwn, Scripted
<1>2. ASSUME NEW u \in Units
      PROVE  ~Exists(u) /\ file[u] = None /\ loaded[u] = None
  BY DEF Init, Exists
<1>3. AllKnown
  BY <1>2 DEF AllKnown, Known, Generated
<1>4. Unharmed
  BY <1>2, <1>3 DEF Init, Unharmed, FileFollows, FileHasRow, ContextFollows
<1>5. Succeeding
  BY DEF Init, Succeeding, RewritingGoes, ChangingGoes, DeletingGoes
<1> QED  BY <1>1, <1>4, <1>5 DEF SyncInv

\* A step that changes nothing.
LEMMA SyncStutters ==
    ASSUME SyncInv, UNCHANGED vars
    PROVE  SyncInv'
<1>1. /\ \A u, x : Fits(u, x)' <=> Fits(u, x)
      /\ \A q : ReloadFollows(q)' <=> ReloadFollows(q)
      /\ Erase(subject)' = Erase(subject)
      /\ UNCHANGED <<todo, op, subject, onError, row, user, outcome, faults>>
  BY DEF vars, Fits, Exists, ReloadFollows, Erase
<1>2. /\ \A q : Writing(q)' <=> Writing(q)
      /\ \A q : Removing(q)' <=> Removing(q)
  BY <1>1 DEF Writing, Removing, Left
<1>3. \A q : Building(q)' <=> Building(q)
  <2>1. /\ \A r : Composed(r)' <=> Composed(r)
        /\ \A r : Compose(subject, r)' = Compose(subject, r)
        /\ \A r : Insert(subject, r)' = Insert(subject, r)
        /\ \A r : Write(subject, r)' = Write(subject, r)
        /\ \A r : Store(subject, r)' = Store(subject, r)
        /\ Exists(subject)' <=> Exists(subject)
    BY DEF vars, Composed, Compose, Insert, Write, Store, Exists
  <2>2. \A q, r : Inserting(q, r)' <=> Inserting(q, r)
    BY <1>1, <2>1 DEF Inserting
  <2>3. \A q, r : Storing(q, r)' <=> Storing(q, r)
    BY <1>1, <2>1 DEF Storing
  <2>4. \A q, r : Rebuilding(q, r)' <=> Rebuilding(q, r)
    BY <1>1, <2>1, <2>3 DEF Rebuilding
  <2> QED  BY <1>1, <2>2, <2>4 DEF Building
<1>4. RowsOwn' /\ Scripted'
  BY <1>1, <1>2, <1>3 DEF SyncInv, RowsOwn, Scripted
<1>5. /\ AllKnown' <=> AllKnown
      /\ \A u \in Units : /\ Good(u)' <=> Good(u)
                          /\ Exists(u)' <=> Exists(u)
                          /\ FileHasRow(u)' <=> FileHasRow(u)
  BY SameKnown, SameGood DEF vars
<1>6. (Building(todo)' <=> Building(todo)) /\ (Reloads(todo)' <=> Reloads(todo))
      /\ \A u : Writes(todo, u)' <=> Writes(todo, u)
  BY <1>1, <1>3 DEF Reloads, Writes, Left
<1>7. \A u \in Units : /\ FileFollows(u)' <=> FileFollows(u)
                       /\ ContextFollows(u)' <=> ContextFollows(u)
  BY <1>5, <1>6 DEF vars, FileFollows, ContextFollows
<1>8. Unharmed'
  BY <1>1, <1>5, <1>6, <1>7 DEF SyncInv, Unharmed
<1>9. Succeeding'
  <2>1. \A u : Covered(u)' <=> Covered(u)
    BY <1>1, SameCovered
  <2>2. RewritingGoes' <=> RewritingGoes
    BY <1>1, <1>5, <1>6, <2>1 DEF vars, RewritingGoes, OnDisk
  <2>3. ChangingGoes' <=> ChangingGoes
    BY <1>1, <1>5, <1>6 DEF vars, ChangingGoes, OnDisk, Nameless, Exists, Writes
  <2>4. DeletingGoes' <=> DeletingGoes
    BY <1>1 DEF vars, DeletingGoes, Exists, Unlinks
  <2> QED  BY <1>1, <2>2, <2>3, <2>4 DEF SyncInv, Succeeding
<1> QED  BY <1>4, <1>8, <1>9 DEF SyncInv

-----------------------------------------------------------------------------
(* Theorems *)

\* The invariant: scripts, rows, files and what systemd knows stay in step
\* through every operation, failure, crash and loss of the account.
THEOREM SyncInvariance == Spec => []SyncInv
<1>1. UInv /\ SyncInv /\ [Next]_vars => SyncInv'
  <2> SUFFICES ASSUME UInv, SyncInv, [Next]_vars
               PROVE  SyncInv'
    OBVIOUS
  <2> USE UnitConstants
  <2>1. CASE UNCHANGED vars
    BY <2>1, SyncStutters
  <2>2. CASE op = "none" /\ Operation
    BY <2>2, OperationKeeps
  <2>3. CASE RunStep
    BY <2>3, RunKeeps
  <2>4. CASE StepFails
    BY <2>4, FailSoftly, FailHard
  <2>5. CASE Reply \/ Crash \/ AccountLost
    BY <2>5, RestKeeps
  <2> QED  BY <2>1, <2>2, <2>3, <2>4, <2>5 DEF Next
<1> QED  BY UnitConstants, UnitInvariance, SyncInit, <1>1, PTL DEF Spec

\* Taking an add back is not a success.
UndoneIsNotOk == onError = "undoing" => outcome # "ok"

THEOREM UndoneInvariance == Spec => []UndoneIsNotOk
<1>1. Init => UndoneIsNotOk
  BY DEF Init, UndoneIsNotOk
<1>2. UInv /\ UndoneIsNotOk /\ [Next]_vars => UndoneIsNotOk'
  <2> SUFFICES ASSUME UInv, UndoneIsNotOk, [Next]_vars
               PROVE  UndoneIsNotOk'
    OBVIOUS
  <2>1. CASE UNCHANGED vars
    BY <2>1 DEF vars, UndoneIsNotOk
  <2>2. CASE Operation
    BY <2>2, UnitConstants, OperationBegins DEF Begins, Begin, UndoneIsNotOk
  <2>3. CASE RunStep
    BY <2>3 DEF RunStep, GoOn, UndoneIsNotOk
  <2>4. CASE StepFails
    BY <2>4 DEF StepFails, GoOn, UndoneIsNotOk
  <2>5. CASE Reply \/ Crash \/ AccountLost
    BY <2>5 DEF Reply, Crash, AccountLost, UndoneIsNotOk
  <2> QED  BY <2>1, <2>2, <2>3, <2>4, <2>5 DEF Next
<1> QED  BY UnitInvariance, <1>1, <1>2, PTL DEF Spec

\* With no step left there is nothing to wait for.
LEMMA AtRest ==
    ASSUME Idle
    PROVE  /\ ~Reloads(todo) /\ ~Building(todo) /\ ~Unlinks(todo)
           /\ \A u : ~Writes(todo, u)
<1>1. Left(<<>>) = {}
  BY DEF Left
<1> QED  BY <1>1, Apart DEF Idle, Reloads, Unlinks, Writes

\* add_*, update_* and delete_* that report success have written what they
\* say, whatever failed before: the unit is on disk and loaded as its row has
\* it, or gone.
THEOREM SuccessWritten == Spec => []SuccessIsWritten
<1>1. UInv /\ SyncInv /\ UndoneIsNotOk => SuccessIsWritten
  <2> SUFFICES ASSUME UInv, SyncInv, UndoneIsNotOk, Idle, user, outcome = "ok", subject # NoUnit
               PROVE  IF Exists(subject)
                      THEN (OnDisk(subject) \/ Nameless(subject)) /\ Known(subject)
                      ELSE Kind[subject] \notin {"network", "timer"} => file[subject] = None
    BY DEF SuccessIsWritten
  <2>1. ChangingGoes /\ DeletingGoes
    BY DEF SyncInv, Succeeding, UndoneIsNotOk
  <2>2. CASE op \in {"add", "update"}
    <3>1. subject \in Units
      BY <2>2 DEF SyncInv, Scripted
    <3> QED  BY <2>1, <2>2, <3>1, AtRest DEF ChangingGoes, AllKnown
  <2>3. CASE op = "delete"
    BY <2>1, <2>3, AtRest DEF DeletingGoes, Idle
  <2>4. CASE op \notin {"add", "update", "delete"}
    <3>1. op \in {"none", "start", "resync"}
      BY <2>4 DEF UInv, Typed
    <3> QED  BY <3>1 DEF SyncInv, Scripted
  <2> QED  BY <2>2, <2>3, <2>4
<1> QED  BY UnitInvariance, SyncInvariance, UndoneInvariance, <1>1, PTL

\* While nothing fails, files agree with rows and systemd with the files, a
\* NetworkName that add_network dropped and mounts of deleted volumes apart.
THEOREM FilesInSync == Spec => []InSyncWithoutFaults
<1>1. SyncInv => InSyncWithoutFaults
  BY AtRest DEF SyncInv, Unharmed, AllKnown, FileFollows, Good, InSyncWithoutFaults, Idle
<1> QED  BY SyncInvariance, <1>1, PTL

\* write_managed_containerfile: a build runs with the Containerfile its row
\* shows, unless a request for something else wrote it.
THEOREM ContainerfilesInSync == Spec => []ContainerfileInSync
<1>1. SyncInv => ContainerfileInSync
  <2> SUFFICES ASSUME SyncInv, Idle, faults = 0, NEW u \in Rows("build") \ clobbered
               PROVE  context[u] = row[u].data
    BY DEF ContainerfileInSync
  <2>1. u \in Units /\ Kind[u] = "build" /\ Exists(u)
    BY DEF Rows, Of
  <2> QED  BY <2>1 DEF SyncInv, Unharmed, ContextFollows, Idle
<1> QED  BY SyncInvariance, <1>1, PTL

\* While nothing fails, delete_* leave no file without a row, but for the old
\* name of a renamed network and the timers deleted with their container.
THEOREM NoOrphans == Spec => []NoOrphanWithoutFaults
<1>1. SyncInv => NoOrphanWithoutFaults
  BY DEF SyncInv, Unharmed, FileHasRow, NoOrphanWithoutFaults
<1> QED  BY SyncInvariance, <1>1, PTL

\* "Use Resync to restore consistency": a resync that succeeded has restored
\* every unit it covers, whatever failed or died before.
THEOREM ResyncRestores == Spec => []ResyncRestoresCovered
<1>1. SyncInv /\ UndoneIsNotOk => ResyncRestoresCovered
  <2> SUFFICES ASSUME SyncInv, UndoneIsNotOk, Idle, op = "resync", outcome = "ok", NEW u \in Units
               PROVE  Known(u) /\ (Covered(u) => OnDisk(u))
    BY DEF ResyncRestoresCovered
  <2>1. RewritingGoes
    BY DEF SyncInv, Succeeding, UndoneIsNotOk
  <2> QED  BY <2>1, AtRest DEF RewritingGoes, AllKnown
<1> QED  BY SyncInvariance, UndoneInvariance, <1>1, PTL
=============================================================================
