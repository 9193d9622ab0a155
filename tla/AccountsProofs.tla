---------------------------- MODULE AccountsProofs ----------------------------
(***************************************************************************)
(* Proofs about Accounts, for any number of compartments, mapped ids and   *)
(* faults: ranges that are given out are apart, as long as no rewrite of   *)
(* /etc/subuid undoes a change it has not seen.  As long as no compartment *)
(* has the name of a helper: helpers lie in their compartment's range, a   *)
(* compartment at rest has account and range, operations that end leave    *)
(* nothing behind, and only its own operations take an account away.       *)
(***************************************************************************)
EXTENDS Accounts, FiniteSetTheorems, WellFoundedInduction, TLAPS

\* The next step of an operation is one of these.
NextIs(c, steps) == proc[c].script # <<>> /\ proc[c].script[1] \in steps

\* What the argument needs to know of the variables' types; ranges are not bounded here.
Operations == [op : Ops, script : Seq(Steps), chosen : Nat, seen : [Compartments -> Nat],
               wanted : SUBSET Uids, names : SUBSET Names]
AcShape ==
    /\ range \in [Compartments -> Nat]
    /\ flock \in Compartments \cup {NoOne}
    /\ proc \in [Compartments -> Operations]
    /\ raced \in BOOLEAN

\* In a script a range is chosen after the lock is taken, and assigned after it is chosen.
Ordered(s) ==
    /\ \A i \in 1..Len(s) : s[i] = "choose" => i < Len(s) /\ s[i + 1] = "assign"
    /\ \A i \in 1..(Len(s) - 1) :
          /\ s[i + 1] = "choose" => s[i] = "lock"
          /\ s[i + 1] = "assign" => s[i] = "choose"
ScriptsOrdered == \A c \in Compartments : Ordered(proc[c].script)

\* Who is about to choose or to assign a range has the flock, and what was chosen is
\* above every range there is.
ChoosersLock == \A c \in Compartments : NextIs(c, {"choose", "assign"}) => flock = c
ChosenIsNew ==
    ~raced => \A c \in Compartments : NextIs(c, {"assign"}) =>
                  \A d \in Compartments : range[d] < proc[c].chosen

IInv == AcShape /\ ScriptsOrdered /\ ChoosersLock /\ ChosenIsNew /\ RangesDisjoint

-----------------------------------------------------------------------------
\* A finite set of natural numbers that is not empty has a greatest element.
LEMMA MaxFacts ==
    ASSUME NEW S \in SUBSET Nat, IsFiniteSet(S), S # {}
    PROVE  Max(S) \in S /\ \A y \in S : y <= Max(S)
  <1>. DEFINE Bad(T) == /\ IsFiniteSet(T) /\ T # {}
                        /\ ~\E x \in T : \A y \in T : x >= y
              Sizes == {n \in Nat : \E T \in SUBSET Nat : Bad(T) /\ Cardinality(T) = n}
  <1>1. Sizes = {}
    <2>. SUFFICES ASSUME Sizes # {} PROVE FALSE
      OBVIOUS
    <2>1. PICK n \in Sizes : \A m \in Sizes : n <= m
      <3>1. Sizes \subseteq Nat
        OBVIOUS
      <3>2. \E n \in Sizes : \A m \in Sizes : ~(<<m, n>> \in OpToRel(<, Nat))
        <4>. HIDE DEF Sizes
        <4>. QED
          BY <3>1, NatLessThanWellFounded, WFMin
      <3>3. \E n \in Sizes : \A m \in Sizes : ~(m < n)
        BY <3>1, <3>2 DEF OpToRel
      <3>. QED
        BY <3>1, <3>3
    <2>2. PICK T \in SUBSET Nat : Bad(T) /\ Cardinality(T) = n
      BY <2>1
    <2>3. PICK x \in T : TRUE
      BY <2>2
    <2>. DEFINE U == T \ {x}
    <2>4. IsFiniteSet(U) /\ Cardinality(U) = n - 1
      BY <2>2, <2>3, FS_RemoveElement
    <2>5. U \in SUBSET Nat /\ n \in Nat
      BY <2>1, <2>2
    <2>6. Cardinality(U) \in Nat
      BY <2>4, FS_CardinalityType
    <2>7. ~Bad(U)
      <3>1. SUFFICES ASSUME Bad(U) PROVE FALSE
        OBVIOUS
      <3>2. n - 1 \in Sizes
        BY <3>1, <2>4, <2>5, <2>6
      <3>. QED
        BY <3>2, <2>1, <2>5
    <2>8. CASE U = {}
      BY <2>2, <2>3, <2>8
    <2>9. CASE U # {}
      <3>1. PICK m \in U : \A y \in U : m >= y
        BY <2>4, <2>7, <2>9
      <3>2. CASE m >= x
        BY <3>1, <3>2, <2>2, <2>3, <2>5
      <3>3. CASE ~(m >= x)
        <4>1. \A y \in U : x >= y
          BY <3>1, <3>3, <2>2, <2>3, <2>5
        <4>. QED
          BY <4>1, <2>2, <2>3
      <3>. QED
        BY <3>2, <3>3
    <2>. QED
      BY <2>8, <2>9
  <1>2. ~Bad(S)
    <2>1. Cardinality(S) \in Nat
      BY FS_CardinalityType
    <2>. QED
      BY <1>1, <2>1
  <1>3. \E x \in S : \A y \in S : x >= y
    BY <1>2
  <1>. QED
    BY <1>3 DEF Max

\* The start that Choose takes lies above every range.
LEMMA AboveAll ==
    ASSUME AcShape, NEW c \in Compartments
    PROVE  LET start == 1 + Max({range[d] : d \in Compartments})
           IN  start \in Nat /\ \A d \in Compartments : range[d] < start
  <1>. DEFINE S == {range[d] : d \in Compartments}
  <1>1. S \in SUBSET Nat /\ S # {}
    BY DEF AcShape
  <1>2. IsFiniteSet(S)
    <2>1. range \in Surjection(Compartments, S)
      BY DEF AcShape, Surjection
    <2>. QED
      BY <2>1, AccountConstants, FS_Surjection
  <1>3. Max(S) \in S /\ \A y \in S : y <= Max(S)
    BY <1>1, <1>2, MaxFacts
  <1>. HIDE DEF S
  <1>4. Max(S) \in Nat /\ \A d \in Compartments : range[d] \in S /\ range[d] \in Nat
    BY <1>1, <1>3 DEF S, AcShape
  <1>5. \A d \in Compartments : range[d] < 1 + Max(S)
    BY <1>3, <1>4
  <1>. QED
    BY <1>4, <1>5 DEF S

-----------------------------------------------------------------------------
(* Scripts.                                                                *)

\* What is left of a script after its first step.
LEMMA TailFacts ==
    ASSUME NEW s \in Seq(Steps), s # <<>>, Ordered(s)
    PROVE  /\ Tail(s) \in Seq(Steps) /\ Ordered(Tail(s)) /\ Head(s) = s[1] /\ s[1] \in Steps
           /\ Tail(s) # <<>> => /\ Tail(s)[1] = "choose" => s[1] = "lock"
                                /\ Tail(s)[1] = "assign" => s[1] = "choose"
           /\ s[1] = "choose" => Tail(s) # <<>> /\ Tail(s)[1] = "assign"
  <1>. DEFINE t == Tail(s)
  <1>1. /\ t \in Seq(Steps) /\ Len(t) = Len(s) - 1 /\ Len(s) > 0
        /\ \A i \in 1..(Len(s) - 1) : t[i] = s[i + 1]
        /\ Head(s) = s[1] /\ s[1] \in Steps
    OBVIOUS
  <1>. HIDE DEF t
  <1>2. t # <<>> => Len(t) > 0
    BY <1>1
  <1>3. \A i \in 1..Len(t) : t[i] = "choose" => i < Len(t) /\ t[i + 1] = "assign"
    <2>. SUFFICES ASSUME NEW i \in 1..Len(t), t[i] = "choose"
                  PROVE  i < Len(t) /\ t[i + 1] = "assign"
      OBVIOUS
    <2>1. i + 1 \in 1..Len(s) /\ s[i + 1] = "choose" /\ i \in Nat
      BY <1>1
    <2>2. i + 1 < Len(s) /\ s[(i + 1) + 1] = "assign"
      BY <2>1 DEF Ordered
    <2>3. i + 1 \in 1..(Len(s) - 1)
      BY <2>1, <2>2, <1>1
    <2>. QED
      BY <2>1, <2>2, <2>3, <1>1
  <1>4. ASSUME NEW i \in 1..(Len(t) - 1)
        PROVE  /\ t[i + 1] = "choose" => t[i] = "lock"
               /\ t[i + 1] = "assign" => t[i] = "choose"
    <2>1. /\ i + 1 \in 1..(Len(s) - 1) /\ i \in 1..(Len(s) - 1)
      BY <1>1
    <2>2. t[i + 1] = s[(i + 1) + 1] /\ t[i] = s[i + 1]
      BY <2>1, <1>1
    <2>. QED
      BY <2>1, <2>2 DEF Ordered
  <1>5. ASSUME t # <<>>
        PROVE  /\ t[1] = "choose" => s[1] = "lock"
               /\ t[1] = "assign" => s[1] = "choose"
    <2>1. 1 \in 1..(Len(s) - 1) /\ t[1] = s[1 + 1]
      BY <1>1, <1>2, <1>5
    <2>. QED
      BY <2>1 DEF Ordered
  <1>6. ASSUME s[1] = "choose" PROVE t # <<>> /\ t[1] = "assign"
    <2>1. 1 \in 1..Len(s) /\ 1 < Len(s) /\ s[1 + 1] = "assign"
      BY <1>1, <1>6 DEF Ordered
    <2>2. Len(t) > 0 /\ t[1] = s[1 + 1]
      BY <2>1, <1>1
    <2>. QED
      BY <2>1, <2>2
  <1>. QED
    BY <1>1, <1>3, <1>4, <1>5, <1>6 DEF Ordered, t

\* Two scripts one after the other, of which the second begins neither with a choice
\* nor with an assignment.
LEMMA JoinFacts ==
    ASSUME NEW s \in Seq(Steps), NEW t \in Seq(Steps), Ordered(s), Ordered(t),
           t # <<>> => t[1] \notin {"choose", "assign"}
    PROVE  s \o t \in Seq(Steps) /\ Ordered(s \o t)
  <1>. DEFINE r == s \o t
  <1>1. /\ r \in Seq(Steps) /\ Len(r) = Len(s) + Len(t)
        /\ \A i \in 1..(Len(s) + Len(t)) : r[i] = IF i <= Len(s) THEN s[i] ELSE t[i - Len(s)]
        /\ Len(s) \in Nat /\ Len(t) \in Nat
    OBVIOUS
  <1>. HIDE DEF r
  <1>2. ASSUME NEW i \in 1..Len(r), r[i] = "choose" PROVE i < Len(r) /\ r[i + 1] = "assign"
    <2>1. CASE i <= Len(s)
      <3>1. i \in 1..Len(s) /\ s[i] = "choose"
        BY <1>1, <1>2, <2>1
      <3>2. i < Len(s) /\ s[i + 1] = "assign"
        BY <3>1 DEF Ordered
      <3>. QED
        BY <3>1, <3>2, <1>1
    <2>2. CASE ~(i <= Len(s))
      <3>1. i - Len(s) \in 1..Len(t) /\ t[i - Len(s)] = "choose"
        BY <1>1, <1>2, <2>2
      <3>2. i - Len(s) < Len(t) /\ t[(i - Len(s)) + 1] = "assign"
        BY <3>1 DEF Ordered
      <3>3. (i - Len(s)) + 1 = (i + 1) - Len(s) /\ i + 1 \in 1..Len(r) /\ ~(i + 1 <= Len(s))
        BY <3>1, <3>2, <2>2, <1>1
      <3>. QED
        BY <3>2, <3>3, <1>1
    <2>. QED
      BY <2>1, <2>2
  <1>3. ASSUME NEW i \in 1..(Len(r) - 1)
        PROVE  /\ r[i + 1] = "choose" => r[i] = "lock"
               /\ r[i + 1] = "assign" => r[i] = "choose"
    <2>1. CASE i < Len(s)
      <3>1. i \in 1..(Len(s) - 1) /\ r[i] = s[i] /\ r[i + 1] = s[i + 1]
        BY <1>1, <2>1
      <3>. QED
        BY <3>1 DEF Ordered
    <2>2. CASE i = Len(s)
      <3>1. r[i + 1] = t[1] /\ t # <<>>
        BY <1>1, <2>2
      <3>. QED
        BY <3>1
    <2>3. CASE i > Len(s)
      <3>1. /\ i - Len(s) \in 1..(Len(t) - 1)
            /\ r[i] = t[i - Len(s)] /\ r[i + 1] = t[(i - Len(s)) + 1]
        <4>1. (i + 1) - Len(s) = (i - Len(s)) + 1 /\ i \in 1..Len(r) /\ i + 1 \in 1..Len(r)
          BY <1>1, <2>3
        <4>. QED
          BY <4>1, <1>1, <2>3
      <3>. QED
        BY <3>1 DEF Ordered
    <2>. QED
      BY <2>1, <2>2, <2>3, <1>1
  <1>. QED
    BY <1>1, <1>2, <1>3 DEF Ordered, r

\* The scripts of the operations are in order.
LEMMA ScriptFacts ==
    /\ \A s \in {<<>>, <<"setup">>, <<"erase">>, DeleteScript, UndoScript, SubidScript,
                 DeployScript, UserScript, CreateScript} :
          /\ s \in Seq(Steps) /\ Ordered(s)
          /\ s # <<>> => s[1] \notin {"choose", "assign"}
  <1>1. ASSUME NEW s \in {<<>>, <<"setup">>, <<"erase">>}
        PROVE  s \in Seq(Steps) /\ Ordered(s) /\ (s # <<>> => s[1] \notin {"choose", "assign"})
    <2>1. <<>> \in Seq(Steps) /\ Ordered(<<>>)
      BY DEF Ordered
    <2>2. <<"setup">> \in Seq(Steps) /\ Ordered(<<"setup">>) /\ <<"setup">>[1] = "setup"
      BY DEF Ordered, Steps
    <2>3. <<"erase">> \in Seq(Steps) /\ Ordered(<<"erase">>) /\ <<"erase">>[1] = "erase"
      BY DEF Ordered, Steps
    <2>. QED
      BY <2>1, <2>2, <2>3
  <1>2. DeleteScript \in Seq(Steps) /\ Ordered(DeleteScript) /\ DeleteScript[1] = "units"
    BY DEF DeleteScript, Ordered, Steps
  <1>3. UndoScript \in Seq(Steps) /\ Ordered(UndoScript) /\ UndoScript[1] = "account"
    BY DEF UndoScript, Ordered, Steps
  <1>4. SubidScript \in Seq(Steps) /\ Ordered(SubidScript) /\ SubidScript[1] = "lock"
    BY DEF SubidScript, Ordered, Steps
  <1>5. DeployScript \in Seq(Steps) /\ Ordered(DeployScript) /\ DeployScript[1] = "sync"
    BY DEF DeployScript, Ordered, Steps
  <1>6. UserScript \in Seq(Steps) /\ Ordered(UserScript) /\ UserScript[1] = "quiesce"
    BY DEF UserScript, Ordered, Steps
  <1>7. CreateScript \in Seq(Steps) /\ Ordered(CreateScript) /\ CreateScript[1] = "insert"
    <2>1. /\ <<"insert", "useradd">> \in Seq(Steps) /\ Ordered(<<"insert", "useradd">>)
      BY DEF Ordered, Steps
    <2>. DEFINE a == <<"insert", "useradd">> \o SubidScript
    <2>2. a \in Seq(Steps) /\ Ordered(a)
      BY <2>1, <1>4, JoinFacts
    <2>3. a # <<>> /\ a[1] = "insert"
      BY DEF SubidScript
    <2>4. CreateScript = a \o <<"setup">>
      BY DEF CreateScript
    <2>. HIDE DEF a
    <2>5. <<"setup">> \in Seq(Steps) /\ Ordered(<<"setup">>) /\ <<"setup">>[1] = "setup"
      BY <1>1
    <2>6. CreateScript \in Seq(Steps) /\ Ordered(CreateScript)
      BY <2>2, <2>4, <2>5, JoinFacts
    <2>7. (a \o <<"setup">>)[1] = a[1]
      BY <2>2, <2>3, <2>5
    <2>. QED
      BY <2>3, <2>4, <2>6, <2>7
  <1>. QED
    BY <1>1, <1>2, <1>3, <1>4, <1>5, <1>6, <1>7

-----------------------------------------------------------------------------
(* Steps.                                                                  *)

\* An operation that goes on with something else than a choice or an assignment,
\* while no range is given out and nobody else's flock taken away.
LEMMA MovesOn ==
    ASSUME IInv, NEW c \in Compartments, NEW r \in Operations,
           proc' = [proc EXCEPT ![c] = r], Ordered(r.script),
           r.script # <<>> => r.script[1] \notin {"choose", "assign"},
           range' \in [Compartments -> Nat], raced' \in BOOLEAN,
           flock' \in Compartments \cup {NoOne},
           ~raced' => ~raced /\ \A d \in Compartments : range'[d] \in {range[d], 0},
           flock # c => flock' = flock
    PROVE  IInv'
  <1>1. AcShape'
    BY DEF IInv, AcShape
  <1>2. proc'[c] = r /\ \A d \in Compartments \ {c} : proc'[d] = proc[d]
    BY DEF IInv, AcShape
  <1>3. ScriptsOrdered'
    BY <1>2 DEF IInv, ScriptsOrdered
  <1>4. \A d \in Compartments, steps \in SUBSET {"choose", "assign"} :
           NextIs(d, steps)' => d # c /\ NextIs(d, steps)
    BY <1>2 DEF NextIs
  <1>5. ChoosersLock'
    BY <1>4 DEF IInv, ChoosersLock
  <1>6. ChosenIsNew'
    <2>. SUFFICES ASSUME ~raced', NEW d \in Compartments, NextIs(d, {"assign"})',
                         NEW e \in Compartments
                  PROVE  range'[e] < proc'[d].chosen
      BY DEF ChosenIsNew
    <2>1. d # c /\ NextIs(d, {"assign"}) /\ ~raced
      BY <1>4
    <2>2. range[e] < proc[d].chosen /\ proc'[d] = proc[d]
      BY <2>1, <1>2 DEF IInv, ChosenIsNew
    <2>3. range[e] \in Nat /\ proc[d].chosen \in Nat /\ range'[e] \in {range[e], 0}
      BY DEF IInv, AcShape, Operations
    <2>. QED
      BY <2>2, <2>3
  <1>7. RangesDisjoint'
    BY DEF IInv, RangesDisjoint, AcShape
  <1>. QED
    BY <1>1, <1>3, <1>5, <1>6, <1>7 DEF IInv

\* A compartment's operation and its script, of which the first step is next.
LEMMA PendingFacts ==
    ASSUME IInv, NEW c \in Compartments
    PROVE  /\ proc[c] \in Operations /\ proc[c].script \in Seq(Steps) /\ Ordered(proc[c].script)
           /\ Pending(c) =>
                /\ Head1(c) = proc[c].script[1] /\ Head1(c) \in Steps
                /\ Rest(c) \in Seq(Steps) /\ Ordered(Rest(c))
                /\ Rest(c) # <<>> => /\ Rest(c)[1] = "choose" => Head1(c) = "lock"
                                     /\ Rest(c)[1] = "assign" => Head1(c) = "choose"
                /\ Head1(c) = "choose" => Rest(c) # <<>> /\ Rest(c)[1] = "assign"
  <1>1. proc[c] \in Operations /\ proc[c].script \in Seq(Steps) /\ Ordered(proc[c].script)
    BY DEF IInv, AcShape, Operations, ScriptsOrdered
  <1>2. ASSUME Pending(c)
        PROVE  /\ Head1(c) = proc[c].script[1] /\ Head1(c) \in Steps
               /\ Rest(c) \in Seq(Steps) /\ Ordered(Rest(c))
               /\ Rest(c) # <<>> => /\ Rest(c)[1] = "choose" => Head1(c) = "lock"
                                    /\ Rest(c)[1] = "assign" => Head1(c) = "choose"
               /\ Head1(c) = "choose" => Rest(c) # <<>> /\ Rest(c)[1] = "assign"
    <2>1. proc[c].script # <<>>
      BY <1>2 DEF Pending
    <2>. QED
      BY <2>1, <1>1, TailFacts DEF Head1, Rest
  <1>. QED
    BY <1>1, <1>2

\* What is left of the script after a step that is neither "lock" nor "choose".
LEMMA RestFacts ==
    ASSUME IInv, NEW c \in Compartments, Pending(c), Head1(c) \notin {"lock", "choose"}
    PROVE  /\ proc[c] \in Operations
           /\ Rest(c) \in Seq(Steps) /\ Ordered(Rest(c))
           /\ Rest(c) # <<>> => Rest(c)[1] \notin {"choose", "assign"}
  <1>1. proc[c] \in Operations
    BY PendingFacts
  <1>2. Rest(c) \in Seq(Steps) /\ Ordered(Rest(c))
    BY PendingFacts
  <1>3. ASSUME Rest(c) # <<>> PROVE Rest(c)[1] \notin {"choose", "assign"}
    <2>. DEFINE s == proc[c].script
                first == Tail(s)[1]
    <2>1. s \in Seq(Steps) /\ s # <<>> /\ Ordered(s)
      BY PendingFacts DEF Pending
    <2>2. Rest(c) = Tail(s) /\ Head1(c) = s[1]
      BY PendingFacts DEF Rest
    <2>. HIDE DEF s
    <2>3. Tail(s) # <<>>
      BY <1>3, <2>2
    <2>4. first = "choose" => s[1] = "lock"
      BY <2>1, <2>3, TailFacts
    <2>5. first = "assign" => s[1] = "choose"
      BY <2>1, <2>3, TailFacts
    <2>. HIDE DEF first
    <2>6. first \notin {"choose", "assign"}
      BY <2>2, <2>4, <2>5
    <2>. QED
      BY <2>2, <2>6 DEF first
  <1>. QED
    BY <1>1, <1>2, <1>3

\* A step that changes the operation's script, or what it remembers, and neither
\* ranges nor the flock.
LEMMA GoesOn ==
    ASSUME IInv, NEW c \in Compartments, NEW s \in Seq(Steps), Goto(c, s), Ordered(s),
           s # <<>> => s[1] \notin {"choose", "assign"},
           range' = range, raced' = raced, flock' = flock
    PROVE  IInv'
  <1>. DEFINE r == [proc[c] EXCEPT !.script = s]
  <1>1. r \in Operations /\ r.script = s
    BY PendingFacts DEF Operations
  <1>2. proc' = [proc EXCEPT ![c] = r]
    BY DEF Goto
  <1>3. range' \in [Compartments -> Nat] /\ raced' \in BOOLEAN /\ flock' \in Compartments \cup {NoOne}
    BY DEF IInv, AcShape
  <1>. HIDE DEF r
  <1>. QED
    BY <1>1, <1>2, <1>3, MovesOn

\* The same with the rest of the script, after a step that is not before a choice.
LEMMA Continues ==
    ASSUME IInv, NEW c \in Compartments, Pending(c), Continue(c),
           Head1(c) \notin {"lock", "choose"},
           range' = range, raced' = raced, flock' = flock
    PROVE  IInv'
  <1>1. /\ Rest(c) \in Seq(Steps) /\ Ordered(Rest(c))
        /\ Rest(c) # <<>> => Rest(c)[1] \notin {"choose", "assign"}
    BY RestFacts
  <1>. QED
    BY <1>1, GoesOn DEF Continue

\* Requests begin scripts.
LEMMA AcBeginKeeps ==
    ASSUME IInv, NEW c \in Compartments, Create(c) \/ Delete(c) \/ Start(c) \/ Deploy(c)
    PROVE  IInv'
  <1>1. PICK op \in Ops, s \in {CreateScript, DeleteScript, SubidScript, DeployScript},
             wanted \in SUBSET Uids : Begin(c, op, s, wanted)
    BY DEF Create, Delete, Start, Deploy, Ops
  <1>2. range' = range /\ raced' = raced /\ flock' = flock
    BY DEF Create, Delete, Start, Deploy, files
  <1>. DEFINE r == [Idle EXCEPT !.op = op, !.script = s, !.wanted = wanted]
  <1>3. s \in Seq(Steps) /\ Ordered(s) /\ (s # <<>> => s[1] \notin {"choose", "assign"})
    BY ScriptFacts
  <1>4. r \in Operations /\ r.script = s
    BY <1>3 DEF Operations, Idle
  <1>5. proc' = [proc EXCEPT ![c] = r]
    BY <1>1 DEF Begin
  <1>6. range' \in [Compartments -> Nat] /\ raced' \in BOOLEAN /\ flock' \in Compartments \cup {NoOne}
    BY <1>2 DEF IInv, AcShape
  <1>. HIDE DEF r
  <1>. QED
    BY <1>2, <1>3, <1>4, <1>5, <1>6, MovesOn

\* The end of an operation, by its last step or by an error.
LEMMA EndKeeps ==
    ASSUME IInv, NEW c \in Compartments, Finish(c) \/ Raise(c)
    PROVE  IInv'
  <1>1. Idle \in Operations /\ Idle.script = <<>>
    BY ScriptFacts DEF Idle, Operations, Ops
  <1>2. range' = range /\ raced' = raced /\ (flock' = flock \/ flock' = NoOne) /\ (flock # c => flock' = flock)
    BY DEF Finish, Raise, files
  <1>3. range' \in [Compartments -> Nat] /\ raced' \in BOOLEAN /\ flock' \in Compartments \cup {NoOne}
    BY <1>2 DEF IInv, AcShape
  <1>4. CASE proc' = [proc EXCEPT ![c] = Idle]
    BY <1>1, <1>2, <1>3, <1>4, ScriptFacts, MovesOn
  <1>5. CASE \E s \in {<<"erase">>, UndoScript} :
                proc' = [proc EXCEPT ![c] = [Idle EXCEPT !.op = "undo", !.script = s]]
    <2>1. PICK s \in {<<"erase">>, UndoScript} :
                proc' = [proc EXCEPT ![c] = [Idle EXCEPT !.op = "undo", !.script = s]]
      BY <1>5
    <2>. DEFINE r == [Idle EXCEPT !.op = "undo", !.script = s]
    <2>2. s \in Seq(Steps) /\ Ordered(s) /\ (s # <<>> => s[1] \notin {"choose", "assign"})
      BY ScriptFacts
    <2>3. r \in Operations /\ r.script = s
      BY <2>2 DEF Operations, Idle, Ops
    <2>4. proc' = [proc EXCEPT ![c] = r]
      BY <2>1
    <2>. HIDE DEF r
    <2>. QED
      BY <2>2, <2>3, <2>4, <1>2, <1>3, MovesOn
  <1>. QED
    BY <1>4, <1>5 DEF Finish, Raise

\* Steps that change no range and no flock.
LEMMA PlainKeeps ==
    ASSUME IInv, NEW c \in Compartments, Pending(c),
           \/ Head1(c) = "insert" /\ Insert(c)
           \/ Head1(c) = "useradd" /\ Useradd(c)
           \/ Head1(c) = "units" /\ Units(c)
           \/ Head1(c) = "account" /\ Account(c)
           \/ Head1(c) = "userdel" /\ Userdel(c)
           \/ Head1(c) = "sync" /\ Sync(c)
           \/ Head1(c) = "erase" /\ Erase(c)
           \/ Head1(c) \in {"setup", "quiesce", "deploy"} /\ Other(c)
    PROVE  IInv'
  <1>1. range' = range /\ raced' = raced /\ flock' = flock
    BY DEF Insert, Useradd, Units, Account, Userdel, Sync, Erase, Other, files
  <1>2. Head1(c) \notin {"lock", "choose", "assign"}
    OBVIOUS
  <1>3. CASE Continue(c)
    BY <1>1, <1>2, <1>3, Continues
  <1>4. CASE Goto(c, <<"setup">>)
    BY <1>1, <1>4, ScriptFacts, GoesOn
  <1>5. CASE Goto(c, UserScript \o Rest(c))
    <2>1. /\ Rest(c) \in Seq(Steps) /\ Ordered(Rest(c))
          /\ Rest(c) # <<>> => Rest(c)[1] \notin {"choose", "assign"}
      BY <1>2, RestFacts
    <2>2. UserScript \in Seq(Steps) /\ Ordered(UserScript)
      BY ScriptFacts
    <2>3. UserScript \o Rest(c) \in Seq(Steps) /\ Ordered(UserScript \o Rest(c))
      BY <2>1, <2>2, JoinFacts
    <2>4. (UserScript \o Rest(c))[1] = "quiesce"
      BY <2>1 DEF UserScript
    <2>. QED
      BY <1>1, <1>5, <2>3, <2>4, GoesOn
  <1>6. CASE Goto(c, Rest(c))
    BY <1>3, <1>6 DEF Continue
  <1>7. CASE Keep(c)
    BY <1>1, <1>2, <1>7, PendingFacts, GoesOn DEF Keep
  <1>. QED
    BY <1>3, <1>4, <1>5, <1>6, <1>7
       DEF Insert, Useradd, Units, Account, Userdel, Sync, Erase, Other

\* Steps that remember what they have read: entries of /etc/subuid, names of accounts.
LEMMA ReadingKeeps ==
    ASSUME IInv, NEW c \in Compartments, Pending(c),
           \/ Head1(c) = "read" /\ Read(c)
           \/ Head1(c) = "helpers" /\ Helpers(c)
           \/ Head1(c) = "unwanted" /\ Unwanted(c)
    PROVE  IInv'
  <1>1. range' = range /\ raced' = raced /\ flock' = flock
    BY DEF Read, Helpers, Unwanted, List, files
  <1>2. range' \in [Compartments -> Nat] /\ raced' \in BOOLEAN /\ flock' \in Compartments \cup {NoOne}
    BY <1>1 DEF IInv, AcShape
  <1>3. /\ Rest(c) \in Seq(Steps) /\ Ordered(Rest(c)) /\ proc[c] \in Operations
        /\ Rest(c) # <<>> => Rest(c)[1] \notin {"choose", "assign"}
    BY RestFacts
  <1>4. CASE Read(c)
    <2>. DEFINE r == [proc[c] EXCEPT !.script = Rest(c), !.seen = range]
    <2>1. r \in Operations /\ r.script = Rest(c)
      BY <1>3 DEF Operations, IInv, AcShape
    <2>2. proc' = [proc EXCEPT ![c] = r]
      BY <1>4 DEF Read
    <2>. HIDE DEF r
    <2>. QED
      BY <1>1, <1>2, <1>3, <2>1, <2>2, MovesOn
  <1>5. ASSUME NEW names \in SUBSET Names, List(c, names) PROVE IInv'
    <2>. DEFINE r == [proc[c] EXCEPT !.script = Rest(c), !.names = {n \in names : Exists(n)}]
    <2>1. r \in Operations /\ r.script = Rest(c)
      BY <1>3 DEF Operations
    <2>2. proc' = [proc EXCEPT ![c] = r]
      BY <1>5 DEF List
    <2>. HIDE DEF r
    <2>. QED
      BY <1>1, <1>2, <1>3, <2>1, <2>2, MovesOn
  <1>6. /\ HelpersOf(c) \in SUBSET Names
        /\ {Helper[<<c, u>>] : u \in Uids \ proc[c].wanted} \in SUBSET Names
    <2>1. \A u \in Uids : Helper[<<c, u>>] \in Names
      BY AccountConstants
    <2>. QED
      BY <2>1 DEF HelpersOf
  <1>. QED
    BY <1>4, <1>5, <1>6 DEF Helpers, Unwanted

\* The removal of helper accounts, one after the other, which may fail unnoticed.
LEMMA RemovalKeeps ==
    ASSUME IInv, NEW c \in Compartments, Pending(c),
           (Head1(c) = "remove" /\ RemoveHelper(c)) \/ UserdelFails(c)
    PROVE  IInv'
  <1>1. range' = range /\ raced' = raced /\ flock' = flock
    BY DEF RemoveHelper, UserdelFails, files
  <1>2. range' \in [Compartments -> Nat] /\ raced' \in BOOLEAN /\ flock' \in Compartments \cup {NoOne}
    BY <1>1 DEF IInv, AcShape
  <1>3. Head1(c) \in {"remove", "userdel"}
    BY DEF UserdelFails
  <1>4. CASE Continue(c)
    BY <1>1, <1>3, <1>4, Continues
  <1>5. ASSUME NEW n \in proc[c].names, proc' = [proc EXCEPT ![c].names = @ \ {n}] PROVE IInv'
    <2>. DEFINE r == [proc[c] EXCEPT !.names = @ \ {n}]
    <2>1. r \in Operations /\ r.script = proc[c].script
      BY PendingFacts DEF Operations
    <2>2. proc' = [proc EXCEPT ![c] = r]
      BY <1>5
    <2>3. Ordered(proc[c].script) /\ proc[c].script[1] \notin {"choose", "assign"}
      BY <1>3, PendingFacts
    <2>. HIDE DEF r
    <2>. QED
      BY <1>1, <1>2, <2>1, <2>2, <2>3, MovesOn
  <1>. QED
    BY <1>4, <1>5 DEF RemoveHelper, UserdelFails

\* A rewrite that undoes nobody's change takes away the range of its own compartment.
LEMMA RewriteKeeps ==
    ASSUME IInv, NEW c \in Compartments, Pending(c),
           \/ Head1(c) = "rewrite" /\ Rewrite(c)
           \/ Head1(c) = "unlock" /\ Unlock(c)
    PROVE  IInv'
  <1>. DEFINE r == [proc[c] EXCEPT !.script = Rest(c)]
  <1>1. /\ Rest(c) \in Seq(Steps) /\ Ordered(Rest(c)) /\ proc[c] \in Operations
        /\ Rest(c) # <<>> => Rest(c)[1] \notin {"choose", "assign"}
    BY RestFacts
  <1>2. r \in Operations /\ r.script = Rest(c)
    BY <1>1 DEF Operations
  <1>3. proc' = [proc EXCEPT ![c] = r]
    BY DEF Rewrite, Unlock, Continue, Goto
  <1>4. /\ range \in [Compartments -> Nat] /\ raced \in BOOLEAN
        /\ flock \in Compartments \cup {NoOne} /\ proc[c].seen \in [Compartments -> Nat]
    BY <1>1 DEF IInv, AcShape, Operations
  <1>5. CASE Rewrite(c)
    <2>1. flock' = flock
      BY <1>5 DEF Rewrite
    <2>2. /\ range' \in [Compartments -> Nat] /\ raced' \in BOOLEAN
          /\ ~raced' => ~raced /\ \A d \in Compartments : range'[d] \in {range[d], 0}
      <3>1. CASE proc[c].seen[c] = 0
        BY <1>4, <1>5, <3>1 DEF Rewrite
      <3>2. CASE proc[c].seen[c] # 0
        <4>1. range' = [proc[c].seen EXCEPT ![c] = 0] /\ raced' = (raced \/ range # proc[c].seen)
          BY <1>5, <3>2 DEF Rewrite
        <4>2. range' \in [Compartments -> Nat] /\ raced' \in BOOLEAN
          BY <1>4, <4>1
        <4>3. ASSUME ~raced' PROVE ~raced /\ \A d \in Compartments : range'[d] \in {range[d], 0}
          BY <1>4, <4>1, <4>3
        <4>. QED
          BY <4>2, <4>3
      <3>. QED
        BY <3>1, <3>2
    <2>. HIDE DEF r
    <2>. QED
      BY <1>1, <1>2, <1>3, <1>4, <2>1, <2>2, MovesOn
  <1>6. CASE Unlock(c)
    <2>1. range' = range /\ raced' = raced /\ flock' = IF flock = c THEN NoOne ELSE flock
      BY <1>6 DEF Unlock, files
    <2>. HIDE DEF r
    <2>. QED
      BY <1>1, <1>2, <1>3, <1>4, <2>1, MovesOn
  <1>. QED
    BY <1>5, <1>6

\* The flock is taken before the range is chosen.
LEMMA LockKeeps ==
    ASSUME IInv, NEW c \in Compartments, Pending(c), Head1(c) = "lock", Lock(c)
    PROVE  IInv'
  <1>. DEFINE r == [proc[c] EXCEPT !.script = Rest(c)]
  <1>1. /\ Rest(c) \in Seq(Steps) /\ Ordered(Rest(c)) /\ proc[c] \in Operations
    BY PendingFacts
  <1>2. Rest(c) # <<>> => Rest(c)[1] # "assign"
    <2>1. Rest(c) # <<>> /\ Rest(c)[1] = "assign" => Head1(c) = "choose"
      BY PendingFacts
    <2>. QED
      BY <2>1
  <1>3. r \in Operations /\ r.script = Rest(c)
    BY <1>1 DEF Operations
  <1>4. /\ proc' = [proc EXCEPT ![c] = r] /\ range' = range /\ raced' = raced
        /\ flock = NoOne /\ flock' = c
    BY DEF Lock, Continue, Goto, files
  <1>. HIDE DEF r
  <1>5. proc'[c] = r /\ \A d \in Compartments \ {c} : proc'[d] = proc[d]
    BY <1>4 DEF IInv, AcShape
  <1>6. AcShape'
    BY <1>3, <1>4 DEF IInv, AcShape
  <1>7. ScriptsOrdered'
    BY <1>1, <1>3, <1>5 DEF IInv, ScriptsOrdered
  <1>8. ASSUME NEW d \in Compartments, d # c PROVE ~NextIs(d, {"choose", "assign"})'
    <2>1. ~NextIs(d, {"choose", "assign"})
      BY <1>4, AccountConstants DEF IInv, ChoosersLock
    <2>. QED
      BY <1>5, <1>8, <2>1 DEF NextIs
  <1>9. ChoosersLock'
    BY <1>4, <1>8 DEF ChoosersLock
  <1>10. ASSUME NEW d \in Compartments PROVE ~NextIs(d, {"assign"})'
    <2>1. CASE d = c
      BY <1>2, <1>3, <1>5, <2>1 DEF NextIs
    <2>2. CASE d # c
      BY <1>8, <2>2 DEF NextIs
    <2>. QED
      BY <2>1, <2>2
  <1>11. ChosenIsNew'
    BY <1>10 DEF ChosenIsNew
  <1>12. RangesDisjoint'
    BY <1>4 DEF IInv, RangesDisjoint
  <1>. QED
    BY <1>6, <1>7, <1>9, <1>11, <1>12 DEF IInv

\* A compartment that has a range keeps it; else what is chosen lies above all ranges.
LEMMA ChooseKeeps ==
    ASSUME IInv, NEW c \in Compartments, Pending(c), Head1(c) = "choose", Choose(c)
    PROVE  IInv'
  <1>1. /\ Rest(c) \in Seq(Steps) /\ Ordered(Rest(c)) /\ proc[c] \in Operations
        /\ Rest(c) # <<>> /\ Rest(c)[1] = "assign"
    BY PendingFacts
  <1>2. range' = range /\ raced' = raced /\ flock' = flock
    BY DEF Choose, files
  <1>3. flock = c
    <2>1. proc[c].script # <<>> /\ proc[c].script[1] = "choose"
      BY PendingFacts DEF Pending
    <2>. QED
      BY <2>1 DEF IInv, ChoosersLock, NextIs
  <1>4. CASE range[c] # 0
    <2>. DEFINE t == Rest(c)
    <2>1. t \in Seq(Steps) /\ Ordered(t) /\ t # <<>> /\ t[1] = "assign"
      BY <1>1
    <2>2. Goto(c, Tail(t))
      BY <1>4 DEF Choose
    <2>. HIDE DEF t
    <2>3. /\ Tail(t) \in Seq(Steps) /\ Ordered(Tail(t))
          /\ Tail(t) # <<>> => /\ Tail(t)[1] = "choose" => t[1] = "lock"
                               /\ Tail(t)[1] = "assign" => t[1] = "choose"
      BY <2>1, TailFacts
    <2>4. Tail(t) # <<>> => Tail(t)[1] \notin {"choose", "assign"}
      BY <2>1, <2>3
    <2>. QED
      BY <1>2, <2>2, <2>3, <2>4, GoesOn
  <1>5. CASE range[c] = 0
    <2>. DEFINE start == 1 + Max({range[d] : d \in Compartments})
                r == [proc[c] EXCEPT !.script = Rest(c), !.chosen = start]
    <2>1. start \in Nat /\ \A d \in Compartments : range[d] < start
      BY AboveAll DEF IInv
    <2>2. proc' = [proc EXCEPT ![c] = r]
      BY <1>5 DEF Choose
    <2>. HIDE DEF start
    <2>3. r \in Operations /\ r.script = Rest(c) /\ r.chosen = start
      BY <1>1, <2>1 DEF Operations
    <2>. HIDE DEF r
    <2>4. proc'[c] = r /\ \A d \in Compartments \ {c} : proc'[d] = proc[d]
      BY <2>2 DEF IInv, AcShape
    <2>5. AcShape'
      BY <1>2, <2>2, <2>3 DEF IInv, AcShape
    <2>6. ScriptsOrdered'
      BY <1>1, <2>3, <2>4 DEF IInv, ScriptsOrdered
    <2>7. ASSUME NEW d \in Compartments, d # c PROVE ~NextIs(d, {"choose", "assign"})'
      <3>1. ~NextIs(d, {"choose", "assign"})
        BY <1>3, <2>7 DEF IInv, ChoosersLock
      <3>. QED
        BY <2>4, <2>7, <3>1 DEF NextIs
    <2>8. ChoosersLock'
      BY <1>2, <1>3, <2>7 DEF ChoosersLock
    <2>9. ChosenIsNew'
      <3>. SUFFICES ASSUME NEW d \in Compartments, NextIs(d, {"assign"})',
                           NEW e \in Compartments
                    PROVE  range'[e] < proc'[d].chosen
        BY DEF ChosenIsNew
      <3>1. d = c
        BY <2>7 DEF NextIs
      <3>. QED
        BY <3>1, <1>2, <2>1, <2>3, <2>4
    <2>10. RangesDisjoint'
      BY <1>2 DEF IInv, RangesDisjoint
    <2>. QED
      BY <2>5, <2>6, <2>8, <2>9, <2>10 DEF IInv
  <1>. QED
    BY <1>4, <1>5

\* The range that is assigned lies above all others.
LEMMA AssignKeeps ==
    ASSUME IInv, NEW c \in Compartments, Pending(c), Head1(c) = "assign", Assign(c)
    PROVE  IInv'
  <1>. DEFINE r == [proc[c] EXCEPT !.script = Rest(c)]
  <1>1. /\ Rest(c) \in Seq(Steps) /\ Ordered(Rest(c)) /\ proc[c] \in Operations
        /\ Rest(c) # <<>> => Rest(c)[1] \notin {"choose", "assign"}
    BY RestFacts
  <1>2. NextIs(c, {"assign"}) /\ NextIs(c, {"choose", "assign"})
    <2>1. proc[c].script # <<>> /\ proc[c].script[1] = "assign"
      BY PendingFacts DEF Pending
    <2>. QED
      BY <2>1 DEF NextIs
  <1>3. flock = c
    BY <1>2 DEF IInv, ChoosersLock
  <1>4. /\ range' = [range EXCEPT ![c] = proc[c].chosen] /\ raced' = raced /\ flock' = flock
        /\ proc' = [proc EXCEPT ![c] = r]
    BY DEF Assign, Continue, Goto
  <1>5. r \in Operations /\ r.script = Rest(c) /\ proc[c].chosen \in Nat
    BY <1>1 DEF Operations
  <1>. HIDE DEF r
  <1>6. proc'[c] = r /\ \A d \in Compartments \ {c} : proc'[d] = proc[d]
    BY <1>4 DEF IInv, AcShape
  <1>7. AcShape'
    BY <1>4, <1>5 DEF IInv, AcShape
  <1>8. ScriptsOrdered'
    BY <1>1, <1>5, <1>6 DEF IInv, ScriptsOrdered
  <1>9. ASSUME NEW d \in Compartments PROVE ~NextIs(d, {"choose", "assign"})'
    <2>1. CASE d = c
      BY <1>1, <1>5, <1>6, <2>1 DEF NextIs
    <2>2. CASE d # c
      <3>1. ~NextIs(d, {"choose", "assign"})
        BY <1>3, <2>2 DEF IInv, ChoosersLock
      <3>. QED
        BY <1>6, <2>2, <3>1 DEF NextIs
    <2>. QED
      BY <2>1, <2>2
  <1>10. ChoosersLock'
    BY <1>9 DEF ChoosersLock
  <1>11. ChosenIsNew'
    <2>1. \A d \in Compartments : ~NextIs(d, {"assign"})'
      BY <1>9 DEF NextIs
    <2>. QED
      BY <2>1 DEF ChosenIsNew
  <1>12. RangesDisjoint'
    <2>. SUFFICES ASSUME ~raced', NEW d \in Compartments, NEW e \in Compartments,
                         d # e, range'[d] # 0
                  PROVE  range'[d] # range'[e]
      BY DEF RangesDisjoint
    <2>1. range \in [Compartments -> Nat]
      BY DEF IInv, AcShape
    <2>2. \A f \in Compartments : range[f] < proc[c].chosen
      BY <1>2, <1>4 DEF IInv, ChosenIsNew
    <2>3. range'[c] = proc[c].chosen /\ \A f \in Compartments \ {c} : range'[f] = range[f]
      BY <1>4, <2>1
    <2>4. CASE d # c /\ e # c
      BY <1>4, <2>3, <2>4 DEF IInv, RangesDisjoint
    <2>5. CASE d = c
      BY <1>5, <2>1, <2>2, <2>3, <2>5
    <2>6. CASE e = c
      BY <1>5, <2>1, <2>2, <2>3, <2>6
    <2>. QED
      BY <2>4, <2>5, <2>6
  <1>. QED
    BY <1>7, <1>8, <1>10, <1>11, <1>12 DEF IInv

-----------------------------------------------------------------------------
(* The invariant.                                                          *)

LEMMA StepKeeps ==
    ASSUME IInv, NEW c \in Compartments, Step(c)
    PROVE  IInv'
  <1>1. Pending(c)
    BY DEF Step
  <1>2. CASE Head1(c) = "lock" /\ Lock(c)
    BY <1>1, <1>2, LockKeeps
  <1>3. CASE Head1(c) = "choose" /\ Choose(c)
    BY <1>1, <1>3, ChooseKeeps
  <1>4. CASE Head1(c) = "assign" /\ Assign(c)
    BY <1>1, <1>4, AssignKeeps
  <1>5. CASE \/ Head1(c) = "rewrite" /\ Rewrite(c)
             \/ Head1(c) = "unlock" /\ Unlock(c)
    BY <1>1, <1>5, RewriteKeeps
  <1>6. CASE \/ Head1(c) = "read" /\ Read(c)
             \/ Head1(c) = "helpers" /\ Helpers(c)
             \/ Head1(c) = "unwanted" /\ Unwanted(c)
    BY <1>1, <1>6, ReadingKeeps
  <1>7. CASE Head1(c) = "remove" /\ RemoveHelper(c)
    BY <1>1, <1>7, RemovalKeeps
  <1>8. CASE \/ Head1(c) = "insert" /\ Insert(c)
             \/ Head1(c) = "useradd" /\ Useradd(c)
             \/ Head1(c) = "units" /\ Units(c)
             \/ Head1(c) = "account" /\ Account(c)
             \/ Head1(c) = "userdel" /\ Userdel(c)
             \/ Head1(c) = "sync" /\ Sync(c)
             \/ Head1(c) = "erase" /\ Erase(c)
             \/ Head1(c) \in {"setup", "quiesce", "deploy"} /\ Other(c)
    BY <1>1, <1>8, PlainKeeps
  <1>. QED
    BY <1>2, <1>3, <1>4, <1>5, <1>6, <1>7, <1>8 DEF Step, Perform

\* After a crash nothing runs, and the flock is free.
LEMMA CrashKeeps ==
    ASSUME IInv, Crash
    PROVE  IInv'
  <1>1. Idle \in Operations /\ Idle.script = <<>> /\ Ordered(<<>>)
    BY ScriptFacts DEF Idle, Operations, Ops
  <1>2. /\ range' = range /\ raced' = raced /\ flock' = NoOne
        /\ proc' = [c \in Compartments |-> Idle]
    BY DEF Crash, files
  <1>3. AcShape'
    BY <1>1, <1>2 DEF IInv, AcShape
  <1>4. \A c \in Compartments : proc'[c].script = <<>>
    BY <1>1, <1>2
  <1>5. ScriptsOrdered' /\ ChoosersLock' /\ ChosenIsNew'
    BY <1>1, <1>4 DEF ScriptsOrdered, ChoosersLock, ChosenIsNew, NextIs
  <1>6. RangesDisjoint'
    BY <1>2 DEF IInv, RangesDisjoint
  <1>. QED
    BY <1>3, <1>5, <1>6 DEF IInv

LEMMA InvInit ==
    ASSUME Init
    PROVE  IInv
  <1>1. Idle \in Operations /\ Idle.script = <<>> /\ Ordered(<<>>)
    BY ScriptFacts DEF Idle, Operations, Ops
  <1>2. AcShape
    BY <1>1 DEF Init, AcShape
  <1>3. \A c \in Compartments : proc[c].script = <<>>
    BY <1>1 DEF Init
  <1>4. ScriptsOrdered /\ ChoosersLock /\ ChosenIsNew
    BY <1>1, <1>3 DEF ScriptsOrdered, ChoosersLock, ChosenIsNew, NextIs
  <1>5. RangesDisjoint
    BY DEF Init, RangesDisjoint
  <1>. QED
    BY <1>2, <1>4, <1>5 DEF IInv

LEMMA InvNext ==
    ASSUME IInv, [Next]_vars
    PROVE  IInv'
  <1>1. CASE Crash
    BY <1>1, CrashKeeps
  <1>2. ASSUME NEW c \in Compartments, Create(c) \/ Delete(c) \/ Start(c) \/ Deploy(c)
        PROVE  IInv'
    BY <1>2, AcBeginKeeps
  <1>3. ASSUME NEW c \in Compartments, DeleteContainer(c) PROVE IInv'
    BY <1>3 DEF DeleteContainer, IInv, AcShape, ScriptsOrdered, ChoosersLock, ChosenIsNew,
                RangesDisjoint, NextIs
  <1>4. ASSUME NEW c \in Compartments, Step(c) PROVE IInv'
    BY <1>4, StepKeeps
  <1>5. ASSUME NEW c \in Compartments, Finish(c) \/ Fails(c) \/ Refused(c) PROVE IInv'
    BY <1>5, EndKeeps DEF Fails, Refused
  <1>6. ASSUME NEW c \in Compartments, UserdelFails(c) PROVE IInv'
    BY <1>6, RemovalKeeps DEF UserdelFails
  <1>7. CASE UNCHANGED vars
    BY <1>7 DEF vars, IInv, AcShape, ScriptsOrdered, ChoosersLock, ChosenIsNew,
                RangesDisjoint, NextIs
  <1>. QED
    BY <1>1, <1>2, <1>3, <1>4, <1>5, <1>6, <1>7 DEF Next

\* Who chooses or assigns a range holds the flock, and what is chosen lies above every
\* range, however operations interleave and wherever they fail (_setup_subuid_subgid).
THEOREM AccountsInvariance == Spec => []IInv
  <1>1. Init => IInv
    BY InvInit
  <1>2. IInv /\ [Next]_vars => IInv'
    BY InvNext
  <1>. QED
    BY <1>1, <1>2, PTL DEF Spec

\* No two compartments are given the same range, as long as no rewrite of /etc/subuid
\* undoes a change it has not seen.
THEOREM RangesApart == Spec => []RangesDisjoint
  <1>1. IInv => RangesDisjoint
    BY DEF IInv
  <1>. QED
    BY <1>1, AccountsInvariance, PTL

-----------------------------------------------------------------------------
(* Types.  The bound is looked at where a range is chosen; from there it   *)
(* goes to the file, and from the file to what a deletion has read.        *)

\* What TypeOK says beyond AcShape: of the files, and of what an operation remembers of them.
FilesTyped ==
    /\ row \subseteq Compartments /\ used \subseteq Compartments
    /\ account \in [Names -> [kind : {"none", "service", "helper"}, start : Starts]]
    /\ range \in [Compartments -> Starts]
Remembered(r) == r.chosen \in Starts /\ r.seen \in [Compartments -> Starts]
Bounded ==
    /\ FilesTyped
    /\ \A c \in Compartments : Remembered(proc[c])
    /\ faults \in 0 .. MaxFaults

\* What happens to an operation leaves what it remembers, or replaces it by what fits.
LEMMA StillBounded ==
    ASSUME IInv, Bounded, NEW c \in Compartments, NEW r, Remembered(r),
           proc' = [proc EXCEPT ![c] = r]
    PROVE  \A d \in Compartments : Remembered(proc'[d])
  BY DEF IInv, AcShape, Bounded

\* An operation that is not there any more, or only begins, remembers nothing.
LEMMA IdleRemembers ==
    ASSUME NEW r, r.chosen = Idle.chosen, r.seen = Idle.seen
    PROVE  Remembered(r)
  BY AccountConstants DEF Remembered, Idle, Starts

\* Accounts are made with the ranges there are, and taken away.
LEMMA AccountsTyped ==
    /\ NoAccount \in [kind : {"none", "service", "helper"}, start : Starts]
    /\ System \in [kind : {"none", "service", "helper"}, start : Starts]
    /\ \A s \in Starts : [kind |-> "helper", start |-> s]
                             \in [kind : {"none", "service", "helper"}, start : Starts]
  BY AccountConstants DEF NoAccount, System, Starts

\* A script goes on: what the operation remembers is as before.
LEMMA GotoBounded ==
    ASSUME IInv, Bounded, NEW c \in Compartments, NEW s, Goto(c, s)
    PROVE  \A d \in Compartments : Remembered(proc'[d])
  <1>. DEFINE r == [proc[c] EXCEPT !.script = s]
  <1>1. proc[c] \in Operations /\ Remembered(proc[c])
    BY DEF IInv, AcShape, Bounded
  <1>2. r.chosen = proc[c].chosen /\ r.seen = proc[c].seen
    BY <1>1 DEF Operations
  <1>3. Remembered(r)
    BY <1>1, <1>2 DEF Remembered
  <1>4. proc' = [proc EXCEPT ![c] = r]
    BY DEF Goto
  <1>. HIDE DEF r
  <1>. QED
    BY <1>3, <1>4, StillBounded

\* The steps that change the files, or what an operation remembers.
LEMMA FileStepBounded ==
    ASSUME IInv, Bounded, NEW c \in Compartments, Pending(c), Perform(c), faults' = faults,
           Head1(c) \in {"choose", "assign", "read", "rewrite"}
    PROVE  Bounded'
  <1>1. proc[c] \in Operations /\ Remembered(proc[c]) /\ range \in [Compartments -> Starts]
    BY DEF IInv, AcShape, Bounded, FilesTyped
  <1>2. CASE Head1(c) = "choose"
    <2>1. Choose(c)
      BY <1>2 DEF Perform
    <2>2. FilesTyped' /\ faults' \in 0 .. MaxFaults
      BY <2>1 DEF Choose, files, Bounded, FilesTyped
    <2>3. CASE range[c] # 0
      BY <2>1, <2>2, <2>3, GotoBounded DEF Choose, Bounded
    <2>4. CASE range[c] = 0
      <3>. DEFINE start == 1 + Max({range[d] : d \in Compartments})
                  r == [proc[c] EXCEPT !.script = Rest(c), !.chosen = start]
      <3>1. start \in Nat
        BY AboveAll DEF IInv
      <3>2. start <= MaxStart /\ proc' = [proc EXCEPT ![c] = r]
        BY <2>1, <2>4 DEF Choose
      <3>. HIDE DEF start
      <3>3. r.chosen = start /\ r.seen = proc[c].seen
        BY <1>1 DEF Operations
      <3>4. Remembered(r)
        BY <1>1, <3>1, <3>2, <3>3, AccountConstants DEF Remembered, Starts
      <3>. HIDE DEF r
      <3>. QED
        BY <2>2, <3>2, <3>4, StillBounded DEF Bounded
    <2>. QED
      BY <2>3, <2>4
  <1>3. CASE Head1(c) = "assign"
    <2>1. Assign(c)
      BY <1>3 DEF Perform
    <2>2. FilesTyped' /\ faults' \in 0 .. MaxFaults
      BY <1>1, <2>1 DEF Assign, Bounded, FilesTyped, Remembered
    <2>. QED
      BY <2>1, <2>2, GotoBounded DEF Assign, Continue, Bounded
  <1>4. CASE Head1(c) = "read"
    <2>. DEFINE r == [proc[c] EXCEPT !.script = Rest(c), !.seen = range]
    <2>1. Read(c)
      BY <1>4 DEF Perform
    <2>2. FilesTyped' /\ faults' \in 0 .. MaxFaults
      BY <2>1 DEF Read, files, Bounded, FilesTyped
    <2>3. r.chosen = proc[c].chosen /\ r.seen = range
      BY <1>1 DEF Operations
    <2>4. Remembered(r)
      BY <1>1, <2>3 DEF Remembered
    <2>5. proc' = [proc EXCEPT ![c] = r]
      BY <2>1 DEF Read
    <2>. HIDE DEF r
    <2>. QED
      BY <2>2, <2>4, <2>5, StillBounded DEF Bounded
  <1>5. CASE Head1(c) = "rewrite"
    <2>1. Rewrite(c)
      BY <1>5 DEF Perform
    <2>2. 0 \in Starts
      BY AccountConstants DEF Starts
    <2>3. range' \in [Compartments -> Starts]
      BY <1>1, <2>1, <2>2 DEF Rewrite, Remembered
    <2>4. FilesTyped' /\ faults' \in 0 .. MaxFaults
      BY <2>1, <2>3 DEF Rewrite, Bounded, FilesTyped
    <2>. QED
      BY <2>1, <2>4, GotoBounded DEF Rewrite, Continue, Bounded
  <1>. QED
    BY <1>2, <1>3, <1>4, <1>5

\* The steps that look up accounts, or change rows and accounts.
LEMMA AccountStepBounded ==
    ASSUME IInv, Bounded, NEW c \in Compartments, Pending(c), Perform(c), faults' = faults,
           Head1(c) \notin {"choose", "assign", "read", "rewrite"}
    PROVE  Bounded'
  <1>1. proc[c] \in Operations /\ Remembered(proc[c])
    BY DEF IInv, AcShape, Bounded
  <1>2. faults' \in 0 .. MaxFaults
    BY DEF Bounded
  <1>3. CASE \/ Head1(c) = "insert" /\ Insert(c)
             \/ Head1(c) = "useradd" /\ Useradd(c)
             \/ Head1(c) = "userdel" /\ Userdel(c)
             \/ Head1(c) = "erase" /\ Erase(c)
    <2>1. FilesTyped'
      BY <1>3, AccountsTyped DEF Insert, Useradd, Userdel, Erase, Bounded, FilesTyped
    <2>2. \E s : Goto(c, s)
      BY <1>3 DEF Insert, Useradd, Userdel, Erase, Continue
    <2>. QED
      BY <1>2, <2>1, <2>2, GotoBounded DEF Bounded
  <1>4. CASE \/ Head1(c) = "lock" /\ Lock(c)
             \/ Head1(c) = "unlock" /\ Unlock(c)
             \/ Head1(c) = "units" /\ Units(c)
             \/ Head1(c) = "account" /\ Account(c)
             \/ Head1(c) \in {"setup", "quiesce", "deploy"} /\ Other(c)
    <2>1. FilesTyped'
      BY <1>4 DEF Lock, Unlock, Units, Account, Other, files, Bounded, FilesTyped
    <2>2. \E s : Goto(c, s)
      BY <1>4 DEF Lock, Unlock, Units, Account, Other, Continue
    <2>. QED
      BY <1>2, <2>1, <2>2, GotoBounded DEF Bounded
  <1>5. CASE \/ Head1(c) = "helpers" /\ Helpers(c)
             \/ Head1(c) = "unwanted" /\ Unwanted(c)
    <2>1. PICK names : List(c, names)
      BY <1>5 DEF Helpers, Unwanted
    <2>. DEFINE r == [proc[c] EXCEPT !.script = Rest(c), !.names = {n \in names : Exists(n)}]
    <2>2. FilesTyped'
      BY <2>1 DEF List, files, Bounded, FilesTyped
    <2>3. proc' = [proc EXCEPT ![c] = r]
      BY <2>1 DEF List
    <2>4. r.chosen = proc[c].chosen /\ r.seen = proc[c].seen
      BY <1>1 DEF Operations
    <2>5. Remembered(r)
      BY <1>1, <2>4 DEF Remembered
    <2>. HIDE DEF r
    <2>. QED
      BY <1>2, <2>2, <2>3, <2>5, StillBounded DEF Bounded
  <1>6. CASE Head1(c) = "remove" /\ RemoveHelper(c)
    <2>1. CASE proc[c].names = {}
      <3>1. FilesTyped' /\ Goto(c, Rest(c))
        BY <1>6, <2>1 DEF RemoveHelper, Bounded, FilesTyped, Continue
      <3>. QED
        BY <1>2, <3>1, GotoBounded DEF Bounded
    <2>2. CASE proc[c].names # {}
      <3>1. PICK n \in proc[c].names :
               /\ account' = [account EXCEPT ![n] = NoAccount]
               /\ proc' = [proc EXCEPT ![c].names = @ \ {n}]
        BY <1>6, <2>2 DEF RemoveHelper
      <3>. DEFINE r == [proc[c] EXCEPT !.names = @ \ {n}]
      <3>2. FilesTyped'
        BY <1>6, <3>1, AccountsTyped DEF RemoveHelper, Bounded, FilesTyped
      <3>3. proc' = [proc EXCEPT ![c] = r]
        BY <3>1
      <3>4. r.chosen = proc[c].chosen /\ r.seen = proc[c].seen
        BY <1>1 DEF Operations
      <3>5. Remembered(r)
        BY <1>1, <3>4 DEF Remembered
      <3>. HIDE DEF r
      <3>. QED
        BY <1>2, <3>2, <3>3, <3>5, StillBounded DEF Bounded
    <2>. QED
      BY <2>1, <2>2
  <1>7. CASE Head1(c) = "sync" /\ Sync(c)
    <2>1. range[c] \in Starts
      BY DEF Bounded, FilesTyped
    <2>2. FilesTyped'
      BY <1>7, <2>1, AccountsTyped, ZenonT(30) DEF Sync, Bounded, FilesTyped
    <2>3. \E s : Goto(c, s)
      BY <1>7 DEF Sync, Continue, Keep
    <2>. QED
      BY <1>2, <2>2, <2>3, GotoBounded DEF Bounded
  <1>. QED
    BY <1>3, <1>4, <1>5, <1>6, <1>7 DEF Perform

\* The beginning and the end of an operation.
LEMMA EndsBounded ==
    ASSUME IInv, Bounded, NEW c \in Compartments,
           \/ Create(c) \/ Delete(c) \/ Start(c) \/ Deploy(c) \/ Finish(c) \/ Raise(c),
           faults' \in 0 .. MaxFaults
    PROVE  Bounded'
  <1>1. FilesTyped'
    BY DEF Create, Delete, Start, Deploy, Finish, Raise, files, Bounded, FilesTyped
  <1>2. \E r : /\ proc' = [proc EXCEPT ![c] = r]
               /\ r.chosen = Idle.chosen /\ r.seen = Idle.seen
    <2>1. CASE Finish(c) \/ Raise(c)
      <3>1. CASE proc' = [proc EXCEPT ![c] = Idle]
        BY <3>1
      <3>2. CASE \E s : proc' = [proc EXCEPT ![c] = [Idle EXCEPT !.op = "undo", !.script = s]]
        <4>1. PICK s : proc' = [proc EXCEPT ![c] = [Idle EXCEPT !.op = "undo", !.script = s]]
          BY <3>2
        <4>. DEFINE r == [Idle EXCEPT !.op = "undo", !.script = s]
        <4>2. r.chosen = Idle.chosen /\ r.seen = Idle.seen
          BY DEF Idle
        <4>3. proc' = [proc EXCEPT ![c] = r]
          BY <4>1
        <4>. HIDE DEF r
        <4>. QED
          BY <4>2, <4>3
      <3>. QED
        BY <2>1, <3>1, <3>2 DEF Finish, Raise
    <2>2. CASE Create(c) \/ Delete(c) \/ Start(c) \/ Deploy(c)
      <3>1. PICK op, s, wanted : Begin(c, op, s, wanted)
        BY <2>2 DEF Create, Delete, Start, Deploy
      <3>. DEFINE r == [Idle EXCEPT !.op = op, !.script = s, !.wanted = wanted]
      <3>2. r.chosen = Idle.chosen /\ r.seen = Idle.seen
        BY DEF Idle
      <3>3. proc' = [proc EXCEPT ![c] = r]
        BY <3>1 DEF Begin
      <3>. HIDE DEF r
      <3>. QED
        BY <3>2, <3>3
    <2>. QED
      BY <2>1, <2>2
  <1>. QED
    BY <1>1, <1>2, IdleRemembers, StillBounded DEF Bounded

LEMMA BoundedNext ==
    ASSUME IInv, Bounded, [Next]_vars
    PROVE  Bounded'
  <1>1. Fault => faults' \in 0 .. MaxFaults
    BY AccountConstants DEF Fault, Bounded
  <1>2. CASE Crash
    <2>1. FilesTyped' /\ faults' \in 0 .. MaxFaults
      BY <1>1, <1>2 DEF Crash, files, Bounded, FilesTyped
    <2>2. \A d \in Compartments : proc'[d] = Idle
      BY <1>2 DEF Crash
    <2>. QED
      BY <2>1, <2>2, IdleRemembers DEF Bounded
  <1>3. ASSUME NEW c \in Compartments, Create(c) \/ Delete(c) \/ Start(c) \/ Deploy(c) \/ Finish(c)
        PROVE  Bounded'
    <2>1. faults' \in 0 .. MaxFaults
      BY <1>3 DEF Create, Delete, Start, Deploy, Finish, Bounded
    <2>. QED
      BY <1>3, <2>1, EndsBounded
  <1>4. ASSUME NEW c \in Compartments, Fails(c) \/ Refused(c) PROVE Bounded'
    <2>1. Raise(c) /\ faults' \in 0 .. MaxFaults
      BY <1>1, <1>4 DEF Fails, Refused, Bounded
    <2>. QED
      BY <2>1, EndsBounded
  <1>5. ASSUME NEW c \in Compartments, DeleteContainer(c) PROVE Bounded'
    BY <1>5 DEF DeleteContainer, Bounded, FilesTyped
  <1>6. ASSUME NEW c \in Compartments, Step(c) PROVE Bounded'
    BY <1>6, FileStepBounded, AccountStepBounded DEF Step
  <1>7. ASSUME NEW c \in Compartments, UserdelFails(c) PROVE Bounded'
    <2>1. FilesTyped' /\ faults' \in 0 .. MaxFaults
      BY <1>1, <1>7 DEF UserdelFails, files, Bounded, FilesTyped
    <2>2. CASE Continue(c)
      BY <2>1, <2>2, GotoBounded DEF Continue, Bounded
    <2>3. CASE \E n : proc' = [proc EXCEPT ![c].names = @ \ {n}]
      <3>1. PICK n : proc' = [proc EXCEPT ![c].names = @ \ {n}]
        BY <2>3
      <3>. DEFINE r == [proc[c] EXCEPT !.names = @ \ {n}]
      <3>2. proc[c] \in Operations /\ Remembered(proc[c])
        BY DEF IInv, AcShape, Bounded
      <3>3. r.chosen = proc[c].chosen /\ r.seen = proc[c].seen
        BY <3>2 DEF Operations
      <3>4. Remembered(r) /\ proc' = [proc EXCEPT ![c] = r]
        BY <3>1, <3>2, <3>3 DEF Remembered
      <3>. HIDE DEF r
      <3>. QED
        BY <2>1, <3>4, StillBounded DEF Bounded
    <2>. QED
      BY <1>7, <2>2, <2>3 DEF UserdelFails
  <1>8. CASE UNCHANGED vars
    BY <1>8 DEF vars, Bounded, FilesTyped
  <1>. QED
    BY <1>2, <1>3, <1>4, <1>5, <1>6, <1>7, <1>8 DEF Next

\* Every variable keeps its type: no range beyond the bound gets into /etc/subuid, also
\* where a deletion writes back what it has read before (_remove_subuid_subgid).
THEOREM AccountsTypeCorrect == Spec => []TypeOK
  <1>1. Init => Bounded
    <2>1. ASSUME Init PROVE FilesTyped /\ faults \in 0 .. MaxFaults
      BY <2>1, AccountsTyped, AccountConstants DEF Init, FilesTyped, Starts
    <2>2. ASSUME Init PROVE \A c \in Compartments : Remembered(proc[c])
      BY <2>2, IdleRemembers DEF Init
    <2>. QED
      BY <2>1, <2>2 DEF Bounded
  <1>2. IInv /\ IInv' /\ Bounded /\ [Next]_vars => Bounded'
    BY BoundedNext
  <1>3. IInv /\ Bounded => TypeOK
    <2>. SUFFICES ASSUME IInv, Bounded PROVE TypeOK
      OBVIOUS
    <2>. DEFINE P == [op : Ops, script : Seq(Steps), chosen : Starts,
                      seen : [Compartments -> Starts], wanted : SUBSET Uids,
                      names : SUBSET Names]
    <2>1. ASSUME NEW c \in Compartments PROVE proc[c] \in P
      BY DEF IInv, AcShape, Bounded, Remembered, Operations
    <2>2. proc \in [Compartments -> P]
      BY <2>1 DEF IInv, AcShape
    <2>. QED
      BY <2>2 DEF IInv, AcShape, Bounded, FilesTyped, TypeOK
  <1>. QED
    BY <1>1, <1>2, <1>3, AccountsInvariance, PTL DEF Spec

-----------------------------------------------------------------------------
(* Accounts and helpers.                                                   *)

\* No compartment has the name of somebody's helper: nothing in the code keeps them apart.
NamesApart == \A c, d \in Compartments, u \in Uids : Service[c] # Helper[<<d, u>>]

\* What is left of a script, and how it begins.
RestOf(s, script) ==
    /\ s \in Seq(Steps) /\ Len(s) <= Len(script)
    /\ \A i \in 1..Len(s) : s[i] = script[Len(script) - Len(s) + i]
First(s) == IF s = <<>> THEN "end" ELSE s[1]

EndScript == UserScript \o <<"erase">>
ScriptsOf(op) ==
    CASE op = "create"            -> {CreateScript}
      [] op = "start"             -> {SubidScript}
      [] op \in {"add", "update"} -> {DeployScript}
      [] op = "delete"            -> {DeleteScript, EndScript}
      [] op = "undo"              -> {UndoScript, EndScript}
      [] OTHER                    -> {<<>>}
Scripted(c) == \E script \in ScriptsOf(proc[c].op) : RestOf(proc[c].script, script)
ScriptAt(c) == First(proc[c].script)

\* The steps of an operation, each with the one after it.
SubidOrder  == {<<"lock", "choose">>, <<"choose", "assign">>, <<"assign", "unlock">>}
UserOrder   == {<<"quiesce", "read">>, <<"read", "rewrite">>, <<"rewrite", "userdel">>,
                <<"userdel", "helpers">>, <<"helpers", "remove">>, <<"remove", "erase">>,
                <<"account", "erase">>, <<"erase", "end">>}
OrderOf(op) ==
    CASE op = "create"            -> SubidOrder \cup {<<"insert", "useradd">>, <<"useradd", "lock">>,
                                                      <<"unlock", "setup">>, <<"setup", "end">>}
      [] op = "start"             -> SubidOrder \cup {<<"unlock", "end">>}
      [] op \in {"add", "update"} -> {<<"sync", "unwanted">>, <<"unwanted", "remove">>,
                                      <<"remove", "deploy">>, <<"deploy", "end">>}
      [] op = "delete"            -> UserOrder \cup {<<"units", "account">>}
      [] op = "undo"              -> UserOrder
      [] OTHER                    -> {}

\* A compartment and what it has.
NoHelpers(c) == \A u \in Uids : account[Helper[<<c, u>>]] = NoAccount
Absent(c)    == account[Service[c]] = NoAccount /\ NoHelpers(c)
Made(c)      == c \in row /\ account[Service[c]] = System
Present(c)   == Made(c) /\ range[c] # 0
Anchored(c)  == \A u \in Uids : account[Helper[<<c, u>>]].kind = "helper" /\ range[c] # 0
                                  => account[Helper[<<c, u>>]].start = range[c]

\* How far an operation has come, if nothing disturbed it.
CreateStage(c) ==
    /\ ScriptAt(c) = "insert"                       => c \notin row /\ Absent(c)
    /\ ScriptAt(c) = "useradd"                      => c \in row /\ Absent(c)
    /\ ScriptAt(c) \in {"lock", "choose", "assign"} => Made(c) /\ NoHelpers(c)
    /\ ScriptAt(c) \in {"unlock", "setup", "end"}   => Present(c)
DeleteStage(c) ==
    /\ ScriptAt(c) \in {"units", "account", "quiesce", "read", "rewrite"} => Present(c)
    /\ ScriptAt(c) = "rewrite" => proc[c].seen[c] # 0
    /\ ScriptAt(c) \in {"userdel", "helpers", "remove", "erase", "end"} => range[c] = 0
    /\ ScriptAt(c) \in {"helpers", "remove", "erase", "end"} => account[Service[c]] = NoAccount
    /\ ScriptAt(c) = "remove" => \A u \in Uids : \/ Helper[<<c, u>>] \in proc[c].names
                                                 \/ account[Helper[<<c, u>>]] = NoAccount
    /\ ScriptAt(c) \in {"erase", "end"} => NoHelpers(c)
    /\ ScriptAt(c) = "end" => c \notin row
Stage(c) ==
    /\ proc[c].op \in {"none", "start"} => IF c \in row THEN Present(c) ELSE Absent(c)
    /\ proc[c].op = "create"            => CreateStage(c)
    /\ proc[c].op = "delete"            => DeleteStage(c)
    /\ proc[c].op \in {"add", "update"} => Present(c)
    /\ proc[c].op # "undo"
    /\ ScriptAt(c) = "assign" => range[c] = 0
    /\ Anchored(c)

\* A creation is undone after a fault, and if it was the only one nothing fails on the way.
UndoStage(c) ==
    proc[c].op = "undo" =>
       /\ faults >= 1
       /\ faults = 1 /\ ScriptAt(c) \in {"helpers", "remove", "erase", "end"}
             => account[Service[c]] = NoAccount
       /\ ScriptAt(c) = "end" => c \notin row

NamesOwn(c) == proc[c].names \subseteq HelpersOf(c)

Local(c) == Scripted(c) /\ NamesOwn(c) /\ UndoStage(c) /\ (Undisturbed => Stage(c))
Entries == [kind : {"none", "service", "helper"}, start : Nat]
Held    == row \subseteq Compartments /\ account \in [Names -> Entries] /\ faults \in Nat
AInv    == IInv /\ Held /\ \A c \in Compartments : Local(c)

-----------------------------------------------------------------------------
\* Two scripts, one after the other.
LEMMA Joined ==
    ASSUME NEW s \in Seq(Steps), NEW t \in Seq(Steps)
    PROVE  /\ Len(s \o t) = Len(s) + Len(t)
           /\ \A i \in 1..(Len(s) + Len(t)) :
                 (s \o t)[i] = IF i <= Len(s) THEN s[i] ELSE t[i - Len(s)]
  OBVIOUS

\* The scripts, step by step.
LEMMA ScriptSteps ==
    /\ \A op \in Ops : \A script \in ScriptsOf(op) : script \in Seq(Steps)
    /\ Len(CreateScript) = 7 /\ CreateScript[1] = "insert" /\ CreateScript[2] = "useradd"
       /\ CreateScript[3] = "lock" /\ CreateScript[4] = "choose" /\ CreateScript[5] = "assign"
       /\ CreateScript[6] = "unlock" /\ CreateScript[7] = "setup"
    /\ Len(EndScript) = 7 /\ EndScript[1] = "quiesce" /\ EndScript[2] = "read"
       /\ EndScript[3] = "rewrite" /\ EndScript[4] = "userdel" /\ EndScript[5] = "helpers"
       /\ EndScript[6] = "remove" /\ EndScript[7] = "erase"
  <1>1. /\ Len(EndScript) = 7 /\ EndScript[1] = "quiesce" /\ EndScript[2] = "read"
        /\ EndScript[3] = "rewrite" /\ EndScript[4] = "userdel" /\ EndScript[5] = "helpers"
        /\ EndScript[6] = "remove" /\ EndScript[7] = "erase"
    BY DEF EndScript, UserScript
  <1>2. EndScript \in Seq(Steps)
    <2>1. UserScript \in Seq(Steps) /\ <<"erase">> \in Seq(Steps)
      BY ScriptFacts
    <2>. QED
      BY <2>1 DEF EndScript
  <1>. DEFINE a == <<"insert", "useradd">> \o SubidScript
  <1>3. /\ Len(a) = 6 /\ a[1] = "insert" /\ a[2] = "useradd" /\ a[3] = "lock" /\ a[4] = "choose"
        /\ a[5] = "assign" /\ a[6] = "unlock"
    BY DEF SubidScript
  <1>4. CreateScript = a \o <<"setup">> /\ a \in Seq(Steps)
    <2>1. <<"insert", "useradd">> \in Seq(Steps) /\ SubidScript \in Seq(Steps)
      BY ScriptFacts DEF Steps
    <2>. QED
      BY <2>1 DEF CreateScript
  <1>. HIDE DEF a
  <1>5. /\ Len(CreateScript) = 7 /\ CreateScript[7] = "setup"
        /\ \A i \in 1..6 : CreateScript[i] = a[i]
    <2>. DEFINE b == <<"setup">>
    <2>1. b \in Seq(Steps) /\ Len(b) = 1 /\ b[1] = "setup"
      BY DEF Steps
    <2>. HIDE DEF b
    <2>2. /\ Len(a \o b) = Len(a) + Len(b)
          /\ \A i \in 1..(Len(a) + Len(b)) : (a \o b)[i] = IF i <= Len(a) THEN a[i] ELSE b[i - Len(a)]
      BY <1>4, <2>1, Joined
    <2>. QED
      BY <1>3, <1>4, <2>1, <2>2 DEF b
  <1>6. ASSUME NEW op \in Ops, NEW script \in ScriptsOf(op) PROVE script \in Seq(Steps)
    BY <1>2, ScriptFacts DEF ScriptsOf, Ops
  <1>. QED
    BY <1>1, <1>3, <1>5, <1>6

\* After a step of what is left of a script come the rest of it, and the script's next step.
LEMMA RestTail ==
    ASSUME NEW script \in Seq(Steps), NEW s, RestOf(s, script), s # <<>>
    PROVE  /\ RestOf(Tail(s), script)
           /\ \E i \in 1..Len(script) :
                 /\ s[1] = script[i]
                 /\ First(Tail(s)) = IF i < Len(script) THEN script[i + 1] ELSE "end"
  <1>. DEFINE t == Tail(s)
              n == Len(script)
  <1>1. s \in Seq(Steps) /\ Len(s) <= n /\ n \in Nat
    BY DEF RestOf
  <1>2. /\ t \in Seq(Steps) /\ Len(t) = Len(s) - 1 /\ Len(s) > 0 /\ Len(s) \in Nat
        /\ \A i \in 1..(Len(s) - 1) : t[i] = s[i + 1]
    BY <1>1
  <1>3. \A i \in 1..Len(s) : s[i] = script[n - Len(s) + i]
    BY DEF RestOf
  <1>. HIDE DEF t, n
  <1>4. \A i \in 1..Len(t) : t[i] = script[n - Len(t) + i]
    <2>1. ASSUME NEW i \in 1..Len(t) PROVE t[i] = script[n - Len(t) + i]
      <3>1. i + 1 \in 1..Len(s) /\ i \in 1..(Len(s) - 1)
        BY <1>2
      <3>2. n - Len(s) + (i + 1) = n - Len(t) + i
        BY <1>1, <1>2, <3>1
      <3>3. t[i] = s[i + 1] /\ s[i + 1] = script[n - Len(s) + (i + 1)]
        BY <3>1, <1>2, <1>3
      <3>. QED
        BY <3>2, <3>3
    <2>. QED
      BY <2>1
  <1>5. RestOf(t, script)
    BY <1>1, <1>2, <1>4 DEF RestOf, n
  <1>6. s[1] = script[n - Len(s) + 1]
    BY <1>2, <1>3
  <1>7. First(t) = IF n - Len(s) + 1 < n THEN script[(n - Len(s) + 1) + 1] ELSE "end"
    <2>1. CASE t = <<>>
      <3>1. Len(s) = 1
        BY <2>1, <1>2
      <3>. QED
        BY <2>1, <3>1, <1>1 DEF First
    <2>2. CASE t # <<>>
      <3>1. 1 \in 1..Len(t) /\ Len(s) > 1
        BY <2>2, <1>2
      <3>2. n - Len(t) + 1 = (n - Len(s) + 1) + 1 /\ n - Len(s) + 1 < n
        BY <3>1, <1>1, <1>2
      <3>. QED
        BY <2>2, <3>1, <3>2, <1>4 DEF First
    <2>. QED
      BY <2>1, <2>2
  <1>8. n - Len(s) + 1 \in 1..n
    BY <1>1, <1>2
  <1>. QED
    BY <1>5, <1>6, <1>7, <1>8 DEF t, n

\* An operation's steps come in its order.
LEMMA RestOrder ==
    ASSUME NEW op \in Ops, NEW script \in ScriptsOf(op), NEW s, RestOf(s, script), s # <<>>
    PROVE  RestOf(Tail(s), script) /\ <<s[1], First(Tail(s))>> \in OrderOf(op)
  <1>1. script \in Seq(Steps)
    BY ScriptSteps
  <1>2. PICK i \in 1..Len(script) :
           /\ s[1] = script[i]
           /\ First(Tail(s)) = IF i < Len(script) THEN script[i + 1] ELSE "end"
    BY <1>1, RestTail
  <1>3. RestOf(Tail(s), script)
    BY <1>1, RestTail
  <1>4. <<s[1], First(Tail(s))>> \in OrderOf(op)
    <2>1. CASE op = "create"
      <3>1. script = CreateScript
        BY <2>1 DEF ScriptsOf
      <3>2. i \in 1..7
        BY <1>2, <3>1, ScriptSteps
      <3>. QED
        BY <1>2, <2>1, <3>1, <3>2, ScriptSteps DEF OrderOf, SubidOrder
    <2>2. CASE op = "start"
      <3>1. script = SubidScript
        BY <2>2 DEF ScriptsOf
      <3>2. i \in 1..4
        BY <1>2, <3>1 DEF SubidScript
      <3>. QED
        BY <1>2, <2>2, <3>1, <3>2 DEF OrderOf, SubidOrder, SubidScript
    <2>3. CASE op \in {"add", "update"}
      <3>1. script = DeployScript
        BY <2>3 DEF ScriptsOf
      <3>2. i \in 1..4
        BY <1>2, <3>1 DEF DeployScript
      <3>. QED
        BY <1>2, <2>3, <3>1, <3>2 DEF OrderOf, DeployScript
    <2>4. CASE script = EndScript /\ op \in {"delete", "undo"}
      <3>1. i \in 1..7
        BY <1>2, <2>4, ScriptSteps
      <3>. QED
        BY <1>2, <2>4, <3>1, ScriptSteps DEF OrderOf, UserOrder
    <2>5. CASE script = DeleteScript /\ op = "delete"
      <3>1. i \in 1..3
        BY <1>2, <2>5 DEF DeleteScript
      <3>. QED
        BY <1>2, <2>5, <3>1 DEF OrderOf, UserOrder, DeleteScript
    <2>6. CASE script = UndoScript /\ op = "undo"
      <3>1. i \in 1..2
        BY <1>2, <2>6 DEF UndoScript
      <3>. QED
        BY <1>2, <2>6, <3>1 DEF OrderOf, UserOrder, UndoScript
    <2>. QED
      BY <2>1, <2>2, <2>3, <2>4, <2>5, <2>6 DEF ScriptsOf, Ops
  <1>. QED
    BY <1>3, <1>4

\* One step of a compartment's operation.
LEMMA StepOrder ==
    ASSUME IInv, NEW c \in Compartments, Scripted(c), Pending(c)
    PROVE  /\ <<Head1(c), First(Rest(c))>> \in OrderOf(proc[c].op)
           /\ \E script \in ScriptsOf(proc[c].op) : RestOf(Rest(c), script)
           /\ Head1(c) = ScriptAt(c)
  <1>1. proc[c].op \in Ops /\ proc[c].script # <<>>
    BY PendingFacts DEF Operations, Pending
  <1>2. Head1(c) = proc[c].script[1] /\ Rest(c) = Tail(proc[c].script)
    BY PendingFacts DEF Rest
  <1>3. PICK script \in ScriptsOf(proc[c].op) : RestOf(proc[c].script, script)
    BY DEF Scripted
  <1>4. RestOf(Rest(c), script) /\ <<Head1(c), First(Rest(c))>> \in OrderOf(proc[c].op)
    BY <1>1, <1>2, <1>3, RestOrder
  <1>. QED
    BY <1>1, <1>2, <1>4 DEF ScriptAt, First

-----------------------------------------------------------------------------
\* What a step of one compartment's operation leaves alone.
Touches(c) ==
    /\ \E r \in Operations : proc' = [proc EXCEPT ![c] = r]
    /\ row' \subseteq row \cup {c}
    /\ \A d \in Compartments \ {c} : d \in row' <=> d \in row
    /\ \/ account' = account
       \/ \E n \in {Service[c]} \cup HelpersOf(c), v \in Entries : account' = [account EXCEPT ![n] = v]
    /\ ~raced' => ~raced /\ \A d \in Compartments \ {c} : range'[d] = range[d]
    /\ faults' \in Nat /\ faults' >= faults

LEMMA AccountFacts ==
    /\ \A c \in Compartments : Service[c] \in Names
    /\ \A c \in Compartments, u \in Uids : Helper[<<c, u>>] \in Names
    /\ NoAccount \in Entries /\ System \in Entries /\ System # NoAccount
    /\ NoAccount.kind = "none" /\ NoAccount.kind # "helper"
  <1>1. \A c \in Compartments, u \in Uids : Helper[<<c, u>>] \in Names
    BY AccountConstants
  <1>. QED
    BY <1>1, AccountConstants DEF NoAccount, System, Entries

LEMMA HeldStays ==
    ASSUME Held, NEW c \in Compartments, Touches(c)
    PROVE  Held'
  BY DEF Held, Touches

\* The other compartments stay as they are.
LEMMA Elsewhere ==
    ASSUME NamesApart, IInv, Held, NEW c \in Compartments, Touches(c),
           NEW d \in Compartments \ {c}, Local(d)
    PROVE  Local(d)'
  <1>1. proc'[d] = proc[d]
    BY DEF Touches, IInv, AcShape
  <1>2. account'[Service[d]] = account[Service[d]]
    <2>1. \A n \in {Service[c]} \cup HelpersOf(c) : n # Service[d]
      BY AccountConstants DEF NamesApart, HelpersOf
    <2>. QED
      BY <2>1, AccountFacts DEF Touches, Held
  <1>3. \A u \in Uids : account'[Helper[<<d, u>>]] = account[Helper[<<d, u>>]]
    <2>. SUFFICES ASSUME NEW u \in Uids PROVE account'[Helper[<<d, u>>]] = account[Helper[<<d, u>>]]
      OBVIOUS
    <2>1. Service[c] # Helper[<<d, u>>]
      BY DEF NamesApart
    <2>2. \A w \in Uids : Helper[<<c, w>>] # Helper[<<d, u>>]
      <3>1. \A w \in Uids : Helper[<<c, w>>] = Helper[<<d, u>>] => <<c, w>> = <<d, u>>
        BY AccountConstants
      <3>. QED
        BY <3>1
    <2>3. \A n \in {Service[c]} \cup HelpersOf(c) : n # Helper[<<d, u>>]
      BY <2>1, <2>2 DEF HelpersOf
    <2>. QED
      BY <2>3, AccountFacts DEF Touches, Held
  <1>4. (d \in row' <=> d \in row) /\ faults \in Nat /\ faults' \in Nat /\ faults' >= faults
    BY DEF Touches, Held
  <1>5. ~raced' => ~raced /\ range'[d] = range[d]
    BY DEF Touches
  <1>6. Scripted(d)' /\ NamesOwn(d)' /\ ScriptAt(d)' = ScriptAt(d)
    BY <1>1 DEF Local, Scripted, NamesOwn, ScriptAt
  <1>7. UndoStage(d)'
    BY <1>1, <1>2, <1>4, <1>6 DEF Local, UndoStage
  <1>8. ASSUME Undisturbed' PROVE Stage(d)'
    <2>1. Undisturbed /\ range'[d] = range[d]
      BY <1>4, <1>5, <1>8 DEF Undisturbed
    <2>2. Stage(d)
      BY <2>1 DEF Local
    <2>3. NoHelpers(d)' = NoHelpers(d) /\ Anchored(d)' = Anchored(d)
      BY <1>3, <2>1 DEF NoHelpers, Anchored
    <2>4. Absent(d)' = Absent(d) /\ Made(d)' = Made(d)
      BY <1>2, <1>4, <2>3 DEF Absent, Made
    <2>5. Present(d)' = Present(d)
      BY <2>1, <2>4 DEF Present
    <2>6. CreateStage(d)' = CreateStage(d)
      BY <1>4, <1>6, <2>3, <2>4, <2>5 DEF CreateStage
    <2>7. DeleteStage(d)' = DeleteStage(d)
      BY <1>1, <1>2, <1>3, <1>4, <1>6, <2>1, <2>3, <2>5 DEF DeleteStage
    <2>. QED
      BY <1>1, <1>4, <1>6, <2>1, <2>2, <2>3, <2>4, <2>5, <2>6, <2>7 DEF Stage
  <1>. QED
    BY <1>6, <1>7, <1>8 DEF Local

\* The compartment itself, when nothing but its operation moves.
LEMMA Standing ==
    ASSUME NEW c \in Compartments, c \in row' <=> c \in row, account' = account, range' = range
    PROVE  /\ NoHelpers(c)' = NoHelpers(c) /\ Absent(c)' = Absent(c) /\ Made(c)' = Made(c)
           /\ Present(c)' = Present(c) /\ Anchored(c)' = Anchored(c)
  BY DEF NoHelpers, Absent, Made, Present, Anchored

\* A script that is begun is left whole.
LEMMA WholeScript ==
    ASSUME NEW s \in Seq(Steps)
    PROVE  RestOf(s, s)
  <1>1. Len(s) \in Nat
    OBVIOUS
  <1>. QED
    BY <1>1 DEF RestOf

-----------------------------------------------------------------------------
(* Requests, returns and errors.                                           *)

LEMMA BeginOwn ==
    ASSUME AInv, NEW c \in Compartments, Create(c) \/ Delete(c) \/ Start(c) \/ Deploy(c)
    PROVE  Touches(c) /\ Local(c)'
  <1>1. /\ row' = row /\ account' = account /\ range' = range /\ raced' = raced /\ faults' = faults
        /\ faults \in Nat /\ proc \in [Compartments -> Operations]
    BY DEF Create, Delete, Start, Deploy, files, AInv, Held, IInv, AcShape
  <1>2. ASSUME NEW op \in Ops, NEW s \in {CreateScript, DeleteScript, SubidScript, DeployScript},
               NEW wanted \in SUBSET Uids, Begin(c, op, s, wanted), s \in ScriptsOf(op)
        PROVE  /\ Touches(c) /\ Scripted(c)' /\ NamesOwn(c)'
               /\ proc'[c].op = op /\ ScriptAt(c)' = First(s) /\ proc[c].op = "none"
    <2>. DEFINE r == [Idle EXCEPT !.op = op, !.script = s, !.wanted = wanted]
    <2>1. r \in Operations /\ r.script = s /\ r.op = op /\ r.names = {}
      BY ScriptFacts DEF Operations, Idle
    <2>2. proc' = [proc EXCEPT ![c] = r] /\ proc[c].op = "none"
      BY <1>2 DEF Begin, Busy
    <2>. HIDE DEF r
    <2>3. Touches(c)
      <3>1. faults' \in Nat /\ faults' >= faults
        BY <1>1
      <3>2. \E q \in Operations : proc' = [proc EXCEPT ![c] = q]
        BY <2>1, <2>2
      <3>3. \A d \in Compartments \ {c} : range'[d] = range[d] /\ (d \in row' <=> d \in row)
        BY <1>1
      <3>. QED
        BY <1>1, <3>1, <3>2, <3>3 DEF Touches
    <2>4. RestOf(s, s)
      BY ScriptFacts, WholeScript
    <2>5. proc'[c] = r
      BY <1>1, <2>2
    <2>. QED
      BY <1>2, <2>1, <2>2, <2>3, <2>4, <2>5 DEF Scripted, NamesOwn, ScriptAt
  <1>3. /\ First(CreateScript) = "insert" /\ First(DeleteScript) = "units"
        /\ First(SubidScript) = "lock" /\ First(DeployScript) = "sync"
    <2>1. CreateScript # <<>>
      BY ScriptSteps
    <2>. QED
      BY <2>1, ScriptSteps DEF First, DeleteScript, SubidScript, DeployScript
  <1>4. /\ NoHelpers(c)' = NoHelpers(c) /\ Absent(c)' = Absent(c) /\ Made(c)' = Made(c)
        /\ Present(c)' = Present(c) /\ Anchored(c)' = Anchored(c)
    BY <1>1, Standing
  <1>5. (Undisturbed' <=> Undisturbed) /\ (Undisturbed => Stage(c))
    BY <1>1 DEF Undisturbed, AInv, Local
  <1>6. CASE Create(c)
    <2>1. PICK w \in SUBSET Uids : Begin(c, "create", CreateScript, w) /\ c \notin row
      BY <1>6 DEF Create
    <2>2. /\ Touches(c) /\ Scripted(c)' /\ NamesOwn(c)'
          /\ proc'[c].op = "create" /\ ScriptAt(c)' = "insert" /\ proc[c].op = "none"
      BY <1>2, <1>3, <2>1 DEF ScriptsOf, Ops
    <2>3. ASSUME Undisturbed' PROVE Stage(c)'
      <3>1. Stage(c)
        BY <1>5, <2>3
      <3>. QED
        BY <1>1, <1>4, <2>1, <2>2, <3>1 DEF Stage, CreateStage
    <2>. QED
      BY <2>2, <2>3 DEF Local, UndoStage
  <1>7. CASE Delete(c)
    <2>1. PICK w \in SUBSET Uids : Begin(c, "delete", DeleteScript, w) /\ c \in row
      BY <1>7 DEF Delete
    <2>2. /\ Touches(c) /\ Scripted(c)' /\ NamesOwn(c)'
          /\ proc'[c].op = "delete" /\ ScriptAt(c)' = "units" /\ proc[c].op = "none"
      BY <1>2, <1>3, <2>1 DEF ScriptsOf, Ops
    <2>3. ASSUME Undisturbed' PROVE Stage(c)'
      <3>1. Stage(c)
        BY <1>5, <2>3
      <3>. QED
        BY <1>1, <1>4, <2>1, <2>2, <3>1 DEF Stage, DeleteStage
    <2>. QED
      BY <2>2, <2>3 DEF Local, UndoStage
  <1>8. CASE Start(c)
    <2>1. PICK w \in SUBSET Uids : Begin(c, "start", SubidScript, w)
      BY <1>8 DEF Start
    <2>2. /\ Touches(c) /\ Scripted(c)' /\ NamesOwn(c)'
          /\ proc'[c].op = "start" /\ ScriptAt(c)' = "lock" /\ proc[c].op = "none"
      BY <1>2, <1>3, <2>1 DEF ScriptsOf, Ops
    <2>3. ASSUME Undisturbed' PROVE Stage(c)'
      <3>1. Stage(c)
        BY <1>5, <2>3
      <3>. QED
        BY <1>1, <1>4, <2>1, <2>2, <3>1 DEF Stage
    <2>. QED
      BY <2>2, <2>3 DEF Local, UndoStage
  <1>9. CASE Deploy(c)
    <2>1. PICK w \in SUBSET Uids, op \in {"add", "update"} :
             Begin(c, op, DeployScript, w) /\ c \in row
      BY <1>9 DEF Deploy
    <2>2. /\ Touches(c) /\ Scripted(c)' /\ NamesOwn(c)'
          /\ proc'[c].op = op /\ ScriptAt(c)' = "sync" /\ proc[c].op = "none"
      BY <1>2, <1>3, <2>1 DEF ScriptsOf, Ops
    <2>3. ASSUME Undisturbed' PROVE Stage(c)'
      <3>1. Stage(c)
        BY <1>5, <2>3
      <3>. QED
        BY <1>1, <1>4, <2>1, <2>2, <3>1 DEF Stage
    <2>. QED
      BY <2>2, <2>3 DEF Local, UndoStage
  <1>. QED
    BY <1>6, <1>7, <1>8, <1>9

\* The operation returns.
LEMMA FinishOwn ==
    ASSUME AInv, NEW c \in Compartments, Finish(c)
    PROVE  Touches(c) /\ Local(c)'
  <1>1. /\ row' = row /\ account' = account /\ range' = range /\ raced' = raced /\ faults' = faults
        /\ faults \in Nat /\ proc \in [Compartments -> Operations]
    BY DEF Finish, files, AInv, Held, IInv, AcShape
  <1>2. Idle \in Operations /\ Idle.script = <<>> /\ Idle.op = "none" /\ Idle.names = {}
    BY ScriptFacts DEF Idle, Operations, Ops
  <1>3. proc' = [proc EXCEPT ![c] = Idle] /\ proc'[c] = Idle
    BY <1>1 DEF Finish
  <1>4. Touches(c)
    <2>1. faults' \in Nat /\ faults' >= faults
      BY <1>1
    <2>. QED
      BY <1>1, <1>2, <1>3, <2>1 DEF Touches
  <1>5. Scripted(c)'
    <2>1. <<>> \in Seq(Steps)
      BY ScriptFacts
    <2>2. RestOf(<<>>, <<>>)
      BY <2>1, WholeScript
    <2>. QED
      BY <1>2, <1>3, <2>2 DEF Scripted, ScriptsOf
  <1>6. NamesOwn(c)' /\ UndoStage(c)'
    BY <1>2, <1>3 DEF NamesOwn, UndoStage
  <1>7. ASSUME Undisturbed' PROVE Stage(c)'
    <2>1. Stage(c) /\ ScriptAt(c) = "end" /\ proc[c].op \in Ops \ {"none"}
      BY <1>1, <1>7 DEF Undisturbed, AInv, Local, Finish, ScriptAt, First, Busy, Operations
    <2>2. IF c \in row THEN Present(c) ELSE Absent(c)
      BY <2>1 DEF Stage, CreateStage, DeleteStage, Present, Made, Absent, Ops
    <2>3. Present(c)' = Present(c) /\ Absent(c)' = Absent(c) /\ Anchored(c)' = Anchored(c)
      BY <1>1, Standing
    <2>4. ScriptAt(c)' = "end"
      BY <1>2, <1>3 DEF ScriptAt, First
    <2>. QED
      BY <1>1, <1>2, <1>3, <2>1, <2>2, <2>3, <2>4 DEF Stage
  <1>. QED
    BY <1>4, <1>5, <1>6, <1>7 DEF Local

\* An exception, which was a fault or not.
LEMMA RaiseOwn ==
    ASSUME AInv, NEW c \in Compartments, Pending(c), Raise(c), faults' \in Nat,
           \/ faults' = faults + 1
           \/ faults' = faults /\ AfterError(c) = "none" /\ (Undisturbed => Present(c))
    PROVE  Touches(c) /\ Local(c)'
  <1>1. /\ row' = row /\ account' = account /\ range' = range /\ raced' = raced
        /\ faults \in Nat /\ proc \in [Compartments -> Operations]
    BY DEF Raise, AInv, Held, IInv, AcShape
  <1>2. Idle \in Operations /\ Idle.script = <<>> /\ Idle.op = "none" /\ Idle.names = {}
    BY ScriptFacts DEF Idle, Operations, Ops
  <1>3. faults' >= faults
    BY <1>1
  <1>4. CASE AfterError(c) = "none"
    <2>1. proc' = [proc EXCEPT ![c] = Idle] /\ proc'[c] = Idle
      BY <1>1, <1>4 DEF Raise
    <2>2. Touches(c)
      BY <1>1, <1>2, <1>3, <2>1 DEF Touches
    <2>3. Scripted(c)'
      <3>1. <<>> \in Seq(Steps)
        BY ScriptFacts
      <3>2. RestOf(<<>>, <<>>)
        BY <3>1, WholeScript
      <3>. QED
        BY <1>2, <2>1, <3>2 DEF Scripted, ScriptsOf
    <2>4. NamesOwn(c)' /\ UndoStage(c)'
      BY <1>2, <2>1 DEF NamesOwn, UndoStage
    <2>5. ASSUME Undisturbed' PROVE Stage(c)'
      <3>1. Undisturbed /\ Present(c) /\ Stage(c)
        BY <1>1, <2>5 DEF Undisturbed, AInv, Local
      <3>2. Present(c)' = Present(c) /\ Anchored(c)' = Anchored(c)
        BY <1>1, Standing
      <3>3. ScriptAt(c)' = "end"
        BY <1>2, <2>1 DEF ScriptAt, First
      <3>. QED
        BY <1>1, <1>2, <2>1, <3>1, <3>2, <3>3 DEF Stage, Present, Made
    <2>. QED
      BY <2>2, <2>3, <2>4, <2>5 DEF Local
  <1>5. CASE AfterError(c) = "undo"
    <2>. DEFINE s == IF proc[c].op = "undo" THEN <<"erase">> ELSE UndoScript
                r == [Idle EXCEPT !.op = "undo", !.script = s]
    <2>1. r \in Operations /\ r.script = s /\ r.op = "undo" /\ r.names = {}
      BY ScriptFacts DEF Operations, Idle, Ops
    <2>2. proc' = [proc EXCEPT ![c] = r] /\ proc'[c] = r
      BY <1>1, <1>5 DEF Raise
    <2>. HIDE DEF r
    <2>3. Touches(c)
      BY <1>1, <1>3, <2>1, <2>2 DEF Touches
    <2>4. RestOf(s, UndoScript)
      <3>1. UndoScript \in Seq(Steps) /\ <<"erase">> \in Seq(Steps)
        BY ScriptFacts
      <3>2. RestOf(<<"erase">>, UndoScript)
        BY <3>1 DEF RestOf, UndoScript
      <3>3. RestOf(UndoScript, UndoScript)
        BY <3>1, WholeScript
      <3>. QED
        BY <3>2, <3>3
    <2>5. Scripted(c)' /\ NamesOwn(c)'
      BY <2>1, <2>2, <2>4 DEF Scripted, ScriptsOf, NamesOwn
    <2>6. faults' = faults + 1
      BY <1>5
    <2>7. ~Undisturbed'
      BY <1>1, <2>6 DEF Undisturbed
    <2>8. UndoStage(c)'
      <3>1. CASE proc[c].op = "undo"
        <4>1. faults >= 1
          BY <3>1 DEF AInv, Local, UndoStage
        <4>2. proc'[c].script = <<"erase">>
          BY <2>1, <2>2, <3>1
        <4>3. ScriptAt(c)' = "erase"
          BY <4>2 DEF ScriptAt, First
        <4>. QED
          BY <1>1, <2>6, <4>1, <4>3 DEF UndoStage
      <3>2. CASE proc[c].op # "undo"
        <4>1. ScriptAt(c)' = "account"
          BY <2>1, <2>2, <3>2 DEF ScriptAt, First, UndoScript
        <4>. QED
          BY <1>1, <2>6, <4>1 DEF UndoStage
      <3>. QED
        BY <3>1, <3>2
    <2>. QED
      BY <2>3, <2>5, <2>7, <2>8 DEF Local
  <1>. QED
    BY <1>4, <1>5 DEF AfterError

LEMMA FailsOwn ==
    ASSUME AInv, NEW c \in Compartments, Fails(c)
    PROVE  Touches(c) /\ Local(c)'
  <1>1. faults' = faults + 1 /\ faults' \in Nat
    BY DEF Fails, Fault, AInv, Held
  <1>. QED
    BY <1>1, RaiseOwn DEF Fails

\* Refused are deletions that find no account, and deployments that find no uid: the first
\* does not happen undisturbed, the second leaves the compartment complete.
LEMMA RefusedOwn ==
    ASSUME AInv, NEW c \in Compartments, Refused(c)
    PROVE  Touches(c) /\ Local(c)'
  <1>1. Pending(c) /\ Raise(c) /\ faults' = faults /\ faults' \in Nat
    BY DEF Refused, AInv, Held
  <1>2. <<Head1(c), First(Rest(c))>> \in OrderOf(proc[c].op) /\ Head1(c) = ScriptAt(c)
    BY <1>1, StepOrder DEF AInv, Local
  <1>3. Head1(c) \in {"units", "sync"}
    BY DEF Refused
  <1>4. \/ proc[c].op = "delete" /\ ScriptAt(c) = "units"
        \/ proc[c].op \in {"add", "update"}
    BY <1>2, <1>3 DEF OrderOf, SubidOrder, UserOrder
  <1>5. AfterError(c) = "none"
    BY <1>4 DEF AfterError
  <1>6. Undisturbed => Present(c)
    BY <1>4 DEF AInv, Local, Stage, DeleteStage
  <1>. QED
    BY <1>1, <1>5, <1>6, RaiseOwn

\* An error of userdel that is passed over.
LEMMA UserdelFailsOwn ==
    ASSUME AInv, NEW c \in Compartments, UserdelFails(c)
    PROVE  Touches(c) /\ Local(c)'
  <1>1. /\ row' = row /\ account' = account /\ range' = range /\ raced' = raced
        /\ faults \in Nat /\ faults' = faults + 1 /\ proc \in [Compartments -> Operations]
    BY DEF UserdelFails, files, Fault, AInv, Held, IInv, AcShape
  <1>2. /\ <<Head1(c), First(Rest(c))>> \in OrderOf(proc[c].op) /\ Head1(c) = ScriptAt(c)
        /\ \E script \in ScriptsOf(proc[c].op) : RestOf(Rest(c), script)
    BY StepOrder DEF AInv, Local, UserdelFails
  <1>3. Rest(c) \in Seq(Steps) /\ proc[c] \in Operations
    BY PendingFacts DEF AInv, UserdelFails
  <1>4. \E r \in Operations : /\ proc' = [proc EXCEPT ![c] = r]
                              /\ r.op = proc[c].op /\ r.names \subseteq proc[c].names
                              /\ \/ r.script = proc[c].script /\ Head1(c) = "remove"
                                 \/ r.script = Rest(c) /\ Head1(c) = "userdel"
    <2>1. CASE Head1(c) = "userdel" /\ Continue(c)
      <3>. DEFINE r == [proc[c] EXCEPT !.script = Rest(c)]
      <3>1. /\ r \in Operations /\ r.op = proc[c].op /\ r.names = proc[c].names
            /\ r.script = Rest(c)
        BY <1>3 DEF Operations
      <3>2. proc' = [proc EXCEPT ![c] = r]
        BY <2>1 DEF Continue, Goto
      <3>. HIDE DEF r
      <3>. QED
        BY <2>1, <3>1, <3>2
    <2>2. ASSUME Head1(c) = "remove",
                 NEW n \in proc[c].names, proc' = [proc EXCEPT ![c].names = @ \ {n}]
          PROVE  \E r \in Operations : /\ proc' = [proc EXCEPT ![c] = r]
                              /\ r.op = proc[c].op /\ r.names \subseteq proc[c].names
                              /\ r.script = proc[c].script
      <3>. DEFINE r == [proc[c] EXCEPT !.names = @ \ {n}]
      <3>1. /\ r \in Operations /\ r.op = proc[c].op /\ r.names \subseteq proc[c].names
            /\ r.script = proc[c].script
        BY <1>3 DEF Operations
      <3>2. proc' = [proc EXCEPT ![c] = r]
        BY <2>2
      <3>. HIDE DEF r
      <3>. QED
        BY <3>1, <3>2
    <2>. QED
      BY <2>1, <2>2 DEF UserdelFails
  <1>5. PICK r \in Operations : /\ proc' = [proc EXCEPT ![c] = r]
                                /\ r.op = proc[c].op /\ r.names \subseteq proc[c].names
                                /\ \/ r.script = proc[c].script /\ Head1(c) = "remove"
                                   \/ r.script = Rest(c) /\ Head1(c) = "userdel"
    BY <1>4
  <1>6. proc'[c] = r /\ faults' \in Nat /\ faults' >= faults
    BY <1>1, <1>5
  <1>7. Touches(c)
    BY <1>1, <1>5, <1>6 DEF Touches
  <1>8. Scripted(c)' /\ NamesOwn(c)'
    BY <1>2, <1>5, <1>6 DEF Scripted, NamesOwn, AInv, Local
  <1>9. ~Undisturbed'
    BY <1>1 DEF Undisturbed
  <1>10. UndoStage(c)'
    <2>. SUFFICES ASSUME proc[c].op = "undo" PROVE UndoStage(c)'
      BY <1>5, <1>6 DEF UndoStage
    <2>1. faults >= 1
      BY DEF AInv, Local, UndoStage
    <2>2. ScriptAt(c)' \in {"remove", "helpers"}
      BY <1>2, <1>5, <1>6 DEF ScriptAt, OrderOf, UserOrder
    <2>. QED
      BY <1>1, <2>1, <2>2 DEF UndoStage
  <1>. QED
    BY <1>7, <1>8, <1>9, <1>10 DEF Local

\* A container's row goes.
LEMMA DeleteContainerOwn ==
    ASSUME AInv, NEW c \in Compartments, DeleteContainer(c)
    PROVE  AInv'
  <1>1. /\ row' = row /\ account' = account /\ range' = range /\ raced' = raced
        /\ faults' = faults /\ proc' = proc /\ flock' = flock
    BY DEF DeleteContainer
  <1>2. IInv'
    BY InvNext DEF AInv, Next
  <1>3. Held' /\ Undisturbed' = Undisturbed
    BY <1>1 DEF AInv, Held, Undisturbed
  <1>4. ASSUME NEW d \in Compartments PROVE Local(d)'
    <2>1. /\ NoHelpers(d)' = NoHelpers(d) /\ Absent(d)' = Absent(d) /\ Made(d)' = Made(d)
          /\ Present(d)' = Present(d) /\ Anchored(d)' = Anchored(d)
      BY <1>1, Standing
    <2>2. ScriptAt(d)' = ScriptAt(d) /\ Scripted(d)' = Scripted(d) /\ NamesOwn(d)' = NamesOwn(d)
      BY <1>1 DEF ScriptAt, Scripted, NamesOwn
    <2>3. UndoStage(d)' = UndoStage(d)
      BY <1>1, <2>2 DEF UndoStage
    <2>4. Stage(d)' = Stage(d)
      BY <1>1, <2>1, <2>2 DEF Stage, CreateStage, DeleteStage
    <2>. QED
      BY <1>3, <2>2, <2>3, <2>4 DEF AInv, Local
  <1>. QED
    BY <1>2, <1>3, <1>4 DEF AInv

\* After a crash nothing runs, and the files are as they were.
LEMMA CrashOwn ==
    ASSUME AInv, Crash
    PROVE  AInv'
  <1>1. IInv'
    BY CrashKeeps DEF AInv
  <1>2. /\ row' = row /\ account' = account /\ faults \in Nat /\ faults' = faults + 1
        /\ proc' = [d \in Compartments |-> Idle]
    BY DEF Crash, Fault, files, AInv, Held
  <1>3. Held' /\ ~Undisturbed'
    BY <1>2 DEF AInv, Held, Undisturbed
  <1>4. ASSUME NEW d \in Compartments PROVE Local(d)'
    <2>1. proc'[d].op = "none" /\ proc'[d].script = <<>> /\ proc'[d].names = {}
      BY <1>2 DEF Idle
    <2>2. <<>> \in Seq(Steps)
      BY ScriptFacts
    <2>3. RestOf(<<>>, <<>>)
      BY <2>2, WholeScript
    <2>. QED
      BY <1>3, <2>1, <2>3 DEF Local, Scripted, ScriptsOf, NamesOwn, UndoStage
  <1>. QED
    BY <1>1, <1>3, <1>4 DEF AInv

-----------------------------------------------------------------------------
(* Steps, each with what it does to its own compartment.                   *)

\* An operation goes on to the rest of its script; it may remember something else.
Proceeds(c) ==
    /\ proc' = [proc EXCEPT ![c] = proc'[c]] /\ proc'[c] \in Operations
    /\ proc'[c].op = proc[c].op
    /\ Scripted(c)' /\ NamesOwn(c)'
    /\ Head1(c) = ScriptAt(c)
OnTo(c) == Proceeds(c) /\ <<ScriptAt(c), First(proc'[c].script)>> \in OrderOf(proc[c].op)

LEMMA GoesOnTo ==
    ASSUME AInv, NEW c \in Compartments, Pending(c), NEW r \in Operations,
           proc' = [proc EXCEPT ![c] = r], r.op = proc[c].op, r.script = Rest(c),
           r.names \subseteq HelpersOf(c)
    PROVE  OnTo(c) /\ proc'[c] = r
  <1>1. /\ <<Head1(c), First(Rest(c))>> \in OrderOf(proc[c].op) /\ Head1(c) = ScriptAt(c)
        /\ \E script \in ScriptsOf(proc[c].op) : RestOf(Rest(c), script)
    BY StepOrder DEF AInv, Local
  <1>2. proc'[c] = r
    BY DEF AInv, IInv, AcShape
  <1>. QED
    BY <1>1, <1>2 DEF OnTo, Proceeds, Scripted, NamesOwn

LEMMA ContinueGoes ==
    ASSUME AInv, NEW c \in Compartments, Pending(c), Continue(c)
    PROVE  OnTo(c) /\ proc'[c] = [proc[c] EXCEPT !.script = Rest(c)]
  <1>. DEFINE r == [proc[c] EXCEPT !.script = Rest(c)]
  <1>1. Rest(c) \in Seq(Steps) /\ proc[c] \in Operations
    BY PendingFacts DEF AInv
  <1>2. /\ r \in Operations /\ r.op = proc[c].op /\ r.script = Rest(c) /\ r.names = proc[c].names
    BY <1>1 DEF Operations
  <1>3. proc' = [proc EXCEPT ![c] = r]
    BY DEF Continue, Goto
  <1>4. r.names \subseteq HelpersOf(c)
    BY <1>2 DEF AInv, Local, NamesOwn
  <1>. HIDE DEF r
  <1>. QED
    BY <1>2, <1>3, <1>4, GoesOnTo DEF r

\* What a compartment holds after a step is said in Stage and UndoStage; this puts it together.
LEMMA Arrives ==
    ASSUME AInv, NEW c \in Compartments, Proceeds(c), faults' = faults,
           row' \subseteq row \cup {c},
           \A d \in Compartments \ {c} : d \in row' <=> d \in row,
           \/ account' = account
           \/ \E n \in {Service[c]} \cup HelpersOf(c), v \in Entries : account' = [account EXCEPT ![n] = v],
           ~raced' => ~raced /\ \A d \in Compartments \ {c} : range'[d] = range[d],
           Undisturbed' => Stage(c)', UndoStage(c)'
    PROVE  Touches(c) /\ Local(c)'
  <1>1. faults' \in Nat /\ faults' >= faults
    BY DEF AInv, Held
  <1>2. Local(c)'
    BY DEF Proceeds, Local
  <1>. QED
    BY <1>1, <1>2 DEF Proceeds, Touches

\* Undisturbed afterwards is undisturbed before.
LEMMA Before ==
    ASSUME AInv, NEW c \in Compartments, faults' = faults, raced' = raced
    PROVE  (Undisturbed' <=> Undisturbed) /\ (Undisturbed => Stage(c)) /\ UndoStage(c) /\ Scripted(c)
           /\ (raced' <=> raced)
  BY DEF Undisturbed, AInv, Local

\* Steps that are only noticed in the script.
LEMMA PlainOwn ==
    ASSUME AInv, NEW c \in Compartments, Pending(c), faults' = faults, Continue(c),
           row' = row, account' = account, range' = range, raced' = raced,
           Head1(c) \in {"lock", "unlock", "units", "setup", "quiesce", "deploy"}
    PROVE  Touches(c) /\ Local(c)'
  <1>1. OnTo(c) /\ ScriptAt(c)' = First(proc'[c].script)
    BY ContinueGoes DEF ScriptAt
  <1>2. <<ScriptAt(c), ScriptAt(c)'>> \in OrderOf(proc[c].op) /\ proc'[c].op = proc[c].op /\ ScriptAt(c) = Head1(c) /\ Proceeds(c)
    BY <1>1 DEF OnTo, Proceeds
  <1>3. /\ (Undisturbed' <=> Undisturbed) /\ (Undisturbed => Stage(c)) /\ UndoStage(c)
        /\ ~raced' => ~raced
    BY Before
  <1>4. /\ NoHelpers(c)' = NoHelpers(c) /\ Absent(c)' = Absent(c) /\ Made(c)' = Made(c)
        /\ Present(c)' = Present(c) /\ Anchored(c)' = Anchored(c)
    BY Standing
  <1>5. \/ proc[c].op = "create" /\ <<ScriptAt(c), ScriptAt(c)'>> \in
               {<<"lock", "choose">>, <<"unlock", "setup">>, <<"setup", "end">>}
        \/ proc[c].op = "start" /\ <<ScriptAt(c), ScriptAt(c)'>> \in {<<"lock", "choose">>, <<"unlock", "end">>}
        \/ proc[c].op = "delete" /\ <<ScriptAt(c), ScriptAt(c)'>> \in {<<"units", "account">>, <<"quiesce", "read">>}
        \/ proc[c].op = "undo" /\ <<ScriptAt(c), ScriptAt(c)'>> \in {<<"quiesce", "read">>}
        \/ proc[c].op \in {"add", "update"} /\ ScriptAt(c)' = "end"
    BY <1>2 DEF OrderOf, SubidOrder, UserOrder
  <1>6. ASSUME Undisturbed' PROVE Stage(c)'
    BY <1>2, <1>3, <1>4, <1>5, <1>6 DEF Stage, CreateStage, DeleteStage
  <1>7. UndoStage(c)'
    BY <1>2, <1>3, <1>5 DEF UndoStage
  <1>. QED
    BY <1>2, <1>3, <1>6, <1>7, Arrives

LEMMA InsertOwn ==
    ASSUME AInv, NEW c \in Compartments, Pending(c), faults' = faults,
           Head1(c) = "insert", Insert(c)
    PROVE  Touches(c) /\ Local(c)'
  <1>1. OnTo(c) /\ ScriptAt(c)' = First(proc'[c].script)
    BY ContinueGoes DEF ScriptAt, Insert
  <1>2. <<ScriptAt(c), ScriptAt(c)'>> \in OrderOf(proc[c].op) /\ proc'[c].op = proc[c].op /\ ScriptAt(c) = "insert" /\ Proceeds(c)
    BY <1>1 DEF OnTo, Proceeds
  <1>3. /\ row' = row \cup {c} /\ account' = account /\ range' = range /\ raced' = raced
    BY DEF Insert
  <1>4. (Undisturbed' <=> Undisturbed) /\ (Undisturbed => Stage(c)) /\ (~raced' => ~raced)
    BY <1>3, Before
  <1>5. proc[c].op = "create" /\ ScriptAt(c)' = "useradd"
    BY <1>2 DEF OrderOf, SubidOrder, UserOrder
  <1>6. ASSUME Undisturbed' PROVE Stage(c)'
    <2>1. Absent(c) /\ Anchored(c)
      BY <1>2, <1>4, <1>5, <1>6 DEF Stage, CreateStage
    <2>2. Absent(c)' /\ Anchored(c)'
      BY <1>3, <2>1 DEF Absent, NoHelpers, Anchored
    <2>. QED
      BY <1>2, <1>3, <1>5, <2>2 DEF Stage, CreateStage
  <1>7. UndoStage(c)'
    BY <1>2, <1>5 DEF UndoStage
  <1>. QED
    BY <1>2, <1>3, <1>4, <1>6, <1>7, Arrives

\* An account that is there already is not met undisturbed.
LEMMA UseraddOwn ==
    ASSUME NamesApart, AInv, NEW c \in Compartments, Pending(c), faults' = faults,
           Head1(c) = "useradd", Useradd(c)
    PROVE  Touches(c) /\ Local(c)'
  <1>1. row' = row /\ range' = range /\ raced' = raced
    BY DEF Useradd
  <1>2. (Undisturbed' <=> Undisturbed) /\ (Undisturbed => Stage(c)) /\ (~raced' => ~raced)
    BY <1>1, Before
  <1>3. /\ <<Head1(c), First(Rest(c))>> \in OrderOf(proc[c].op) /\ Head1(c) = ScriptAt(c)
    BY StepOrder DEF AInv, Local
  <1>4. proc[c].op = "create" /\ ScriptAt(c) = "useradd"
    BY <1>3 DEF OrderOf, SubidOrder, UserOrder
  <1>5. Undisturbed => Absent(c) /\ c \in row
    BY <1>2, <1>4 DEF Stage, CreateStage
  <1>6. CASE Exists(Service[c])
    <2>. DEFINE s == <<"setup">>
                r == [proc[c] EXCEPT !.script = s]
    <2>1. s \in Seq(Steps) /\ proc[c] \in Operations
      BY ScriptFacts, PendingFacts DEF AInv
    <2>2. r \in Operations /\ r.script = s /\ r.op = proc[c].op /\ r.names = proc[c].names
      BY <2>1 DEF Operations
    <2>3. proc' = [proc EXCEPT ![c] = r] /\ account' = account
      BY <1>6 DEF Useradd, Goto
    <2>4. RestOf(s, CreateScript)
      <3>1. Len(s) = 1 /\ s[1] = "setup"
        OBVIOUS
      <3>. HIDE DEF s
      <3>. QED
        BY <2>1, <3>1, ScriptSteps DEF RestOf
    <2>. HIDE DEF r
    <2>5. proc'[c] = r
      BY <2>3 DEF AInv, IInv, AcShape
    <2>6. Proceeds(c)
      BY <1>3, <1>4, <2>2, <2>3, <2>4, <2>5 DEF Proceeds, Scripted, ScriptsOf, NamesOwn, AInv, Local
    <2>7. ~Undisturbed'
      BY <1>2, <1>5, <1>6 DEF Absent, Exists
    <2>8. UndoStage(c)'
      BY <1>4, <2>2, <2>5 DEF UndoStage
    <2>. QED
      BY <1>1, <1>2, <2>3, <2>6, <2>7, <2>8, Arrives
  <1>7. CASE ~Exists(Service[c])
    <2>1. Continue(c) /\ account' = [account EXCEPT ![Service[c]] = System]
      BY <1>7 DEF Useradd
    <2>2. OnTo(c) /\ ScriptAt(c)' = First(proc'[c].script)
      BY <2>1, ContinueGoes DEF ScriptAt
    <2>3. <<ScriptAt(c), ScriptAt(c)'>> \in OrderOf(proc[c].op) /\ proc'[c].op = proc[c].op /\ Proceeds(c)
      BY <2>2 DEF OnTo, Proceeds
    <2>4. ScriptAt(c)' = "lock"
      BY <1>4, <2>3 DEF OrderOf, SubidOrder
    <2>5. account'[Service[c]] = System /\ \A u \in Uids : account'[Helper[<<c, u>>]] = account[Helper[<<c, u>>]]
      BY <2>1, AccountFacts DEF NamesApart, AInv, Held
    <2>6. ASSUME Undisturbed' PROVE Stage(c)'
      <3>1. NoHelpers(c)' /\ Made(c)'
        BY <1>1, <1>2, <1>5, <2>5, <2>6 DEF Absent, NoHelpers, Made
      <3>2. Anchored(c)'
        BY <3>1, AccountFacts DEF NoHelpers, Anchored
      <3>. QED
        BY <1>4, <2>3, <2>4, <3>1, <3>2 DEF Stage, CreateStage
    <2>7. UndoStage(c)'
      BY <1>4, <2>3 DEF UndoStage
    <2>. QED
      BY <1>1, <1>2, <2>1, <2>3, <2>6, <2>7, AccountFacts, Arrives
  <1>. QED
    BY <1>6, <1>7

\* A range is chosen by a compartment without one; who has one skips the assignment.
LEMMA ChooseOwn ==
    ASSUME AInv, NEW c \in Compartments, Pending(c), faults' = faults,
           Head1(c) = "choose", Choose(c)
    PROVE  Touches(c) /\ Local(c)'
  <1>1. row' = row /\ account' = account /\ range' = range /\ raced' = raced
    BY DEF Choose, files
  <1>2. (Undisturbed' <=> Undisturbed) /\ (Undisturbed => Stage(c)) /\ (~raced' => ~raced)
    BY <1>1, Before
  <1>3. /\ <<Head1(c), First(Rest(c))>> \in OrderOf(proc[c].op) /\ Head1(c) = ScriptAt(c)
        /\ \E script \in ScriptsOf(proc[c].op) : RestOf(Rest(c), script)
    BY StepOrder DEF AInv, Local
  <1>4. proc[c].op \in {"create", "start"} /\ ScriptAt(c) = "choose" /\ First(Rest(c)) = "assign"
    BY <1>3 DEF OrderOf, SubidOrder, UserOrder
  <1>5. /\ NoHelpers(c)' = NoHelpers(c) /\ Absent(c)' = Absent(c) /\ Made(c)' = Made(c)
        /\ Present(c)' = Present(c) /\ Anchored(c)' = Anchored(c)
    BY <1>1, Standing
  <1>6. Rest(c) \in Seq(Steps) /\ proc[c] \in Operations
    BY PendingFacts DEF AInv
  <1>7. CASE range[c] # 0
    <2>. DEFINE t == Rest(c)
                r == [proc[c] EXCEPT !.script = Tail(t)]
    <2>1. PICK script \in ScriptsOf(proc[c].op) : RestOf(t, script)
      BY <1>3
    <2>2. proc[c].op \in Ops /\ t # <<>> /\ t[1] = "assign"
      BY <1>4 DEF First, Ops
    <2>3. RestOf(Tail(t), script) /\ <<"assign", First(Tail(t))>> \in OrderOf(proc[c].op)
      BY <2>1, <2>2, RestOrder
    <2>4. First(Tail(t)) = "unlock"
      BY <1>4, <2>3 DEF OrderOf, SubidOrder
    <2>5. Tail(t) \in Seq(Steps)
      BY <2>3 DEF RestOf
    <2>6. r \in Operations /\ r.script = Tail(t) /\ r.op = proc[c].op /\ r.names = proc[c].names
      BY <1>6, <2>5 DEF Operations
    <2>7. proc' = [proc EXCEPT ![c] = r]
      BY <1>7 DEF Choose, Goto
    <2>. HIDE DEF r, t
    <2>8. proc'[c] = r
      BY <2>7 DEF AInv, IInv, AcShape
    <2>9. Proceeds(c)
      BY <1>3, <2>3, <2>6, <2>7, <2>8 DEF Proceeds, Scripted, NamesOwn, AInv, Local
    <2>10. ScriptAt(c)' = "unlock"
      BY <2>4, <2>6, <2>8 DEF ScriptAt
    <2>11. ASSUME Undisturbed' PROVE Stage(c)'
      BY <1>1, <1>2, <1>4, <1>5, <1>7, <2>6, <2>8, <2>10, <2>11 DEF Stage, CreateStage, Present
    <2>12. UndoStage(c)'
      BY <1>4, <2>6, <2>8 DEF UndoStage
    <2>. QED
      BY <1>1, <1>2, <2>9, <2>11, <2>12, Arrives
  <1>8. CASE range[c] = 0
    <2>. DEFINE start == 1 + Max({range[d] : d \in Compartments})
                r == [proc[c] EXCEPT !.script = Rest(c), !.chosen = start]
    <2>1. start \in Nat
      BY AboveAll DEF AInv, IInv
    <2>2. proc' = [proc EXCEPT ![c] = r]
      BY <1>8 DEF Choose
    <2>. HIDE DEF start
    <2>3. r \in Operations /\ r.script = Rest(c) /\ r.op = proc[c].op /\ r.names = proc[c].names
      BY <1>6, <2>1 DEF Operations
    <2>4. r.names \subseteq HelpersOf(c)
      BY <2>3 DEF AInv, Local, NamesOwn
    <2>. HIDE DEF r
    <2>5. OnTo(c) /\ proc'[c] = r
      BY <2>2, <2>3, <2>4, GoesOnTo
    <2>6. Proceeds(c) /\ ScriptAt(c)' = "assign"
      BY <1>4, <2>3, <2>5 DEF OnTo, ScriptAt
    <2>7. ASSUME Undisturbed' PROVE Stage(c)'
      BY <1>1, <1>2, <1>4, <1>5, <1>8, <2>3, <2>5, <2>6, <2>7 DEF Stage, CreateStage
    <2>8. UndoStage(c)'
      BY <1>4, <2>3, <2>5 DEF UndoStage
    <2>. QED
      BY <1>1, <1>2, <2>6, <2>7, <2>8, Arrives
  <1>. QED
    BY <1>7, <1>8

\* What is assigned is a range; only a compartment that is being made, or one that is gone,
\* is without.
LEMMA AssignOwn ==
    ASSUME AInv, NEW c \in Compartments, Pending(c), faults' = faults,
           Head1(c) = "assign", Assign(c)
    PROVE  Touches(c) /\ Local(c)'
  <1>1. OnTo(c) /\ ScriptAt(c)' = First(proc'[c].script)
    BY ContinueGoes DEF ScriptAt, Assign
  <1>2. <<ScriptAt(c), ScriptAt(c)'>> \in OrderOf(proc[c].op) /\ proc'[c].op = proc[c].op /\ ScriptAt(c) = "assign" /\ Proceeds(c)
    BY <1>1 DEF OnTo, Proceeds
  <1>3. /\ row' = row /\ account' = account /\ range' = [range EXCEPT ![c] = proc[c].chosen]
        /\ raced' = raced
    BY DEF Assign
  <1>4. (Undisturbed' <=> Undisturbed) /\ (Undisturbed => Stage(c)) /\ (~raced' => ~raced)
    BY <1>3, Before
  <1>5. proc[c].op \in {"create", "start"} /\ ScriptAt(c)' = "unlock"
    BY <1>2 DEF OrderOf, SubidOrder, UserOrder
  <1>6. range \in [Compartments -> Nat] /\ proc[c].chosen \in Nat
    BY PendingFacts DEF AInv, IInv, AcShape, Operations
  <1>7. \A d \in Compartments \ {c} : range'[d] = range[d]
    BY <1>3, <1>6
  <1>8. ~raced => range'[c] # 0
    <2>1. NextIs(c, {"assign"})
      BY PendingFacts DEF AInv, NextIs, Pending
    <2>2. ~raced => range[c] < proc[c].chosen
      BY <2>1 DEF AInv, IInv, ChosenIsNew
    <2>3. range'[c] = proc[c].chosen /\ range[c] \in Nat
      BY <1>3, <1>6
    <2>. QED
      BY <1>6, <2>2, <2>3
  <1>9. ASSUME Undisturbed' PROVE Stage(c)'
    <2>1. range'[c] # 0 /\ Stage(c) /\ range[c] = 0
      BY <1>2, <1>4, <1>8, <1>9 DEF Undisturbed, Stage
    <2>2. /\ proc[c].op = "create" => Made(c)
          /\ proc[c].op = "start" => c \notin row /\ Absent(c)
          /\ NoHelpers(c)
      BY <1>2, <1>5, <2>1 DEF Stage, CreateStage, Present, Absent
    <2>3. NoHelpers(c)' /\ Made(c)' = Made(c) /\ Absent(c)' = Absent(c)
      BY <1>3, <2>2 DEF NoHelpers, Made, Absent
    <2>4. Anchored(c)'
      BY <2>3, AccountFacts DEF NoHelpers, Anchored
    <2>. QED
      BY <1>2, <1>3, <1>5, <2>1, <2>2, <2>3, <2>4 DEF Stage, CreateStage, Present
  <1>10. UndoStage(c)'
    BY <1>2, <1>5 DEF UndoStage
  <1>. QED
    BY <1>2, <1>3, <1>4, <1>7, <1>9, <1>10, Arrives

\* After "account", a deletion and a roll-back have only the row to erase.
LEMMA AccountRest ==
    ASSUME NEW script \in {DeleteScript, UndoScript, EndScript}, NEW s, RestOf(s, script),
           s # <<>>, s[1] = "account"
    PROVE  Tail(s) = <<"erase">>
  <1>1. Len(script) \in 2..7 /\ Len(s) \in 1..Len(script) /\ s \in Seq(Steps)
    <2>1. Len(script) \in 2..7
      BY ScriptSteps DEF DeleteScript, UndoScript
    <2>. QED
      BY <2>1 DEF RestOf
  <1>2. s[1] = script[Len(script) - Len(s) + 1]
    BY <1>1 DEF RestOf
  <1>. DEFINE i == Len(script) - Len(s) + 1
  <1>3. i \in 1..Len(script) /\ script[i] = "account"
    BY <1>1, <1>2
  <1>. HIDE DEF i
  <1>4. script # EndScript
    <2>. SUFFICES ASSUME script = EndScript PROVE FALSE
      OBVIOUS
    <2>1. i \in 1..7 /\ EndScript[i] = "account"
      BY <1>3, ScriptSteps
    <2>. QED
      BY <2>1, ScriptSteps
  <1>5. script[Len(script)] = "erase" /\ i = Len(script) - 1
    <2>1. CASE script = DeleteScript
      BY <1>3, <2>1 DEF DeleteScript
    <2>2. CASE script = UndoScript
      BY <1>3, <2>2 DEF UndoScript
    <2>. QED
      BY <1>4, <2>1, <2>2
  <1>6. Len(s) = 2
    <2>. DEFINE m == Len(s)
                n == Len(script)
    <2>1. n - m + 1 = n - 1 /\ m \in Int /\ n \in Int
      BY <1>1, <1>5 DEF i
    <2>. HIDE DEF m, n
    <2>2. m = 2
      BY <2>1
    <2>. QED
      BY <2>2 DEF m
  <1>7. s[2] = "erase"
    BY <1>1, <1>5, <1>6 DEF RestOf
  <1>. DEFINE t == Tail(s)
  <1>8. t \in Seq(Steps) /\ Len(t) = 1 /\ t[1] = "erase"
    <2>1. /\ t \in Seq(Steps) /\ Len(t) = Len(s) - 1
          /\ \A j \in 1..(Len(s) - 1) : t[j] = s[j + 1]
      BY <1>1
    <2>. HIDE DEF t
    <2>. QED
      BY <2>1, <1>6, <1>7
  <1>. HIDE DEF t
  <1>9. t = <<"erase">>
    BY <1>8
  <1>. QED
    BY <1>9 DEF t

LEMMA AccountOwn ==
    ASSUME AInv, NEW c \in Compartments, Pending(c), faults' = faults,
           Head1(c) = "account", Account(c)
    PROVE  Touches(c) /\ Local(c)'
  <1>1. row' = row /\ account' = account /\ range' = range /\ raced' = raced
    BY DEF Account, files
  <1>2. /\ (Undisturbed' <=> Undisturbed) /\ (Undisturbed => Stage(c)) /\ UndoStage(c) /\ Scripted(c)
        /\ ~raced' => ~raced
    BY <1>1, Before
  <1>3. <<Head1(c), First(Rest(c))>> \in OrderOf(proc[c].op) /\ Head1(c) = ScriptAt(c)
    BY StepOrder DEF AInv, Local
  <1>4. proc[c].op \in {"delete", "undo"} /\ ScriptAt(c) = "account"
    BY <1>3 DEF OrderOf, SubidOrder, UserOrder
  <1>5. /\ NoHelpers(c)' = NoHelpers(c) /\ Absent(c)' = Absent(c) /\ Made(c)' = Made(c)
        /\ Present(c)' = Present(c) /\ Anchored(c)' = Anchored(c)
    BY <1>1, Standing
  <1>6. Rest(c) = <<"erase">>
    <2>1. proc[c].script # <<>> /\ proc[c].script[1] = "account" /\ Rest(c) = Tail(proc[c].script)
      BY PendingFacts DEF AInv, Pending, Rest
    <2>2. PICK script \in ScriptsOf(proc[c].op) : RestOf(proc[c].script, script)
      BY <1>2 DEF Scripted
    <2>3. script \in {DeleteScript, UndoScript, EndScript}
      BY <1>4, <2>2 DEF ScriptsOf
    <2>. QED
      BY <2>1, <2>2, <2>3, AccountRest
  <1>7. CASE Exists(Service[c])
    <2>. DEFINE r == [proc[c] EXCEPT !.script = EndScript]
    <2>1. EndScript \in Seq(Steps) /\ proc[c] \in Operations
      BY ScriptSteps, PendingFacts DEF AInv, ScriptsOf, Ops
    <2>2. r \in Operations /\ r.script = EndScript /\ r.op = proc[c].op /\ r.names = proc[c].names
      BY <2>1 DEF Operations
    <2>3. proc' = [proc EXCEPT ![c] = r]
      BY <1>6, <1>7 DEF Account, Goto, EndScript
    <2>4. RestOf(EndScript, EndScript)
      BY <2>1, WholeScript
    <2>. HIDE DEF r
    <2>5. proc'[c] = r
      BY <2>3 DEF AInv, IInv, AcShape
    <2>6. Proceeds(c)
      BY <1>3, <1>4, <2>2, <2>3, <2>4, <2>5 DEF Proceeds, Scripted, ScriptsOf, NamesOwn, AInv, Local
    <2>7. ScriptAt(c)' = "quiesce"
      <3>1. EndScript # <<>> /\ EndScript[1] = "quiesce"
        BY ScriptSteps
      <3>. QED
        BY <2>2, <2>5, <3>1 DEF ScriptAt, First
    <2>8. ASSUME Undisturbed' PROVE Stage(c)'
      BY <1>1, <1>2, <1>4, <1>5, <2>2, <2>5, <2>7, <2>8 DEF Stage, DeleteStage
    <2>9. UndoStage(c)'
      BY <1>2, <1>4, <2>2, <2>5, <2>7 DEF UndoStage
    <2>. QED
      BY <1>1, <1>2, <2>6, <2>8, <2>9, Arrives
  <1>8. CASE ~Exists(Service[c])
    <2>1. Continue(c)
      BY <1>8 DEF Account, Continue
    <2>2. OnTo(c) /\ ScriptAt(c)' = First(proc'[c].script)
      BY <2>1, ContinueGoes DEF ScriptAt
    <2>3. proc'[c].op = proc[c].op /\ Proceeds(c) /\ ScriptAt(c)' = "erase"
      BY <1>4, <2>2 DEF OnTo, Proceeds, OrderOf, UserOrder
    <2>4. ~Undisturbed'
      BY <1>2, <1>4, <1>8, AccountFacts DEF Stage, DeleteStage, Present, Made, Exists
    <2>5. UndoStage(c)'
      BY <1>1, <1>2, <1>4, <1>8, <2>3 DEF UndoStage, Exists
    <2>. QED
      BY <1>1, <1>2, <2>3, <2>4, <2>5, Arrives
  <1>. QED
    BY <1>7, <1>8

\* A deletion reads the file with its compartment's entry in it ...
LEMMA ReadOwn ==
    ASSUME AInv, NEW c \in Compartments, Pending(c), faults' = faults,
           Head1(c) = "read", Read(c)
    PROVE  Touches(c) /\ Local(c)'
  <1>1. row' = row /\ account' = account /\ range' = range /\ raced' = raced
    BY DEF Read, files
  <1>2. /\ (Undisturbed' <=> Undisturbed) /\ (Undisturbed => Stage(c)) /\ UndoStage(c)
        /\ ~raced' => ~raced
    BY <1>1, Before
  <1>. DEFINE r == [proc[c] EXCEPT !.script = Rest(c), !.seen = range]
  <1>3. Rest(c) \in Seq(Steps) /\ proc[c] \in Operations /\ range \in [Compartments -> Nat]
    BY PendingFacts DEF AInv, IInv, AcShape
  <1>4. /\ r \in Operations /\ r.script = Rest(c) /\ r.op = proc[c].op /\ r.names = proc[c].names
        /\ r.seen = range
    BY <1>3 DEF Operations
  <1>5. proc' = [proc EXCEPT ![c] = r]
    BY DEF Read
  <1>6. r.names \subseteq HelpersOf(c)
    BY <1>4 DEF AInv, Local, NamesOwn
  <1>. HIDE DEF r
  <1>7. OnTo(c) /\ proc'[c] = r
    BY <1>4, <1>5, <1>6, GoesOnTo
  <1>8. <<ScriptAt(c), ScriptAt(c)'>> \in OrderOf(proc[c].op) /\ ScriptAt(c) = "read" /\ Proceeds(c)
    BY <1>7 DEF OnTo, Proceeds, ScriptAt
  <1>9. proc[c].op \in {"delete", "undo"} /\ ScriptAt(c)' = "rewrite"
    BY <1>8 DEF OrderOf, SubidOrder, UserOrder
  <1>10. /\ Present(c)' = Present(c) /\ Anchored(c)' = Anchored(c)
    BY <1>1, Standing
  <1>11. ASSUME Undisturbed' PROVE Stage(c)'
    <2>1. Present(c) /\ Anchored(c) /\ proc[c].op = "delete"
      BY <1>2, <1>8, <1>9, <1>11 DEF Stage, DeleteStage
    <2>. QED
      BY <1>1, <1>4, <1>7, <1>9, <1>10, <2>1 DEF Stage, DeleteStage, Present
  <1>12. UndoStage(c)'
    BY <1>1, <1>2, <1>4, <1>7, <1>9 DEF UndoStage
  <1>. QED
    BY <1>1, <1>2, <1>8, <1>11, <1>12, Arrives

\* ... and writes it without.
LEMMA RewriteOwn ==
    ASSUME AInv, NEW c \in Compartments, Pending(c), faults' = faults,
           Head1(c) = "rewrite", Rewrite(c)
    PROVE  Touches(c) /\ Local(c)'
  <1>1. OnTo(c) /\ ScriptAt(c)' = First(proc'[c].script)
    BY ContinueGoes DEF ScriptAt, Rewrite
  <1>2. <<ScriptAt(c), ScriptAt(c)'>> \in OrderOf(proc[c].op) /\ proc'[c].op = proc[c].op /\ ScriptAt(c) = "rewrite" /\ Proceeds(c)
    BY <1>1 DEF OnTo, Proceeds
  <1>3. proc[c].op \in {"delete", "undo"} /\ ScriptAt(c)' = "userdel"
    BY <1>2 DEF OrderOf, SubidOrder, UserOrder
  <1>4. row' = row /\ account' = account
    BY DEF Rewrite
  <1>5. /\ range \in [Compartments -> Nat] /\ proc[c].seen \in [Compartments -> Nat]
        /\ raced \in BOOLEAN
    BY PendingFacts DEF AInv, IInv, AcShape, Operations
  <1>6. ~raced' => ~raced /\ \A d \in Compartments \ {c} : range'[d] = range[d]
    <2>1. CASE proc[c].seen[c] = 0
      BY <2>1 DEF Rewrite
    <2>2. CASE proc[c].seen[c] # 0
      <3>1. range' = [proc[c].seen EXCEPT ![c] = 0] /\ raced' = (raced \/ range # proc[c].seen)
        BY <2>2 DEF Rewrite
      <3>. QED
        BY <1>5, <3>1
    <2>. QED
      BY <2>1, <2>2
  <1>7. ASSUME Undisturbed' PROVE Stage(c)'
    <2>1. Undisturbed
      BY <1>6, <1>7 DEF Undisturbed
    <2>2. Stage(c)
      BY <2>1 DEF AInv, Local
    <2>3. proc[c].op = "delete" /\ proc[c].seen[c] # 0
      BY <1>2, <1>3, <2>2 DEF Stage, DeleteStage
    <2>4. range'[c] = 0
      BY <1>5, <2>3 DEF Rewrite
    <2>5. Anchored(c)'
      BY <2>4 DEF Anchored
    <2>. QED
      BY <1>2, <1>3, <2>3, <2>4, <2>5 DEF Stage, DeleteStage
  <1>8. UndoStage(c)'
    BY <1>2, <1>3 DEF UndoStage, AInv, Local
  <1>. QED
    BY <1>2, <1>4, <1>6, <1>7, <1>8, Arrives

LEMMA UserdelOwn ==
    ASSUME NamesApart, AInv, NEW c \in Compartments, Pending(c), faults' = faults,
           Head1(c) = "userdel", Userdel(c)
    PROVE  Touches(c) /\ Local(c)'
  <1>1. OnTo(c) /\ ScriptAt(c)' = First(proc'[c].script)
    BY ContinueGoes DEF ScriptAt, Userdel
  <1>2. <<ScriptAt(c), ScriptAt(c)'>> \in OrderOf(proc[c].op) /\ proc'[c].op = proc[c].op /\ ScriptAt(c) = "userdel" /\ Proceeds(c)
    BY <1>1 DEF OnTo, Proceeds
  <1>3. proc[c].op \in {"delete", "undo"} /\ ScriptAt(c)' = "helpers"
    BY <1>2 DEF OrderOf, SubidOrder, UserOrder
  <1>4. /\ row' = row /\ range' = range /\ raced' = raced
        /\ account' = [account EXCEPT ![Service[c]] = NoAccount]
    BY DEF Userdel
  <1>5. /\ (Undisturbed' <=> Undisturbed) /\ (Undisturbed => Stage(c)) /\ UndoStage(c)
        /\ ~raced' => ~raced
    BY <1>4, Before
  <1>6. account'[Service[c]] = NoAccount
    BY <1>4, AccountFacts DEF AInv, Held
  <1>7. ASSUME Undisturbed' PROVE Stage(c)'
    <2>1. proc[c].op = "delete" /\ range[c] = 0
      BY <1>2, <1>3, <1>5, <1>7 DEF Stage, DeleteStage
    <2>2. Anchored(c)'
      BY <1>4, <2>1 DEF Anchored
    <2>. QED
      BY <1>2, <1>3, <1>4, <1>6, <2>1, <2>2 DEF Stage, DeleteStage
  <1>8. UndoStage(c)'
    BY <1>2, <1>3, <1>4, <1>5, <1>6 DEF UndoStage
  <1>. QED
    BY <1>2, <1>4, <1>5, <1>7, <1>8, AccountFacts, Arrives

\* The names that are there now, of helpers of the compartment.
LEMMA ListOwn ==
    ASSUME AInv, NEW c \in Compartments, Pending(c), faults' = faults,
           \/ Head1(c) = "helpers" /\ Helpers(c)
           \/ Head1(c) = "unwanted" /\ Unwanted(c)
    PROVE  Touches(c) /\ Local(c)'
  <1>1. PICK some \in SUBSET HelpersOf(c) : List(c, some) /\ (Head1(c) = "helpers" => some = HelpersOf(c))
    <2>1. {Helper[<<c, u>>] : u \in Uids \ proc[c].wanted} \subseteq HelpersOf(c)
      BY DEF HelpersOf
    <2>. QED
      BY <2>1 DEF Helpers, Unwanted
  <1>2. row' = row /\ account' = account /\ range' = range /\ raced' = raced
    BY <1>1 DEF List, files
  <1>3. /\ (Undisturbed' <=> Undisturbed) /\ (Undisturbed => Stage(c)) /\ UndoStage(c)
        /\ ~raced' => ~raced
    BY <1>2, Before
  <1>. DEFINE there == {n \in some : Exists(n)}
              r == [proc[c] EXCEPT !.script = Rest(c), !.names = there]
  <1>4. HelpersOf(c) \subseteq Names
    BY AccountFacts DEF HelpersOf
  <1>5. Rest(c) \in Seq(Steps) /\ proc[c] \in Operations
    BY PendingFacts DEF AInv
  <1>6. proc' = [proc EXCEPT ![c] = r]
    BY <1>1 DEF List
  <1>7. there \subseteq HelpersOf(c)
    OBVIOUS
  <1>8. \A n \in some : n \in there \/ account[n] = NoAccount
    BY DEF Exists
  <1>. HIDE DEF there
  <1>9. r \in Operations /\ r.script = Rest(c) /\ r.op = proc[c].op /\ r.names = there
    BY <1>4, <1>5, <1>7 DEF Operations
  <1>. HIDE DEF r
  <1>10. OnTo(c) /\ proc'[c] = r
    BY <1>6, <1>7, <1>9, GoesOnTo
  <1>11. <<ScriptAt(c), ScriptAt(c)'>> \in OrderOf(proc[c].op) /\ ScriptAt(c) = Head1(c) /\ Proceeds(c)
    BY <1>10 DEF OnTo, Proceeds, ScriptAt
  <1>12. \/ proc[c].op \in {"delete", "undo"} /\ ScriptAt(c) = "helpers" /\ ScriptAt(c)' = "remove"
         \/ proc[c].op \in {"add", "update"} /\ ScriptAt(c) = "unwanted" /\ ScriptAt(c)' = "remove"
    BY <1>11 DEF OrderOf, SubidOrder, UserOrder
  <1>13. Present(c)' = Present(c) /\ Anchored(c)' = Anchored(c)
    BY <1>2, Standing
  <1>14. ASSUME Undisturbed' PROVE Stage(c)'
    <2>1. CASE proc[c].op = "delete"
      <3>1. range[c] = 0 /\ account[Service[c]] = NoAccount /\ Anchored(c)
        BY <1>3, <1>12, <1>14, <2>1 DEF Stage, DeleteStage
      <3>2. \A u \in Uids : Helper[<<c, u>>] \in there \/ account[Helper[<<c, u>>]] = NoAccount
        BY <1>1, <1>8, <1>11, <1>12, <2>1 DEF HelpersOf
      <3>. QED
        BY <1>2, <1>9, <1>10, <1>12, <1>13, <2>1, <3>1, <3>2 DEF Stage, DeleteStage
    <2>2. CASE proc[c].op \in {"add", "update"}
      BY <1>2, <1>3, <1>9, <1>10, <1>12, <1>13, <1>14, <2>2 DEF Stage
    <2>3. proc[c].op # "undo"
      BY <1>3, <1>14 DEF Stage
    <2>. QED
      BY <1>12, <2>1, <2>2, <2>3
  <1>15. UndoStage(c)'
    BY <1>2, <1>3, <1>9, <1>10, <1>12 DEF UndoStage
  <1>. QED
    BY <1>2, <1>3, <1>11, <1>14, <1>15, Arrives

\* When the listed names are all gone, nothing is left of a deleted compartment's helpers.
LEMMA RemoveHelperOwn ==
    ASSUME NamesApart, AInv, NEW c \in Compartments, Pending(c), faults' = faults,
           Head1(c) = "remove", RemoveHelper(c)
    PROVE  Touches(c) /\ Local(c)'
  <1>1. row' = row /\ range' = range /\ raced' = raced
    BY DEF RemoveHelper
  <1>2. /\ (Undisturbed' <=> Undisturbed) /\ (Undisturbed => Stage(c)) /\ UndoStage(c)
        /\ ~raced' => ~raced
    BY <1>1, Before
  <1>3. <<Head1(c), First(Rest(c))>> \in OrderOf(proc[c].op) /\ Head1(c) = ScriptAt(c)
    BY StepOrder DEF AInv, Local
  <1>4. \/ proc[c].op \in {"delete", "undo"} /\ ScriptAt(c) = "remove" /\ First(Rest(c)) = "erase"
        \/ proc[c].op \in {"add", "update"} /\ ScriptAt(c) = "remove" /\ First(Rest(c)) = "deploy"
    BY <1>3 DEF OrderOf, SubidOrder, UserOrder
  <1>5. CASE proc[c].names = {}
    <2>1. Continue(c) /\ account' = account
      BY <1>5 DEF RemoveHelper
    <2>2. OnTo(c) /\ ScriptAt(c)' = First(Rest(c))
      <3>1. OnTo(c) /\ proc'[c] = [proc[c] EXCEPT !.script = Rest(c)]
        BY <2>1, ContinueGoes
      <3>2. proc[c] \in Operations
        BY PendingFacts DEF AInv
      <3>. QED
        BY <3>1, <3>2 DEF ScriptAt, Operations
    <2>3. proc'[c].op = proc[c].op /\ Proceeds(c)
      BY <2>2 DEF OnTo, Proceeds
    <2>4. NoHelpers(c)' = NoHelpers(c) /\ Present(c)' = Present(c) /\ Anchored(c)' = Anchored(c)
      BY <1>1, <2>1, Standing
    <2>5. ASSUME Undisturbed' PROVE Stage(c)'
      <3>1. Stage(c)
        BY <1>2, <2>5
      <3>2. CASE proc[c].op = "delete"
        <4>1. /\ range[c] = 0 /\ account[Service[c]] = NoAccount /\ Anchored(c)
              /\ \A u \in Uids : account[Helper[<<c, u>>]] = NoAccount
          BY <1>4, <1>5, <3>1, <3>2 DEF Stage, DeleteStage
        <4>2. NoHelpers(c)
          BY <4>1 DEF NoHelpers
        <4>. QED
          BY <1>1, <1>4, <2>1, <2>2, <2>3, <2>4, <3>2, <4>1, <4>2 DEF Stage, DeleteStage
      <3>3. CASE proc[c].op \in {"add", "update"}
        BY <1>1, <1>4, <2>2, <2>3, <2>4, <3>1, <3>3 DEF Stage
      <3>. QED
        BY <1>4, <3>1, <3>2, <3>3 DEF Stage
    <2>6. UndoStage(c)'
      BY <1>1, <1>2, <1>4, <2>1, <2>2, <2>3 DEF UndoStage
    <2>. QED
      BY <1>1, <1>2, <2>1, <2>3, <2>5, <2>6, Arrives
  <1>6. CASE proc[c].names # {}
    <2>1. PICK n \in proc[c].names :
             /\ account' = [account EXCEPT ![n] = NoAccount]
             /\ proc' = [proc EXCEPT ![c].names = @ \ {n}]
      BY <1>6 DEF RemoveHelper
    <2>. DEFINE r == [proc[c] EXCEPT !.names = @ \ {n}]
    <2>2. proc[c] \in Operations /\ n \in HelpersOf(c) /\ proc[c].names \subseteq HelpersOf(c)
      BY <2>1, PendingFacts DEF AInv, Local, NamesOwn
    <2>3. /\ r \in Operations /\ r.op = proc[c].op /\ r.script = proc[c].script
          /\ r.names = proc[c].names \ {n}
      BY <2>2 DEF Operations
    <2>4. proc' = [proc EXCEPT ![c] = r]
      BY <2>1
    <2>. HIDE DEF r
    <2>5. proc'[c] = r
      BY <2>4 DEF AInv, IInv, AcShape
    <2>6. Proceeds(c) /\ ScriptAt(c)' = ScriptAt(c)
      BY <1>3, <2>2, <2>3, <2>4, <2>5 DEF Proceeds, Scripted, NamesOwn, ScriptAt, AInv, Local
    <2>7. /\ account'[Service[c]] = account[Service[c]]
          /\ \A u \in Uids : \/ Helper[<<c, u>>] = n /\ account'[Helper[<<c, u>>]] = NoAccount
                             \/ Helper[<<c, u>>] # n /\ account'[Helper[<<c, u>>]] = account[Helper[<<c, u>>]]
      <3>1. n # Service[c]
        BY <2>2 DEF HelpersOf, NamesApart
      <3>. QED
        BY <2>1, <3>1, AccountFacts DEF AInv, Held
    <2>8. ASSUME Undisturbed' PROVE Stage(c)'
      <3>1. Stage(c)
        BY <1>2, <2>8
      <3>2. Anchored(c)'
        BY <1>1, <2>7, <3>1, AccountFacts DEF Stage, Anchored
      <3>3. CASE proc[c].op = "delete"
        <4>1. /\ range[c] = 0 /\ account[Service[c]] = NoAccount
              /\ \A u \in Uids : Helper[<<c, u>>] \in proc[c].names \/ account[Helper[<<c, u>>]] = NoAccount
          BY <1>4, <3>1, <3>3 DEF Stage, DeleteStage
        <4>2. \A u \in Uids : Helper[<<c, u>>] \in proc'[c].names \/ account'[Helper[<<c, u>>]] = NoAccount
          BY <2>3, <2>5, <2>7, <4>1
        <4>. QED
          BY <1>1, <1>4, <2>3, <2>5, <2>6, <2>7, <3>2, <3>3, <4>1, <4>2 DEF Stage, DeleteStage
      <3>4. CASE proc[c].op \in {"add", "update"}
        BY <1>1, <1>4, <2>3, <2>5, <2>6, <2>7, <3>1, <3>2, <3>4 DEF Stage, Present, Made
      <3>. QED
        BY <1>4, <3>1, <3>3, <3>4 DEF Stage
    <2>9. UndoStage(c)'
      BY <1>1, <1>2, <1>4, <2>3, <2>5, <2>6, <2>7 DEF UndoStage
    <2>. QED
      BY <1>1, <1>2, <2>1, <2>2, <2>6, <2>8, <2>9, AccountFacts, Arrives
  <1>. QED
    BY <1>5, <1>6

LEMMA EraseOwn ==
    ASSUME AInv, NEW c \in Compartments, Pending(c), faults' = faults,
           Head1(c) = "erase", Erase(c)
    PROVE  Touches(c) /\ Local(c)'
  <1>1. OnTo(c) /\ ScriptAt(c)' = First(proc'[c].script)
    BY ContinueGoes DEF ScriptAt, Erase
  <1>2. <<ScriptAt(c), ScriptAt(c)'>> \in OrderOf(proc[c].op) /\ proc'[c].op = proc[c].op /\ ScriptAt(c) = "erase" /\ Proceeds(c)
    BY <1>1 DEF OnTo, Proceeds
  <1>3. proc[c].op \in {"delete", "undo"} /\ ScriptAt(c)' = "end"
    BY <1>2 DEF OrderOf, SubidOrder, UserOrder
  <1>4. row' = row \ {c} /\ account' = account /\ range' = range /\ raced' = raced
    BY DEF Erase
  <1>5. /\ (Undisturbed' <=> Undisturbed) /\ (Undisturbed => Stage(c)) /\ UndoStage(c)
        /\ ~raced' => ~raced
    BY <1>4, Before
  <1>6. ASSUME Undisturbed' PROVE Stage(c)'
    <2>1. /\ proc[c].op = "delete" /\ range[c] = 0 /\ account[Service[c]] = NoAccount
          /\ NoHelpers(c) /\ Anchored(c)
      BY <1>2, <1>3, <1>5, <1>6 DEF Stage, DeleteStage
    <2>2. NoHelpers(c)' /\ Anchored(c)'
      BY <1>4, <2>1 DEF NoHelpers, Anchored
    <2>. QED
      BY <1>2, <1>3, <1>4, <2>1, <2>2 DEF Stage, DeleteStage
  <1>7. UndoStage(c)'
    BY <1>2, <1>3, <1>4, <1>5 DEF UndoStage
  <1>. QED
    BY <1>2, <1>4, <1>5, <1>6, <1>7, Arrives

\* A helper is made in the range its compartment has.
LEMMA SyncOwn ==
    ASSUME NamesApart, AInv, NEW c \in Compartments, Pending(c), faults' = faults,
           Head1(c) = "sync", Sync(c)
    PROVE  Touches(c) /\ Local(c)'
  <1>1. row' = row /\ range' = range /\ raced' = raced
    BY DEF Sync
  <1>2. /\ (Undisturbed' <=> Undisturbed) /\ (Undisturbed => Stage(c)) /\ UndoStage(c)
        /\ ~raced' => ~raced
    BY <1>1, Before
  <1>3. <<Head1(c), First(Rest(c))>> \in OrderOf(proc[c].op) /\ Head1(c) = ScriptAt(c)
    BY StepOrder DEF AInv, Local
  <1>4. proc[c].op \in {"add", "update"} /\ ScriptAt(c) = "sync" /\ First(Rest(c)) = "unwanted"
    BY <1>3 DEF OrderOf, SubidOrder, UserOrder
  <1>5. CASE Missing(c) = {}
    <2>1. Continue(c) /\ account' = account
      BY <1>5 DEF Sync
    <2>2. OnTo(c) /\ ScriptAt(c)' = First(proc'[c].script)
      BY <2>1, ContinueGoes DEF ScriptAt
    <2>3. proc'[c].op = proc[c].op /\ Proceeds(c) /\ ScriptAt(c)' = "unwanted"
      BY <1>4, <2>2 DEF OnTo, Proceeds, OrderOf
    <2>4. Present(c)' = Present(c) /\ Anchored(c)' = Anchored(c)
      BY <1>1, <2>1, Standing
    <2>5. ASSUME Undisturbed' PROVE Stage(c)'
      BY <1>2, <1>4, <2>3, <2>4, <2>5 DEF Stage
    <2>6. UndoStage(c)'
      BY <1>4, <2>3 DEF UndoStage
    <2>. QED
      BY <1>1, <1>2, <2>1, <2>3, <2>5, <2>6, Arrives
  <1>6. CASE Missing(c) # {}
    <2>. DEFINE v == [kind |-> "helper", start |-> range[c]]
    <2>1. PICK u \in Missing(c) : account' = [account EXCEPT ![Helper[<<c, u>>]] = v]
      BY <1>6 DEF Sync
    <2>2. proc' = [proc EXCEPT ![c].script = proc[c].script]
      BY <1>6 DEF Sync, Keep, Goto
    <2>3. proc[c] \in Operations /\ proc \in [Compartments -> Operations] /\ range[c] \in Nat
      BY PendingFacts DEF AInv, IInv, AcShape
    <2>4. u \in Uids
      BY <2>1, <2>3 DEF Missing, Operations
    <2>5. v \in Entries /\ v.kind = "helper" /\ v.start = range[c]
      BY <2>3 DEF Entries
    <2>. HIDE DEF v
    <2>6. /\ proc'[c].script = proc[c].script /\ proc'[c].op = proc[c].op
          /\ proc'[c].names = proc[c].names /\ proc'[c] \in Operations
          /\ proc' = [proc EXCEPT ![c] = proc'[c]]
      BY <2>2, <2>3 DEF Operations
    <2>7. Proceeds(c) /\ ScriptAt(c)' = ScriptAt(c)
      BY <1>3, <2>6 DEF Proceeds, Scripted, NamesOwn, ScriptAt, AInv, Local
    <2>8. /\ account'[Service[c]] = account[Service[c]]
          /\ \A w \in Uids : \/ account'[Helper[<<c, w>>]] = v
                             \/ account'[Helper[<<c, w>>]] = account[Helper[<<c, w>>]]
      <3>1. Helper[<<c, u>>] # Service[c]
        BY <2>4 DEF NamesApart
      <3>. QED
        BY <2>1, <3>1, AccountFacts DEF AInv, Held
    <2>9. ASSUME Undisturbed' PROVE Stage(c)'
      <3>1. Stage(c) /\ Present(c) /\ Anchored(c)
        BY <1>2, <1>4, <2>9 DEF Stage
      <3>2. Anchored(c)'
        BY <1>1, <2>5, <2>8, <3>1 DEF Anchored
      <3>3. Present(c)'
        BY <1>1, <2>8, <3>1 DEF Present, Made
      <3>. QED
        BY <1>4, <2>6, <2>7, <3>2, <3>3 DEF Stage
    <2>10. UndoStage(c)'
      BY <1>4, <2>6 DEF UndoStage
    <2>11. Helper[<<c, u>>] \in HelpersOf(c)
      BY <2>4 DEF HelpersOf
    <2>. QED
      BY <1>1, <1>2, <2>1, <2>5, <2>7, <2>9, <2>10, <2>11, Arrives
  <1>. QED
    BY <1>5, <1>6

LEMMA StepOwn ==
    ASSUME NamesApart, AInv, NEW c \in Compartments, Step(c)
    PROVE  Touches(c) /\ Local(c)'
  <1>1. Pending(c) /\ faults' = faults
    BY DEF Step
  <1>2. CASE Head1(c) = "insert" /\ Insert(c)
    BY <1>1, <1>2, InsertOwn
  <1>3. CASE Head1(c) = "useradd" /\ Useradd(c)
    BY <1>1, <1>3, UseraddOwn
  <1>4. CASE Head1(c) = "choose" /\ Choose(c)
    BY <1>1, <1>4, ChooseOwn
  <1>5. CASE Head1(c) = "assign" /\ Assign(c)
    BY <1>1, <1>5, AssignOwn
  <1>6. CASE Head1(c) = "account" /\ Account(c)
    BY <1>1, <1>6, AccountOwn
  <1>7. CASE Head1(c) = "read" /\ Read(c)
    BY <1>1, <1>7, ReadOwn
  <1>8. CASE Head1(c) = "rewrite" /\ Rewrite(c)
    BY <1>1, <1>8, RewriteOwn
  <1>9. CASE Head1(c) = "userdel" /\ Userdel(c)
    BY <1>1, <1>9, UserdelOwn
  <1>10. CASE (Head1(c) = "helpers" /\ Helpers(c)) \/ (Head1(c) = "unwanted" /\ Unwanted(c))
    BY <1>1, <1>10, ListOwn
  <1>11. CASE Head1(c) = "remove" /\ RemoveHelper(c)
    BY <1>1, <1>11, RemoveHelperOwn
  <1>12. CASE Head1(c) = "erase" /\ Erase(c)
    BY <1>1, <1>12, EraseOwn
  <1>13. CASE Head1(c) = "sync" /\ Sync(c)
    BY <1>1, <1>13, SyncOwn
  <1>14. CASE \/ Head1(c) = "lock" /\ Lock(c)
              \/ Head1(c) = "unlock" /\ Unlock(c)
              \/ Head1(c) = "units" /\ Units(c)
              \/ Head1(c) \in {"setup", "quiesce", "deploy"} /\ Other(c)
    <2>1. /\ Continue(c) /\ row' = row /\ account' = account /\ range' = range /\ raced' = raced
          /\ Head1(c) \in {"lock", "unlock", "units", "setup", "quiesce", "deploy"}
      BY <1>14 DEF Lock, Unlock, Units, Other, files
    <2>. QED
      BY <1>1, <2>1, PlainOwn
  <1>. QED
    BY <1>2, <1>3, <1>4, <1>5, <1>6, <1>7, <1>8, <1>9, <1>10, <1>11, <1>12, <1>13, <1>14
       DEF Step, Perform

LEMMA AInvInit ==
    ASSUME Init
    PROVE  AInv
  <1>1. Held
    BY AccountFacts DEF Init, Held
  <1>2. ASSUME NEW c \in Compartments PROVE Local(c)
    <2>1. /\ proc[c].op = "none" /\ proc[c].script = <<>> /\ proc[c].names = {}
          /\ c \notin row
      BY DEF Init, Idle
    <2>2. ScriptAt(c) = "end"
      BY <2>1 DEF ScriptAt, First
    <2>3. <<>> \in Seq(Steps)
      BY ScriptFacts
    <2>4. RestOf(<<>>, <<>>)
      BY <2>3, WholeScript
    <2>5. \A n \in Names : account[n] = NoAccount
      BY DEF Init
    <2>6. Absent(c) /\ Anchored(c)
      BY <2>5, AccountFacts DEF Absent, NoHelpers, Anchored
    <2>. QED
      BY <2>1, <2>2, <2>4, <2>6 DEF Local, Scripted, ScriptsOf, NamesOwn, UndoStage, Stage
  <1>. QED
    BY <1>1, <1>2, InvInit DEF AInv

LEMMA AInvNext ==
    ASSUME NamesApart, AInv, [Next]_vars
    PROVE  AInv'
  <1>1. CASE Crash
    BY <1>1, CrashOwn
  <1>2. ASSUME NEW c \in Compartments, DeleteContainer(c) PROVE AInv'
    BY <1>2, DeleteContainerOwn
  <1>3. ASSUME NEW c \in Compartments, Touches(c), Local(c)' PROVE AInv'
    <2>1. IInv'
      BY InvNext DEF AInv
    <2>2. Held'
      BY <1>3, HeldStays DEF AInv
    <2>3. ASSUME NEW d \in Compartments PROVE Local(d)'
      <3>1. CASE d = c
        BY <1>3, <3>1
      <3>2. CASE d # c
        BY <1>3, <3>2, Elsewhere DEF AInv
      <3>. QED
        BY <3>1, <3>2
    <2>. QED
      BY <2>1, <2>2, <2>3 DEF AInv
  <1>4. ASSUME NEW c \in Compartments, Create(c) \/ Delete(c) \/ Start(c) \/ Deploy(c) PROVE AInv'
    <2>1. Touches(c) /\ Local(c)'
      BY <1>4, BeginOwn
    <2>. QED
      BY <1>3, <2>1
  <1>5. ASSUME NEW c \in Compartments,
               Step(c) \/ Finish(c) \/ Fails(c) \/ Refused(c) \/ UserdelFails(c)
        PROVE  AInv'
    <2>1. Touches(c) /\ Local(c)'
      BY <1>5, StepOwn, FinishOwn, FailsOwn, RefusedOwn, UserdelFailsOwn
    <2>. QED
      BY <1>3, <2>1
  <1>6. CASE UNCHANGED vars
    <2>1. /\ row' = row /\ account' = account /\ range' = range /\ raced' = raced
          /\ faults' = faults /\ proc' = proc
      BY <1>6 DEF vars
    <2>2. IInv'
      BY InvNext DEF AInv
    <2>3. Held' /\ Undisturbed' = Undisturbed
      BY <2>1 DEF AInv, Held, Undisturbed
    <2>4. ASSUME NEW d \in Compartments PROVE Local(d)'
      <3>1. /\ NoHelpers(d)' = NoHelpers(d) /\ Absent(d)' = Absent(d) /\ Made(d)' = Made(d)
            /\ Present(d)' = Present(d) /\ Anchored(d)' = Anchored(d)
        BY <2>1, Standing
      <3>2. ScriptAt(d)' = ScriptAt(d) /\ Scripted(d)' = Scripted(d) /\ NamesOwn(d)' = NamesOwn(d)
        BY <2>1 DEF ScriptAt, Scripted, NamesOwn
      <3>3. UndoStage(d)' = UndoStage(d) /\ Stage(d)' = Stage(d)
        BY <2>1, <3>1, <3>2 DEF UndoStage, Stage, CreateStage, DeleteStage
      <3>. QED
        BY <2>3, <3>2, <3>3 DEF AInv, Local
    <2>. QED
      BY <2>2, <2>3, <2>4 DEF AInv
  <1>. QED
    BY <1>1, <1>2, <1>4, <1>5, <1>6 DEF Next

\* Where an operation is in its script says what its compartment has, until something fails:
\* the invariant of create_compartment, delete_compartment, start and deployment together.
THEOREM StagesInvariance == NamesApart => (Spec => []AInv)
  <1>. SUFFICES ASSUME NamesApart PROVE Spec => []AInv
    OBVIOUS
  <1>1. Init => AInv
    BY AInvInit
  <1>2. AInv /\ [Next]_vars => AInv'
    BY AInvNext
  <1>. QED
    BY <1>1, <1>2, PTL DEF Spec

\* The uid of every helper lies in the range its compartment has (create_helper_user).
THEOREM HelpersAnchored == NamesApart => (Spec => []HelpersInRange)
  <1>1. AInv => HelpersInRange
    BY DEF AInv, Local, Stage, Anchored, HelpersInRange
  <1>. QED
    BY <1>1, StagesInvariance, PTL

\* A compartment with a row that no operation is busy with has its account and its range
\* (create_compartment, delete_compartment, _setup_subuid_subgid).
THEOREM RestComplete == NamesApart => (Spec => []CompleteAtRest)
  <1>1. AInv => CompleteAtRest
    BY DEF AInv, Held, Local, Stage, Present, Made, CompleteAtRest, Busy
  <1>. QED
    BY <1>1, StagesInvariance, PTL

\* A creation that failed leaves no row and, if it was all that failed, no account; a
\* deletion leaves no account, helper or range (create_compartment, delete_compartment).
THEOREM CleanEnds == NamesApart => (Spec => NothingLeftBehind)
  <1>1. ASSUME AInv, NEW c \in Compartments, proc[c].script = <<>>
        PROVE  /\ proc[c].op = "undo" => c \notin row /\ (faults <= 1 => ~Exists(Service[c]))
               /\ proc[c].op = "delete" /\ Undisturbed
                     => range[c] = 0 /\ \A n \in {Service[c]} \cup HelpersOf(c) : ~Exists(n)
    <2>1. ScriptAt(c) = "end"
      BY <1>1 DEF ScriptAt, First
    <2>2. ASSUME proc[c].op = "undo"
          PROVE  c \notin row /\ (faults <= 1 => ~Exists(Service[c]))
      <3>1. UndoStage(c) /\ faults \in Nat
        BY <1>1 DEF AInv, Local, Held
      <3>2. c \notin row /\ faults >= 1 /\ (faults = 1 => account[Service[c]] = NoAccount)
        BY <2>1, <2>2, <3>1 DEF UndoStage
      <3>. QED
        BY <3>1, <3>2 DEF Exists
    <2>3. ASSUME proc[c].op = "delete", Undisturbed
          PROVE  range[c] = 0 /\ \A n \in {Service[c]} \cup HelpersOf(c) : ~Exists(n)
      <3>1. range[c] = 0 /\ account[Service[c]] = NoAccount /\ NoHelpers(c)
        BY <1>1, <2>1, <2>3 DEF AInv, Local, Stage, DeleteStage
      <3>. QED
        BY <3>1 DEF NoHelpers, HelpersOf, Exists
    <2>. QED
      BY <2>2, <2>3
  <1>2. AInv /\ [Next]_vars =>
           [\A c \in Compartments :
             /\ Ends(c, "undo") => c \notin row /\ (faults <= 1 => ~Exists(Service[c]))
             /\ Ends(c, "delete") /\ Undisturbed
                  => range[c] = 0 /\ \A n \in {Service[c]} \cup HelpersOf(c) : ~Exists(n)]_vars
    BY <1>1 DEF Ends
  <1>. QED
    BY <1>2, StagesInvariance, PTL DEF Spec, NothingLeftBehind

\* The account of a compartment with a row is deleted by that compartment's own deletion or
\* roll-back, where no helper has the name of a compartment (sync_helper_users).
THEOREM OwnAccounts == NamesApart => (Spec => OwnAccountOnly)
  <1>. SUFFICES ASSUME NamesApart PROVE Spec => OwnAccountOnly
    OBVIOUS
  <1>1. ASSUME AInv, Next, NEW c \in row, Exists(Service[c]), account'[Service[c]] = NoAccount
        PROVE  proc[c].op \in {"delete", "undo"}
    <2>1. c \in Compartments /\ account[Service[c]] # NoAccount
      BY <1>1 DEF AInv, Held, Exists
    <2>2. ASSUME NEW d \in Compartments, Touches(d) PROVE d = c
      <3>. SUFFICES ASSUME d # c PROVE account'[Service[c]] = account[Service[c]]
        BY <1>1, <2>1
      <3>1. \A n \in {Service[d]} \cup HelpersOf(d) : n # Service[c]
        BY <2>1, AccountConstants DEF NamesApart, HelpersOf
      <3>. QED
        BY <1>1, <2>1, <2>2, <3>1, AccountFacts DEF Touches, AInv, Held
    <2>3. ASSUME account' = account PROVE FALSE
      BY <1>1, <2>1, <2>3
    <2>4. CASE Crash
      BY <2>3, <2>4 DEF Crash, files
    <2>5. ASSUME NEW d \in Compartments,
                 \/ Create(d) \/ Delete(d) \/ Start(d) \/ Deploy(d) \/ DeleteContainer(d)
                 \/ Finish(d) \/ Fails(d) \/ Refused(d) \/ UserdelFails(d)
          PROVE  FALSE
      BY <2>3, <2>5 DEF Create, Delete, Start, Deploy, DeleteContainer, Finish, Fails, Refused,
                        Raise, UserdelFails, files
    <2>6. ASSUME NEW d \in Compartments, Step(d) PROVE proc[c].op \in {"delete", "undo"}
      <3>1. Touches(d) /\ Pending(d)
        BY <1>1, <2>6, StepOwn DEF Step
      <3>2. d = c
        BY <2>2, <3>1
      <3>3. <<Head1(c), First(Rest(c))>> \in OrderOf(proc[c].op)
        BY <1>1, <3>1, <3>2, StepOrder DEF AInv, Local
      <3>4. CASE Head1(c) = "userdel"
        BY <3>3, <3>4 DEF OrderOf, SubidOrder, UserOrder
      <3>5. CASE Head1(c) = "useradd" /\ Useradd(c)
        BY <1>1, <2>1, <2>3, <3>5, AccountFacts DEF Useradd, AInv, Held
      <3>6. CASE Head1(c) = "remove" /\ RemoveHelper(c)
        <4>1. PICK n \in proc[c].names : account' = [account EXCEPT ![n] = NoAccount]
          BY <2>3, <3>6 DEF RemoveHelper
        <4>2. n # Service[c]
          <5>1. n \in HelpersOf(c)
            BY <1>1, <2>1, <4>1 DEF AInv, Local, NamesOwn
          <5>. QED
            BY <2>1, <5>1 DEF HelpersOf, NamesApart
        <4>. QED
          BY <1>1, <2>1, <4>1, <4>2, AccountFacts DEF AInv, Held
      <3>7. CASE Head1(c) = "sync" /\ Sync(c)
        <4>1. PICK u \in Missing(c), v \in {[kind |-> "helper", start |-> range[c]]} :
                 account' = [account EXCEPT ![Helper[<<c, u>>]] = v]
          BY <2>3, <3>7 DEF Sync
        <4>2. u \in Uids
          BY <1>1, <2>1, <4>1, PendingFacts DEF AInv, Missing, Operations
        <4>3. Helper[<<c, u>>] # Service[c]
          BY <2>1, <4>2 DEF NamesApart
        <4>. QED
          BY <1>1, <2>1, <4>1, <4>3, AccountFacts DEF AInv, Held
      <3>8. CASE Head1(c) \notin {"userdel", "useradd", "remove", "sync"}
        BY <2>3, <2>6, <3>2, <3>8
           DEF Step, Perform, Insert, Lock, Choose, Assign, Unlock, Units, Account, Read, Rewrite,
               Helpers, Unwanted, List, Erase, Other, files
      <3>. QED
        BY <2>6, <3>2, <3>4, <3>5, <3>6, <3>7, <3>8 DEF Step, Perform
    <2>. QED
      BY <1>1, <2>4, <2>5, <2>6 DEF Next
  <1>2. AInv /\ [Next]_vars =>
           [\A c \in row : Exists(Service[c]) /\ account'[Service[c]] = NoAccount
                              => proc[c].op \in {"delete", "undo"}]_vars
    BY <1>1
  <1>. QED
    BY <1>2, StagesInvariance, PTL DEF Spec, OwnAccountOnly
=============================================================================
