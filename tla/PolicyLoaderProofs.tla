------------------------- MODULE PolicyLoaderProofs -------------------------
(***************************************************************************)
(* Proofs about PolicyLoader.load, for any number of files that extend     *)
(* each other in any way, in cycles too, and any limit on the recursion.   *)
(***************************************************************************)
EXTENDS PolicyLoader, TLAPS, SequenceTheorems, WellFoundedInduction

-----------------------------------------------------------------------------
(* The stack of calls *)

IsList(s) == s \in Seq({s[i] : i \in DOMAIN s})

\* A sequence over some set is one over its own elements.
LEMMA ListOf == ASSUME NEW S, NEW s \in Seq(S) PROVE IsList(s)
<1> DEFINE T == {s[i] : i \in DOMAIN s}
<1>1. Len(s) \in Nat /\ s \in [1..Len(s) -> S] /\ DOMAIN s = 1..Len(s)
  BY LenProperties
<1>2. s = [i \in 1..Len(s) |-> s[i]] /\ \A i \in 1..Len(s) : s[i] \in T
  BY <1>1
<1>3. s \in [1..Len(s) -> T]
  BY <1>2
<1> HIDE DEF T
<1>4. s \in Seq(T)
  BY <1>1, <1>3, SeqDef
<1> QED BY <1>4 DEF T, IsList

\* A call of load for a file opens a frame on top.
LEMMA Push ==
    ASSUME NEW s, IsList(s), NEW fr
    PROVE  /\ IsList(Append(s, fr)) /\ Len(s) \in Nat /\ Len(Append(s, fr)) = Len(s) + 1
           /\ DOMAIN Append(s, fr) = 1..(Len(s) + 1)
           /\ Append(s, fr)[Len(s) + 1] = fr
           /\ \A i \in 1..Len(s) : Append(s, fr)[i] = s[i]
<1> DEFINE T == {s[i] : i \in DOMAIN s} \cup {fr}
<1>1. s \in Seq({s[i] : i \in DOMAIN s})
  BY DEF IsList
<1>2. s \in Seq(T) /\ fr \in T
  BY <1>1, SeqMonotonic
<1> HIDE DEF T
<1>3. Append(s, fr) \in Seq(T)
  BY <1>2
<1>4. /\ Len(s) \in Nat /\ Len(Append(s, fr)) = Len(s) + 1
      /\ DOMAIN Append(s, fr) = 1..(Len(s) + 1)
      /\ Append(s, fr)[Len(s) + 1] = fr
      /\ \A i \in 1..Len(s) : Append(s, fr)[i] = s[i]
  BY <1>2
<1> QED BY <1>3, <1>4, ListOf

\* The calls below the innermost one.
LEMMA Front ==
    ASSUME NEW T, NEW s \in Seq(T), NEW n \in Nat, n <= Len(s)
    PROVE  /\ SubSeq(s, 1, n) \in Seq(T) /\ Len(SubSeq(s, 1, n)) = n
           /\ \A i \in 1..n : SubSeq(s, 1, n)[i] = s[i]
  OBVIOUS

\* The innermost call returns.
LEMMA Pop ==
    ASSUME NEW s, IsList(s), s # <<>>
    PROVE  LET below == SubSeq(s, 1, Len(s) - 1)
           IN  /\ IsList(below) /\ Len(s) \in Nat \ {0} /\ Len(below) = Len(s) - 1
               /\ DOMAIN below = 1..(Len(s) - 1)
               /\ \A i \in 1..(Len(s) - 1) : below[i] = s[i]
<1> DEFINE T == {s[i] : i \in DOMAIN s}
           below == SubSeq(s, 1, Len(s) - 1)
<1>1. s \in Seq(T)
  BY DEF IsList
<1> HIDE DEF T
<1>2. Len(s) \in Nat \ {0} /\ \A i \in 1..Len(s) : s[i] \in T
  BY <1>1
<1>3. below \in Seq(T) /\ Len(below) = Len(s) - 1 /\ \A i \in 1..(Len(s) - 1) : below[i] = s[i]
  <2>1. Len(s) - 1 \in Nat /\ Len(s) - 1 <= Len(s)
    BY <1>2
  <2> QED BY <1>1, <2>1, Front
<1>4. DOMAIN below = 1..(Len(s) - 1)
  BY <1>3, LenProperties
<1> QED BY <1>2, <1>3, <1>4, ListOf

\* The innermost call moves on.
LEMMA Replace ==
    ASSUME NEW s, IsList(s), s # <<>>, NEW fr
    PROVE  LET t == Append(SubSeq(s, 1, Len(s) - 1), fr)
           IN  /\ IsList(t) /\ Len(s) \in Nat \ {0} /\ Len(t) = Len(s) /\ DOMAIN t = 1..Len(s)
               /\ t[Len(s)] = fr /\ \A i \in 1..(Len(s) - 1) : t[i] = s[i]
  BY Pop, Push

-----------------------------------------------------------------------------
(* The inductive invariant *)

\* A frame is a record; nobody has cached a file that is being loaded; what it extends is cached or left to
\* load; and each call but the innermost is loading the first file it has left.
IsFrame(fr) == fr = [file |-> fr.file, base |-> fr.base, todo |-> fr.todo]

FrameOK(i) ==
    LET fr == stack[i]
    IN  /\ IsFrame(fr)
        /\ fr.file \in Files \ DOMAIN cache
        /\ fr.todo \in Seq(Files)
        /\ \A p \in Parents(fr.file) :
            p \in DOMAIN cache \/ \E k \in DOMAIN fr.todo : fr.todo[k] = p
        /\ \A k \in DOMAIN fr.todo : fr.todo[k] \in Parents(fr.file)
        /\ i > 1 => stack[i - 1].todo # <<>> /\ fr.file = Head(stack[i - 1].todo)

LoadInv ==
    /\ disk \in Disks /\ DOMAIN cache \subseteq Files
    /\ IsList(stack) /\ DOMAIN stack = 1..Len(stack) /\ Len(stack) \in 0..MaxDepth
    /\ \A i \in DOMAIN stack : FrameOK(i)
    /\ outcome \in {"none", "returned", "raised"}

\* What a file extends is a sequence of files.
LEMMA ExtendsType ==
    ASSUME disk \in Disks, NEW f \in Files
    PROVE  /\ disk[f].extends \in Seq(Files)
           /\ Parents(f) \subseteq Files
<1>1. disk[f].extends \in Seq(Files)
  BY PolicyLoaderAssumption
<1> QED BY <1>1 DEF Parents

\* Opening a file that nobody has cached, as the program or for the innermost call.
LEMMA OpenKeeps ==
    ASSUME LoadInv, NEW f \in Files \ DOMAIN cache, Open(f), UNCHANGED disk,
           stack # <<>> => Top.todo # <<>> /\ f = Head(Top.todo)
    PROVE  LoadInv' /\ UNCHANGED cache
<1> USE DEF LoadInv
<1>0. UNCHANGED cache
  BY DEF Open, Raise
<1>1. CASE stack' = <<>> /\ outcome' = "raised"
  <2>1. IsList(<<>>)
    BY ListOf, EmptySeq
  <2> QED BY <1>0, <1>1, <2>1, PolicyLoaderAssumption
<1>2. CASE Len(stack) < MaxDepth /\ stack' = Append(stack, Frame(f)) /\ outcome' = "none"
  <2>1. /\ IsList(stack') /\ Len(stack') = Len(stack) + 1
        /\ DOMAIN stack' = 1..(Len(stack) + 1) /\ Len(stack) \in Nat
        /\ stack'[Len(stack) + 1] = Frame(f) /\ \A i \in 1..Len(stack) : stack'[i] = stack[i]
    BY <1>2, Push
  <2>2. ASSUME NEW i \in DOMAIN stack PROVE FrameOK(i)'
    <3>1. /\ FrameOK(i) /\ i \in 1..Len(stack) /\ stack'[i] = stack[i]
          /\ i > 1 => i - 1 \in 1..Len(stack) /\ stack'[i - 1] = stack[i - 1]
      BY <2>1
    <3> QED BY <1>0, <3>1 DEF FrameOK, Parents
  <2>3. ASSUME NEW n \in {Len(stack) + 1} PROVE FrameOK(n)'
    <3>1. /\ stack'[n].file = f /\ stack'[n].todo = disk[f].extends
          /\ disk[f].extends \in Seq(Files)
      BY <2>1, ExtendsType DEF Frame
    <3>2. n > 1 => stack'[n - 1].todo # <<>> /\ f = Head(stack'[n - 1].todo)
      BY <2>1 DEF Top
    <3>3. /\ \A p \in Parents(f) : \E k \in DOMAIN disk[f].extends : disk[f].extends[k] = p
          /\ \A k \in DOMAIN disk[f].extends : disk[f].extends[k] \in Parents(f)
      BY DEF Parents
    <3>4. IsFrame(stack'[n])
      BY <2>1 DEF Frame, IsFrame
    <3> QED BY <1>0, <3>1, <3>2, <3>3, <3>4 DEF FrameOK, Parents
  <2>4. \A i \in DOMAIN stack' : FrameOK(i)'
    BY <2>1, <2>2, <2>3
  <2> QED BY <1>0, <1>2, <2>1, <2>4, PolicyLoaderAssumption
<1> QED BY <1>0, <1>1, <1>2 DEF Open, Raise

\* Layering a parent: the innermost call has one file less to load.
LEMMA MergeParentKeeps ==
    ASSUME LoadInv, MergeParent
    PROVE  LoadInv' /\ UNCHANGED cache
<1> USE DEF LoadInv
<1> DEFINE n == Len(stack)
<1>0. UNCHANGED <<disk, cache, outcome>> /\ stack # <<>> /\ Top.todo # <<>>
      /\ Head(Top.todo) \in DOMAIN cache
  BY DEF MergeParent
<1>1. PICK fr : /\ stack' = Append(Below, fr)
                /\ fr = [Top EXCEPT !.todo = Tail(@), !.base = Merge(@, cache[Head(Top.todo)])]
  BY DEF MergeParent
<1>2. /\ IsList(stack') /\ n \in Nat \ {0} /\ Len(stack') = n /\ DOMAIN stack' = 1..n
      /\ stack'[n] = fr /\ \A i \in 1..(n - 1) : stack'[i] = stack[i]
  BY <1>0, <1>1, Replace DEF Below
<1>3. ASSUME NEW i \in 1..(n - 1) PROVE FrameOK(i)'
  <2>1. FrameOK(i) /\ stack'[i] = stack[i] /\ (i > 1 => stack'[i - 1] = stack[i - 1])
    BY <1>2
  <2> QED BY <1>0, <2>1 DEF FrameOK, Parents
<1>4. ASSUME NEW i \in {n} PROVE FrameOK(i)'
  <2>1. FrameOK(n) /\ stack[n] = Top /\ n \in DOMAIN stack
    BY <1>2 DEF Top
  <2>2. Top.todo \in Seq(Files) /\ fr.todo = Tail(Top.todo) /\ fr.file = Top.file
    BY <1>1, <2>1 DEF FrameOK
  <2>3. /\ fr.todo \in Seq(Files)
        /\ \A k \in DOMAIN Top.todo :
            Top.todo[k] = Head(Top.todo) \/ \E j \in DOMAIN fr.todo : fr.todo[j] = Top.todo[k]
        /\ \A j \in DOMAIN fr.todo : \E k \in DOMAIN Top.todo : fr.todo[j] = Top.todo[k]
    <3> DEFINE s == Top.todo
    <3>1. s \in Seq(Files) /\ s # <<>>
      BY <1>0, <2>2
    <3> HIDE DEF s
    <3>2. /\ Tail(s) \in Seq(Files) /\ Len(s) \in Nat \ {0} /\ Len(Tail(s)) = Len(s) - 1
          /\ DOMAIN s = 1..Len(s) /\ DOMAIN Tail(s) = 1..(Len(s) - 1) /\ Head(s) = s[1]
          /\ \A j \in 1..(Len(s) - 1) : Tail(s)[j] = s[j + 1]
      BY <3>1
    <3>3. ASSUME NEW k \in DOMAIN s, s[k] # Head(s) PROVE \E j \in DOMAIN Tail(s) : Tail(s)[j] = s[k]
      <4>1. k - 1 \in DOMAIN Tail(s) /\ Tail(s)[k - 1] = s[k]
        BY <3>2, <3>3
      <4> QED BY <4>1
    <3>4. ASSUME NEW j \in DOMAIN Tail(s) PROVE \E k \in DOMAIN s : Tail(s)[j] = s[k]
      <4>1. j + 1 \in DOMAIN s /\ Tail(s)[j] = s[j + 1]
        BY <3>2
      <4> QED BY <4>1
    <3> QED BY <2>2, <3>2, <3>3, <3>4 DEF s
  <2>4. /\ stack'[i].file = Top.file /\ stack'[i].todo = fr.todo
        /\ i > 1 => stack'[i - 1] = stack[i - 1]
    BY <1>2, <2>2
  <2>5. /\ Top.file \in Files \ DOMAIN cache
        /\ \A p \in Parents(Top.file) :
            p \in DOMAIN cache \/ \E k \in DOMAIN Top.todo : Top.todo[k] = p
        /\ \A k \in DOMAIN Top.todo : Top.todo[k] \in Parents(Top.file)
        /\ i > 1 => stack[i - 1].todo # <<>> /\ Top.file = Head(stack[i - 1].todo)
    BY <2>1 DEF FrameOK
  <2>6. \A p \in Parents(Top.file) :
            p \in DOMAIN cache \/ \E k \in DOMAIN fr.todo : fr.todo[k] = p
    BY <1>0, <2>3, <2>5
  <2>7. \A k \in DOMAIN fr.todo : fr.todo[k] \in Parents(Top.file)
    BY <2>3, <2>5
  <2>8. IsFrame(fr)
    <3>1. PICK file, base, todo : Top = [file |-> file, base |-> base, todo |-> todo]
      BY <2>1 DEF FrameOK, IsFrame
    <3> QED BY <1>1, <3>1 DEF IsFrame
  <2>9. stack'[i] = fr
    BY <1>2
  <2> QED BY <1>0, <2>3, <2>4, <2>5, <2>6, <2>7, <2>8, <2>9 DEF FrameOK, Parents
<1>5. \A i \in DOMAIN stack' : FrameOK(i)'
  BY <1>2, <1>3, <1>4
<1> QED BY <1>0, <1>2, <1>5

\* A call that returns caches its file, which no other call in progress is loading: one
\* that did would be waiting for a file that is cached by now.
LEMMA ReturnKeeps ==
    ASSUME LoadInv, Return
    PROVE  /\ LoadInv' /\ Top.file \notin DOMAIN cache /\ Parents(Top.file) \subseteq DOMAIN cache
           /\ DOMAIN cache' = DOMAIN cache \cup {Top.file}
           /\ \A f \in DOMAIN cache : cache'[f] = cache[f]
<1> USE DEF LoadInv
<1> DEFINE n == Len(stack)
<1>0. /\ UNCHANGED disk /\ stack # <<>> /\ Top.todo = <<>> /\ stack' = Below
      /\ cache' = [g \in DOMAIN cache \cup {Top.file} |->
                    IF g = Top.file THEN Merge(Top.base, Own(g)) ELSE cache[g]]
      /\ outcome' \in {"none", "returned"}
  BY DEF Return
<1>1. /\ IsList(stack') /\ n \in Nat \ {0} /\ Len(stack') = n - 1 /\ DOMAIN stack' = 1..(n - 1)
      /\ \A i \in 1..(n - 1) : stack'[i] = stack[i]
  BY <1>0, Pop DEF Below
<1>2. FrameOK(n) /\ stack[n] = Top
  BY <1>1 DEF Top
<1>3. Top.file \in Files \ DOMAIN cache /\ Parents(Top.file) \subseteq DOMAIN cache
  BY <1>0, <1>2 DEF FrameOK
<1>4. /\ DOMAIN cache' = DOMAIN cache \cup {Top.file}
      /\ \A f \in DOMAIN cache : cache'[f] = cache[f]
  BY <1>0, <1>3
<1>5. ASSUME NEW i \in 1..(n - 1) PROVE FrameOK(i)'
  <2>1. FrameOK(i) /\ FrameOK(i + 1) /\ stack'[i] = stack[i]
        /\ (i > 1 => stack'[i - 1] = stack[i - 1])
    BY <1>1
  <2>2. /\ stack[i].todo # <<>> /\ stack[i].todo \in Seq(Files)
        /\ Head(stack[i].todo) = stack[i + 1].file
        /\ stack[i + 1].file \notin DOMAIN cache
    <3>1. i + 1 > 1 /\ i + 1 - 1 = i
      BY <1>1
    <3>2. /\ stack[i + 1].file \in Files \ DOMAIN cache /\ stack[i].todo # <<>>
          /\ stack[i + 1].file = Head(stack[i].todo)
      BY <2>1, <3>1 DEF FrameOK
    <3> QED BY <2>1, <3>2 DEF FrameOK
  <2>3. Head(stack[i].todo) \in Parents(stack[i].file)
    <3>1. 1 \in DOMAIN stack[i].todo /\ Head(stack[i].todo) = stack[i].todo[1]
      BY <2>2
    <3> QED BY <2>1, <3>1 DEF FrameOK
  <2>4. stack[i].file # Top.file
    BY <1>3, <2>2, <2>3
  <2> QED BY <1>0, <1>4, <2>1, <2>4 DEF FrameOK, Parents
<1>6. \A i \in DOMAIN stack' : FrameOK(i)'
  BY <1>1, <1>5
<1>7. DOMAIN cache' \subseteq Files /\ disk' \in Disks /\ IsList(stack')
  BY <1>0, <1>1, <1>3, <1>4
<1>8. DOMAIN stack' = 1..Len(stack') /\ Len(stack') \in 0..MaxDepth
  BY <1>1, PolicyLoaderAssumption
<1> QED BY <1>0, <1>3, <1>4, <1>6, <1>7, <1>8

\* The invariant holds at first ...
LEMMA InitLoads == Init => LoadInv
<1> SUFFICES ASSUME Init PROVE LoadInv
  OBVIOUS
<1>1. IsList(<<>>)
  BY ListOf, EmptySeq
<1> QED BY <1>1, PolicyLoaderAssumption DEF Init, LoadInv

LEMMA TopTodo ==
    ASSUME LoadInv, stack # <<>>, Top.todo # <<>>
    PROVE  Head(Top.todo) \in Files
<1>1. Len(stack) \in DOMAIN stack
  <2>1. stack \in Seq({stack[i] : i \in DOMAIN stack})
    BY DEF LoadInv, IsList
  <2> QED BY <2>1
<1>2. Top.todo \in Seq(Files)
  BY <1>1 DEF LoadInv, FrameOK, Top
<1> QED BY <1>2

\* ... and after every step, which leaves cached policies alone.
LEMMA NextLoads ==
    LoadInv /\ [Next]_vars =>
        /\ LoadInv'
        /\ \A f \in DOMAIN cache : f \in DOMAIN cache' /\ cache'[f] = cache[f]
        /\ UNCHANGED disk
        /\ UNCHANGED cache \/ Return
<1> SUFFICES ASSUME LoadInv, [Next]_vars
             PROVE  /\ LoadInv'
                    /\ \A f \in DOMAIN cache : f \in DOMAIN cache' /\ cache'[f] = cache[f]
                    /\ UNCHANGED disk
                    /\ UNCHANGED cache \/ Return
  OBVIOUS
<1>1. ASSUME NEW f \in Files, Load(f)
      PROVE  LoadInv' /\ UNCHANGED cache
  <2>1. CASE f \in DOMAIN cache
    BY <1>1, <2>1 DEF Load, LoadInv, FrameOK, Parents
  <2>2. CASE f \notin DOMAIN cache
    BY <1>1, <2>2, OpenKeeps DEF Load
  <2> QED BY <2>1, <2>2
<1>2. CASE LoadParent
  <2>1. stack # <<>> /\ Top.todo # <<>> /\ Head(Top.todo) \notin DOMAIN cache
        /\ Open(Head(Top.todo)) /\ UNCHANGED disk
    BY <1>2 DEF LoadParent
  <2>2. Head(Top.todo) \in Files
    BY <2>1, TopTodo
  <2> QED BY <2>1, <2>2, OpenKeeps
<1>3. CASE MergeParent
  BY <1>3, MergeParentKeeps DEF MergeParent
<1>4. CASE Return
  BY <1>4, ReturnKeeps DEF Return
<1>5. CASE UNCHANGED vars
  <2>1. UNCHANGED <<disk, cache, stack, outcome>>
    BY <1>5 DEF vars
  <2>2. ASSUME NEW i \in DOMAIN stack PROVE FrameOK(i)'
    <3>1. FrameOK(i) /\ stack' = stack /\ cache' = cache
      BY <2>1 DEF LoadInv
    <3>2. \A f : Parents(f)' = Parents(f)
      BY <2>1 DEF Parents
    <3> QED BY <3>1, <3>2, Zenon DEF FrameOK
  <2> QED BY <2>1, <2>2 DEF LoadInv
<1> QED BY <1>1, <1>2, <1>3, <1>4, <1>5 DEF Next, Load, LoadParent

-----------------------------------------------------------------------------
(* The theorems *)

\* Whatever the files hold, the calls of load in progress are a chain of extends that the
\* recursion limit bounds, and only files that exist are cached.
THEOREM TypeCorrect == Spec => []TypeOK
<1>1. LoadInv => TypeOK
  BY DEF LoadInv, FrameOK, TypeOK
<1> QED BY <1>1, InitLoads, NextLoads, PTL DEF Spec

\* Loading a file leaves every policy that is cached as it is, those it extends included.
THEOREM CachedStaysFrozen == Spec => CachedIsFrozen
<1>1. LoadInv /\ [Next]_vars =>
        [\A f \in DOMAIN cache : f \in DOMAIN cache' /\ cache'[f] = cache[f]]_vars
  BY NextLoads
<1> QED BY <1>1, InitLoads, NextLoads, PTL DEF Spec, CachedIsFrozen

\* A call that returns caches a file after all it extends.
LEMMA ReturnCompletes ==
    ASSUME LoadInv, CachedIsComplete, Return
    PROVE  CachedIsComplete'
<1> DEFINE f == Top.file
<1>1. /\ f \notin DOMAIN cache /\ Parents(f) \subseteq DOMAIN cache
      /\ DOMAIN cache' = DOMAIN cache \cup {f} /\ UNCHANGED disk
  BY ReturnKeeps DEF Return
<1> HIDE DEF f
<1>2. ASSUME NEW g PROVE Parents(g)' = Parents(g)
  BY <1>1 DEF Parents
<1>3. \A g \in DOMAIN cache' : Parents(g) \subseteq DOMAIN cache'
  BY <1>1 DEF CachedIsComplete
<1>4. ASSUME NEW S \in SUBSET DOMAIN cache', S # {}
      PROVE  \E g \in S : Parents(g) \cap S = {}
  <2>1. CASE S = {f}
    BY <1>1, <2>1
  <2>2. CASE S # {f}
    <3>1. S \ {f} \in SUBSET DOMAIN cache /\ S \ {f} # {}
      BY <1>1, <1>4, <2>2
    <3>2. PICK g \in S \ {f} : Parents(g) \cap (S \ {f}) = {}
      BY <3>1 DEF CachedIsComplete
    <3>3. g \in DOMAIN cache /\ Parents(g) \subseteq DOMAIN cache
      BY <3>1, <3>2 DEF CachedIsComplete
    <3>4. Parents(g) \cap S = {}
      BY <1>1, <3>2, <3>3
    <3> QED BY <3>2, <3>4
  <2> QED BY <2>1, <2>2
<1>5. /\ \A g \in DOMAIN cache' : Parents(g)' \subseteq DOMAIN cache'
      /\ \A S \in SUBSET DOMAIN cache' : S # {} => \E g \in S : Parents(g)' \cap S = {}
  BY <1>2, <1>3, <1>4, Zenon
<1> QED BY <1>5 DEF CachedIsComplete

LEMMA NextCompletes ==
    ASSUME LoadInv, CachedIsComplete, [Next]_vars
    PROVE  CachedIsComplete'
<1>1. CASE Return
  BY <1>1, ReturnCompletes
<1>2. CASE UNCHANGED <<cache, disk>>
  <2>1. cache' = cache /\ \A g : Parents(g)' = Parents(g)
    BY <1>2 DEF Parents
  <2>2. /\ \A g \in DOMAIN cache : Parents(g)' \subseteq DOMAIN cache
        /\ \A S \in SUBSET DOMAIN cache : S # {} => \E g \in S : Parents(g)' \cap S = {}
    BY <2>1, Zenon DEF CachedIsComplete
  <2> QED BY <2>1, <2>2 DEF CachedIsComplete
<1> QED BY <1>1, <1>2, NextLoads

\* However loads share the files they extend, extend them in cycles, and fail half way, a
\* policy that is cached has all it extends below it, and never itself.
THEOREM CachedStaysComplete == Spec => []CachedIsComplete
<1>1. Init => CachedIsComplete
  BY DEF Init, CachedIsComplete
<1>2. LoadInv /\ CachedIsComplete /\ [Next]_vars => CachedIsComplete'
  BY NextCompletes
<1> QED BY <1>1, <1>2, InitLoads, NextLoads, PTL DEF Spec

-----------------------------------------------------------------------------
(* Induction on numbers, and first matches *)

\* A set of numbers has a least one.
LEMMA LeastNumber ==
    ASSUME NEW S \in SUBSET Nat, S # {}
    PROVE  \E n \in S : \A m \in S : n <= m
<1>1. PICK n \in S : \A m \in S : ~ (<<m, n>> \in OpToRel(<, Nat))
  BY NatLessThanWellFounded, WFMin
<1>2. ASSUME NEW m \in S PROVE n <= m
  <2>1. <<m, n>> \in Nat \X Nat
    OBVIOUS
  <2>2. ~ (m < n)
    BY <1>1, <2>1 DEF OpToRel
  <2> QED BY <2>2
<1> QED BY <1>2

\* A set of numbers that holds 0, and the successor of each number it holds, holds all.
LEMMA AllNumbers ==
    ASSUME NEW S, 0 \in S, \A n \in Nat : n \in S => n + 1 \in S
    PROVE  Nat \subseteq S
<1> SUFFICES ASSUME Nat \ S # {} PROVE FALSE
  OBVIOUS
<1>1. PICK n \in Nat \ S : \A m \in Nat \ S : n <= m
  BY LeastNumber
<1>2. n # 0 /\ n - 1 \in Nat
  BY <1>1
<1>3. n - 1 \in S
  BY <1>1, <1>2
<1> QED BY <1>2, <1>3

Hit(rules, actions, e, k) == rules[k].action \in actions /\ Matches(rules[k], e)

\* Rule k is the first that matches.
IsFirst(rules, actions, e, k) ==
    /\ k \in DOMAIN rules /\ Hit(rules, actions, e, k)
    /\ \A j \in 1..(k - 1) : ~ Hit(rules, actions, e, j)

\* If any rule matches, one is the first.
LEMMA FirstExists ==
    ASSUME NEW rules, IsList(rules), NEW actions, NEW e, SomeMatch(rules, actions, e)
    PROVE  \E k : IsFirst(rules, actions, e, k)
<1>1. Len(rules) \in Nat /\ DOMAIN rules = 1..Len(rules)
  BY DEF IsList
<1> DEFINE hits == {k \in DOMAIN rules : Hit(rules, actions, e, k)}
<1>2. hits \in SUBSET Nat /\ hits # {}
  BY <1>1 DEF SomeMatch, Hit
<1>3. PICK k \in hits : \A m \in hits : k <= m
  BY <1>2, LeastNumber
<1>4. ASSUME NEW j \in 1..(k - 1), Hit(rules, actions, e, j) PROVE FALSE
  <2>1. k \in Nat /\ j \in DOMAIN rules
    BY <1>1, <1>3
  <2>2. k <= j
    BY <1>3, <1>4, <2>1
  <2> QED BY <2>1, <2>2
<1> QED BY <1>3, <1>4 DEF IsFirst

\* The first match is the one that FirstMatch returns.
LEMMA FirstIsFirstMatch ==
    ASSUME NEW rules, IsList(rules), NEW actions, NEW e, NEW k, IsFirst(rules, actions, e, k)
    PROVE  FirstMatch(rules, actions, e) = rules[k]
<1>1. Len(rules) \in Nat /\ DOMAIN rules = 1..Len(rules)
  BY DEF IsList
<1>2. ASSUME NEW i, IsFirst(rules, actions, e, i) PROVE i = k
  <2>1. i \in Nat /\ k \in Nat /\ i \in 1..Len(rules) /\ k \in 1..Len(rules)
    BY <1>1, <1>2 DEF IsFirst
  <2>2. ~ (i < k)
    <3>1. i < k => i \in 1..(k - 1)
      BY <2>1
    <3> QED BY <1>2, <3>1 DEF IsFirst
  <2>3. ~ (k < i)
    <3>1. k < i => k \in 1..(i - 1)
      BY <2>1
    <3> QED BY <1>2, <3>1 DEF IsFirst
  <2> QED BY <2>1, <2>2, <2>3
<1>3. (CHOOSE i \in DOMAIN rules :
            /\ rules[i].action \in actions /\ Matches(rules[i], e)
            /\ \A j \in 1..(i - 1) : ~ (rules[j].action \in actions /\ Matches(rules[j], e))) = k
  <2> DEFINE P(i) == /\ rules[i].action \in actions /\ Matches(rules[i], e)
                     /\ \A j \in 1..(i - 1) : ~ (rules[j].action \in actions /\ Matches(rules[j], e))
  <2>1. k \in DOMAIN rules /\ P(k)
    BY DEF IsFirst, Hit
  <2>2. \A i \in DOMAIN rules : P(i) => i = k
    BY <1>2 DEF IsFirst, Hit
  <2> HIDE DEF P
  <2>3. (CHOOSE i \in DOMAIN rules : P(i)) = k
    BY <2>1, <2>2
  <2> QED BY <2>3 DEF P
<1> QED BY <1>3 DEF FirstMatch

\* List r is s and then t.
Joins(r, s, t) ==
    /\ IsList(r) /\ Len(s) \in Nat /\ Len(t) \in Nat
    /\ DOMAIN s = 1..Len(s) /\ DOMAIN t = 1..Len(t)
    /\ Len(r) = Len(s) + Len(t) /\ DOMAIN r = 1..(Len(s) + Len(t))
    /\ \A i \in 1..Len(s) : r[i] = s[i]
    /\ \A i \in 1..Len(t) : r[Len(s) + i] = t[i]
    /\ \A i \in DOMAIN r : i \in 1..Len(s) \/ \E j \in 1..Len(t) : i = Len(s) + j

LEMMA Joined ==
    ASSUME NEW s, IsList(s), NEW t, IsList(t)
    PROVE  Joins(s \o t, s, t)
<1> DEFINE T == {s[i] : i \in DOMAIN s} \cup {t[i] : i \in DOMAIN t}
<1>1. s \in Seq(T) /\ t \in Seq(T)
  BY SeqMonotonic DEF IsList
<1> HIDE DEF T
<1>2. /\ s \o t \in Seq(T) /\ Len(s) \in Nat /\ Len(t) \in Nat
      /\ DOMAIN s = 1..Len(s) /\ DOMAIN t = 1..Len(t)
      /\ Len(s \o t) = Len(s) + Len(t) /\ DOMAIN (s \o t) = 1..(Len(s) + Len(t))
      /\ \A i \in 1..Len(s) : (s \o t)[i] = s[i]
      /\ \A i \in 1..Len(t) : (s \o t)[Len(s) + i] = t[i]
  BY <1>1
<1>3. ASSUME NEW i \in 1..(Len(s) + Len(t)), i \notin 1..Len(s)
      PROVE  \E j \in 1..Len(t) : i = Len(s) + j
  <2>1. i - Len(s) \in 1..Len(t) /\ i = Len(s) + (i - Len(s))
    BY <1>2, <1>3
  <2> QED BY <2>1
<1> QED BY <1>2, <1>3, ListOf DEF Joins

-----------------------------------------------------------------------------
(* What a policy made of layers decides *)

\* Files g, the ones that take precedence first, have a rule that matches.
SomeIn(d, g, actions, e) == \E i \in DOMAIN g : SomeMatch(d[g[i]].rules, actions, e)

\* The first of them with such a rule has one for action a.
FirstIn(d, g, a, actions, e) ==
    \E i \in DOMAIN g :
        /\ SomeMatch(d[g[i]].rules, {a}, e)
        /\ \A j \in 1..(i - 1) : ~ SomeMatch(d[g[j]].rules, actions, e)

\* The first of them that rates the level of risk l says a.
LevelIn(d, g, l, a) ==
    \E i \in DOMAIN g :
        /\ l \in DOMAIN d[g[i]].risk /\ d[g[i]].risk[l] = a
        /\ \A j \in 1..(i - 1) : l \notin DOMAIN d[g[j]].risk

RulesBy(d, p, g) ==
    \A actions, e :
        /\ SomeMatch(p.rules, actions, e) <=> SomeIn(d, g, actions, e)
        /\ \A k : IsFirst(p.rules, actions, e, k) =>
                    FirstIn(d, g, p.rules[k].action, actions, e)

RiskBy(d, p, g) ==
    \A l :
        /\ l \in DOMAIN p.risk <=> \E i \in DOMAIN g : l \in DOMAIN d[g[i]].risk
        /\ l \in DOMAIN p.risk => LevelIn(d, g, l, p.risk[l])

\* Policy p decides as the files g consulted one after the other.
ByLayers(d, p, g) == IsList(p.rules) /\ RulesBy(d, p, g) /\ RiskBy(d, p, g)

\* A file's own policy is one layer.
LEMMA OneLayer ==
    ASSUME NEW d \in Disks, NEW f \in Files,
           NEW p, p.rules = d[f].rules, p.risk = d[f].risk
    PROVE  ByLayers(d, p, <<f>>)
<1>1. IsList(p.rules)
  BY PolicyLoaderAssumption DEF IsList
<1>2. DOMAIN <<f>> = {1} /\ <<f>>[1] = f
  OBVIOUS
<1>3. ASSUME NEW actions, NEW e, NEW k, IsFirst(p.rules, actions, e, k)
      PROVE  FirstIn(d, <<f>>, p.rules[k].action, actions, e)
  <2>1. SomeMatch(d[f].rules, {p.rules[k].action}, e)
    BY <1>3 DEF IsFirst, Hit, SomeMatch
  <2>2. 1..(1 - 1) = {}
    OBVIOUS
  <2> QED BY <1>2, <2>1, <2>2 DEF FirstIn
<1>4. RulesBy(d, p, <<f>>)
  BY <1>2, <1>3 DEF RulesBy, SomeIn
<1>5. ASSUME NEW l, l \in DOMAIN p.risk PROVE LevelIn(d, <<f>>, l, p.risk[l])
  <2>1. 1..(1 - 1) = {}
    OBVIOUS
  <2> QED BY <1>2, <1>5, <2>1 DEF LevelIn
<1>6. RiskBy(d, p, <<f>>)
  BY <1>2, <1>5 DEF RiskBy
<1> QED BY <1>1, <1>4, <1>6 DEF ByLayers

\* An empty policy has none.
LEMMA NoLayers == ASSUME NEW d PROVE ByLayers(d, Empty, <<>>)
<1>1. /\ DOMAIN <<>> = {} /\ DOMAIN Empty.rules = {} /\ DOMAIN Empty.risk = {}
      /\ IsList(Empty.rules)
  <2>1. Empty.rules = <<>> /\ Empty.risk = <<>>
    BY DEF Empty
  <2>2. IsList(<<>>)
    BY ListOf, EmptySeq
  <2> QED BY <2>1, <2>2
<1>2. RulesBy(d, Empty, <<>>)
  BY <1>1, Zenon DEF RulesBy, SomeIn, SomeMatch, IsFirst
<1>3. RiskBy(d, Empty, <<>>)
  BY <1>1, Zenon DEF RiskBy
<1> QED BY <1>1, <1>2, <1>3 DEF ByLayers

\* A rule of two lists matches if one of either does ...
LEMMA JoinedMatch ==
    ASSUME NEW r, NEW s, NEW t, Joins(r, s, t), NEW actions, NEW e
    PROVE  SomeMatch(r, actions, e) <=> SomeMatch(s, actions, e) \/ SomeMatch(t, actions, e)
<1> USE DEF Joins
<1>1. ASSUME SomeMatch(s, actions, e) PROVE SomeMatch(r, actions, e)
  BY <1>1 DEF SomeMatch
<1>2. ASSUME SomeMatch(t, actions, e) PROVE SomeMatch(r, actions, e)
  <2>1. PICK i \in DOMAIN t : t[i].action \in actions /\ Matches(t[i], e)
    BY <1>2 DEF SomeMatch
  <2>2. PICK n : n = Len(s) + i
    OBVIOUS
  <2>3. n \in DOMAIN r /\ r[n] = t[i]
    BY <2>2
  <2> QED BY <2>1, <2>3, Zenon DEF SomeMatch
<1>3. ASSUME SomeMatch(r, actions, e)
      PROVE  SomeMatch(s, actions, e) \/ SomeMatch(t, actions, e)
  BY <1>3 DEF SomeMatch
<1> QED BY <1>1, <1>2, <1>3

\* ... and the first that does is the first of one of them.
LEMMA JoinedFirst ==
    ASSUME NEW r, NEW s, NEW t, Joins(r, s, t), NEW actions, NEW e,
           NEW k, IsFirst(r, actions, e, k)
    PROVE  \/ IsFirst(s, actions, e, k) /\ s[k] = r[k]
           \/ /\ ~ SomeMatch(s, actions, e)
              /\ \E j : IsFirst(t, actions, e, j) /\ t[j] = r[k]
<1> USE DEF Joins
<1>1. CASE k \in 1..Len(s)
  <2>1. \A j \in 1..(k - 1) : j \in 1..Len(s)
    BY <1>1
  <2> QED BY <1>1, <2>1 DEF IsFirst, Hit
<1>2. ASSUME NEW j \in 1..Len(t), k = Len(s) + j
      PROVE  ~ SomeMatch(s, actions, e) /\ IsFirst(t, actions, e, j) /\ t[j] = r[k]
  <2>1. ~ SomeMatch(s, actions, e)
    <3>1. \A i \in 1..Len(s) : i \in 1..(k - 1)
      BY <1>2
    <3> QED BY <3>1 DEF IsFirst, Hit, SomeMatch
  <2>2. \A i \in 1..(j - 1) : Len(s) + i \in 1..(k - 1) /\ t[i] = r[Len(s) + i]
    BY <1>2
  <2>3. t[j] = r[k] /\ j \in DOMAIN t
    BY <1>2
  <2> QED BY <2>1, <2>2, <2>3 DEF IsFirst, Hit
<1>3. k \in 1..Len(s) \/ \E j \in 1..Len(t) : k = Len(s) + j
  BY DEF IsFirst
<1> QED BY <1>1, <1>2, <1>3

\* A property of numbers up to a place in the second of two lists.
LEMMA JoinedBelow ==
    ASSUME NEW r, NEW s, NEW t, Joins(r, s, t), NEW i \in DOMAIN t, NEW n, n = Len(s) + i
    PROVE  /\ n \in DOMAIN r /\ r[n] = t[i]
           /\ \A j \in 1..(n - 1) : \/ j \in DOMAIN s /\ r[j] = s[j]
                                    \/ \E k \in 1..(i - 1) : r[j] = t[k]
<1> USE DEF Joins
<1>1. ASSUME NEW j \in 1..(n - 1), j \notin DOMAIN s
      PROVE  \E k \in 1..(i - 1) : r[j] = t[k]
  <2>1. PICK k : k = j - Len(s)
    OBVIOUS
  <2>2. k \in 1..(i - 1) /\ k \in 1..Len(t) /\ j = Len(s) + k
    BY <1>1, <2>1
  <2>3. r[j] = t[k]
    BY <2>2
  <2> QED BY <2>2, <2>3
<1> QED BY <1>1

\* Layering a policy over another puts its layers before the other's.
LEMMA MoreLayers ==
    ASSUME NEW d, NEW p, NEW q, NEW g, NEW h, IsList(g), IsList(h),
           ByLayers(d, p, g), ByLayers(d, q, h)
    PROVE  ByLayers(d, Merge(p, q), h \o g)
<1> DEFINE m == Merge(p, q)
           both == h \o g
<1>1. /\ m.rules = q.rules \o p.rules
      /\ DOMAIN m.risk = DOMAIN p.risk \cup DOMAIN q.risk
      /\ \A l \in DOMAIN q.risk : m.risk[l] = q.risk[l]
      /\ \A l \in DOMAIN p.risk : l \notin DOMAIN q.risk => m.risk[l] = p.risk[l]
  BY DEF Merge
<1>2. IsList(p.rules) /\ RulesBy(d, p, g) /\ RiskBy(d, p, g)
      /\ IsList(q.rules) /\ RulesBy(d, q, h) /\ RiskBy(d, q, h)
  BY DEF ByLayers
<1>3. Joins(m.rules, q.rules, p.rules)
  <2>1. Joins(q.rules \o p.rules, q.rules, p.rules)
    BY <1>2, Joined
  <2> QED BY <1>1, <2>1
<1>4. Joins(both, h, g)
  BY Joined
<1> HIDE DEF m, both
<1>5. \A i \in DOMAIN h : i \in DOMAIN both /\ both[i] = h[i]
  BY <1>4 DEF Joins
<1>6. \A i \in DOMAIN g : \E n : /\ n \in DOMAIN both /\ both[n] = g[i]
                                /\ \A j \in 1..(n - 1) : \/ j \in DOMAIN h /\ both[j] = h[j]
                                                         \/ \E k \in 1..(i - 1) : both[j] = g[k]
  BY <1>4, JoinedBelow
<1>7. \A i \in DOMAIN both : \/ i \in DOMAIN h /\ both[i] = h[i]
                           \/ \E j \in DOMAIN g : both[i] = g[j]
  BY <1>4 DEF Joins
<1>8. \A i \in DOMAIN h : \A j \in 1..(i - 1) : j \in DOMAIN h /\ both[j] = h[j]
  BY <1>4 DEF Joins
<1>9. ASSUME NEW actions, NEW e
      PROVE  SomeIn(d, both, actions, e) <=>
                SomeIn(d, h, actions, e) \/ SomeIn(d, g, actions, e)
  BY <1>5, <1>6, <1>7, Zenon DEF SomeIn
<1>10. ASSUME NEW actions, NEW e, NEW k, IsFirst(m.rules, actions, e, k)
       PROVE  FirstIn(d, both, m.rules[k].action, actions, e)
  <2>1. CASE IsFirst(q.rules, actions, e, k) /\ q.rules[k] = m.rules[k]
    <3>1. FirstIn(d, h, m.rules[k].action, actions, e)
      BY <1>2, <2>1 DEF RulesBy
    <3> QED BY <1>5, <1>8, <3>1, Zenon DEF FirstIn
  <2>2. ASSUME ~ SomeMatch(q.rules, actions, e),
               NEW j, IsFirst(p.rules, actions, e, j), p.rules[j] = m.rules[k]
        PROVE  FirstIn(d, both, m.rules[k].action, actions, e)
    <3>1. FirstIn(d, g, m.rules[k].action, actions, e) /\ ~ SomeIn(d, h, actions, e)
      BY <1>2, <2>2 DEF RulesBy
    <3>2. PICK i \in DOMAIN g :
            /\ SomeMatch(d[g[i]].rules, {m.rules[k].action}, e)
            /\ \A l \in 1..(i - 1) : ~ SomeMatch(d[g[l]].rules, actions, e)
      BY <3>1, Zenon DEF FirstIn
    <3>3. PICK n : /\ n \in DOMAIN both /\ both[n] = g[i]
                   /\ \A l \in 1..(n - 1) : \/ l \in DOMAIN h /\ both[l] = h[l]
                                            \/ \E o \in 1..(i - 1) : both[l] = g[o]
      BY <1>6, Zenon
    <3>4. \A l \in 1..(n - 1) : ~ SomeMatch(d[both[l]].rules, actions, e)
      BY <3>1, <3>2, <3>3, Zenon DEF SomeIn
    <3> QED BY <3>2, <3>3, <3>4, Zenon DEF FirstIn
  <2>3. \/ IsFirst(q.rules, actions, e, k) /\ q.rules[k] = m.rules[k]
        \/ /\ ~ SomeMatch(q.rules, actions, e)
           /\ \E j : IsFirst(p.rules, actions, e, j) /\ p.rules[j] = m.rules[k]
    BY <1>3, <1>10, JoinedFirst
  <2> QED BY <2>1, <2>2, <2>3, Zenon
<1>11. RulesBy(d, m, both)
  <2>1. ASSUME NEW actions, NEW e
        PROVE  SomeMatch(m.rules, actions, e) <=> SomeIn(d, both, actions, e)
    <3>1. SomeMatch(m.rules, actions, e) <=>
            SomeMatch(q.rules, actions, e) \/ SomeMatch(p.rules, actions, e)
      BY <1>3, JoinedMatch, Zenon
    <3> QED BY <1>2, <1>9, <3>1, Zenon DEF RulesBy
  <2> QED BY <1>10, <2>1, Zenon DEF RulesBy
<1>12. ASSUME NEW l, l \in DOMAIN m.risk PROVE LevelIn(d, both, l, m.risk[l])
  <2>1. CASE l \in DOMAIN q.risk
    <3>1. LevelIn(d, h, l, m.risk[l])
      BY <1>1, <1>2, <2>1 DEF RiskBy
    <3> QED BY <1>5, <1>8, <3>1, Zenon DEF LevelIn
  <2>2. CASE l \notin DOMAIN q.risk
    <3>1. LevelIn(d, g, l, m.risk[l]) /\ \A i \in DOMAIN h : l \notin DOMAIN d[h[i]].risk
      BY <1>1, <1>2, <1>12, <2>2 DEF RiskBy
    <3>2. PICK i \in DOMAIN g :
            /\ l \in DOMAIN d[g[i]].risk /\ d[g[i]].risk[l] = m.risk[l]
            /\ \A j \in 1..(i - 1) : l \notin DOMAIN d[g[j]].risk
      BY <3>1, Zenon DEF LevelIn
    <3>3. PICK n : /\ n \in DOMAIN both /\ both[n] = g[i]
                   /\ \A j \in 1..(n - 1) : \/ j \in DOMAIN h /\ both[j] = h[j]
                                            \/ \E o \in 1..(i - 1) : both[j] = g[o]
      BY <1>6, Zenon
    <3>4. \A j \in 1..(n - 1) : l \notin DOMAIN d[both[j]].risk
      BY <3>1, <3>2, <3>3, Zenon
    <3> QED BY <3>2, <3>3, <3>4, Zenon DEF LevelIn
  <2> QED BY <2>1, <2>2
<1>13. RiskBy(d, m, both)
  <2>1. ASSUME NEW l
        PROVE  l \in DOMAIN m.risk <=> \E i \in DOMAIN both : l \in DOMAIN d[both[i]].risk
    <3>1. l \in DOMAIN m.risk <=> \/ \E i \in DOMAIN h : l \in DOMAIN d[h[i]].risk
                                \/ \E i \in DOMAIN g : l \in DOMAIN d[g[i]].risk
      BY <1>1, <1>2 DEF RiskBy
    <3> QED BY <1>5, <1>6, <1>7, <3>1, Zenon
  <2> QED BY <1>12, <2>1, Zenon DEF RiskBy
<1>14. IsList(m.rules)
  BY <1>3 DEF Joins
<1> QED BY <1>11, <1>13, <1>14 DEF ByLayers, m, both

-----------------------------------------------------------------------------
(* The layers of what is cached *)

\* Function from collects the layers of the first k files of ext, later ones first.
Folded(ext, L, from, k) ==
    /\ from \in [0..k -> Seq(Files)] /\ from[0] = <<>>
    /\ \A i \in 1..k : from[i] = L[ext[i]] \o from[i - 1]

\* L gives the layers of the files in C, which are its own and those of what it extends.
AreLayers(d, C, L) ==
    /\ L \in [C -> Seq(Files)]
    /\ \A f \in C : \E from :
        /\ Folded(d[f].extends, L, from, Len(d[f].extends))
        /\ L[f] = <<f>> \o from[Len(d[f].extends)]

\* A call in progress has layered the first files it extends, and has the rest to load.
FrameLayers(d, C, L, fr) ==
    \E k \in 0..Len(d[fr.file].extends) : \E from :
        /\ Folded(d[fr.file].extends, L, from, k)
        /\ \A i \in 1..k : d[fr.file].extends[i] \in C
        /\ Len(fr.todo) = Len(d[fr.file].extends) - k
        /\ \A i \in 1..Len(fr.todo) : fr.todo[i] = d[fr.file].extends[k + i]
        /\ ByLayers(d, fr.base, from[k])

\* Every policy that is cached, and the base of every call in progress, decides by its
\* layers.
LayeredBy(L) ==
    /\ AreLayers(disk, DOMAIN cache, L)
    /\ \A f \in DOMAIN cache : ByLayers(disk, cache[f], L[f])
    /\ \A n \in DOMAIN stack : FrameLayers(disk, DOMAIN cache, L, stack[n])

LayerInv == LoadInv /\ CachedIsComplete /\ \E L : LayeredBy(L)

\* Layers of other files do not matter.
LEMMA FoldedSame ==
    ASSUME NEW ext, NEW L, NEW from, NEW k \in Nat, Folded(ext, L, from, k),
           NEW M, \A i \in 1..k : M[ext[i]] = L[ext[i]]
    PROVE  Folded(ext, M, from, k)
  BY DEF Folded

LEMMA FrameSame ==
    ASSUME NEW d, NEW C, NEW L, NEW fr, FrameLayers(d, C, L, fr), Len(d[fr.file].extends) \in Nat,
           NEW D, C \subseteq D, NEW M, \A f \in C : M[f] = L[f]
    PROVE  FrameLayers(d, D, M, fr)
<1> DEFINE ext == d[fr.file].extends
<1>1. PICK k, from :
        /\ k \in 0..Len(ext)
        /\ Folded(ext, L, from, k)
        /\ \A i \in 1..k : ext[i] \in C
        /\ Len(fr.todo) = Len(ext) - k
        /\ \A i \in 1..Len(fr.todo) : fr.todo[i] = ext[k + i]
        /\ ByLayers(d, fr.base, from[k])
  BY DEF FrameLayers
<1> HIDE DEF ext
<1>2. k \in Nat
  BY <1>1
<1>3. Folded(ext, M, from, k)
  BY <1>1, <1>2, FoldedSame
<1> QED BY <1>1, <1>3, Zenon DEF FrameLayers, ext

\* What a file extends, as far as the invariant of the calls tells.
LEMMA ExtendsLength ==
    ASSUME disk \in Disks, NEW f \in Files
    PROVE  /\ Len(disk[f].extends) \in Nat
           /\ \A i \in 1..Len(disk[f].extends) : disk[f].extends[i] \in Parents(f)
<1>1. disk[f].extends \in Seq(Files)
  BY ExtendsType
<1>2. Len(disk[f].extends) \in Nat /\ DOMAIN disk[f].extends = 1..Len(disk[f].extends)
  BY <1>1
<1> QED BY <1>2 DEF Parents

\* A call that starts has layered nothing yet.
LEMMA FirstFrame ==
    ASSUME disk \in Disks, NEW f \in Files, NEW C, NEW L
    PROVE  FrameLayers(disk, C, L, Frame(f))
<1>1. PICK fr : fr = Frame(f)
  OBVIOUS
<1>2. fr.file = f /\ fr.todo = disk[f].extends /\ fr.base = Empty
  BY <1>1 DEF Frame
<1>3. Len(disk[f].extends) \in Nat
  BY ExtendsLength
<1>4. PICK from : from = [i \in {0} |-> <<>>]
  OBVIOUS
<1>5. from[0] = <<>> /\ from \in [0..0 -> Seq(Files)] /\ 1..0 = {}
  <2>1. 0..0 = {0} /\ <<>> \in Seq(Files)
    OBVIOUS
  <2> QED BY <1>4, <2>1
<1>6. Folded(disk[f].extends, L, from, 0)
  BY <1>5 DEF Folded
<1>7. ByLayers(disk, fr.base, from[0])
  BY <1>2, <1>5, NoLayers
<1>8. /\ \A i \in 1..0 : disk[f].extends[i] \in C
      /\ Len(fr.todo) = Len(disk[f].extends) - 0
      /\ \A i \in 1..Len(fr.todo) : fr.todo[i] = disk[f].extends[0 + i]
      /\ 0 \in 0..Len(disk[f].extends)
  BY <1>2, <1>3, <1>5
<1>9. FrameLayers(disk, C, L, fr)
  BY <1>2, <1>6, <1>7, <1>8 DEF FrameLayers
<1> QED BY <1>1, <1>9

LEMMA OpenLayers ==
    ASSUME LoadInv, NEW f \in Files \ DOMAIN cache, Open(f), UNCHANGED disk,
           NEW L, LayeredBy(L)
    PROVE  LayeredBy(L)'
<1>0. UNCHANGED cache /\ disk \in Disks /\ IsList(stack) /\ DOMAIN stack = 1..Len(stack)
  BY DEF Open, Raise, LoadInv
<1>1. CASE stack' = <<>>
  <2>1. DOMAIN stack' = {}
    BY <1>1
  <2> QED BY <1>0, <2>1 DEF LayeredBy
<1>2. CASE stack' = Append(stack, Frame(f))
  <2>1. /\ DOMAIN stack' = 1..(Len(stack) + 1) /\ Len(stack) \in Nat
        /\ stack'[Len(stack) + 1] = Frame(f) /\ \A i \in 1..Len(stack) : stack'[i] = stack[i]
    BY <1>0, <1>2, Push
  <2>2. FrameLayers(disk, DOMAIN cache, L, Frame(f))
    BY <1>0, FirstFrame
  <2>3. \A n \in DOMAIN stack : FrameLayers(disk, DOMAIN cache, L, stack[n])
    BY DEF LayeredBy
  <2>4. \A n \in DOMAIN stack' : FrameLayers(disk, DOMAIN cache, L, stack'[n])
    <3> SUFFICES ASSUME NEW n \in DOMAIN stack'
                 PROVE  FrameLayers(disk, DOMAIN cache, L, stack'[n])
      OBVIOUS
    <3>1. n \in 1..Len(stack) \/ n = Len(stack) + 1
      BY <2>1
    <3> QED BY <1>0, <2>1, <2>2, <2>3, <3>1, Zenon
  <2> QED BY <1>0, <2>4 DEF LayeredBy
<1> QED BY <1>1, <1>2 DEF Open, Raise

\* The frame after one more parent is layered.
LEMMA NextFrame ==
    ASSUME disk \in Disks, NEW fr, fr.file \in Files, fr.todo \in Seq(Files), fr.todo # <<>>,
           NEW L, LayeredBy(L), FrameLayers(disk, DOMAIN cache, L, fr),
           Head(fr.todo) \in DOMAIN cache,
           NEW fs, fs.file = fr.file, fs.todo = Tail(fr.todo),
           fs.base = Merge(fr.base, cache[Head(fr.todo)])
    PROVE  FrameLayers(disk, DOMAIN cache, L, fs)
<1>0. PICK ext : ext = disk[fr.file].extends
  OBVIOUS
<1>1. PICK k, from :
        /\ k \in 0..Len(ext)
        /\ Folded(ext, L, from, k)
        /\ \A i \in 1..k : ext[i] \in DOMAIN cache
        /\ Len(fr.todo) = Len(ext) - k
        /\ \A i \in 1..Len(fr.todo) : fr.todo[i] = ext[k + i]
        /\ ByLayers(disk, fr.base, from[k])
  BY <1>0, Zenon DEF FrameLayers
<1>2. Len(ext) \in Nat
  BY <1>0, ExtendsLength
<1>3. PICK todo, rest, p : todo = fr.todo /\ rest = fs.todo /\ p = Head(todo)
  OBVIOUS
<1>4. /\ Len(todo) \in Nat \ {0} /\ Len(rest) = Len(todo) - 1 /\ p = todo[1]
      /\ \A i \in 1..Len(rest) : rest[i] = todo[i + 1]
  <2>1. todo \in Seq(Files) /\ todo # <<>> /\ rest = Tail(todo)
    BY <1>3
  <2> QED BY <1>3, <2>1
<1>5. k + 1 \in 0..Len(ext) /\ k \in Nat /\ p = ext[k + 1]
  <2>1. Len(todo) = Len(ext) - k /\ \A i \in 1..Len(todo) : todo[i] = ext[k + i]
    BY <1>1, <1>3
  <2>2. k \in 0..Len(ext)
    BY <1>1
  <2> QED BY <1>2, <1>4, <2>1, <2>2
<1>6. /\ Len(rest) = Len(ext) - (k + 1)
      /\ \A i \in 1..Len(rest) : rest[i] = ext[k + 1 + i]
  <2>1. Len(todo) = Len(ext) - k /\ \A i \in 1..Len(todo) : todo[i] = ext[k + i]
    BY <1>1, <1>3
  <2> QED BY <1>2, <1>4, <1>5, <2>1
<1>7. p \in DOMAIN cache /\ L[p] \in Seq(Files) /\ from[k] \in Seq(Files)
  BY <1>1, <1>3, <1>5 DEF Folded, LayeredBy, AreLayers
<1>8. PICK top : top = L[p] \o from[k] /\ top \in Seq(Files)
  <2>1. \A s, t \in Seq(Files) : s \o t \in Seq(Files)
    OBVIOUS
  <2> QED BY <1>7, <2>1, Zenon
<1>9. PICK longer : longer = [i \in 0..(k + 1) |-> IF i = k + 1 THEN top ELSE from[i]]
  OBVIOUS
<1>10. Folded(ext, L, longer, k + 1) /\ longer[k + 1] = top
  <2>1. /\ \A i \in 0..k : longer[i] = from[i]
        /\ longer[k + 1] = top /\ DOMAIN longer = 0..(k + 1)
    BY <1>5, <1>9
  <2>2. longer \in [0..(k + 1) -> Seq(Files)]
    BY <1>1, <1>5, <1>8, <1>9 DEF Folded
  <2>3. longer[0] = <<>>
    BY <1>1, <1>5, <2>1 DEF Folded
  <2>4. ASSUME NEW i \in 1..(k + 1) PROVE longer[i] = L[ext[i]] \o longer[i - 1]
    <3>1. CASE i = k + 1
      <4>0. k \in Nat /\ k \in 0..k /\ i - 1 = k
        <5>1. k \in Nat
          BY <1>5
        <5> QED BY <3>1, <5>1
      <4>1. i - 1 = k /\ longer[k] = from[k]
        BY <2>1, <4>0, Zenon
      <4> QED BY <1>5, <1>8, <2>1, <3>1, <4>1, Zenon
    <3>2. CASE i # k + 1
      <4>1. i \in 1..k /\ longer[i] = from[i] /\ longer[i - 1] = from[i - 1]
        BY <1>5, <2>1, <3>2
      <4>2. from[i] = L[ext[i]] \o from[i - 1]
        BY <1>1, <4>1 DEF Folded
      <4> QED BY <4>1, <4>2, Zenon
    <3> QED BY <3>1, <3>2
  <2> QED BY <2>1, <2>2, <2>3, <2>4 DEF Folded
<1>11. ByLayers(disk, fs.base, longer[k + 1])
  <2>1. ByLayers(disk, fr.base, from[k]) /\ ByLayers(disk, cache[p], L[p])
    BY <1>1, <1>7 DEF LayeredBy
  <2>2. IsList(from[k]) /\ IsList(L[p])
    BY <1>7, ListOf
  <2>3. ByLayers(disk, Merge(fr.base, cache[p]), top)
    BY <1>8, <2>1, <2>2, MoreLayers
  <2> QED BY <1>3, <1>10, <2>3
<1>12. \A i \in 1..(k + 1) : ext[i] \in DOMAIN cache
  BY <1>1, <1>5, <1>7
<1> QED BY <1>0, <1>3, <1>5, <1>6, <1>10, <1>11, <1>12 DEF FrameLayers

LEMMA MergeLayers ==
    ASSUME LoadInv, MergeParent, NEW L, LayeredBy(L)
    PROVE  LayeredBy(L)'
<1> DEFINE n == Len(stack)
<1>0. UNCHANGED <<disk, cache>> /\ stack # <<>> /\ Top.todo # <<>>
      /\ Head(Top.todo) \in DOMAIN cache /\ disk \in Disks /\ IsList(stack)
  BY DEF MergeParent, LoadInv
<1>1. PICK fs : /\ stack' = Append(Below, fs)
                /\ fs = [Top EXCEPT !.todo = Tail(@), !.base = Merge(@, cache[Head(Top.todo)])]
  BY DEF MergeParent
<1>2. /\ n \in Nat \ {0} /\ DOMAIN stack' = 1..n
      /\ stack'[n] = fs /\ \A i \in 1..(n - 1) : stack'[i] = stack[i]
  BY <1>0, <1>1, Replace DEF Below
<1>3. n \in DOMAIN stack /\ stack[n] = Top /\ DOMAIN stack = 1..n
  BY <1>2 DEF Top, LoadInv
<1>4. Top.file \in Files /\ Top.todo \in Seq(Files)
  BY <1>3 DEF LoadInv, FrameOK
<1>5. FrameLayers(disk, DOMAIN cache, L, Top)
  BY <1>3 DEF LayeredBy
<1>6. FrameLayers(disk, DOMAIN cache, L, fs)
  <2>1. PICK file, base, todo : Top = [file |-> file, base |-> base, todo |-> todo]
    BY <1>3 DEF LoadInv, FrameOK, IsFrame
  <2>2. /\ fs.file = Top.file /\ fs.todo = Tail(Top.todo)
        /\ fs.base = Merge(Top.base, cache[Head(Top.todo)])
    BY <1>1, <2>1
  <2> QED BY <1>0, <1>4, <1>5, <2>2, NextFrame
<1>7. ASSUME NEW i \in 1..n PROVE FrameLayers(disk, DOMAIN cache, L, stack'[i])
  <2>1. CASE i = n
    BY <1>2, <1>6, <2>1
  <2>2. CASE i # n
    <3>1. i \in 1..(n - 1)
      BY <1>2, <2>2
    <3>2. stack'[i] = stack[i] /\ i \in DOMAIN stack
      BY <1>2, <1>3, <3>1
    <3> QED BY <3>2, Zenon DEF LayeredBy
  <2> QED BY <2>1, <2>2
<1> QED BY <1>0, <1>2, <1>7 DEF LayeredBy

\* What a call that returns caches is layered from the file and all it has layered.
LEMMA ReturnLayers ==
    ASSUME LoadInv, CachedIsComplete, Return, NEW L, LayeredBy(L)
    PROVE  \E M : LayeredBy(M)'
<1> DEFINE n == Len(stack)
           C == DOMAIN cache
<1>0. /\ UNCHANGED disk /\ stack # <<>> /\ Top.todo = <<>> /\ stack' = Below
      /\ cache' = [g \in DOMAIN cache \cup {Top.file} |->
                    IF g = Top.file THEN Merge(Top.base, Own(g)) ELSE cache[g]]
      /\ disk \in Disks /\ C \subseteq Files /\ IsList(stack) /\ DOMAIN stack = 1..n
  BY DEF Return, LoadInv
<1>1. /\ n \in Nat \ {0} /\ DOMAIN stack' = 1..(n - 1)
      /\ \A i \in 1..(n - 1) : stack'[i] = stack[i]
  BY <1>0, Pop DEF Below
<1>2. n \in DOMAIN stack /\ stack[n] = Top
  BY <1>0, <1>1 DEF Top
<1>3. PICK f : f = Top.file
  OBVIOUS
<1>4. f \in Files \ C /\ Parents(f) \subseteq C
  BY <1>3, ReturnKeeps DEF LoadInv, FrameOK, Return
<1>5. PICK ext : ext = disk[f].extends
  OBVIOUS
<1>6. Len(ext) \in Nat
  BY <1>0, <1>4, <1>5, ExtendsLength
<1>7. PICK from : Folded(ext, L, from, Len(ext)) /\ ByLayers(disk, Top.base, from[Len(ext)])
  <2>1. FrameLayers(disk, C, L, Top)
    BY <1>2 DEF LayeredBy
  <2>2. PICK k, from : /\ k \in 0..Len(ext) /\ Folded(ext, L, from, k)
                      /\ Len(Top.todo) = Len(ext) - k
                      /\ ByLayers(disk, Top.base, from[k])
    BY <1>3, <1>5, <2>1, Zenon DEF FrameLayers
  <2>3. k = Len(ext)
    <3>1. Len(Top.todo) = 0
      BY <1>0
    <3> QED BY <1>6, <2>2, <3>1
  <2> QED BY <2>2, <2>3
<1>8. from[Len(ext)] \in Seq(Files)
  BY <1>6, <1>7 DEF Folded
<1>9. PICK own : own = <<f>> \o from[Len(ext)] /\ own \in Seq(Files)
  <2>1. \A s, t \in Seq(Files) : s \o t \in Seq(Files)
    OBVIOUS
  <2>2. <<f>> \in Seq(Files)
    BY <1>4
  <2> QED BY <1>8, <2>1, <2>2, Zenon
<1>10. PICK M : M = [g \in C \cup {f} |-> IF g = f THEN own ELSE L[g]]
  OBVIOUS
<1>11. /\ \A g \in C : M[g] = L[g]
       /\ M[f] = own /\ M \in [C \cup {f} -> Seq(Files)]
  BY <1>4, <1>9, <1>10 DEF LayeredBy, AreLayers
<1>12. ASSUME NEW g \in Files, Parents(g) \subseteq C, NEW fg,
              Folded(disk[g].extends, L, fg, Len(disk[g].extends))
       PROVE  Folded(disk[g].extends, M, fg, Len(disk[g].extends))
  <2>1. /\ Len(disk[g].extends) \in Nat
        /\ \A i \in 1..Len(disk[g].extends) : disk[g].extends[i] \in C
    BY <1>0, <1>12, ExtendsLength
  <2> QED BY <1>11, <1>12, <2>1, FoldedSame
<1>13. AreLayers(disk, C \cup {f}, M)
  <2>1. ASSUME NEW g \in C
        PROVE  \E fg : /\ Folded(disk[g].extends, M, fg, Len(disk[g].extends))
                      /\ M[g] = <<g>> \o fg[Len(disk[g].extends)]
    <3>1. PICK fg : /\ Folded(disk[g].extends, L, fg, Len(disk[g].extends))
                    /\ L[g] = <<g>> \o fg[Len(disk[g].extends)]
      BY Zenon DEF LayeredBy, AreLayers
    <3>2. g \in Files /\ Parents(g) \subseteq C
      BY <1>0 DEF CachedIsComplete
    <3> QED BY <1>11, <1>12, <3>1, <3>2, Zenon
  <2>2. /\ Folded(disk[f].extends, M, from, Len(disk[f].extends))
        /\ M[f] = <<f>> \o from[Len(disk[f].extends)]
    BY <1>4, <1>5, <1>7, <1>9, <1>11, <1>12, Zenon
  <2> QED BY <1>11, <2>1, <2>2, Zenon DEF AreLayers
<1>14. /\ DOMAIN cache' = C \cup {f} /\ cache'[f] = Merge(Top.base, Own(f))
       /\ \A g \in C : cache'[g] = cache[g]
  BY <1>0, <1>3, <1>4
<1>15. ByLayers(disk, cache'[f], M[f])
  <2>1. ByLayers(disk, Own(f), <<f>>)
    BY <1>0, <1>4, OneLayer DEF Own
  <2>2. IsList(<<f>>) /\ IsList(from[Len(ext)])
    <3>1. <<f>> \in Seq(Files)
      BY <1>4
    <3> QED BY <1>8, <3>1, ListOf
  <2>3. ByLayers(disk, Merge(Top.base, Own(f)), <<f>> \o from[Len(ext)])
    BY <1>7, <2>1, <2>2, MoreLayers
  <2> QED BY <1>9, <1>11, <1>14, <2>3
<1>16. \A g \in C \cup {f} : ByLayers(disk, cache'[g], M[g])
  BY <1>11, <1>14, <1>15 DEF LayeredBy
<1>17. \A i \in 1..(n - 1) : FrameLayers(disk, C \cup {f}, M, stack'[i])
  <2> SUFFICES ASSUME NEW i \in 1..(n - 1)
               PROVE  FrameLayers(disk, C \cup {f}, M, stack'[i])
    OBVIOUS
  <2>1. i \in DOMAIN stack /\ stack'[i] = stack[i]
    BY <1>0, <1>1
  <2>2. FrameLayers(disk, C, L, stack[i]) /\ stack[i].file \in Files
    BY <2>1 DEF LayeredBy, LoadInv, FrameOK
  <2>3. Len(disk[stack[i].file].extends) \in Nat
    BY <1>0, <2>2, ExtendsLength
  <2> QED BY <1>11, <2>1, <2>2, <2>3, FrameSame
<1>18. LayeredBy(M)'
  BY <1>0, <1>1, <1>13, <1>14, <1>16, <1>17, Zenon DEF LayeredBy
<1> QED BY <1>18

\* The layers exist at first ...
LEMMA InitLayers == Init => LayerInv
<1> SUFFICES ASSUME Init PROVE LayerInv
  OBVIOUS
<1>1. CachedIsComplete
  BY DEF Init, CachedIsComplete
<1>2. DOMAIN cache = {} /\ DOMAIN stack = {}
  BY DEF Init
<1>3. <<>> \in [{} -> Seq(Files)]
  OBVIOUS
<1>4. LayeredBy(<<>>)
  BY <1>2, <1>3 DEF LayeredBy, AreLayers
<1> QED BY <1>1, <1>4, InitLoads DEF LayerInv

\* ... and after every step.
LEMMA NextLayers == LayerInv /\ [Next]_vars => LayerInv'
<1> SUFFICES ASSUME LayerInv, [Next]_vars PROVE LayerInv'
  OBVIOUS
<1>1. LoadInv /\ CachedIsComplete /\ LoadInv'
  BY NextLoads DEF LayerInv
<1>2. PICK L : LayeredBy(L)
  BY DEF LayerInv
<1>3. CachedIsComplete'
  BY <1>1, NextCompletes
<1>4. ASSUME UNCHANGED <<disk, cache, stack>> PROVE LayeredBy(L)'
  BY <1>2, <1>4 DEF LayeredBy
<1>5. ASSUME NEW f \in Files, Load(f) PROVE LayeredBy(L)'
  BY <1>1, <1>2, <1>4, <1>5, OpenLayers DEF Load
<1>6. CASE LoadParent
  <2>1. stack # <<>> /\ Top.todo # <<>> /\ Head(Top.todo) \notin DOMAIN cache
        /\ Open(Head(Top.todo)) /\ UNCHANGED disk
    BY <1>6 DEF LoadParent
  <2>2. Head(Top.todo) \in Files
    BY <1>1, <2>1, TopTodo
  <2> QED BY <1>1, <1>2, <1>3, <2>1, <2>2, OpenLayers DEF LayerInv
<1>7. CASE MergeParent
  BY <1>1, <1>2, <1>3, <1>7, MergeLayers DEF LayerInv
<1>8. CASE Return
  BY <1>1, <1>2, <1>3, <1>8, ReturnLayers DEF LayerInv
<1>9. CASE UNCHANGED vars
  BY <1>1, <1>2, <1>3, <1>4, <1>9 DEF LayerInv, vars
<1> QED BY <1>1, <1>3, <1>5, <1>6, <1>7, <1>8, <1>9 DEF Next, LayerInv

-----------------------------------------------------------------------------
(* The function Layers gives those layers *)

FoldEq(ext, L, from) ==
    from = [i \in 0..Len(ext) |-> IF i = 0 THEN <<>> ELSE L[ext[i]] \o from[i - 1]]
FoldOf(ext, L) == CHOOSE from : FoldEq(ext, L, from)
LayersEq(M) ==
    M = [f \in DOMAIN cache |-> <<f>> \o FoldOf(disk[f].extends, M)[Len(disk[f].extends)]]

LEMMA LayersDef == Layers = CHOOSE M : LayersEq(M)
  BY Zenon DEF Layers, LayersEq, FoldOf, FoldEq

\* The recursion on what a file extends has one solution.
LEMMA FoldIs ==
    ASSUME NEW ext, Len(ext) \in Nat, NEW L, NEW from, Folded(ext, L, from, Len(ext))
    PROVE  FoldOf(ext, L) = from
<1> DEFINE n == Len(ext)
<1>1. FoldEq(ext, L, from)
  <2>1. /\ from = [i \in 0..n |-> from[i]] /\ from[0] = <<>>
        /\ \A i \in 1..n : from[i] = L[ext[i]] \o from[i - 1]
    BY DEF Folded
  <2>2. \A i \in 0..n : from[i] = IF i = 0 THEN <<>> ELSE L[ext[i]] \o from[i - 1]
    <3> SUFFICES ASSUME NEW i \in 0..n
                 PROVE  from[i] = IF i = 0 THEN <<>> ELSE L[ext[i]] \o from[i - 1]
      OBVIOUS
    <3>1. i # 0 => i \in 1..n
      OBVIOUS
    <3> QED BY <2>1, <3>1, Zenon
  <2> QED BY <2>1, <2>2, Zenon DEF FoldEq
<1>2. ASSUME NEW h, FoldEq(ext, L, h) PROVE h = from
  <2>1. /\ h = [i \in 0..n |-> h[i]]
        /\ \A i \in 0..n : h[i] = IF i = 0 THEN <<>> ELSE L[ext[i]] \o h[i - 1]
    BY <1>2, Zenon DEF FoldEq
  <2>2. /\ from = [i \in 0..n |-> from[i]]
        /\ \A i \in 0..n : from[i] = IF i = 0 THEN <<>> ELSE L[ext[i]] \o from[i - 1]
    BY <1>1, Zenon DEF FoldEq
  <2> DEFINE S == {i \in Nat : i <= n => h[i] = from[i]}
  <2>3. 0 \in S
    <3>1. 0 \in 0..n
      OBVIOUS
    <3>2. h[0] = from[0]
      BY <2>1, <2>2, <3>1, Zenon
    <3> QED BY <3>2
  <2>4. ASSUME NEW i \in Nat, i \in S PROVE i + 1 \in S
    <3>1. ASSUME i + 1 <= n PROVE h[i + 1] = from[i + 1]
      <4>1. PICK j : j = i + 1
        OBVIOUS
      <4>2. j \in 0..n /\ j # 0 /\ j - 1 = i /\ h[i] = from[i]
        BY <2>4, <3>1, <4>1
      <4>3. h[j] = L[ext[j]] \o h[i] /\ from[j] = L[ext[j]] \o from[i]
        BY <2>1, <2>2, <4>2, Zenon
      <4> QED BY <4>1, <4>2, <4>3, Zenon
    <3> QED BY <3>1
  <2>5. Nat \subseteq S
    <3> HIDE DEF S
    <3> QED BY <2>3, <2>4, AllNumbers
  <2>6. \A i \in 0..n : h[i] = from[i]
    BY <2>5
  <2> QED BY <2>1, <2>2, <2>6, Zenon
<1> QED BY <1>1, <1>2, Zenon DEF FoldOf

\* So has the recursion on files, for those that are cached do not extend themselves.
LEMMA LayersAre ==
    ASSUME LoadInv, CachedIsComplete, NEW L, LayeredBy(L)
    PROVE  Layers = L
<1> DEFINE C == DOMAIN cache
<1>1. AreLayers(disk, C, L) /\ C \subseteq Files /\ disk \in Disks
  BY DEF LayeredBy, LoadInv
<1>2. \A f \in C : Len(disk[f].extends) \in Nat
  BY <1>1, ExtendsLength
<1>3. L = [f \in C |-> L[f]]
  BY <1>1 DEF AreLayers
<1>4. LayersEq(L)
  <2>1. ASSUME NEW f \in C
        PROVE  L[f] = <<f>> \o FoldOf(disk[f].extends, L)[Len(disk[f].extends)]
    <3>1. PICK from : /\ Folded(disk[f].extends, L, from, Len(disk[f].extends))
                      /\ L[f] = <<f>> \o from[Len(disk[f].extends)]
      BY <1>1, Zenon DEF AreLayers
    <3>2. FoldOf(disk[f].extends, L) = from
      BY <1>2, <3>1, FoldIs
    <3> QED BY <3>1, <3>2, Zenon
  <2> QED BY <1>3, <2>1, Zenon DEF LayersEq
<1>5. ASSUME NEW M, LayersEq(M) PROVE M = L
  <2>1. /\ M = [f \in C |-> M[f]]
        /\ \A f \in C : M[f] = <<f>> \o FoldOf(disk[f].extends, M)[Len(disk[f].extends)]
    BY <1>5, Zenon DEF LayersEq
  <2> DEFINE D == {f \in C : M[f] # L[f]}
  <2>2. ASSUME D # {} PROVE FALSE
    <3>1. PICK f \in D : Parents(f) \cap D = {}
      BY <2>2 DEF CachedIsComplete
    <3>2. f \in C /\ Parents(f) \subseteq C /\ M[f] # L[f]
      BY <3>1 DEF CachedIsComplete
    <3>3. PICK ext : ext = disk[f].extends
      OBVIOUS
    <3>4. Len(ext) \in Nat /\ \A i \in 1..Len(ext) : ext[i] \in Parents(f)
      BY <1>1, <3>2, <3>3, ExtendsLength
    <3>5. \A i \in 1..Len(ext) : M[ext[i]] = L[ext[i]]
      BY <3>1, <3>2, <3>4
    <3>6. PICK from : Folded(ext, L, from, Len(ext)) /\ L[f] = <<f>> \o from[Len(ext)]
      BY <1>1, <3>2, <3>3, Zenon DEF AreLayers
    <3>7. Folded(ext, M, from, Len(ext))
      BY <3>4, <3>5, <3>6, FoldedSame
    <3>8. FoldOf(ext, M) = from
      BY <3>4, <3>7, FoldIs
    <3> QED BY <2>1, <3>2, <3>3, <3>6, <3>8, Zenon
  <2>3. \A f \in C : M[f] = L[f]
    BY <2>2
  <2> QED BY <1>3, <2>1, <2>3, Zenon
<1> QED BY <1>4, <1>5, LayersDef, Zenon

\* The layers that rate a level of risk, and what the first of them says.
Rated(d, g, l) == {i \in DOMAIN g : l \in DOMAIN d[g[i]].risk}
FirstRated(d, g, l) == CHOOSE i \in Rated(d, g, l) : \A j \in Rated(d, g, l) : i <= j
LevelBy(d, g, l) ==
    IF Rated(d, g, l) = {} THEN NoLevel ELSE d[g[FirstRated(d, g, l)]].risk[l]

\* What layers g decide about e, as DecidesByLayers has it.
Decides(d, g, e, v) ==
    /\ SomeIn(d, g, {"deny", "block"}, e) => v = "deny"
    /\ ~ SomeIn(d, g, {"deny", "block"}, e) /\ SomeIn(d, g, {"require_approval"}, e)
            => v = "require_approval"
    /\ ~ SomeIn(d, g, {"deny", "block", "require_approval"}, e) =>
            CASE LevelBy(d, g, e.risk) \in {"deny", "block"} -> v = "deny"
              [] LevelBy(d, g, e.risk) \in {"require_approval", "warn"} -> v = LevelBy(d, g, e.risk)
              [] OTHER ->
                    IF SomeIn(d, g, {"allow", "warn"}, e)
                    THEN FirstIn(d, g, v, {"allow", "warn"}, e) /\ v \in {"allow", "warn"}
                    ELSE v = "default_deny"

LEMMA LevelOf ==
    ASSUME NEW d, NEW g \in Seq(Files), NEW l, NEW a, LevelIn(d, g, l, a)
    PROVE  LevelBy(d, g, l) = a
<1> DEFINE rated == Rated(d, g, l)
           least(i) == \A j \in rated : i <= j
<1>1. PICK i \in DOMAIN g :
        /\ l \in DOMAIN d[g[i]].risk /\ d[g[i]].risk[l] = a
        /\ \A j \in 1..(i - 1) : l \notin DOMAIN d[g[j]].risk
  BY DEF LevelIn
<1>2. rated \subseteq Nat /\ DOMAIN g = 1..Len(g) /\ Len(g) \in Nat /\ i \in rated
  BY <1>1 DEF Rated
<1>3. \A j \in 1..(i - 1) : j \notin rated
  BY <1>1 DEF Rated
<1>4. \A j \in rated : j \in 1..Len(g)
  BY <1>2 DEF Rated
<1> HIDE DEF rated
<1>5. least(i)
  BY <1>2, <1>3, <1>4
<1>6. \A j \in rated : least(j) => j = i
  BY <1>2, <1>5
<1>7. (CHOOSE j \in rated : least(j)) = i
  <2> HIDE DEF least
  <2> QED BY <1>2, <1>5, <1>6
<1>8. FirstRated(d, g, l) = i
  BY <1>7, Zenon DEF FirstRated, rated
<1> QED BY <1>1, <1>2, <1>8 DEF LevelBy, rated

\* A policy made of layers decides as they do.
LEMMA VerdictByLayers ==
    ASSUME NEW d, NEW p, NEW g \in Seq(Files), ByLayers(d, p, g), NEW e
    PROVE  Decides(d, g, e, Verdict(p, e))
<1> DEFINE level == LevelBy(d, g, e.risk)
           v == Verdict(p, e)
<1>1. IsList(p.rules) /\ RulesBy(d, p, g) /\ RiskBy(d, p, g)
  BY DEF ByLayers
<1>2. \A actions : SomeMatch(p.rules, actions, e) <=> SomeIn(d, g, actions, e)
  BY <1>1 DEF RulesBy
<1>3. level = RiskAction(p, e)
  <2>1. e.risk \in DOMAIN p.risk <=> Rated(d, g, e.risk) # {}
    BY <1>1 DEF RiskBy, Rated
  <2>2. ASSUME e.risk \in DOMAIN p.risk PROVE level = p.risk[e.risk]
    <3>1. LevelIn(d, g, e.risk, p.risk[e.risk])
      BY <1>1, <2>2 DEF RiskBy
    <3> QED BY <3>1, LevelOf
  <2>3. ASSUME e.risk \notin DOMAIN p.risk PROVE level = NoLevel
    BY <2>1, <2>3 DEF LevelBy
  <2> QED BY <2>2, <2>3 DEF RiskAction
<1>4. SomeIn(d, g, {"deny", "block", "require_approval"}, e) <=>
        SomeIn(d, g, {"deny", "block"}, e) \/ SomeIn(d, g, {"require_approval"}, e)
  BY DEF SomeIn, SomeMatch
<1>5. ASSUME SomeMatch(p.rules, {"allow", "warn"}, e)
      PROVE  LET a == FirstMatch(p.rules, {"allow", "warn"}, e).action
             IN  FirstIn(d, g, a, {"allow", "warn"}, e) /\ a \in {"allow", "warn"}
  <2>1. PICK k : IsFirst(p.rules, {"allow", "warn"}, e, k)
    BY <1>1, <1>5, FirstExists
  <2>2. FirstMatch(p.rules, {"allow", "warn"}, e) = p.rules[k]
    BY <1>1, <2>1, FirstIsFirstMatch
  <2>3. FirstIn(d, g, p.rules[k].action, {"allow", "warn"}, e)
    BY <1>1, <2>1 DEF RulesBy
  <2>4. p.rules[k].action \in {"allow", "warn"}
    BY <2>1 DEF IsFirst, Hit
  <2> QED BY <2>2, <2>3, <2>4
<1> HIDE DEF level
<1>6. v = CASE SomeIn(d, g, {"deny", "block"}, e) -> "deny"
            [] ~ SomeIn(d, g, {"deny", "block"}, e)
               /\ SomeIn(d, g, {"require_approval"}, e) -> "require_approval"
            [] OTHER ->
                IF level \in {"deny", "block"} THEN "deny"
                ELSE IF level \in {"require_approval", "warn"} THEN level
                ELSE IF SomeIn(d, g, {"allow", "warn"}, e)
                THEN FirstMatch(p.rules, {"allow", "warn"}, e).action
                ELSE "default_deny"
  BY <1>2, <1>3 DEF Verdict
<1>7. ASSUME ~ SomeIn(d, g, {"deny", "block", "require_approval"}, e)
      PROVE  CASE level \in {"deny", "block"} -> v = "deny"
               [] level \in {"require_approval", "warn"} -> v = level
               [] OTHER ->
                    IF SomeIn(d, g, {"allow", "warn"}, e)
                    THEN FirstIn(d, g, v, {"allow", "warn"}, e) /\ v \in {"allow", "warn"}
                    ELSE v = "default_deny"
  BY <1>2, <1>4, <1>5, <1>6, <1>7
<1>8. /\ SomeIn(d, g, {"deny", "block"}, e) => v = "deny"
      /\ (~ SomeIn(d, g, {"deny", "block"}, e) /\ SomeIn(d, g, {"require_approval"}, e))
            => v = "require_approval"
  BY <1>6
<1> HIDE DEF v
<1> QED BY <1>7, <1>8 DEF level, v, Decides

\* In whatever order files are loaded, sharing what they extend and failing half way, a
\* cached policy decides as its layers consulted one after the other.
THEOREM PoliciesDecideByLayers == Spec => []DecidesByLayers
<1>1. LayerInv => DecidesByLayers
  <2> SUFFICES ASSUME LayerInv PROVE DecidesByLayers
    OBVIOUS
  <2>1. PICK L : LayeredBy(L)
    BY DEF LayerInv
  <2>2. Layers = L /\ L \in [DOMAIN cache -> Seq(Files)]
    BY <2>1, LayersAre DEF LayerInv, LayeredBy, AreLayers
  <2>3. \A f \in DOMAIN cache : L[f] \in Seq(Files) /\ ByLayers(disk, cache[f], L[f])
    BY <2>1, <2>2 DEF LayeredBy
  <2>4. \A f \in DOMAIN cache, e \in Events : Decides(disk, Layers[f], e, Verdict(cache[f], e))
    BY <2>2, <2>3, VerdictByLayers
  <2>5. ASSUME NEW f \in DOMAIN cache, NEW e \in Events
        PROVE  LET g == Layers[f]
                   Some(actions) == \E i \in DOMAIN g : SomeMatch(disk[g[i]].rules, actions, e)
                   rated == {i \in DOMAIN g : e.risk \in DOMAIN disk[g[i]].risk}
                   level == IF rated = {} THEN NoLevel
                            ELSE LET first == CHOOSE i \in rated : \A j \in rated : i <= j
                                 IN  disk[g[first]].risk[e.risk]
                   v == Verdict(cache[f], e)
               IN  /\ Some({"deny", "block"}) => v = "deny"
                   /\ ~ Some({"deny", "block"}) /\ Some({"require_approval"}) => v = "require_approval"
                   /\ ~ Some({"deny", "block", "require_approval"}) =>
                        CASE level \in {"deny", "block"} -> v = "deny"
                          [] level \in {"require_approval", "warn"} -> v = level
                          [] OTHER ->
                                IF Some({"allow", "warn"})
                                THEN \E i \in DOMAIN g :
                                        /\ SomeMatch(disk[g[i]].rules, {v}, e)
                                        /\ v \in {"allow", "warn"}
                                        /\ \A j \in 1..(i - 1) :
                                             ~ SomeMatch(disk[g[j]].rules, {"allow", "warn"}, e)
                                ELSE v = "default_deny"
    <3>1. Decides(disk, Layers[f], e, Verdict(cache[f], e))
      BY <2>4
    <3> QED BY <3>1 DEF Decides, SomeIn, FirstIn, LevelBy, FirstRated, Rated
  <2> QED BY <2>5, Zenon DEF DecidesByLayers
<1> QED BY <1>1, InitLayers, NextLayers, PTL DEF Spec

=============================================================================
