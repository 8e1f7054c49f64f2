----------------------------- MODULE KeysProofs -----------------------------
(***************************************************************************)
(* Theorems about Keys, for any set of processes and any bounds.           *)
(***************************************************************************)
EXTENDS Keys, TLAPS

-----------------------------------------------------------------------------
(* Type correctness *)

\* There are no key files at first, and no process holds a key.
LEMMA TypeCorrectAtStart == Init => TypeOK
  BY DEF Init, TypeOK, Contents, Absent, Empty, AtRest, InHand

\* Every operation on the key files keeps the types; a key read is one that was written.
LEMMA TypeStep == TypeOK /\ [Next]_vars => TypeOK'
<1> SUFFICES ASSUME TypeOK, [Next]_vars PROVE TypeOK'
  OBVIOUS
<1> USE DEF TypeOK, Contents, Absent, Empty, AtRest, Generating, InHand
<1>1. CASE UNCHANGED vars
  BY <1>1 DEF vars
<1>2. ASSUME NEW p \in Procs, Load(p) PROVE TypeOK'
  BY <1>2 DEF Load
<1>3. ASSUME NEW p \in Procs, Ensure(p) PROVE TypeOK'
  <2>1. CASE BothExist
    BY <1>3, <2>1 DEF Ensure, Load
  <2>2. CASE ~ BothExist
    <3>1. Begin(p) /\ quiet' = (quiet /\ ~ SomeGeneration)
      BY <1>3, <2>2 DEF Ensure
    <3>2. quiet' \in BOOLEAN
      BY <3>1
    <3> QED
      BY <3>1, <3>2 DEF Begin
  <2> QED
    BY <2>1, <2>2
<1>4. ASSUME NEW p \in Procs, Generate(p) PROVE TypeOK'
  <2>1. quiet' \in BOOLEAN
    BY <1>4 DEF Generate
  <2> QED
    BY <1>4, <2>1 DEF Generate, Begin
<1>5. ASSUME NEW p \in Procs, ReadPriv(p) \/ ReadPub(p) PROVE TypeOK'
  BY <1>5 DEF ReadPriv, ReadPub
<1>6. ASSUME NEW p \in Procs, NewPair(p) PROVE TypeOK'
  BY <1>6 DEF NewPair
<1>7. ASSUME NEW p \in Procs, TruncatePriv(p) \/ WritePriv(p) \/ TruncatePub(p) \/ WritePub(p)
      PROVE TypeOK'
  BY <1>7 DEF TruncatePriv, WritePriv, TruncatePub, WritePub, At
<1>8. ASSUME NEW p \in Procs, Die(p) PROVE TypeOK'
  BY <1>8 DEF Die
<1> QED
  BY <1>1, <1>2, <1>3, <1>4, <1>5, <1>6, <1>7, <1>8 DEF Next

\* The files, the processes and the counters keep their types (all of Keys).
THEOREM TypeCorrect == Spec => []TypeOK
  BY TypeCorrectAtStart, TypeStep, PTL DEF Spec

-----------------------------------------------------------------------------
(* One pair for everyone *)

\* At most one process generates, and the files show how far it is.
OneGenerator ==
    \A p, q \in Procs :
        proc[p].pc \in Generating /\ proc[q].pc \in Generating => p = q

GeneratorHoldsPair ==
    \A p \in Procs :
        proc[p].pc \in Generating \ {"generate"} => proc[p].priv = proc[p].pub /\ proc[p].priv > 0

GeneratorIsFirst ==
    \A p \in Procs :
        /\ proc[p].pc \in Generating \ {"write_pub"} => pub = Absent
        /\ proc[p].pc \in {"truncate_pub", "write_pub"} => priv = proc[p].priv
        /\ proc[p].pc = "write_pub" => pub = Empty

\* Once there is a public file, the private key is there to stay.
PrivateKeyFirst ==
    /\ pub # Absent => priv > 0
    /\ pub > 0 => priv = pub

ReadersFollow ==
    \A p \in Procs :
        /\ proc[p].pc \in {"read_priv", "read_pub"} => pub # Absent
        /\ proc[p].pc = "read_pub" => proc[p].priv = priv
        /\ proc[p].pc = "loaded" => pub > 0 /\ proc[p].priv = pub /\ proc[p].pub = pub

PairInv ==
    /\ TypeOK
    /\ quiet =>
        /\ OneGenerator /\ GeneratorHoldsPair /\ GeneratorIsFirst
        /\ PrivateKeyFirst /\ ReadersFollow

\* With no files and no process at work, the invariant holds at first.
LEMMA PairInit == Init => PairInv
  BY TypeCorrectAtStart
  DEF Init, PairInv, OneGenerator, GeneratorHoldsPair, GeneratorIsFirst, PrivateKeyFirst,
      ReadersFollow, Absent, InHand, Generating

\* A process that begins to generate is the only one, and there is no public file.
LEMMA BeginStep ==
    ASSUME PairInv, NEW p \in Procs, (~ BothExist /\ Ensure(p)) \/ Generate(p), quiet'
    PROVE  PairInv'
<1>1. Begin(p) /\ quiet /\ ~ SomeGeneration
  BY DEF Ensure, Generate
<1>2. pub = Absent
  <2>1. CASE Generate(p)
    BY <2>1 DEF Generate
  <2>2. CASE ~ BothExist
    BY <1>1, <2>2 DEF PairInv, BothExist, PrivateKeyFirst, Absent
  <2> QED
    BY <2>1, <2>2
<1>3. TypeOK'
  BY TypeStep DEF PairInv, Next
<1> QED
  BY <1>1, <1>2, <1>3
  DEF PairInv, Begin, InHand, SomeGeneration, TypeOK, OneGenerator, GeneratorHoldsPair,
      GeneratorIsFirst, PrivateKeyFirst, ReadersFollow, Absent, Empty, Generating, AtRest

\* Every operation on the key files preserves the invariant, at every point where a
\* process may die.
LEMMA PairStep == PairInv /\ [Next]_vars => PairInv'
<1> SUFFICES ASSUME PairInv, [Next]_vars, quiet' PROVE PairInv'
  BY TypeStep DEF PairInv
<1>0. TypeOK /\ TypeOK'
  BY TypeStep DEF PairInv
<1> USE DEF PairInv, TypeOK, OneGenerator, GeneratorHoldsPair, GeneratorIsFirst,
            PrivateKeyFirst, ReadersFollow, Absent, Empty, Generating, AtRest, InHand
<1>1. CASE UNCHANGED vars
  BY <1>0, <1>1 DEF vars
<1>2. ASSUME NEW p \in Procs, Load(p) PROVE PairInv'
  BY <1>0, <1>2 DEF Load, BothExist, Busy
<1>3. ASSUME NEW p \in Procs, Ensure(p) PROVE PairInv'
  <2>1. CASE BothExist
    BY <1>2, <1>3, <2>1 DEF Ensure
  <2>2. CASE ~ BothExist
    BY <1>3, <2>2, BeginStep
  <2> QED
    BY <2>1, <2>2
<1>4. ASSUME NEW p \in Procs, Generate(p) PROVE PairInv'
  BY <1>4, BeginStep
<1>5. ASSUME NEW p \in Procs, ReadPriv(p) PROVE PairInv'
  BY <1>0, <1>5 DEF ReadPriv
<1>6. ASSUME NEW p \in Procs, ReadPub(p) PROVE PairInv'
  BY <1>0, <1>6 DEF ReadPub, Contents
<1>7. ASSUME NEW p \in Procs, NewPair(p) PROVE PairInv'
  BY <1>0, <1>7 DEF NewPair
<1>8. ASSUME NEW p \in Procs, TruncatePriv(p) PROVE PairInv'
  BY <1>0, <1>8 DEF TruncatePriv, At
<1>9. ASSUME NEW p \in Procs, WritePriv(p) PROVE PairInv'
  BY <1>0, <1>9 DEF WritePriv, At
<1>10. ASSUME NEW p \in Procs, TruncatePub(p) PROVE PairInv'
  BY <1>0, <1>10 DEF TruncatePub, At
<1>11. ASSUME NEW p \in Procs, WritePub(p) PROVE PairInv'
  BY <1>0, <1>11 DEF WritePub, At
<1>12. ASSUME NEW p \in Procs, Die(p) PROVE PairInv'
  BY <1>0, <1>12 DEF Die
<1> QED
  BY <1>1, <1>2, <1>3, <1>4, <1>5, <1>6, <1>7, <1>8, <1>9, <1>10, <1>11, <1>12 DEF Next

\* As long as no two generations overlap and no pair is replaced, everyone that gets keys
\* gets the same, matching pair (load_keypair, ensure_keypair): the public file comes
\* last, so whoever finds one finds the private key it belongs to.
THEOREM OnePairForEveryone == Spec => []EveryoneSharesOnePair
<1>1. PairInv => EveryoneSharesOnePair
  BY DEF PairInv, ReadersFollow, EveryoneSharesOnePair
<1> QED
  BY <1>1, PairInit, PairStep, PTL DEF Spec
=============================================================================
