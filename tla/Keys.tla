-------------------------------- MODULE Keys --------------------------------
(***************************************************************************)
(* The signing keys of the audit trail (capfence/core/keys.py): a private  *)
(* and a public key in two files, which processes load, or generate when   *)
(* they are missing.  No lock is taken, each file is truncated before it   *)
(* is written, and a process can die anywhere.                             *)
(*                                                                         *)
(* A key is represented by the number of the pair it was generated with:   *)
(* what one key signs the other verifies exactly when the numbers agree.   *)
(***************************************************************************)
EXTENDS Integers

CONSTANTS
    Procs,                \* processes that use the key directory
    MaxPairs, MaxDeaths   \* bounds of the model

ASSUME KeysAssumption == MaxPairs \in Nat /\ MaxDeaths \in Nat

VARIABLES
    priv, pub,   \* the two files
    proc,        \* what each process is doing, and the keys it has in hand
    pairs,       \* how many pairs were generated
    deaths,      \* how many processes died in the middle of an operation
    quiet        \* history: no two generations overlapped, and generate_keypair was
                 \* never called when there was a pair to replace

vars == <<priv, pub, proc, pairs, deaths, quiet>>

Absent == -1
Empty == 0   \* the file is there, truncated; a key is a number above

AtRest == {"idle", "loaded", "missing", "raised"}
Generating == {"generate", "truncate_priv", "write_priv", "truncate_pub", "write_pub"}

Busy(p) == proc[p].pc \notin AtRest
SomeGeneration == \E p \in Procs : proc[p].pc \in Generating
At(p, pc, next) == proc[p].pc = pc /\ proc' = [proc EXCEPT ![p].pc = next]
InHand(pc, k, l) == [pc |-> pc, priv |-> k, pub |-> l]

-----------------------------------------------------------------------------
(* load_keypair and ensure_keypair *)

BothExist == priv # Absent /\ pub # Absent

\* A process calls load_keypair, which first looks whether both files exist.
Load(p) ==
    /\ ~ Busy(p)
    /\ proc' = [proc EXCEPT ![p] =
            InHand(IF BothExist THEN "read_priv" ELSE "missing", Absent, Absent)]
    /\ UNCHANGED <<priv, pub, pairs, deaths, quiet>>

\* The beginning of a generation.
Begin(p) ==
    /\ ~ Busy(p)
    /\ proc' = [proc EXCEPT ![p] = InHand("generate", Absent, Absent)]
    /\ UNCHANGED <<priv, pub, pairs, deaths>>

\* ensure_keypair generates a pair only if there is none ...
Ensure(p) ==
    IF BothExist THEN Load(p)
    ELSE Begin(p) /\ quiet' = (quiet /\ ~ SomeGeneration)

\* ... and generate_keypair may be called by itself, whatever the files hold.
Generate(p) == Begin(p) /\ quiet' = (quiet /\ ~ SomeGeneration /\ pub = Absent)

ReadPriv(p) ==
    /\ proc[p].pc = "read_priv"
    /\ proc' = [proc EXCEPT ![p].pc = "read_pub", ![p].priv = priv]
    /\ UNCHANGED <<priv, pub, pairs, deaths, quiet>>

\* Mutation of ReadPub: the lengths are not validated.
ReadPubUnchecked(p) ==
    /\ proc[p].pc = "read_pub"
    /\ proc' = [proc EXCEPT ![p].pub = pub, ![p].pc = "loaded"]
    /\ UNCHANGED <<priv, pub, pairs, deaths, quiet>>

\* The keys are validated once both are read: an empty file does not hold 32 bytes.
ReadPub(p) ==
    /\ proc[p].pc = "read_pub"
    /\ proc' = [proc EXCEPT ![p] =
            IF proc[p].priv = Empty \/ pub = Empty THEN InHand("raised", Absent, Absent)
            ELSE InHand("loaded", proc[p].priv, pub)]
    /\ UNCHANGED <<priv, pub, pairs, deaths, quiet>>

-----------------------------------------------------------------------------
(* generate_keypair *)

\* Mutation of NewPair: the pair is not a fresh one.
NewPairUncounted(p) ==
    /\ proc[p].pc = "generate" /\ pairs < MaxPairs
    /\ proc' = [proc EXCEPT ![p] = InHand("truncate_priv", pairs + 1, pairs + 1)]
    /\ UNCHANGED <<priv, pub, pairs, deaths, quiet>>

NewPair(p) ==
    /\ proc[p].pc = "generate" /\ pairs < MaxPairs
    /\ pairs' = pairs + 1
    /\ proc' = [proc EXCEPT ![p] = InHand("truncate_priv", pairs + 1, pairs + 1)]
    /\ UNCHANGED <<priv, pub, deaths, quiet>>

\* _atomic_write of the private key, then of the public one: open truncates, write
\* follows.
TruncatePriv(p) ==
    /\ At(p, "truncate_priv", "write_priv")
    /\ priv' = Empty
    /\ UNCHANGED <<pub, pairs, deaths, quiet>>

WritePriv(p) ==
    /\ At(p, "write_priv", "truncate_pub")
    /\ priv' = proc[p].priv
    /\ UNCHANGED <<pub, pairs, deaths, quiet>>

TruncatePub(p) ==
    /\ At(p, "truncate_pub", "write_pub")
    /\ pub' = Empty
    /\ UNCHANGED <<priv, pairs, deaths, quiet>>

WritePub(p) ==
    /\ At(p, "write_pub", "loaded")
    /\ pub' = proc[p].pub
    /\ UNCHANGED <<priv, pairs, deaths, quiet>>

Die(p) ==
    /\ Busy(p) /\ deaths < MaxDeaths
    /\ deaths' = deaths + 1
    /\ proc' = [proc EXCEPT ![p] = InHand("idle", Absent, Absent)]
    /\ UNCHANGED <<priv, pub, pairs, quiet>>

-----------------------------------------------------------------------------

Init ==
    /\ priv = Absent /\ pub = Absent
    /\ proc = [p \in Procs |-> InHand("idle", Absent, Absent)]
    /\ pairs = 0 /\ deaths = 0
    /\ quiet = TRUE

Next ==
    \E p \in Procs :
        \/ Load(p) \/ Ensure(p) \/ Generate(p)
        \/ ReadPriv(p) \/ ReadPub(p)
        \/ NewPair(p)
        \/ TruncatePriv(p) \/ WritePriv(p) \/ TruncatePub(p) \/ WritePub(p)
        \/ Die(p)

Spec == Init /\ [][Next]_vars

-----------------------------------------------------------------------------
(* Properties *)

Contents == {Absent, Empty} \cup 1..pairs

TypeOK ==
    /\ priv \in Contents /\ pub \in Contents
    /\ proc \in [Procs -> [pc : AtRest \cup Generating \cup {"read_priv", "read_pub"},
                           priv : Contents, pub : Contents]]
    /\ pairs \in Nat /\ deaths \in Nat
    /\ quiet \in BOOLEAN

\* As long as no two generations overlap and generate_keypair replaces no pair, whoever
\* gets keys gets a matching pair, and everyone the same one, although loads run while
\* the files are being written and processes die half way (load_keypair, ensure_keypair).
EveryoneSharesOnePair ==
    quiet => \A p, q \in Procs : proc[p].pc = "loaded" /\ proc[q].pc = "loaded" =>
        /\ proc[p].priv = proc[p].pub /\ proc[p].priv > 0
        /\ proc[p].pub = proc[q].pub
=============================================================================
