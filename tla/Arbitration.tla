---------------------------- MODULE Arbitration ----------------------------
(***************************************************************************)
(* StateArbitrator: which of a run's proposals may be committed, and what  *)
(* they make of each key.  The arbitrator is a pure function of the        *)
(* proposals, the snapshot and the policy; here runs that gather proposals *)
(* and commit what it accepts follow one another, so that the rules can be *)
(* judged by what a long sequence of runs does to the stored state.        *)
(* Concurrent runs are the business of EventPipeline.tla.                  *)
(*                                                                         *)
(* Abstractions: numbers are small integers, so the tolerance of 1e-9 in   *)
(* the comparisons is left out; every non-number (text, JSON, boolean) is  *)
(* one value; evidence is the number of records cited.  The proposals of a *)
(* run form a set: their order decides only which of them is named as the  *)
(* primary one in the audit row, and the layer order of the changes only   *)
(* the order of those rows.                                                *)
(***************************************************************************)
EXTENDS Integers, FiniteSets, FiniteSetsExt

CONSTANTS
  Domains,       \* registered state domains
  Keys,          \* state keys
  DomainOf,      \* key -> its domain
  Modules,       \* source modules
  OwnerOf,       \* domain -> its single writer
  AdminWriter,   \* ownership.ADMIN_WRITER
  Consolidation, \* dependency_graph.CONSOLIDATION_WRITERS
  Deep,          \* domains of layer 4
  Policy,        \* domain -> [allowed, limits, consolidation, evidence]
  Numbers,       \* numbers a proposal may carry
  MaxProposals,  \* bound on the proposals of a run
  MaxVersion     \* bound on the version of a key

ASSUME RegistryAssumption ==
  /\ DomainOf \in [Keys -> Domains]
  /\ OwnerOf \in [Domains -> Modules]
  /\ Deep \subseteq Domains
  /\ Policy \in [Domains -> [allowed : SUBSET Int, limits : SUBSET Nat,
                             consolidation : BOOLEAN, evidence : Nat]]
ASSUME NumbersAssumption == Numbers \subseteq Int /\ 0 \in Numbers

VARIABLES
  state,      \* key -> the stored value, with its version
  pending     \* proposals gathered by the run under way

vars == <<state, pending>>

Number(n) == [type |-> "number", number |-> n]
Text      == [type |-> "text", number |-> 0]
Null      == [type |-> "null", number |-> 0]      \* a row holding no value
Absent    == [type |-> "absent", number |-> 0]    \* no row at all

Values == [type : {"number", "text", "null", "absent"}, number : Int]

(* Proposals the engines can build: one operation, one operand.  An adjust *)
(* may carry a magnitude that is not finite.                               *)
NotFinite == [type |-> "not_finite", number |-> 0]
Operands ==
  ({"set"} \X ({Number(n) : n \in Numbers} \cup {Text, NotFinite}))
    \cup ({"adjust"} \X ({Number(n) : n \in Numbers} \cup {NotFinite}))
    \cup ({"invalidate"} \X {Null})
Proposals == [key : Keys, module : Modules, act : Operands, evidence : 0..1]

Operation(p) == p.act[1]
Operand(p)   == p.act[2]

-----------------------------------------------------------------------------
(* Screening, one proposal at a time.                                      *)
MayWrite(domain, module) == module = AdminWriter \/ module = OwnerOf[domain]

(* Mutant: the structural gate trusts the policy file.                     *)
GateFromPolicyOnly(p) ==
  Policy[DomainOf[p.key]].consolidation => p.module \in Consolidation

PassesGate(p) ==
  (DomainOf[p.key] \in Deep \/ Policy[DomainOf[p.key]].consolidation) =>
    p.module \in Consolidation

EnoughEvidence(p) == p.evidence >= Policy[DomainOf[p.key]].evidence

Admissible(p) ==
  /\ MayWrite(DomainOf[p.key], p.module)
  /\ PassesGate(p)
  /\ EnoughEvidence(p)
  /\ Operand(p) # NotFinite

-----------------------------------------------------------------------------
(* Merging: the admissible proposals for a key stand or fall together.     *)
Group(P, k) == {p \in P : p.key = k /\ Admissible(p)}

(* Mutant: proposals that disagree are resolved in favour of one.          *)
AlwaysAgree(G) == TRUE

Agree(G) ==
  \A p, q \in G :
    /\ Operation(p) = Operation(q)
    /\ Operation(p) = "set" => Operand(p) = Operand(q)

(* math.fsum over the group.                                               *)
Delta(G) == MapThenSumSet(LAMBDA p : Operand(p).number, G)

Abs(n) == IF n < 0 THEN -n ELSE n

InBounds(k, value) ==
  value.type = "number" => value.number \in Policy[DomainOf[k]].allowed

WithinLimit(k, delta) ==
  \A limit \in Policy[DomainOf[k]].limits : Abs(delta) <= limit

AdjustAllowed(G, k, current) ==
  /\ current.type = "number"
  /\ WithinLimit(k, Delta(G))
  /\ InBounds(k, Number(current.number + Delta(G)))

(* Mutant: a set is held against the limit but not against the bounds.     *)
SetOutOfBounds(value, k, current) ==
  (current.type = "number" /\ value.type = "number") =>
    WithinLimit(k, value.number - current.number)

SetAllowed(value, k, current) ==
  /\ InBounds(k, value)
  /\ (current.type = "number" /\ value.type = "number") =>
       WithinLimit(k, value.number - current.number)

(* The value a group asks for: an empty set when it is rejected.           *)
Resolve(G, k, current) ==
  IF G = {} \/ ~Agree(G) THEN {}
  ELSE LET p == CHOOSE q \in G : TRUE IN
       CASE Operation(p) = "set" ->
              {v \in {Operand(p)} : SetAllowed(v, k, current)}
         [] Operation(p) = "invalidate" ->
              {v \in {Null} : current # Absent}
         [] Operation(p) = "adjust" ->
              IF AdjustAllowed(G, k, current)
                THEN {Number(current.number + Delta(G))}
                ELSE {}

Accepted(P, S) == {k \in Keys : Resolve(Group(P, k), k, S[k].value) # {}}

-----------------------------------------------------------------------------
Init ==
  /\ state = [k \in Keys |-> [value |-> Absent, version |-> 0]]
  /\ pending = {}

Propose ==
  /\ Cardinality(pending) < MaxProposals
  /\ \E p \in Proposals \ pending : pending' = pending \cup {p}
  /\ UNCHANGED state

(* The value a key takes.                                                  *)
NewValue(k) == CHOOSE v \in Resolve(Group(pending, k), k, state[k].value) : TRUE

(* write_value: INSERT at version 1, or UPDATE ... version + 1.            *)
NextVersion(k) == state[k].version + 1

(* Arbitrate against S0, then write every accepted change: the first write *)
(* of a key inserts it at version 1, a later one updates it.               *)
ArbitrateAndCommit ==
  /\ pending # {}
  /\ \A k \in Keys : state[k].version < MaxVersion
  /\ state' = [k \in Keys |->
                 IF k \in Accepted(pending, state)
                   THEN [value |-> NewValue(k), version |-> NextVersion(k)]
                   ELSE state[k]]
  /\ pending' = {}

Next == Propose \/ ArbitrateAndCommit

Spec == Init /\ [][Next]_vars

-----------------------------------------------------------------------------
Row == [value : Values, version : 0..MaxVersion]

TypeOK ==
  /\ state \in [Keys -> Row]
  /\ pending \subseteq Proposals
  /\ \A k \in Keys : state[k].version = 0 <=> state[k].value = Absent

(* Out-of-policy values are rejected, never clamped and never stored,      *)
(* whatever sequence of sets, adjusts and invalidations leads there.       *)
StoredWithinBounds == \A k \in Keys : InBounds(k, state[k].value)

(* Only consolidation moves deep state, and every proposal behind a change *)
(* came from the owner of the key (or the admin) with its own evidence.    *)
DeepStateIsGated ==
  [][\A k \in Keys : state'[k] # state[k] =>
       \E p \in pending :
         /\ p.key = k
         /\ p.module \in {OwnerOf[DomainOf[k]], AdminWriter}
         /\ p.evidence >= Policy[DomainOf[k]].evidence
         /\ DomainOf[k] \in Deep => p.module \in Consolidation]_vars

(* Unknown is not zero: a value that is not a number becomes one only by   *)
(* being set, never by an adjustment.                                      *)
UnknownIsNotZero ==
  [][\A k \in Keys :
       state[k].value.type # "number" /\ state'[k].value.type = "number" =>
         \E p \in pending : p.key = k /\ p.act = <<"set", state'[k].value>>]_vars

(* One event moves a known number by at most the limit of its domain, in   *)
(* however many pieces the change was proposed.                            *)
MovesWithinLimit(k) ==
  LET old == state[k].value
      new == state'[k].value IN
  old.type = "number" /\ new.type = "number" => WithinLimit(k, new.number - old.number)

(* No proposal the arbitrator finds admissible is overruled in silence.    *)
OverrulesNobody(k) ==
  \A p \in {q \in pending : q.key = k /\ Admissible(q)} :
    \/ p.act = <<"set", state'[k].value>>
    \/ Operation(p) = "adjust" /\ state'[k].value.number - state[k].value.number
           = MapThenSumSet(LAMBDA q : Operand(q).number,
               {q \in pending : q.key = k /\ Operation(q) = "adjust" /\ Admissible(q)})
    \/ Operation(p) = "invalidate" /\ state'[k].value = Null

(* What a run changes of a key is all that its engines proposed for it and *)
(* no more than one event may do: engines that disagree change nothing.    *)
EveryChangeIsArbitrated ==
  [][\A k \in Keys : state'[k] # state[k] =>
       MovesWithinLimit(k) /\ OverrulesNobody(k)]_vars
=============================================================================
