------------------------------ MODULE Simulation ------------------------------
(***************************************************************************)
(* The devkit's sources of fee data: the fee model (simulation/            *)
(* fee_model.rs), the load that follows its fees (simulation/              *)
(* network_load.rs) and the fixtures (sandbox/fixtures.rs,                 *)
(* harness/scenarios/mod.rs). All draw on one xorshift generator, given    *)
(* here by the function of its step. A real number is an integer count of  *)
(* a unit small enough for the constants; a quotient is rounded down.      *)
(***************************************************************************)
EXTENDS Integers, Sequences

CONSTANTS
    NextRng,        \* the step of the generator on its states
    Scale, Unit,    \* next_unit returns Unit[x] / Scale in state x
    FeeConfigs, LoadConfigs,        \* configurations tried
    Start, FixtureFees, Spreads,    \* arguments of the fixtures
    MaxLength       \* bound: fees since a reset, ledgers of a fixture

Seeds == DOMAIN NextRng

ASSUME SimulationAssumption ==
    /\ 0 \notin Seeds       \* xorshift never leaves nor reaches 0
    /\ NextRng \in [Seeds -> Seeds] /\ \A x \in Seeds : Unit[x] \in 0..(Scale - 1)
    /\ Scale \in Nat \ {0} /\ MaxLength \in Nat
    /\ FeeConfigs \subseteq
          [base : Int, volatility : Int, trend : Int, min : Int, max : Int, seed : Seeds \cup {0}]
    /\ LoadConfigs \subseteq [min : Int, max : Int, correlation : Int, noise : Int, seed : Seeds \cup {0}]
    /\ Start \in Nat /\ FixtureFees \subseteq Nat /\ Spreads \subseteq Int

VARIABLES
    model,      \* the fee model, or Nothing
    fees,       \* history: the fees it generated since its last reset
    load,       \* the network load, or Nothing
    loads,      \* history: the fees it followed since its last reset, each with its load
    fixture     \* the fixture built last, or Nothing

simulationVars == <<model, fees, load, loads, fixture>>

Nothing == [kind |-> "nothing"]

Clamp(x, low, high) == IF x < low THEN low ELSE IF x > high THEN high ELSE x

(* (next_unit * 2 - 1) * amplitude *)
Noise(rng, amplitude) == ((2 * Unit[rng] - Scale) * amplitude) \div Scale

-----------------------------------------------------------------------------
(* The fee model. *)

Amplitude(c) == (c.volatility * c.base) \div Scale

ValidFees(c) ==
    /\ c.min <= c.max /\ c.base \in c.min..c.max
    /\ c.volatility >= 0
    /\ c.seed # 0

NewModel ==
    /\ \E c \in FeeConfigs :
          ValidFees(c) /\ model' = [kind |-> "model", config |-> c, state |-> c.base,
                                    rng |-> c.seed, generated |-> 0]
    /\ fees' = <<>>
    /\ UNCHANGED <<load, loads, fixture>>

NextFee(m) ==
    LET c == m.config  rng == NextRng[m.rng]
    IN  [m EXCEPT !.rng = rng, !.generated = m.generated + 1,
                  !.state = Clamp(m.state + c.trend + Noise(rng, Amplitude(c)),
                                  c.min, c.max)]

(* generate(count): the model after 1..count fees. *)
Generate ==
    /\ model # Nothing
    /\ \E count \in 1..(MaxLength - Len(fees)) :
          LET after[i \in 0..count] == IF i = 0 THEN model ELSE NextFee(after[i - 1])
          IN  /\ model' = after[count]
              /\ fees' = fees \o [i \in 1..count |-> after[i].state]
    /\ UNCHANGED <<load, loads, fixture>>

(* Faulty: the generator goes on where it is. *)
ResetKeepingRng ==
    /\ model # Nothing
    /\ model' = [model EXCEPT !.state = model.config.base, !.generated = 0]
    /\ fees' = <<>>
    /\ UNCHANGED <<load, loads, fixture>>

ResetModel ==
    /\ model # Nothing
    /\ model' = [model EXCEPT !.state = model.config.base, !.rng = model.config.seed, !.generated = 0]
    /\ fees' = <<>>
    /\ UNCHANGED <<load, loads, fixture>>

-----------------------------------------------------------------------------
(* The load of the network; a load of 1 is Scale. *)

ValidLoad(c) ==
    /\ 0 <= c.min /\ c.min <= c.max /\ c.max <= Scale
    /\ c.correlation \in 0..Scale /\ c.noise >= 0
    /\ c.seed # 0

NewLoad ==
    /\ \E c \in LoadConfigs :
          ValidLoad(c) /\ load' = [kind |-> "load", config |-> c, rng |-> c.seed,
                                   last |-> c.min, samples |-> 0]
    /\ loads' = <<>>
    /\ UNCHANGED <<model, fees, fixture>>

Normalized(fee, floor, ceiling) ==
    IF ceiling <= floor THEN 0 ELSE Clamp(((fee - floor) * Scale) \div (ceiling - floor), 0, Scale)

FollowFee(l, fee, floor, ceiling) ==
    LET c == l.config  rng == NextRng[l.rng]  span == c.max - c.min
        correlated == (Normalized(fee, floor, ceiling) * span * c.correlation) \div (Scale * Scale)
    IN  [l EXCEPT !.rng = rng, !.samples = l.samples + 1,
                  !.last = Clamp(c.min + correlated + Noise(rng, (c.noise * span) \div Scale),
                                 c.min, c.max)]

(* from_fee, on the next fee of the model and with its range. *)
FromFee ==
    /\ load # Nothing /\ model # Nothing /\ Len(loads) < Len(fees)
    /\ LET fee == fees[Len(loads) + 1]
           c == model.config
       IN  /\ load' = FollowFee(load, fee, c.min, c.max)
           /\ loads' = Append(loads, [fee |-> fee, floor |-> c.min, ceiling |-> c.max,
                                      load |-> load'.last])
    /\ UNCHANGED <<model, fees, fixture>>

ResetLoad ==
    /\ load # Nothing
    /\ load' = [load EXCEPT !.rng = load.config.seed, !.last = load.config.min, !.samples = 0]
    /\ loads' = <<>>
    /\ UNCHANGED <<model, fees, fixture>>

-----------------------------------------------------------------------------
(* Fixtures: functions from the offset, 0 for the first ledger, to a fee. *)

Records(ledgers, FeeAt(_)) ==
    [i \in 1..ledgers |-> [ledger |-> Start + i - 1, fee |-> FeeAt(i - 1)]]

(* f64::round: half away from zero. *)
Rounded(a, b) == IF a >= 0 THEN (2 * a + b) \div (2 * b) ELSE -((b - 2 * a) \div (2 * b))

Flat(ledgers, fee) == LET FeeAt(o) == fee IN Records(ledgers, FeeAt)

(* A single ledger divides by zero: the NaN is cast to 0. *)
Ramp(ledgers, from, to) ==
    LET FeeAt(o) == IF ledgers = 1 THEN from ELSE from + Rounded((to - from) * o, ledgers - 1)
    IN  Records(ledgers, FeeAt)

Spikes(ledgers, base, spike, every) ==
    LET FeeAt(o) == IF o % (IF every < 1 THEN 1 ELSE every) = 0 THEN spike ELSE base
    IN  Records(ledgers, FeeAt)

Burst(ledgers, base, burst, from, to) ==
    LET FeeAt(o) == IF o >= from /\ o < to THEN burst ELSE base IN Records(ledgers, FeeAt)

RandomWalk(ledgers, base, spread, seed) ==
    IF seed = 0 THEN Flat(ledgers, base) ELSE
    LET width == IF spread < 0 THEN -spread ELSE spread
        walk[i \in 0..ledgers] ==
            IF i = 0 THEN [rng |-> seed, fee |-> base]
            ELSE LET rng == NextRng[walk[i - 1].rng]
                 IN  [rng |-> rng, fee |->
                        Clamp(walk[i - 1].fee + Rounded((2 * Unit[rng] - Scale) * spread, Scale),
                              base - width, base + width)]
        FeeAt(o) == walk[o + 1].fee
    IN  Records(ledgers, FeeAt)

Built(kind, a, b, records) == fixture' = [kind |-> kind, a |-> a, b |-> b, records |-> records]

BuildFixture ==
    /\ \E ledgers \in 0..MaxLength, a, b \in FixtureFees, n \in 0..MaxLength :
          \/ n = 0 /\ Built("flat", a, a, Flat(ledgers, a))
          \/ n = 0 /\ Built("ramp", a, b, Ramp(ledgers, a, b))
          \/ Built("spikes", a, b, Spikes(ledgers, a, b, n))
          \/ Built("burst", a, b, Burst(ledgers, a, b, n, MaxLength - 1))
    /\ UNCHANGED <<model, fees, load, loads>>

BuildWalk ==
    /\ \E ledgers \in 0..MaxLength, base \in FixtureFees, spread \in Spreads, seed \in Seeds \cup {0} :
          Built("walk", base, spread, RandomWalk(ledgers, base, spread, seed))
    /\ UNCHANGED <<model, fees, load, loads>>

FeesOf(records) == {records[i].fee : i \in DOMAIN records}

MinFee(records) == IF records = <<>> THEN 0 ELSE CHOOSE x \in FeesOf(records) : \A y \in FeesOf(records) : x <= y
PeakFee(records) == IF records = <<>> THEN 0 ELSE CHOOSE x \in FeesOf(records) : \A y \in FeesOf(records) : x >= y
TotalFee(records) ==
    LET upTo[n \in 0..Len(records)] == IF n = 0 THEN 0 ELSE upTo[n - 1] + records[n].fee
    IN  upTo[Len(records)]

-----------------------------------------------------------------------------
SimulationInit ==
    /\ model = Nothing /\ fees = <<>>
    /\ load = Nothing /\ loads = <<>>
    /\ fixture = Nothing

SimulationNext ==
    \/ NewModel \/ Generate \/ ResetModel
    \/ NewLoad \/ FromFee \/ ResetLoad
    \/ BuildFixture \/ BuildWalk

SimulationTypeOK ==
    /\ model # Nothing =>
          /\ model.state \in model.config.min..model.config.max
          /\ model.rng \in Seeds /\ model.generated = Len(fees)
    /\ load # Nothing =>
          /\ load.last \in load.config.min..load.config.max
          /\ load.rng \in Seeds /\ load.samples = Len(loads)

-----------------------------------------------------------------------------
(* Properties. *)

(* The generator after n steps from a seed. *)
Drawn(seed, n) == LET rng[i \in 0..n] == IF i = 0 THEN seed ELSE NextRng[rng[i - 1]] IN rng[n]

(* A simulation can be replayed. The n-th fee since a reset is the one its    *)
(* configuration determines, however fees were asked for and whatever was     *)
(* generated before the reset; so is each load by its configuration, its      *)
(* number and its fee. A fixture has consecutive ledgers, a mean between its  *)
(* extremes, the shape of its kind, and a walk stays within its spread.       *)
Replays ==
    /\ model # Nothing => \A i \in DOMAIN fees :
          LET c == model.config
              previous == IF i = 1 THEN c.base ELSE fees[i - 1]
          IN  fees[i] = Clamp(previous + c.trend
                              + Noise(Drawn(c.seed, i), Amplitude(c)), c.min, c.max)
    /\ load # Nothing => \A i \in DOMAIN loads :
          loads[i].load = FollowFee([load EXCEPT !.rng = Drawn(load.config.seed, i - 1)],
                                    loads[i].fee, loads[i].floor, loads[i].ceiling).last
    /\ fixture # Nothing =>
          LET records == fixture.records  a == fixture.a  b == fixture.b IN
          /\ \A i \in DOMAIN records : records[i].ledger = Start + i - 1
          /\ Len(records) * MinFee(records) <= TotalFee(records)
          /\ TotalFee(records) <= Len(records) * PeakFee(records)
          /\ fixture.kind \in {"flat", "spikes", "burst"} => FeesOf(records) \subseteq {a, b}
          /\ fixture.kind = "ramp" /\ Len(records) >= 2 =>
                /\ records[1].fee = a /\ records[Len(records)].fee = b
                /\ \A i \in 2..Len(records) :
                      IF a <= b THEN records[i - 1].fee <= records[i].fee
                      ELSE records[i - 1].fee >= records[i].fee
          /\ fixture.kind = "walk" => \A fee \in FeesOf(records) : (fee - a) * (fee - a) <= b * b
=============================================================================
