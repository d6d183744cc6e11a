----------------------------- MODULE Calibration -----------------------------
(***************************************************************************)
(* The tier of one expert, and the rolling agreement that moves it.        *)
(* (services/calibration.py, its callers in grading.py, consensus.py and   *)
(* ops.py.)  Experts do not share calibration state, so one is enough.     *)
(*                                                                         *)
(* A review, an adjudication or a golden check adds a signal and updates   *)
(* the calibration; the scheduler's tick updates it without a signal.      *)
(* None of them locks the expert's row: a transaction loads it at its      *)
(* beginning, reads the signals when it updates, and writes at its commit, *)
(* so each is three steps.                                                 *)
(***************************************************************************)
EXTENDS Integers, Sequences, FiniteSets

CONSTANTS
  Window,      \* CALIBRATION_WINDOW
  MinSamples,  \* CALIBRATION_MIN_SAMPLES
  PromoteAt,   \* CALIBRATION_PROMOTE_AT, in thousandths
  DemoteAt,    \* CALIBRATION_DEMOTE_AT, in thousandths
  MaxOpen,     \* bound: transactions open at the same time
  MaxSignals   \* bound: signals in all

CalibrationAssumption ==
  /\ Window \in 1 .. 32   \* up to 32 samples, whole thousandths tell all rates apart
  /\ MinSamples \in Nat
  /\ PromoteAt \in 0 .. 1000 /\ DemoteAt \in 0 .. 1000
  /\ MaxOpen \in Nat /\ MaxSignals \in Nat

ASSUME CalibrationAssumption

VARIABLES
  tier,     \* experts.tier, as its TIER_RANK
  rate,     \* experts.calibration_score, in thousandths
  samples,  \* experts.calibration_samples
  signals,  \* reviews and attention_results by created_at; "open" is not committed
  history,  \* tier_changes, in the order of their commits
  updates   \* the open transactions that update the calibration

vars == <<tier, rate, samples, signals, history, updates>>

Tiers   == 0 .. 2
Flags   == {"agree", "disagree"}
NoRate  == -1
Rates   == {NoRate} \cup 0 .. 1000
NoSlot  == 0  \* the tick's, which adds no signal
Columns == [tier : Tiers, rate : Rates, samples : Nat]

\* A transaction has its signal, the columns it has loaded, those it is to write, and
\* once it has read the signals, how many there were.
UpdateTx == [slot : Nat, flag : Flags, loaded : Columns, new : Columns, read : Nat \cup {-1}]

Change == [from : Tiers, to : Tiers, read : Nat]

TypeOK ==
  /\ tier \in Tiers /\ rate \in Rates /\ samples \in Nat
  /\ signals \in Seq({"open"} \cup Flags)
  /\ history \in Seq(Change)
  /\ updates \subseteq UpdateTx

Init ==
  /\ tier \in Tiers
  /\ rate = NoRate /\ samples = 0
  /\ signals = <<>> /\ history = <<>> /\ updates = {}

-----------------------------------------------------------------------------
(* The score.                                                              *)

\* The signals that a query sees, as places in a sequence s of signals.
Committed(s) == {i \in DOMAIN s : s[i] # "open"}

\* The newest signals, up to the window.
Recent(s) == {i \in Committed(s) : Cardinality({j \in Committed(s) : j > i}) < Window}

Samples(s) == Cardinality(Recent(s))
Agreed(s)  == Cardinality({i \in Recent(s) : s[i] = "agree"})

Rate(s) == IF Samples(s) = 0 THEN NoRate ELSE (Agreed(s) * 1000) \div Samples(s)

\* Faulty variant of Step: a rate moves a tier all the way.
StepToEnd(t, delta) == IF delta > 0 THEN 2 ELSE 0

\* One step up or down, inside the ladder.
Step(t, delta) == IF t + delta \in Tiers THEN t + delta ELSE t

Enough(s)   == Samples(s) # 0 /\ Samples(s) >= MinSamples
Promotes(s) == Enough(s) /\ Agreed(s) * 1000 >= PromoteAt * Samples(s)
Demotes(s)  == Enough(s) /\ Agreed(s) * 1000 <= DemoteAt * Samples(s)

\* Faulty variant of Target: everything below the promote edge demotes.
TargetNoBand(t, s) ==
  IF Promotes(s) THEN Step(t, 1) ELSE IF Enough(s) THEN Step(t, -1) ELSE t

\* The tier that the signals s move an expert of tier t to.
Target(t, s) ==
  IF Promotes(s) THEN Step(t, 1) ELSE IF Demotes(s) THEN Step(t, -1) ELSE t

-----------------------------------------------------------------------------
(* Transactions.                                                           *)

Loaded == [tier |-> tier, rate |-> rate, samples |-> samples]

Begin(slot, flag) ==
  updates' = updates \cup
    {[slot |-> slot, flag |-> flag, loaded |-> Loaded, new |-> Loaded, read |-> -1]}

\* A review, an adjudication or a golden check of one of the expert's grades begins.  Its
\* signal is dated by the beginning of the transaction.
BeginSignal(flag) ==
  /\ Cardinality(updates) < MaxOpen
  /\ Len(signals) < MaxSignals
  /\ signals' = Append(signals, "open")
  /\ Begin(Len(signals) + 1, flag)
  /\ UNCHANGED <<tier, rate, samples, history>>

\* The tick has loaded the experts.
BeginTick ==
  /\ Cardinality(updates) < MaxOpen
  /\ \A x \in updates : x.slot # NoSlot
  /\ Begin(NoSlot, "agree")
  /\ UNCHANGED <<tier, rate, samples, signals, history>>

WithSignal(x) == IF x.slot = NoSlot THEN signals ELSE [signals EXCEPT ![x.slot] = x.flag]

\* What the query of the signals sees: the committed ones, and the transaction's own.
Visible(x) == WithSignal(x)

\* update.
Update(x) ==
  LET seen == Visible(x)
  IN
  /\ x.read = -1
  /\ updates' = (updates \ {x}) \cup
       {[x EXCEPT !.read = Cardinality(Committed(seen)),
                  !.new = [tier |-> Target(x.loaded.tier, seen), rate |-> Rate(seen),
                           samples |-> Samples(seen)]]}
  /\ UNCHANGED <<tier, rate, samples, signals, history>>

\* The session writes a column only when it differs from what it loaded.
Written(column, loaded, new) == IF new = loaded THEN column ELSE new

\* Faulty variant of StoredRate: the tick leaves the score alone.
StoredRateOfSignals(x) ==
  IF x.slot = NoSlot THEN rate ELSE Written(rate, x.loaded.rate, x.new.rate)

\* What a commit leaves in calibration_score.
StoredRate(x) == Written(rate, x.loaded.rate, x.new.rate)

Commit(x) ==
  /\ x.read # -1
  /\ updates' = updates \ {x}
  /\ signals' = WithSignal(x)
  /\ rate' = StoredRate(x)
  /\ samples' = Written(samples, x.loaded.samples, x.new.samples)
  /\ tier' = Written(tier, x.loaded.tier, x.new.tier)
  /\ history' = IF x.new.tier = x.loaded.tier THEN history
                ELSE Append(history, [from |-> x.loaded.tier, to |-> x.new.tier,
                                      read |-> x.read])

Rollback(x) ==
  /\ updates' = updates \ {x}
  /\ UNCHANGED <<tier, rate, samples, signals, history>>

Next ==
  \/ \E flag \in Flags : BeginSignal(flag)
  \/ BeginTick
  \/ \E x \in updates : Update(x) \/ Commit(x) \/ Rollback(x)

Spec == Init /\ [][Next]_vars

\* The scheduler runs the tick again and again; transactions do not hang, and a tick is
\* not rolled back every time.
Fairness ==
  /\ WF_vars(BeginTick)
  /\ WF_vars(\E x \in updates : Update(x)) /\ WF_vars(\E x \in updates : Commit(x))
  /\ SF_vars(\E x \in updates : x.slot = NoSlot /\ Update(x))
  /\ SF_vars(\E x \in updates : x.slot = NoSlot /\ Commit(x))

FairSpec == Spec /\ Fairness

-----------------------------------------------------------------------------
(* Properties.                                                             *)

\* There is one tier_changes row per promotion or demotion: read in order, the rows lead
\* step by step from one tier to the next, and end in the tier that the expert has (update).
HistoryExplains ==
  /\ \A i \in DOMAIN history : history[i].to \in {history[i].from - 1, history[i].from + 1}
  /\ \A i \in 2 .. Len(history) : history[i].from = history[i - 1].to
  /\ history # <<>> => history[Len(history)].to = tier

\* Hysteresis: it takes more than one new signal to take a move back, so one rejection
\* does not demote the expert whom the approval before it has promoted (update).
NoFlapping ==
  \A i \in 2 .. Len(history) :
    LET was == history[i - 1]
        is  == history[i]
    IN (was.to > was.from) # (is.to > is.from) => is.read >= was.read + 2

\* A score never goes stale for good: with no new signals, ticks make it the score of
\* the stored signals, also when overlapping reviews have left an older one (tick).
ScoreFresh ==
  <>[](rate = Rate(signals) /\ samples = Samples(signals))
==============================================================================
