------------------------------- MODULE Prbs --------------------------------
(***************************************************************************)
(* The PRBS link test of AD9361RFIC.add_prbs, src/gateware/ad9361/core.py: *)
(* the TX AD9361PRBSGenerator, wrapped in ResetInserter with reset =       *)
(* ~prbs_tx.enable and advanced by phy.sink.ready, and one                 *)
(* AD9361PRBSChecker per RX lane (ia, ib), advanced by phy.source.valid.   *)
(* A checker holds a reference generator that restarts from the seed on    *)
(* every mismatch and a WaitTimer that reports sync after SyncCycles       *)
(* cycles without error; prbs_rx.synced is the AND of the lanes.           *)
(*                                                                         *)
(* A step is one rfic clock cycle, or a sys-domain write of prbs_tx.  The *)
(* radio path from phy.sink back to phy.source (the AD9361 in loopback)    *)
(* is not in this repository: it is modelled as a link that delivers the   *)
(* sample TX sends in the same cycle, with bounded faults (a lost sample,  *)
(* a duplicated sample, a bit flipped on one lane).  Its latency is left   *)
(* out: the checkers only see the order of the samples.  While PRBS TX is  *)
(* disabled the TX path carries DMA words (DmaWords).                      *)
(***************************************************************************)
EXTENDS Integers, FiniteSets

CONSTANTS
  Seed,        \* seed of both generators (0x0a54)
  StateBits,   \* width of the generator register (16)
  SampleBits,  \* width of a sample lane, phy_layout(bps=12)
  Taps,        \* register bits XORed into the new bit
  SyncCycles,  \* the WaitTimer period (1024 in the code)
  Lanes,       \* the checked lanes, phy.source.ia and phy.source.ib
  DmaWords,    \* words on the TX path while PRBS TX is disabled
  MaxFaults,   \* bound: lost, duplicated or corrupted samples
  MaxWrites,   \* bound: software writes of prbs_tx
  MaxSkew      \* bound: the skew history counts up to MaxSkew + 1

ASSUME Seed \in 1 .. 2^StateBits - 1 /\ SampleBits <= StateBits
ASSUME Taps \subseteq 0 .. StateBits - 1 /\ SyncCycles >= 1

VARIABLES
  prbs_tx_enable,  \* prbs_tx.fields.enable
  tx,              \* data register of the TX generator
  ref,             \* data register of each lane's reference generator
  count,           \* count of each lane's WaitTimer
  faults,          \* link faults so far
  writes,          \* prbs_tx writes so far
  skew             \* history: consecutive samples each lane matched with
                   \* its reference out of phase with the generator

vars == << prbs_tx_enable, tx, ref, count, faults, writes, skew >>

Word == 0 .. 2^StateBits - 1

NoSource == -1

Bit(d, i) == (d \div 2^i) % 2

(* AD9361PRBSGenerator: data shifts up one bit, and bit 0 becomes the XOR  *)
(* of the tap bits.                                                        *)
PrbsStep(d) ==
  ((2 * d) % 2^StateBits) + (Cardinality({t \in Taps : Bit(d, t) = 1}) % 2)

(* Mutation-test variant of Observed: an 8-bit lane.                       *)
ObservedNarrow(d) == d % 2^(SampleBits - 4)

(* A 16-bit word driven onto a 12-bit lane keeps its low bits.            *)
Observed(d) == d % 2^SampleBits

Flip(w, b) == IF Bit(w, b) = 1 THEN w - 2^b ELSE w + 2^b

Lane(w) == [l \in Lanes |-> w]

Synced == \A l \in Lanes : count[l] = 0

(* The word TX drives onto both lanes: the generator output when PRBS TX  *)
(* is enabled, DMA data otherwise.                                         *)
TxWords == IF prbs_tx_enable THEN {Observed(tx)} ELSE DmaWords

(* Mutation-test variant of Generator: ce left unconnected, so the        *)
(* generator runs at its reset value ce = 1 in every cycle.                *)
GeneratorFreeRunning(ready) ==
  tx' = IF ~prbs_tx_enable THEN Seed ELSE PrbsStep(tx)

(* The generator of PRBS TX: reset to the seed while disabled, advanced    *)
(* when phy.sink takes a sample.                                           *)
Generator(ready) ==
  tx' = CASE ~prbs_tx_enable -> Seed
          [] ready -> PrbsStep(tx)
          [] OTHER -> tx

(* Mutation-test variant of SyncWait: the timer counts only cycles that    *)
(* bring a matching sample.                                                *)
SyncWaitOnSample(valid, error) == valid /\ ~error

(* sync_timer.wait is ~error: a cycle without a sample has no error.       *)
SyncWait(valid, error) == ~error

(* AD9361PRBSChecker on every lane: error when a valid sample differs from *)
(* the reference's low bits; the reference restarts (ResetInserter) on     *)
(* error and advances on every other valid sample; the WaitTimer counts    *)
(* down while there is no error, including cycles with no sample, and      *)
(* reloads on error.                                                       *)
CheckLanes(valid, sample, from, restart) ==
  LET error(l) == valid /\ sample[l] # Observed(ref[l])
  IN  /\ ref' = [l \in Lanes |-> CASE error(l) -> restart[l]
                                  [] valid -> PrbsStep(ref[l])
                                  [] OTHER -> ref[l]]
      /\ count' = [l \in Lanes |->
                     CASE ~SyncWait(valid, error(l)) -> SyncCycles
                       [] count[l] > 0 -> count[l] - 1
                       [] OTHER -> 0]
      /\ skew' = [l \in Lanes |->
                    CASE ~valid \/ from[l] = NoSource -> skew[l]
                      [] error(l) \/ ref[l] = from[l] -> 0
                      [] OTHER -> IF skew[l] > MaxSkew THEN skew[l] ELSE skew[l] + 1]

(* The reference generator restarts from the seed.                         *)
Checker(valid, sample, from) == CheckLanes(valid, sample, from, Lane(Seed))

(* One rfic cycle: phy.sink.ready advances the generator, phy.source.valid *)
(* presents sample (and its TX source state, for the history) to the      *)
(* checkers.                                                               *)
Cycle(ready, valid, sample, from) ==
  /\ Generator(ready)
  /\ Checker(valid, sample, from)
  /\ UNCHANGED << prbs_tx_enable, writes >>

SourceOf == IF prbs_tx_enable THEN tx ELSE NoSource

(* The link delivers the sample TX sends.                                 *)
Loopback ==
  \E w \in TxWords :
    /\ Cycle(TRUE, TRUE, Lane(w), Lane(SourceOf))
    /\ UNCHANGED faults

(* A cycle with no sample either way.                                      *)
Idle ==
  /\ Cycle(FALSE, FALSE, Lane(0), Lane(NoSource))
  /\ UNCHANGED faults

Fault ==
  /\ faults < MaxFaults
  /\ faults' = faults + 1

(* TX sends a sample the link loses.                                       *)
LostSample ==
  /\ Fault
  /\ Cycle(TRUE, FALSE, Lane(0), Lane(NoSource))

(* The link presents a sample TX did not send anew.                       *)
DuplicatedSample ==
  /\ Fault
  /\ \E w \in TxWords : Cycle(FALSE, TRUE, Lane(w), Lane(SourceOf))

(* One bit of one lane's sample is flipped.                                *)
CorruptedSample ==
  /\ Fault
  /\ \E w \in TxWords, bad \in Lanes, b \in 0 .. SampleBits - 1 :
       Cycle(TRUE, TRUE,
             [l \in Lanes |-> IF l = bad THEN Flip(w, b) ELSE w],
             [l \in Lanes |-> IF l = bad THEN NoSource ELSE SourceOf])

(* Software writes prbs_tx.enable (add_prbs' CSRStorage).                  *)
WritePrbsTx ==
  /\ writes < MaxWrites
  /\ prbs_tx_enable' = ~prbs_tx_enable
  /\ writes' = writes + 1
  /\ UNCHANGED << tx, ref, count, faults, skew >>

Init ==
  /\ prbs_tx_enable = FALSE
  /\ tx = Seed
  /\ ref = Lane(Seed)
  /\ count = Lane(SyncCycles)
  /\ faults = 0
  /\ writes = 0
  /\ skew = Lane(0)

Next ==
  \/ Loopback
  \/ Idle
  \/ LostSample
  \/ DuplicatedSample
  \/ CorruptedSample
  \/ WritePrbsTx

Spec == Init /\ [][Next]_vars

(* The AD9361 in loopback exchanges a sample in every cycle the radio      *)
(* runs: the link keeps delivering.                                        *)
FairSpec == Spec /\ WF_vars(Loopback)

-----------------------------------------------------------------------------

(* A lost, duplicated or restarted phase is caught within MaxSkew samples: *)
(* no lane's checker matches more than MaxSkew consecutive generator       *)
(* samples with a reference out of phase with the generator state that    *)
(* sent them.  The checker compares only the 12 low bits of a 16-bit      *)
(* register (error = i != prbs.o[:12]), so a reference can match a wrong   *)
(* phase for a while; the WaitTimer's 1024 error-free cycles must cover    *)
(* that, or prbs_rx.synced could report a link that has slipped.           *)
PhaseRecovered == \A l \in Lanes : skew[l] <= MaxSkew

(* Once PRBS TX stays enabled, prbs_rx.synced eventually holds for good,  *)
(* whatever link faults came before: a checker that lost the stream       *)
(* restarts its reference from the seed on every error, and regains the   *)
(* stream only when the generator passes through the seed state again,    *)
(* which requires the seed to lie on the generator's cycle (the taps of    *)
(* AD9361PRBSGenerator and its ResetInserter reset value).                 *)
PrbsEventuallySynced == <>[]prbs_tx_enable => <>[]Synced

=============================================================================
