-------------------------- MODULE EpochWordProofs --------------------------
(***************************************************************************)
(* Laws of the epoch word, for every number of epochs that fits in it:     *)
(* what set_phase and get_phase do to each other and to the epoch number.  *)
(***************************************************************************)
EXTENDS EpochWord, TLAPS

\* Masking a word whose high part is one of the three phases yields its low part.
LEMMA ModSmall ==
  ASSUME NEW a \in Nat, a < EpochLimit, NEW k \in {0, 1, 2}
  PROVE  (a + k * EpochLimit) % EpochLimit = a
  BY EpochLimitAssumption, SMTT(30)

\* Epoch(epoch) & epoch_mask is an epoch number.
LEMMA EpochRange ==
  ASSUME NEW w \in Nat
  PROVE  Epoch(w) \in 0 .. (EpochLimit - 1)
  BY EpochLimitAssumption DEF Epoch

(***************************************************************************)
(* set_phase stores a word of the three phases, leaves the epoch number    *)
(* alone, and get_phase reads back the phase that was stored.              *)
(***************************************************************************)
LEMMA SetPhaseLaws ==
  ASSUME NEW w \in Nat, NEW ph \in Phase
  PROVE  /\ set_phase(w, ph) \in Word
         /\ Epoch(set_phase(w, ph)) = Epoch(w)
         /\ get_phase(set_phase(w, ph)) = ph
<1> DEFINE s == set_phase(w, ph)
           a == Epoch(w)
<1>1. a \in Nat /\ a < EpochLimit
  BY EpochRange, EpochLimitAssumption
<1>2. PICK k \in {0, 1, 2} : PhaseMask(ph) = k * EpochLimit
  BY EpochLimitAssumption DEF PhaseMask, Phase
<1>3. s = a + k * EpochLimit
  BY <1>2 DEF set_phase
<1>4. Epoch(s) = a
  <2> HIDE DEF a, s
  <2> QED BY <1>1, <1>3, ModSmall DEF Epoch
<1>5. s - Epoch(s) = PhaseMask(ph)
  <2> HIDE DEF a, s
  <2> QED BY <1>1, <1>2, <1>3, <1>4, EpochLimitAssumption
<1>6. get_phase(s) = ph
  BY <1>5, EpochLimitAssumption DEF get_phase, PhaseMask, Phase, MEE, LP, NHU
<1>7. s \in Word
  <2> HIDE DEF a, s
  <2> QED BY <1>1, <1>2, <1>3, EpochLimitAssumption DEF Word
<1> QED BY <1>4, <1>6, <1>7

(***************************************************************************)
(* A bare epoch number is its own epoch and decodes to NVM_Heap_Update:    *)
(* this is the phase escort_init always finds, having masked the word.     *)
(***************************************************************************)
LEMMA EpochOfSmall ==
  ASSUME NEW n \in Nat, n < EpochLimit
  PROVE  Epoch(n) = n /\ get_phase(n) = NHU
<1>1. (n + 0 * EpochLimit) % EpochLimit = n
  BY ModSmall
<1>2. Epoch(n) = n
  BY <1>1, EpochLimitAssumption DEF Epoch
<1> QED BY <1>2, EpochLimitAssumption DEF get_phase, PhaseMask, MEE, LP, NHU

\* Every word is an epoch number and a multiple of the phase mask.
LEMMA WordSplit ==
  ASSUME NEW w \in Word
  PROVE  \E k \in {0, 1, 2} : w = Epoch(w) + k * EpochLimit
<1>1. CASE w < EpochLimit
  <2>1. Epoch(w) = w
    BY <1>1, EpochOfSmall DEF Word
  <2> QED BY <2>1, EpochLimitAssumption DEF Word
<1>2. CASE EpochLimit <= w /\ w < 2 * EpochLimit
  <2> DEFINE a == w - EpochLimit
  <2>1. a \in Nat /\ a < EpochLimit /\ w = a + 1 * EpochLimit
    BY <1>2, EpochLimitAssumption DEF Word
  <2> HIDE DEF a
  <2>2. Epoch(w) = a
    BY <2>1, ModSmall DEF Epoch
  <2> QED BY <2>1, <2>2
<1>3. CASE 2 * EpochLimit <= w
  <2> DEFINE a == w - 2 * EpochLimit
  <2>1. a \in Nat /\ a < EpochLimit /\ w = a + 2 * EpochLimit
    BY <1>3, EpochLimitAssumption DEF Word
  <2> HIDE DEF a
  <2>2. Epoch(w) = a
    BY <2>1, ModSmall DEF Epoch
  <2> QED BY <2>1, <2>2
<1> QED BY <1>1, <1>2, <1>3, EpochLimitAssumption DEF Word

\* epoch+1 in checkpointing() is the next epoch, whatever the phase bits hold.
LEMMA SuccEpoch ==
  ASSUME NEW w \in Word, Epoch(w) + 1 < EpochLimit
  PROVE  Epoch(w + 1) = Epoch(w) + 1
<1> DEFINE a == Epoch(w)
<1>1. a \in Nat /\ w \in Nat
  BY EpochRange, EpochLimitAssumption DEF Word
<1>2. PICK k \in {0, 1, 2} : w = a + k * EpochLimit
  BY WordSplit
<1>3. w + 1 = (a + 1) + k * EpochLimit
  <2> HIDE DEF a
  <2> QED BY <1>1, <1>2, EpochLimitAssumption
<1>4. ((a + 1) + k * EpochLimit) % EpochLimit = a + 1
  BY <1>1, ModSmall
<1> QED BY <1>3, <1>4 DEF Epoch

\* epoch & 0x1 in mark() is the parity of the epoch number: the phase bits do not
\* disturb the choice between the two bitmaps.
LEMMA WordParity ==
  ASSUME NEW w \in Word
  PROVE  Parity(w) = Parity(Epoch(w))
  BY EpochLimitAssumption, SMTT(30) DEF Epoch, Parity, Word
=============================================================================
