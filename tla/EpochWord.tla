----------------------------- MODULE EpochWord -----------------------------
(***************************************************************************)
(* The global epoch word of src/src/globalEscort.cpp: an epoch_t packs an  *)
(* epoch number in its low bits and the phase of the current checkpoint in *)
(* its two high bits.  The code masks the 62 low bits of a 64-bit word;    *)
(* here the number of epoch numbers, 2^62 in the code, is the constant     *)
(* EpochLimit, and masking is a remainder.                                 *)
(***************************************************************************)
EXTENDS Integers

CONSTANT EpochLimit   \* epoch_mask + 1, even since it is a power of two

ASSUME EpochLimitAssumption == /\ EpochLimit \in Nat
                               /\ EpochLimit >= 4
                               /\ EpochLimit % 2 = 0

(***************************************************************************)
(* enum class epoch_phase, without Default: no word that set_phase returns *)
(* decodes to it.                                                          *)
(***************************************************************************)
MEE == "Multi_Epoch_Existence"
LP  == "Log_Persistence"
NHU == "NVM_Heap_Update"
Phase == {MEE, LP, NHU}

\* mask_multiple_epoch_existence, mask_log_persistence, mask_nvm_heap_update
PhaseMask(ph) == IF ph = MEE THEN 2 * EpochLimit
                 ELSE IF ph = LP THEN EpochLimit
                 ELSE 0

\* Epoch(epoch): epoch & epoch_mask
Epoch(w) == w % EpochLimit

\* set_phase(epoch, phase): the old phase is masked out, the new one ORed in
set_phase(w, ph) == Epoch(w) + PhaseMask(ph)

\* get_phase(epoch): the phase whose mask is what Epoch removes from the word
get_phase(w) == IF w - Epoch(w) = PhaseMask(MEE) THEN MEE
                ELSE IF w - Epoch(w) = PhaseMask(LP) THEN LP
                ELSE NHU

\* static_cast<bool>(epoch & 0x1): which of the two bitmaps and lists to use
Parity(w) == w % 2

\* The words the code stores: an epoch number with one of the three phases
Word == 0 .. (3 * EpochLimit - 1)
=============================================================================
