----------------------------- MODULE MCAdapters -----------------------------
(***************************************************************************)
(* A finite instance of Blockhash and of Gas for TLC.  A row belongs to    *)
(* one chain and its family has one adapter (registry.ts, chainFor): the   *)
(* two share nothing, and a behaviour is of one of them.                   *)
(***************************************************************************)
EXTENDS Blockhash, Gas

VARIABLE family

MCBands == {[min |-> 1, max |-> 5, cap |-> 15], [min |-> 6, max |-> 8, cap |-> 24]}

\* The adapter that is not looked at starts in one of its states.
SolanaAlone ==
  /\ price = CHOOSE p \in Prices : TRUE
  /\ band = CHOOSE b \in Bands : TRUE
  /\ coin["treasury"] = CHOOSE h \in Held : TRUE
  /\ coded = {}

EvmAlone == shape = "payment" /\ opening = CHOOSE o \in Openings : TRUE

AdaptersInit ==
  /\ Init /\ GasInit
  /\ \/ family = "solana" /\ SolanaAlone
     \/ family = "evm" /\ EvmAlone

AdaptersNext ==
  \/ family = "solana" /\ Next /\ UNCHANGED <<gasVars, family>>
  \/ family = "evm" /\ GasNext /\ UNCHANGED <<vars, family>>

AdaptersSpec == AdaptersInit /\ [][AdaptersNext]_<<vars, gasVars, family>>
=============================================================================
