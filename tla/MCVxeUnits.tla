----------------------------- MODULE MCVxeUnits -----------------------------
(***************************************************************************)
(* Two models, each on its own: both FIFOs of hw/fifo, given the same      *)
(* inputs and resets, and the product of a vector unit in the scenarios of *)
(* MCVxeProduct.  The first state says which of them runs; the variables   *)
(* of the other rest.                                                      *)
(***************************************************************************)
EXTENDS VxeFifo, VxeFifo2, MCVxeProduct

VARIABLE part

-----------------------------------------------------------------------------

\* The inputs sampled before the first edge are of no interest.
MCInputs == CHOOSE i \in Inputs : ~i.rd /\ ~i.wr

fifoVars == <<vars, vars2>>

FifosInit == /\ Init /\ in = MCInputs
             /\ Init2 /\ in2 = MCInputs

FifosClock == \E i \in Inputs : Clock(i) /\ Clock2(i)

FifosReset == /\ Reset /\ Reset2
              /\ in' = MCInputs /\ in2' = MCInputs

-----------------------------------------------------------------------------
\* One of the two at a time.

unitVars == <<part, fifoVars, scVars>>

MCInit == /\ part \in {"fifos", "product"}
          /\ FifosInit /\ ScInit
          /\ part = "fifos" => scenario = "any"
          /\ part = "product" => <<fifo_buf, fifo_buf2>> = CHOOSE f \in [Slots -> Data] \X [Slots -> Data] : TRUE

FifosNext == /\ part = "fifos" /\ UNCHANGED <<part, scVars>>
             /\ FifosClock \/ FifosReset
UnitNext == /\ part = "product" /\ UNCHANGED <<part, fifoVars>>
            /\ ScNext

MCNext == FifosNext \/ UnitNext

UnitTakes == /\ part = "product" /\ UNCHANGED <<part, fifoVars>>
             /\ ScTakes
UnitAnswers == /\ part = "product" /\ UNCHANGED <<part, fifoVars>>
               /\ ScAnswers

MCSpec == /\ MCInit /\ [][MCNext]_unitVars
          /\ WF_unitVars(UnitTakes) /\ WF_unitVars(UnitAnswers)
=============================================================================
