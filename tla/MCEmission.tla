----------------------------- MODULE MCEmission -----------------------------
(***************************************************************************)
(* A small fabric for Emission: slice A drives F0, slice B reads A0 and    *)
(* B0, an EBR whose tile is missing reads A0, PIO A gives a pad input O,   *)
(* PIO B a pad output I, IOLOGIC A drives its internal IOLDO pin and PIO A *)
(* has one, and two routing wires w1, w2 join them.  The candidate edges   *)
(* make single-root nets, multi-root nets, pass-through nets (pad to pad), *)
(* nets with only hidden drivers, and nets reaching the EBR, in every      *)
(* combination.  The package has a pin at site A and one at site B; the   *)
(* LPF names each with comp c1, with the other pin's name p2, or not.    *)
(***************************************************************************)
EXTENDS Emission, TLC

CONSTANTS
    saF0, sbA0, sbB0, ebA0, pioO, pioI, iolDO, pioDO, w1, w2,  \* nodes
    mSliceA, mSliceB, mEbr, mPio, mIol, mPioB, mIolB, mW1, mW2, \* mod_names
    F0, A0, B0, O, I, IOLDO,                                    \* pin names
    p1, p2, c1                                   \* package pins, LPF comp

MCNode == {saF0, sbA0, sbB0, ebA0, pioO, pioI, iolDO, pioDO, w1, w2}
MCMod  == {mSliceA, mSliceB, mEbr, mPio, mIol, mPioB, mIolB, mW1, mW2}
MCPin  == {F0, A0, B0, O, I, IOLDO}

MCModName == [n \in MCNode |->
    CASE n = saF0 -> mSliceA [] n \in {sbA0, sbB0} -> mSliceB
      [] n = ebA0 -> mEbr    [] n \in {pioO, pioDO} -> mPio [] n = pioI -> mPioB
      [] n = iolDO -> mIol   [] n = w1 -> mW1 [] n = w2 -> mW2]

MCPinOf == [n \in MCNode |->
    CASE n = saF0 -> F0 [] n \in {sbA0, ebA0} -> A0 [] n = sbB0 -> B0
      [] n = pioO -> O  [] n = pioI -> I [] n \in {iolDO, pioDO} -> IOLDO
      [] n \in {w1, w2} -> NoPin]

\* SLICEA.MODE, SLICEB.K0.INIT (a word), EBR.REGMODE_A, PIOA.BASE_TYPE
MCFields == {[bel |-> mSliceA, name |-> "MODE"],
             [bel |-> mSliceB, name |-> "K0_INIT"],
             [bel |-> mEbr,    name |-> "REGMODE_A"],
             [bel |-> mPio,    name |-> "BASE_TYPE"]}

MCCandidateEdge ==
    {<<saF0, w1>>, <<pioO, w1>>, <<iolDO, w1>>, <<w1, sbA0>>, <<w1, pioI>>,
     <<pioO, w2>>, <<w2, sbB0>>, <<w2, pioI>>, <<w2, ebA0>>, <<saF0, w2>>,
     <<w2, pioDO>>}

MCPinSite == (p1 :> <<mPio, mIol>>) @@ (p2 :> <<mPioB, mIolB>>)
=============================================================================
