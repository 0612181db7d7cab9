---------------------------- MODULE MCEdgeFilter ----------------------------
(* One location with slice A and IOLOGIC units A-D: the F5A/FXA -> F0/F1   *)
(* muxes, the RXDATA pins that are hardwired in pairs (4A/0B, 5A/1B,       *)
(* 4C/0D), an unconflicted RXDATA0A and the TXDATA pair 4A/0B fed by one   *)
(* wire.                                                                   *)
EXTENDS EdgeFilter

MCArcs ==
    { <<<<"F5", "A">>, <<"F", "0">>>>, <<<<"FX", "A">>, <<"F", "1">>>>,
      <<<<"RX", "A", 4>>, <<"W", 1>>>>, <<<<"RX", "B", 0>>, <<"W", 1>>>>,
      <<<<"RX", "A", 5>>, <<"W", 2>>>>, <<<<"RX", "B", 1>>, <<"W", 2>>>>,
      <<<<"RX", "A", 0>>, <<"W", 3>>>>,
      <<<<"RX", "C", 4>>, <<"W", 4>>>>, <<<<"RX", "D", 0>>, <<"W", 4>>>>,
      <<<<"W", 3>>, <<"TX", "A", 4>>>>, <<<<"W", 3>>, <<"TX", "B", 0>>>> }
=============================================================================
